---------------------------- MODULE MC_KmsStore ----------------------------
(* Model-checking instances of KmsStore.  The wrapping runs use one caller *)
(* (ownership and grants play no part in unwrap integrity) and three ids   *)
(* and materials: a key, a wrapping key or certificate, and a third object *)
(* to replace a wrapping key's id with other material.  The authorization  *)
(* runs use two callers on two ids and two materials.                      *)
EXTENDS KmsStore, TLC

CONSTANTS i1, i2, i3, alice, bob, m1, m2, m3

MC_Ids       == {i1, i2, i3}
MC_TwoIds    == {i1, i2}
MC_Users     == {alice, bob}
MC_OneUser   == {alice}
MC_Materials == {m1, m2, m3}
MC_TwoMats   == {m1, m2}

\* Ids and materials are interchangeable; users are not (the default
\* username is one of them).
MC_Symmetry == Permutations(MC_Ids) \cup Permutations(MC_Materials)
=============================================================================

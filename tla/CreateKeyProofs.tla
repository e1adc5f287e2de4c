---------------------------- MODULE CreateKeyProofs ----------------------------
(***************************************************************************)
(* Proof, for every build (fips or not) and every set of key lengths given *)
(* on the command line, that the SHA3 and SHAKE keys `sym keys create`     *)
(* stores have the length of their digest size.  The invariant is          *)
(* inductive as it stands: what makes it hold is one fact about the        *)
(* algorithm mapping of run, lines 78-95, stated as AlgorithmOfDigest.     *)
(***************************************************************************)
EXTENDS CreateKey, TLAPS

USE CreateKeyAssumption

\* A SHA3 or SHAKE algorithm that run maps a length to is the one whose
\* digest size is that length.
LEMMA AlgorithmOfDigest ==
    ASSUME NEW alg \in SymmetricAlgorithm, NEW nbits,
           AlgorithmOf(alg, nbits) # Bail,
           AlgorithmOf(alg, nbits)[1] \in {"SHA3", "SHAKE"}
    PROVE  nbits \in ValidBits(AlgorithmOf(alg, nbits))
<1>1. CASE alg = "Aes"
  BY <1>1 DEF AlgorithmOf
<1>2. CASE alg = "Chacha20"
  BY <1>2 DEF AlgorithmOf
<1>3. CASE alg = "Sha3"
  <2>1. nbits \in {224, 256, 384, 512}
    BY <1>3 DEF AlgorithmOf, Sha3Algorithm, Bail
  <2>2. AlgorithmOf(alg, nbits) = <<"SHA3", nbits>>
    BY <1>3, <2>1 DEF AlgorithmOf, Sha3Algorithm
  <2> QED BY <2>2 DEF ValidBits
<1>4. CASE alg = "Shake"
  <2>1. nbits \in {128, 256}
    BY <1>4 DEF AlgorithmOf, ShakeAlgorithm, Bail
  <2>2. AlgorithmOf(alg, nbits) = <<"SHAKE", nbits>>
    BY <1>4, <2>1 DEF AlgorithmOf, ShakeAlgorithm
  <2> QED BY <2>2 DEF ValidBits
<1> QED BY <1>1, <1>2, <1>3, <1>4 DEF SymmetricAlgorithm

\* Every run stores at most one key, with the length and the algorithm it
\* computed, and only when the algorithm is not Bail.
LEMMA RunStores ==
    ASSUME NEW alg \in SymmetricAlgorithm, NEW bytes, NEW bits,
           run(alg, bytes, bits)
    PROVE  \/ keys' = keys
           \/ /\ AlgorithmOf(alg, NumberOfBits(bytes, bits)) # Bail
              /\ \E via \in {"import", "create"} :
                   keys' = keys \cup {[alg |-> AlgorithmOf(alg, NumberOfBits(bytes, bits)),
                                       bits |-> NumberOfBits(bytes, bits),
                                       via |-> via]}
BY DEF run

LEMMA NextDigest == DigestLengthValid /\ [Next]_vars => DigestLengthValid'
<1> SUFFICES ASSUME DigestLengthValid, [Next]_vars PROVE DigestLengthValid'
  OBVIOUS
<1>1. CASE Next
  <2>1. PICK alg \in SymmetricAlgorithm,
             bytes \in ByteLengths \cup {NoInput, BadBase64},
             bits \in BitLengths \cup {NoInput} : run(alg, bytes, bits)
    BY <1>1 DEF Next
  <2> DEFINE nbits == NumberOfBits(bytes, bits)
             kalg == AlgorithmOf(alg, nbits)
  <2>2. CASE keys' = keys
    BY <2>2 DEF DigestLengthValid
  <2>3. CASE /\ kalg # Bail
             /\ \E via \in {"import", "create"} :
                  keys' = keys \cup {[alg |-> kalg, bits |-> nbits, via |-> via]}
    <3>1. kalg[1] \in {"SHA3", "SHAKE"} => nbits \in ValidBits(kalg)
      BY <2>3, AlgorithmOfDigest
    <3> QED BY <2>3, <3>1 DEF DigestLengthValid
  <2> QED BY <2>1, <2>2, <2>3, RunStores
<1>2. CASE UNCHANGED vars
  BY <1>2 DEF vars, DigestLengthValid
<1> QED BY <1>1, <1>2

\* For every build and every length given: a SHA3 or SHAKE key that run
\* stores, imported from --bytes-b64 or created from --number-of-bits, has
\* the length of its digest size.
THEOREM DigestCorrect == Spec => []DigestLengthValid
<1>1. Init => DigestLengthValid
  BY DEF Init, DigestLengthValid
<1> QED BY <1>1, NextDigest, PTL DEF Spec

=============================================================================

--------------------------- MODULE KmsStoreProofs ---------------------------
(***************************************************************************)
(* Proofs about the object store for every value of the constants:        *)
(* type correctness of the store, the exported blocks and the caller.    *)
(***************************************************************************)
EXTENDS KmsStore, TLAPS

USE ConstantsAssumption

\* The resolved identity is always a known user.
LEMMA IdentityType == \A u \in Users : Identity(u) \in Users
BY DEF Identity

\* A record built by an operation is a well-typed stored object.
LEMMA RecordType ==
    ASSUME NEW kind \in Kinds, NEW who \in Users,
           NEW mat \in Materials \cup {Garbage}, NEW wrap \in Wrappings
    PROVE  Record(kind, who, mat, wrap) \in Objects
BY DEF Record, Objects

LEMMA InitTypeOK == Init => TypeOK
BY DEF Init, TypeOK

-----------------------------------------------------------------------------

LEMMA CreateTypeOK ==
    ASSUME TypeOK, NEW u \in Users, NEW id \in Ids, NEW m \in Materials,
           Create(u, id, m)
    PROVE  TypeOK'
BY IdentityType, RecordType DEF Create, Done, TypeOK, Wrappings, Kinds

\* Unwrapping a well-typed blob yields a well-typed blob.
LEMMA UnwrapType ==
    ASSUME NEW b \in Blobs, NEW k
    PROVE  Unwrap(b, k) \in Blobs
BY DEF Unwrap, Blobs, Wrappings

LEMMA ImportKeyTypeOK ==
    ASSUME TypeOK, NEW u \in Users, NEW id \in Ids,
           NEW b \in Importable, NEW replace \in BOOLEAN, NEW unwrap \in BOOLEAN,
           ImportKey(u, id, b, replace, unwrap)
    PROVE  TypeOK'
<1> DEFINE who == Identity(u)
<1> DEFINE stored == IF unwrap /\ b.wrap # Plain THEN UnwrapFor(b) ELSE b
<1>1. b \in Blobs
  <2>1. CASE b \in blobs
    BY <2>1 DEF TypeOK
  <2>2. CASE b \notin blobs
    <3>1. b \in [kind : {"SymmetricKey", "PrivateKey"},
                 mat : Materials \ InUse, wrap : {Plain}]
      BY <2>2 DEF Importable
    <3>2. b = [kind |-> b.kind, mat |-> b.mat, wrap |-> b.wrap]
      BY <3>1
    <3> QED BY <3>1, <3>2 DEF Blobs, Wrappings, Kinds
  <2> QED BY <2>1, <2>2
<1>2. stored \in Blobs
  <2>1. CASE unwrap /\ b.wrap # Plain
    <3>1. stored = Unwrap(b, store[UnwrapperOf(b.wrap.key)].mat)
      BY <2>1 DEF UnwrapFor
    <3> QED BY <1>1, <3>1, UnwrapType
  <2>2. CASE ~(unwrap /\ b.wrap # Plain)
    BY <1>1, <2>2
  <2> QED BY <2>1, <2>2
<1>3. b.kind \in Kinds
  BY <1>1 DEF Blobs
<1>4. Record(b.kind, who, stored.mat, stored.wrap) \in Objects
  BY <1>2, <1>3, IdentityType, RecordType DEF Blobs
<1>5. store' = [store EXCEPT ![id] = Record(b.kind, who, stored.mat, stored.wrap)]
  BY DEF ImportKey
<1> QED
  BY <1>4, <1>5, IdentityType DEF ImportKey, Done, TypeOK

LEMMA ImportCertificateTypeOK ==
    ASSUME TypeOK, NEW u \in Users, NEW id \in Ids, NEW k \in Ids \cup {NoId},
           NEW c \in CertImportable(k), NEW replace \in BOOLEAN,
           ImportCertificate(u, id, c, k, replace)
    PROVE  TypeOK'
<1> DEFINE who == Identity(u)
<1> DEFINE cert == [Record("Certificate", who, c.mat, Plain) EXCEPT !.link = k]
<1>1. c.mat \in Materials \cup {Garbage}
  <2>1. CASE Exists(k)
    BY <2>1 DEF CertImportable, TypeOK, Blobs, Objects, Exists
  <2>2. CASE ~Exists(k)
    BY <2>2 DEF CertImportable, TypeOK, Blobs
  <2> QED BY <2>1, <2>2
<1>2. cert \in Objects
  BY <1>1, IdentityType, RecordType DEF Record, Objects, Wrappings, Kinds
<1>3. CASE k = NoId
  BY <1>2, <1>3, IdentityType DEF ImportCertificate, Done, TypeOK
<1>4. CASE k # NoId
  <2>1. store[k] \in Objects
    BY <1>4 DEF ImportCertificate, HasRight, Exists, TypeOK
  <2>2. [store[k] EXCEPT !.link = id] \in Objects
    BY <2>1 DEF Objects
  <2> QED
    BY <1>2, <1>4, <2>2, IdentityType DEF ImportCertificate, Done, TypeOK
<1> QED BY <1>3, <1>4

LEMMA ExportTypeOK ==
    ASSUME TypeOK, NEW u \in Users, NEW id \in Ids, NEW w \in Ids \cup {NoId},
           Export(u, id, w)
    PROVE  TypeOK'
<1> DEFINE who   == Identity(u)
<1> DEFINE b     == [kind |-> store[id].kind, mat |-> store[id].mat,
                     wrap |-> store[id].wrap]
<1> DEFINE plain == IF b.wrap = Plain THEN b ELSE UnwrapFor(b)
<1> DEFINE out   == IF w = NoId THEN b ELSE WrapUnder(plain, w)
<1>1. store[id] \in Objects
  BY DEF Export, Exists, TypeOK
<1>2. b \in Blobs
  BY <1>1 DEF Objects, Blobs
<1>3. plain \in Blobs
  BY <1>2, UnwrapType DEF UnwrapFor
<1>4. w # NoId => store[w] \in Objects
  BY DEF Export, CanWrapUnder, HasRight, Exists, TypeOK
<1>5. out \in Blobs
  BY <1>2, <1>3, <1>4 DEF WrapUnder, Blobs, Objects, Wrappings
<1>6. blobs' = blobs \cup {out}
  BY DEF Export
<1> QED
  BY <1>5, <1>6, IdentityType DEF Export, Done, TypeOK

LEMMA DestroyTypeOK ==
    ASSUME TypeOK, NEW u \in Users, NEW id \in Ids, NEW cleaned \in BOOLEAN,
           Destroy(u, id, cleaned)
    PROVE  TypeOK'
<1> DEFINE l == store[id].link
<1>1. CASE cleaned /\ l # id /\ Exists(l) /\ store[l].link = id
  <2>1. l \in Ids /\ store[l] \in Objects
    BY <1>1 DEF Exists, TypeOK
  <2>2. [store[l] EXCEPT !.link = NoId] \in Objects
    BY <2>1 DEF Objects
  <2>3. store' = [store EXCEPT ![id] = NoObj, ![l] = [store[l] EXCEPT !.link = NoId]]
    BY <1>1 DEF Destroy
  <2>4. store' \in [Ids -> Objects \cup {NoObj}]
    BY <2>1, <2>2, <2>3 DEF TypeOK
  <2> QED
    BY <2>4, IdentityType DEF Destroy, Done, TypeOK
<1>2. CASE ~(cleaned /\ l # id /\ Exists(l) /\ store[l].link = id)
  BY <1>2, IdentityType DEF Destroy, Done, TypeOK
<1> QED BY <1>1, <1>2

LEMMA GrantTypeOK ==
    ASSUME TypeOK, NEW u \in Users, NEW id \in Ids, NEW v \in Users,
           NEW r \in GrantRights, Grant(u, id, v, r)
    PROVE  TypeOK'
<1>1. store[id] \in Objects
  BY DEF Grant, Exists, TypeOK
<1>2. [store[id] EXCEPT !.grants = @ \cup {<<v, r>>}] \in Objects
  BY <1>1 DEF Objects, Rights
<1> QED
  BY <1>2, IdentityType DEF Grant, Done, TypeOK

LEMMA RevokeTypeOK ==
    ASSUME TypeOK, NEW u \in Users, NEW id \in Ids, NEW v \in Users,
           NEW r \in GrantRights, Revoke(u, id, v, r)
    PROVE  TypeOK'
<1>1. store[id] \in Objects
  BY DEF Revoke, Exists, TypeOK
<1>2. [store[id] EXCEPT !.grants = @ \ {<<v, r>>}] \in Objects
  BY <1>1 DEF Objects
<1> QED
  BY <1>2, IdentityType DEF Revoke, Done, TypeOK

LEMMA NextTypeOK == TypeOK /\ [Next]_vars => TypeOK'
<1> SUFFICES ASSUME TypeOK, [Next]_vars PROVE TypeOK'
  OBVIOUS
<1>1. CASE UNCHANGED vars
  BY <1>1 DEF vars, TypeOK
<1>2. CASE Next
  <2> PICK u \in Users, id \in Ids :
        \/ \E m \in Materials : Create(u, id, m)
        \/ \E b \in Importable, replace, unwrap \in BOOLEAN :
              ImportKey(u, id, b, replace, unwrap)
        \/ \E k \in Ids \cup {NoId}, replace \in BOOLEAN :
              \E c \in CertImportable(k) : ImportCertificate(u, id, c, k, replace)
        \/ \E w \in Ids \cup {NoId} : Export(u, id, w)
        \/ \E cleaned \in BOOLEAN : Destroy(u, id, cleaned)
        \/ \E v \in Users, r \in GrantRights : Grant(u, id, v, r) \/ Revoke(u, id, v, r)
    BY <1>2 DEF Next
  <2> QED
    BY CreateTypeOK, ImportKeyTypeOK, ImportCertificateTypeOK, ExportTypeOK,
       DestroyTypeOK, GrantTypeOK, RevokeTypeOK
<1> QED BY <1>1, <1>2

\* Type correctness: every reachable state of the store is well typed.
THEOREM TypeCorrect == Spec => []TypeOK
BY InitTypeOK, NextTypeOK, PTL DEF Spec

=============================================================================

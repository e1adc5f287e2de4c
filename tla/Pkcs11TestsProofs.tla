-------------------------- MODULE Pkcs11TestsProofs --------------------------
(***************************************************************************)
(* Proof of what the interleavings of the two PKCS#11 provider tests on    *)
(* the shared test server can do (Pkcs11Outcomes): test_backend always     *)
(* passes, and test_kms_client fails only after load_p12; and that the     *)
(* combined state keeps its type.                                          *)
(*                                                                         *)
(* Pkcs11Outcomes is not inductive: a test fails on a count, and the       *)
(* counts depend on what both tests imported so far.  The strengthening    *)
(* says what the store holds after any interleaving: each object is there *)
(* exactly when one of the tests got past its import, and holds the kind   *)
(* and tags that import gives it, whichever test imported it last; and a   *)
(* test that is no longer running is past its last call.                   *)
(***************************************************************************)
EXTENDS Pkcs11Tests, TestServerProofs, FiniteSetTheorems

\* What create_keys and load_p12 store.
KeyObj(id) == [kind |-> "SymmetricKey", tags |-> {"disk-encryption", id}]
P12Obj == [kind |-> "PrivateKey", tags |-> {"disk-encryption", "luks_volume"}]
CertObj == [kind |-> "Certificate", tags |-> {"disk-encryption", "luks_volume"}]

\* The store after any interleaving of the tests' imports.
ObjectsInv ==
    /\ objects[Vol1] = IF \E t \in Tests : step[t] > 1 THEN KeyObj(Vol1) ELSE NoObj
    /\ objects[Vol2] = IF \E t \in Tests : step[t] > 2 THEN KeyObj(Vol2) ELSE NoObj
    /\ objects[P12] = IF step[test_backend] > 3 THEN P12Obj ELSE NoObj
    /\ objects[P12Cert] = IF step[test_backend] > 3 THEN CertObj ELSE NoObj

\* A test runs until it is past its last call.
StepInv ==
    \A t \in Tests :
        /\ step[t] \in 1..Len(Script(t)) + 1
        /\ verdict[t] = "running" <=> step[t] <= Len(Script(t))

PkInv == IInv /\ Pk_TypeOK /\ ObjectsInv /\ StepInv /\ Pkcs11Outcomes

USE Pkcs11Assumption, NoObjAssumption

\* The calls of test_kms_client's body.
LEMMA ScriptKmsClient ==
    LET s == Script(test_kms_client) IN
    /\ Len(s) = 3
    /\ s[1] = ImportKey(Vol1, {"disk-encryption", "vol1"})
    /\ s[2] = ImportKey(Vol2, {"disk-encryption", "vol2"})
    /\ s[3] = Find(AnyKind, {"disk-encryption"}, 2, <<"vol1", "vol2">>)
BY DEF Script, create_keys

\* The calls of test_backend's body.
LEMMA ScriptBackend ==
    LET s == Script(test_backend) IN
    /\ Len(s) = 6
    /\ s[1] = ImportKey(Vol1, {"disk-encryption", "vol1"})
    /\ s[2] = ImportKey(Vol2, {"disk-encryption", "vol2"})
    /\ s[3] = ImportP12(P12, {"disk-encryption", "luks_volume"})
    /\ s[4] = Find("SymmetricKey", {"disk-encryption"}, 2, <<"vol1", "vol2">>)
    /\ s[5] = Find("Certificate", {"disk-encryption"}, 1, <<"luks_volume">>)
    /\ s[6] = Find("PrivateKey", {"disk-encryption"}, 1, <<>>)
BY DEF Script, create_keys, load_p12

ObjRecords == [kind : Kinds, tags : SUBSET Tags]

\* create_keys' import of a volume key is never refused, and overwrites
\* the volume's slot with the key.
LEMMA ImportKeyStored ==
    ASSUME NEW id \in {Vol1, Vol2}, objects \in [ObjIds -> ObjRecords \cup {NoObj}]
    PROVE  /\ ~Refused(ImportKey(id, {"disk-encryption", id}))
           /\ Stored(ImportKey(id, {"disk-encryption", id}))
                = [objects EXCEPT ![id] = KeyObj(id)]
BY DEF Refused, ReplaceExisting, Stored, ImportKey, KeyObj

\* load_p12's import is never refused, and stores the private key and its
\* certificate.
LEMMA ImportP12Stored ==
    ASSUME objects \in [ObjIds -> ObjRecords \cup {NoObj}]
    PROVE  /\ ~Refused(ImportP12(P12, {"disk-encryption", "luks_volume"}))
           /\ Stored(ImportP12(P12, {"disk-encryption", "luks_volume"}))
                = [objects EXCEPT ![P12] = P12Obj, ![P12Cert] = CertObj]
BY DEF Refused, ReplaceExisting, Stored, ImportP12, P12Obj, CertObj

\* The store holds both volume keys, and at most the PKCS#12's private key
\* and certificate besides.
StoreWithKeys ==
    /\ objects \in [ObjIds -> ObjRecords \cup {NoObj}]
    /\ objects[Vol1] = KeyObj(Vol1) /\ objects[Vol2] = KeyObj(Vol2)
    /\ objects[P12] \in {NoObj, P12Obj} /\ objects[P12Cert] \in {NoObj, CertObj}

LEMMA TwoElements ==
    ASSUME NEW a, NEW b, a # b
    PROVE  Cardinality({a, b}) = 2
<1>1. IsFiniteSet({a}) /\ Cardinality({a}) = 1
  BY FS_Singleton
<1>2. {a, b} = {a} \cup {b}
  OBVIOUS
<1> QED BY <1>1, <1>2, FS_AddElement

\* The records the imports store are objects, hence not the empty slot.
LEMMA RecordsNotEmpty ==
    /\ KeyObj(Vol1) # NoObj /\ KeyObj(Vol2) # NoObj
    /\ P12Obj # NoObj /\ CertObj # NoObj
<1>1. {KeyObj(Vol1), KeyObj(Vol2), P12Obj, CertObj} \subseteq ObjRecords
  BY DEF KeyObj, P12Obj, CertObj, ObjRecords, Kinds, Tags, Vol1, Vol2
<1> QED BY <1>1, NoObjAssumption DEF ObjRecords

\* find_all_* of symmetric keys: exactly vol1 and vol2, whatever the
\* PKCS#12 import has added.
LEMMA FindKeysAsserted ==
    ASSUME StoreWithKeys
    PROVE  Asserted(Find("SymmetricKey", {"disk-encryption"}, 2, <<"vol1", "vol2">>))
<1>1. Located("SymmetricKey", {"disk-encryption"}) = {Vol1, Vol2}
  <2>1. Vol1 \in Located("SymmetricKey", {"disk-encryption"})
        /\ Vol2 \in Located("SymmetricKey", {"disk-encryption"})
    BY RecordsNotEmpty DEF StoreWithKeys, Located, ObjIds, KeyObj
  <2>2. P12 \notin Located("SymmetricKey", {"disk-encryption"})
        /\ P12Cert \notin Located("SymmetricKey", {"disk-encryption"})
    BY DEF StoreWithKeys, Located, P12Obj, CertObj, AnyKind
  <2> QED BY <2>1, <2>2 DEF Located, ObjIds
<1>2. Cardinality({Vol1, Vol2}) = 2
  BY TwoElements DEF Vol1, Vol2
<1>3. Labels({Vol1, Vol2}, {"disk-encryption"}) = {"vol1", "vol2"}
  BY DEF StoreWithKeys, Labels, KeyObj, Vol1, Vol2
<1> QED BY <1>1, <1>2, <1>3 DEF Asserted, Find

\* get_kms_objects_async by tag alone: exactly vol1 and vol2 as long as
\* load_p12 has not stored its private key and certificate.
LEMMA FindAnyAsserted ==
    ASSUME StoreWithKeys, objects[P12] = NoObj, objects[P12Cert] = NoObj
    PROVE  Asserted(Find(AnyKind, {"disk-encryption"}, 2, <<"vol1", "vol2">>))
<1>1. Located(AnyKind, {"disk-encryption"}) = {Vol1, Vol2}
  <2>1. Vol1 \in Located(AnyKind, {"disk-encryption"})
        /\ Vol2 \in Located(AnyKind, {"disk-encryption"})
    BY RecordsNotEmpty DEF StoreWithKeys, Located, ObjIds, KeyObj
  <2>2. P12 \notin Located(AnyKind, {"disk-encryption"})
        /\ P12Cert \notin Located(AnyKind, {"disk-encryption"})
    BY DEF Located
  <2> QED BY <2>1, <2>2 DEF Located, ObjIds
<1>2. Cardinality({Vol1, Vol2}) = 2
  BY TwoElements DEF Vol1, Vol2
<1>3. Labels({Vol1, Vol2}, {"disk-encryption"}) = {"vol1", "vol2"}
  BY DEF StoreWithKeys, Labels, KeyObj, Vol1, Vol2
<1> QED BY <1>1, <1>2, <1>3 DEF Asserted, Find

\* After load_p12: one certificate, labelled luks_volume, and one private
\* key.
LEMMA FindP12Asserted ==
    ASSUME StoreWithKeys, objects[P12] = P12Obj, objects[P12Cert] = CertObj
    PROVE  /\ Asserted(Find("Certificate", {"disk-encryption"}, 1, <<"luks_volume">>))
           /\ Asserted(Find("PrivateKey", {"disk-encryption"}, 1, <<>>))
<1>1. /\ Located("Certificate", {"disk-encryption"}) = {P12Cert}
      /\ Located("PrivateKey", {"disk-encryption"}) = {P12}
  <2>1. /\ P12Cert \in Located("Certificate", {"disk-encryption"})
        /\ P12 \in Located("PrivateKey", {"disk-encryption"})
    BY RecordsNotEmpty DEF Located, ObjIds, P12Obj, CertObj
  <2>2. \A i \in {Vol1, Vol2} :
            /\ i \notin Located("Certificate", {"disk-encryption"})
            /\ i \notin Located("PrivateKey", {"disk-encryption"})
    BY DEF StoreWithKeys, Located, KeyObj, AnyKind
  <2>3. /\ P12 \notin Located("Certificate", {"disk-encryption"})
        /\ P12Cert \notin Located("PrivateKey", {"disk-encryption"})
    BY DEF Located, P12Obj, CertObj, AnyKind
  <2> QED BY <2>1, <2>2, <2>3 DEF Located, ObjIds
<1>2. Labels({P12Cert}, {"disk-encryption"}) = {"luks_volume"}
  BY DEF Labels, CertObj
<1>3. Cardinality({P12Cert}) = 1 /\ Cardinality({P12}) = 1
  BY FS_Singleton
<1>4. {<<"luks_volume">>[k] : k \in DOMAIN <<"luks_volume">>} = {"luks_volume"}
  OBVIOUS
<1>5. Asserted(Find("Certificate", {"disk-encryption"}, 1, <<"luks_volume">>))
  BY <1>1, <1>2, <1>3, <1>4 DEF Asserted, Find
<1>6. Asserted(Find("PrivateKey", {"disk-encryption"}, 1, <<>>))
  BY <1>1, <1>3 DEF Asserted, Find
<1> QED BY <1>5, <1>6

-----------------------------------------------------------------------------
(* One call of a test body.                                                *)
-----------------------------------------------------------------------------

\* create_keys and load_p12 import with replace_existing: the server
\* refuses none of their imports.
LEMMA NeverRefused == ASSUME NEW c PROVE ~Refused(c)
BY DEF Refused, ReplaceExisting

\* Whether the call t is at succeeds.
CallOkay(t) ==
    LET c == Script(t)[step[t]] IN
    IF c.op = "import" THEN ~Refused(c) ELSE Asserted(c)

\* A call: an import stores (it is never refused), a find changes nothing,
\* and the test moves to its next call, failing when the call fails and
\* passing after its last.
LEMMA CallEffect ==
    ASSUME NEW t \in Tests, TestCall(t)
    PROVE  /\ objects' = IF Script(t)[step[t]].op = "import"
                         THEN Stored(Script(t)[step[t]]) ELSE objects
           /\ verdict' = [verdict EXCEPT ![t] =
                            IF ~CallOkay(t) THEN "failed"
                            ELSE IF step[t] = Len(Script(t)) THEN "passed" ELSE "running"]
           /\ step' = [step EXCEPT ![t] = @ + 1]
           /\ UNCHANGED vars
BY NeverRefused DEF TestCall, CallOkay

\* The store while a test is at call k of its body (k counted from 1).
LEMMA StoreAt ==
    ASSUME PkInv, NEW t \in Tests
    PROVE  /\ step[t] > 2 => StoreWithKeys
           /\ step[test_backend] > 3 => objects[P12] = P12Obj /\ objects[P12Cert] = CertObj
           /\ step[test_backend] <= 3 => objects[P12] = NoObj /\ objects[P12Cert] = NoObj
<1>1. objects \in [ObjIds -> ObjRecords \cup {NoObj}]
  BY DEF PkInv, Pk_TypeOK, ObjRecords
<1> QED BY <1>1 DEF PkInv, ObjectsInv, StoreWithKeys, StepInv

\* Every call the tests make succeeds, except test_kms_client's locate
\* once load_p12 has stored the PKCS#12's objects.
LEMMA CallOk ==
    ASSUME PkInv, NEW t \in Tests, verdict[t] = "running",
           t = test_kms_client /\ step[t] = 3 => objects[P12] = NoObj
    PROVE  CallOkay(t)
<1>0. /\ objects \in [ObjIds -> ObjRecords \cup {NoObj}]
      /\ step[t] \in 1..Len(Script(t))
  BY DEF PkInv, Pk_TypeOK, ObjRecords, StepInv
<1>1. CASE t = test_kms_client
  <2>1. step[t] \in {1, 2, 3}
    BY <1>0, <1>1, ScriptKmsClient
  <2>2. CASE step[t] \in {1, 2}
    BY <1>1, <2>2, ScriptKmsClient, NeverRefused DEF ImportKey, CallOkay
  <2>3. CASE step[t] = 3
    <3>1. StoreWithKeys /\ objects[P12] = NoObj /\ objects[P12Cert] = NoObj
      <4>1. step[test_backend] <= 3
        BY <1>1, <2>3, RecordsNotEmpty DEF PkInv, ObjectsInv, Pk_TypeOK
      <4> QED BY <1>1, <2>3, <4>1, StoreAt
    <3> QED BY <1>1, <2>3, <3>1, ScriptKmsClient, FindAnyAsserted DEF Find, CallOkay
  <2> QED BY <2>1, <2>2, <2>3
<1>2. CASE t = test_backend
  <2>1. step[t] \in 1..6
    BY <1>0, <1>2, ScriptBackend
  <2>2. CASE step[t] \in {1, 2}
    BY <1>2, <2>2, ScriptBackend, NeverRefused DEF ImportKey, CallOkay
  <2>3. CASE step[t] = 3
    BY <1>2, <2>3, ScriptBackend, NeverRefused DEF ImportP12, CallOkay
  <2>4. CASE step[t] = 4
    BY <1>2, <2>4, ScriptBackend, StoreAt, FindKeysAsserted DEF Find, CallOkay
  <2>5. CASE step[t] \in {5, 6}
    <3>1. StoreWithKeys /\ objects[P12] = P12Obj /\ objects[P12Cert] = CertObj
      BY <1>2, <2>5, StoreAt
    <3>2. CASE step[t] = 5
      BY <1>2, <3>1, <3>2, ScriptBackend, FindP12Asserted DEF Find, CallOkay
    <3>3. CASE step[t] = 6
      BY <1>2, <3>1, <3>3, ScriptBackend, FindP12Asserted DEF Find, CallOkay
    <3> QED BY <2>5, <3>2, <3>3
  <2> QED BY <2>1, <2>2, <2>3, <2>4, <2>5
<1> QED BY <1>1, <1>2, Pkcs11Assumption

\* After a call, the store is what the imports of both tests so far give.
LEMMA CallObjects ==
    ASSUME PkInv, NEW t \in Tests, TestCall(t)
    PROVE  ObjectsInv'
<1>0. /\ objects \in [ObjIds -> ObjRecords \cup {NoObj}]
      /\ verdict[t] = "running" /\ step[t] \in 1..Len(Script(t))
      /\ step \in [Tests -> Nat]
  BY DEF PkInv, Pk_TypeOK, ObjRecords, StepInv, TestCall
<1>1. /\ objects' = IF Script(t)[step[t]].op = "import"
                    THEN Stored(Script(t)[step[t]]) ELSE objects
      /\ step' = [step EXCEPT ![t] = @ + 1]
  BY CallEffect
<1>2. ObjectsInv
  BY DEF PkInv
<1>3. CASE step[t] = 1
  <2>1. Script(t)[1] = ImportKey(Vol1, {"disk-encryption", "vol1"})
    BY ScriptKmsClient, ScriptBackend
  <2>2. objects' = [objects EXCEPT ![Vol1] = KeyObj(Vol1)]
    BY <1>0, <1>1, <1>3, <2>1, ImportKeyStored DEF ImportKey, Vol1
  <2>3. /\ \E u \in Tests : step'[u] > 1
        /\ (\E u \in Tests : step'[u] > 2) <=> (\E u \in Tests : step[u] > 2)
        /\ step'[test_backend] > 3 <=> step[test_backend] > 3
    BY <1>0, <1>1, <1>3
  <2>4. /\ objects'[Vol1] = KeyObj(Vol1)
        /\ \A i \in {Vol2, P12, P12Cert} : objects'[i] = objects[i]
    BY <1>0, <2>2 DEF ObjIds, Vol1, Vol2, P12, P12Cert
  <2> QED BY <1>2, <2>3, <2>4 DEF ObjectsInv
<1>4. CASE step[t] = 2
  <2>1. Script(t)[2] = ImportKey(Vol2, {"disk-encryption", "vol2"})
    BY ScriptKmsClient, ScriptBackend
  <2>2. objects' = [objects EXCEPT ![Vol2] = KeyObj(Vol2)]
    BY <1>0, <1>1, <1>4, <2>1, ImportKeyStored DEF ImportKey, Vol2
  <2>3. /\ \E u \in Tests : step'[u] > 1
        /\ \E u \in Tests : step'[u] > 2
        /\ \E u \in Tests : step[u] > 1
        /\ step'[test_backend] > 3 <=> step[test_backend] > 3
    BY <1>0, <1>1, <1>4
  <2>4. /\ objects'[Vol2] = KeyObj(Vol2)
        /\ \A i \in {Vol1, P12, P12Cert} : objects'[i] = objects[i]
    BY <1>0, <2>2 DEF ObjIds, Vol1, Vol2, P12, P12Cert
  <2> QED BY <1>2, <2>3, <2>4 DEF ObjectsInv
<1>5. CASE step[t] = 3 /\ t = test_backend
  <2>1. Script(t)[3] = ImportP12(P12, {"disk-encryption", "luks_volume"})
    BY <1>5, ScriptBackend
  <2>2. objects' = [objects EXCEPT ![P12] = P12Obj, ![P12Cert] = CertObj]
    BY <1>0, <1>1, <1>5, <2>1, ImportP12Stored DEF ImportP12
  <2>3. /\ \E u \in Tests : step'[u] > 1
        /\ \E u \in Tests : step'[u] > 2
        /\ \E u \in Tests : step[u] > 1
        /\ \E u \in Tests : step[u] > 2
        /\ step'[test_backend] > 3
    BY <1>0, <1>1, <1>5
  <2>4. /\ objects'[P12] = P12Obj /\ objects'[P12Cert] = CertObj
        /\ \A i \in {Vol1, Vol2} : objects'[i] = objects[i]
    BY <1>0, <2>2 DEF ObjIds, Vol1, Vol2, P12, P12Cert
  <2> QED BY <1>2, <2>3, <2>4 DEF ObjectsInv
<1>6. CASE step[t] >= 3 /\ ~(step[t] = 3 /\ t = test_backend)
  <2>1. Script(t)[step[t]].op = "find"
    <3>1. CASE t = test_kms_client
      BY <1>0, <1>6, <3>1, ScriptKmsClient DEF Find
    <3>2. CASE t = test_backend
      BY <1>0, <1>6, <3>2, ScriptBackend DEF Find
    <3> QED BY <3>1, <3>2
  <2>2. objects' = objects
    BY <1>1, <2>1
  <2> QED BY <1>0, <1>1, <1>2, <1>6, <2>2 DEF ObjectsInv
<1> QED BY <1>0, <1>3, <1>4, <1>5, <1>6

LEMMA TestCallPkInv ==
    ASSUME PkInv, NEW t \in Tests, TestCall(t)
    PROVE  PkInv'
<1>0. /\ objects \in [ObjIds -> ObjRecords \cup {NoObj}]
      /\ verdict \in [Tests -> Verdicts] /\ step \in [Tests -> 1..MaxSteps + 1]
      /\ verdict[t] = "running" /\ step[t] \in 1..Len(Script(t))
      /\ StepInv
  BY DEF PkInv, Pk_TypeOK, ObjRecords, StepInv, TestCall
<1>1. /\ objects' = IF Script(t)[step[t]].op = "import"
                    THEN Stored(Script(t)[step[t]]) ELSE objects
      /\ verdict' = [verdict EXCEPT ![t] =
                       IF ~CallOkay(t) THEN "failed"
                       ELSE IF step[t] = Len(Script(t)) THEN "passed" ELSE "running"]
      /\ step' = [step EXCEPT ![t] = @ + 1]
      /\ UNCHANGED vars
  BY CallEffect
<1>2. IInv'
  BY <1>1, NextIInv DEF PkInv
<1>3. ObjectsInv'
  BY CallObjects
<1>4. Len(Script(test_kms_client)) = 3 /\ Len(Script(test_backend)) = 6
  BY ScriptKmsClient, ScriptBackend
\* Only test_kms_client's locate, its last call, fails, and only after
\* load_p12.
<1>5. ~CallOkay(t) => /\ t = test_kms_client /\ step[t] = 3
                     /\ step[test_backend] > 3
  <2>1. ~CallOkay(t) => t = test_kms_client /\ step[t] = 3 /\ objects[P12] # NoObj
    BY <1>0, CallOk
  <2>2. objects[P12] # NoObj => step[test_backend] > 3
    BY DEF PkInv, ObjectsInv
  <2> QED BY <2>1, <2>2
<1>6. StepInv'
  <2> SUFFICES ASSUME NEW u \in Tests
               PROVE  /\ step'[u] \in 1..Len(Script(u)) + 1
                      /\ verdict'[u] = "running" <=> step'[u] <= Len(Script(u))
    BY DEF StepInv
  <2>1. CASE u # t
    BY <1>0, <1>1, <2>1 DEF StepInv
  <2>2. CASE u = t /\ CallOkay(t)
    BY <1>0, <1>1, <1>4, <2>2
  <2>3. CASE u = t /\ ~CallOkay(t)
    <3>1. u = test_kms_client /\ step[u] = 3
      BY <1>5, <2>3
    <3>2. verdict'[u] = "failed"
      BY <1>0, <1>1, <2>3, Zenon
    <3>3. step'[u] = 4
      BY <1>0, <1>1, <2>3, <3>1
    <3>4. Len(Script(u)) = 3
      BY <1>4, <3>1
    <3> QED BY <3>2, <3>3, <3>4
  <2> QED BY <2>1, <2>2, <2>3
<1>7. objects' \in [ObjIds -> ObjRecords \cup {NoObj}]
  <2>1. objects' = [i \in ObjIds |-> objects'[i]]
    BY <1>0, <1>1 DEF Stored
  <2>2. {KeyObj(Vol1), KeyObj(Vol2), P12Obj, CertObj} \subseteq ObjRecords
    BY DEF KeyObj, P12Obj, CertObj, ObjRecords, Kinds, Tags, Vol1, Vol2
  <2>3. \A i \in ObjIds : objects'[i] \in ObjRecords \cup {NoObj}
    BY <1>3, <2>2 DEF ObjectsInv, ObjIds
  <2> QED BY <2>1, <2>3
<1>8. Pk_TypeOK'
  BY <1>0, <1>1, <1>2, <1>4, <1>7 DEF Pk_TypeOK, IInv, Verdicts, MaxSteps, ObjRecords
<1>9. Pkcs11Outcomes'
  <2>1. step'[test_backend] >= step[test_backend]
    BY <1>0, <1>1
  <2>2. step'[test_backend] > 3 => objects'[P12] # NoObj /\ objects'[P12Cert] # NoObj
    BY <1>3, RecordsNotEmpty DEF ObjectsInv
  <2>3. verdict'[test_backend] # "failed"
    <3>1. CASE t = test_backend
      BY <1>0, <1>1, <1>5, <3>1
    <3>2. CASE t # test_backend
      BY <1>0, <1>1, <3>2 DEF PkInv, Pkcs11Outcomes
    <3> QED BY <3>1, <3>2
  <2>4. verdict'[test_kms_client] = "failed" => step[test_backend] > 3
    <3>1. verdict[test_kms_client] = "failed" => step[test_backend] > 3
      BY RecordsNotEmpty DEF PkInv, Pkcs11Outcomes, ObjectsInv, P12Obj
    <3> QED BY <1>0, <1>1, <1>5, <3>1
  <2>5. step[test_backend] \in Nat /\ step'[test_backend] \in Nat
    BY <1>0, <1>8 DEF Pk_TypeOK
  <2> QED BY <2>1, <2>2, <2>3, <2>4, <2>5 DEF Pkcs11Outcomes
<1> QED BY <1>2, <1>3, <1>6, <1>8, <1>9 DEF PkInv

-----------------------------------------------------------------------------
(* The theorems.                                                           *)
-----------------------------------------------------------------------------

LEMMA PkInitInv == Pk_Init => PkInv
<1> SUFFICES ASSUME Pk_Init PROVE PkInv
  OBVIOUS
<1>1. IInv
  BY InitIInv DEF Pk_Init
<1>2. Len(Script(test_kms_client)) = 3 /\ Len(Script(test_backend)) = 6
  BY ScriptKmsClient, ScriptBackend
<1>3. Pk_TypeOK
  BY <1>1 DEF Pk_Init, Pk_TypeOK, IInv, MaxSteps, Verdicts
<1>4. ObjectsInv
  <2>1. \A u \in Tests : step[u] = 1
    BY DEF Pk_Init
  <2>2. \A i \in ObjIds : objects[i] = NoObj
    BY DEF Pk_Init
  <2> QED BY <2>1, <2>2 DEF ObjectsInv, ObjIds
<1>5. StepInv
  <2> SUFFICES ASSUME NEW u \in Tests
               PROVE  /\ step[u] \in 1..Len(Script(u)) + 1
                      /\ verdict[u] = "running" <=> step[u] <= Len(Script(u))
    BY DEF StepInv
  <2>1. Len(Script(u)) \in {3, 6}
    BY <1>2
  <2>2. step[u] = 1 /\ verdict[u] = "running"
    BY DEF Pk_Init
  <2>3. 1 \in 1..Len(Script(u)) + 1 /\ 1 <= Len(Script(u))
    BY <2>1
  <2> QED BY <2>2, <2>3
<1>6. Pkcs11Outcomes
  BY DEF Pk_Init, Pkcs11Outcomes
<1> QED BY <1>1, <1>3, <1>4, <1>5, <1>6 DEF PkInv

LEMMA PkNextInv == PkInv /\ [Pk_Next]_allVars => PkInv'
<1> SUFFICES ASSUME PkInv, [Pk_Next]_allVars PROVE PkInv'
  OBVIOUS
<1>1. CASE Next /\ UNCHANGED pkVars
  <2>1. IInv'
    BY <1>1, NextIInv DEF PkInv
  <2> QED BY <1>1, <2>1 DEF PkInv, Pk_TypeOK, IInv, pkVars, ObjectsInv, StepInv,
                            Pkcs11Outcomes
<1>2. CASE \E t \in Tests : TestCall(t)
  BY <1>2, TestCallPkInv
<1>3. CASE UNCHANGED allVars
  <2>1. IInv'
    BY <1>3, NextIInv DEF PkInv, allVars
  <2> QED BY <1>3, <2>1 DEF PkInv, Pk_TypeOK, IInv, allVars, pkVars,
                            ObjectsInv, StepInv, Pkcs11Outcomes
<1> QED BY <1>1, <1>2, <1>3 DEF Pk_Next

LEMMA PkSpecInv == Pk_Spec => []PkInv
BY PkInitInv, PkNextInv, PTL DEF Pk_Spec

\* For any names of the two tests, the shared server's state and the
\* tests' store, steps and verdicts keep their types.
THEOREM PkTypeCorrect == Pk_Spec => []Pk_TypeOK
BY PkSpecInv, PTL DEF PkInv

\* In every interleaving of the two tests' calls with each other and with
\* the start of the shared server, test_backend passes (no import is
\* refused, no assert_eq! fails), and test_kms_client fails only when
\* load_p12 stored the PKCS#12 private key and certificate before its
\* locate by tag.
THEOREM TestsOutcome == Pk_Spec => []Pkcs11Outcomes
BY PkSpecInv, PTL DEF PkInv

=============================================================================

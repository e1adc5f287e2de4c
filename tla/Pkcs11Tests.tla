----------------------------- MODULE Pkcs11Tests -----------------------------
(***************************************************************************)
(* The two tests of pkcs11/provider/src/tests.rs running concurrently      *)
(* against the one shared test server of TestServer.                      *)
(*                                                                         *)
(* test_kms_client: create_keys, then locate the objects tagged            *)
(* "disk-encryption" (by tag alone) and assert they are vol1 and vol2.     *)
(* test_backend (initialize_backend): create_keys, load_p12, then assert   *)
(* 2 data objects labelled vol1 and vol2, 1 certificate labelled           *)
(* luks_volume and 1 private key.                                          *)
(*                                                                         *)
(* Each call is one request to the server, atomic with respect to its      *)
(* object (spec, storage abstraction).  The server's object store is       *)
(* modelled from the spec: import_object stores the object under the       *)
(* caller's id with its tags, failing on an existing id unless             *)
(* replace_existing; a PKCS#12 import stores the private key under the     *)
(* id and its certificate under the certificate's own id, both tagged;     *)
(* find_all_* locate by tags and object kind, get_kms_objects_async by     *)
(* tags alone (AnyKind).  The server starts with an                        *)
(* empty database (clear_database in generate_server_params).              *)
(***************************************************************************)
EXTENDS TestServer, FiniteSets, TLC

CONSTANTS
    test_kms_client,    \* the task of the test test_kms_client
    test_backend,       \* the task of the test test_backend
    NoObj               \* an id with no object

ASSUME Pkcs11Assumption ==
    /\ Tests = {test_kms_client, test_backend}
    /\ test_kms_client # test_backend

\* The ids the tests import under, and the certificate's id taken from the
\* PKCS#12 container.
Vol1 == "vol1"
Vol2 == "vol2"
P12 == "test.p12"
P12Cert == "test.p12.cert"
ObjIds == {Vol1, Vol2, P12, P12Cert}

Kinds == {"SymmetricKey", "PrivateKey", "Certificate"}
Tags == {"disk-encryption", "vol1", "vol2", "luks_volume"}

\* The empty slot of the store is no object.
ASSUME NoObjAssumption == NoObj \notin [kind : Kinds, tags : SUBSET Tags]

\* The calls of a test: an import of a symmetric key or of a PKCS#12, and
\* a lookup by tags and kind (AnyKind: by tags alone) asserting the number
\* of objects found and, when labels # <<>>, their sorted labels.
AnyKind == "any"
ImportKey(id, tags) ==
    [op |-> "import", id |-> id, kind |-> "SymmetricKey", tags |-> tags]
ImportP12(id, tags) ==
    [op |-> "import", id |-> id, kind |-> "PKCS12", tags |-> tags]
Find(kind, tags, n, labels) ==
    [op |-> "find", kind |-> kind, tags |-> tags, n |-> n, labels |-> labels]

\* Fault variant: create_keys imports without replace_existing.
ReplaceExistingDropped == FALSE

\* create_keys: vol1 and vol2 imported with replace_existing = true.
ReplaceExisting == TRUE
create_keys ==
    << ImportKey(Vol1, {"disk-encryption", "vol1"}),
       ImportKey(Vol2, {"disk-encryption", "vol2"}) >>

\* load_p12: the PKCS#12 imported as "test.p12".
load_p12 == << ImportP12(P12, {"disk-encryption", "luks_volume"}) >>

\* The body of each test after it obtained the context.  The labels of a
\* found object are its tags other than the ones looked up.
Script(t) ==
    IF t = test_kms_client
      THEN create_keys \o
           << Find(AnyKind, {"disk-encryption"}, 2, <<"vol1", "vol2">>) >>
      ELSE create_keys \o load_p12 \o
           << Find("SymmetricKey", {"disk-encryption"}, 2, <<"vol1", "vol2">>),
              Find("Certificate", {"disk-encryption"}, 1, <<"luks_volume">>),
              Find("PrivateKey", {"disk-encryption"}, 1, <<>>) >>

MaxSteps == 6

VARIABLES
    objects,    \* the server's store: id -> [kind, tags] or NoObj
    step,       \* step[t]: the index of the next call of t's body
    verdict     \* verdict[t]: "running", "passed" or "failed"

pkVars == <<objects, step, verdict>>
allVars == <<vars, pkVars>>

Verdicts == {"running", "passed", "failed"}

Pk_TypeOK ==
    /\ TypeOK
    /\ objects \in [ObjIds -> [kind : Kinds, tags : SUBSET Tags] \cup {NoObj}]
    /\ step \in [Tests -> 1..MaxSteps + 1]
    /\ verdict \in [Tests -> Verdicts]

Pk_Init ==
    /\ Init
    /\ objects = [i \in ObjIds |-> NoObj]
    /\ step = [t \in Tests |-> 1]
    /\ verdict = [t \in Tests |-> "running"]

\* import_object(client, Some(id), object, None, false, ReplaceExisting, tags)
\* on the server: an id already present is refused (the test's `?` returns
\* the error) unless replace_existing; a PKCS#12 yields the private key and
\* its certificate.
Refused(c) == objects[c.id] # NoObj /\ ~ReplaceExisting

\* Fault variant: the PKCS#12 container stored as is, not split.
StoredUnconverted(c) == [objects EXCEPT ![c.id] = [kind |-> c.kind, tags |-> c.tags]]

\* The store after a successful import.
Stored(c) ==
    IF c.kind = "PKCS12"
      THEN [objects EXCEPT ![c.id] = [kind |-> "PrivateKey", tags |-> c.tags],
                           ![P12Cert] = [kind |-> "Certificate", tags |-> c.tags]]
      ELSE [objects EXCEPT ![c.id] = [kind |-> c.kind, tags |-> c.tags]]

\* The objects of a kind (of any kind for AnyKind) carrying all the tags
\* looked up, and the labels of what a find returns.
Located(kind, tags) ==
    {i \in ObjIds : objects[i] # NoObj /\ kind \in {AnyKind, objects[i].kind}
                    /\ tags \subseteq objects[i].tags}
Labels(ids, tags) == UNION {objects[i].tags \ tags : i \in ids}

\* get_kms_objects_async / find_all_*: the assert_eq! on the count and on
\* the sorted labels.
Asserted(c) ==
    LET found == Located(c.kind, c.tags) IN
    /\ Cardinality(found) = c.n
    /\ c.labels # <<>> =>
          Labels(found, c.tags) = {c.labels[k] : k \in DOMAIN c.labels}

\* One call of a test body on the shared server: an import stores its
\* objects, a refused import or a failed assertion fails the test, which
\* passes after its last call.
TestCall(t) ==
    LET c  == Script(t)[step[t]]
        ok == IF c.op = "import" THEN ~Refused(c) ELSE Asserted(c)
    IN
    /\ pc[t] = "ready"
    /\ verdict[t] = "running"
    /\ objects' = IF c.op = "import" /\ ok
                    THEN Stored(c) ELSE objects
    /\ verdict' = [verdict EXCEPT ![t] =
                    IF ~ok THEN "failed"
                    ELSE IF step[t] = Len(Script(t)) THEN "passed" ELSE "running"]
    /\ step' = [step EXCEPT ![t] = @ + 1]
    /\ UNCHANGED vars

Pk_Next ==
    \/ Next /\ UNCHANGED pkVars
    \/ \E t \in Tests : TestCall(t)

Pk_Spec == Pk_Init /\ [][Pk_Next]_allVars
             /\ \A t \in Tests : WF_allVars(TaskStep(t) \/ TestCall(t))

-----------------------------------------------------------------------------

\* tests.rs, as a test suite: both tests pass in every interleaving on the
\* shared server.
Pkcs11TestsPass == \A t \in Tests : verdict[t] # "failed"

\* What the interleavings of the two tests on the shared server can do:
\* test_backend passes in all of them (both tests re-import vol1 and vol2
\* with replace_existing, and find_all_* filter by kind), and
\* test_kms_client fails only where test_backend's load_p12 stored the
\* PKCS#12 private key and certificate, tagged disk-encryption, before it.
Pkcs11Outcomes ==
    /\ verdict[test_backend] # "failed"
    /\ verdict[test_kms_client] = "failed" =>
          objects[P12] # NoObj /\ objects[P12Cert] # NoObj

=============================================================================

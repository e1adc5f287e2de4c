--------------------------- MODULE TestServerProofs ---------------------------
(***************************************************************************)
(* Proofs, for any set of test tasks, about the shared test server of      *)
(* test_server.rs: its type and ContextConsistent.                        *)
(*                                                                         *)
(* None of them is inductive as it stands.  What makes them hold is the    *)
(* permit of the cell: exactly the task holding it is inside the start    *)
(* sequence, so nobody rewrites the conf files once the context is         *)
(* published; the holder's server, once it answered, keeps serving; and    *)
(* the holder at generate_user_conf has written its own server's secret.   *)
(***************************************************************************)
EXTENDS TestServer, SequenceTheorems, TLAPS

\* Where a task is while it runs start_test_server_with_options.
Starting == {"owner_conf", "recv", "wait", "new_database", "user_conf"}

\* The task inside the start sequence is the one holding the permit.
HolderInv == \A t \in Tests : pc[t] \in Starting <=> holder = t

\* After generate_owner_conf the task has its own server thread, which it
\* has seen answer from new_database on; the poll loop runs with a
\* non-negative `timeout`; at generate_user_conf the owner conf holds the
\* task's server's secret.
StartInv ==
    \A t \in Tests :
        /\ pc[t] \in Starting \ {"owner_conf"} => mine[t] \in ServerIds
        /\ pc[t] \in {"new_database", "user_conf"} => srv[mine[t]] = "serving"
        /\ pc[t] \in {"recv", "wait"} => timeout[t] >= 0
        /\ pc[t] = "user_conf" => ownerConf = mine[t]

\* A published context: nobody holds the permit, the conf files hold its
\* server's secret, and that server serves; a ready task has the context.
CellInv ==
    /\ cell # NoServer => /\ holder = NoTest
                          /\ ownerConf = cell /\ userConf = cell
                          /\ srv[cell] = "serving"
    /\ \A t \in Tests : pc[t] = "ready" => cell # NoServer

IInv == TypeOK /\ HolderInv /\ StartInv /\ CellInv

USE TestsAssumption DEF NoServer, Absent, InitialTimeout, InitialWaiting,
                        Starting

LEMMA InitIInv == Init => IInv
BY DEF Init, IInv, TypeOK, PCs, ServerIds, HolderInv, StartInv, CellInv

\* The holder's start sequence runs only while the cell is empty, and
\* nobody else is inside it.
LEMMA HolderAlone ==
    ASSUME IInv, NEW t \in Tests, pc[t] \in Starting
    PROVE  /\ holder = t
           /\ cell = NoServer
           /\ \A u \in Tests \ {t} : pc[u] \notin Starting
BY DEF IInv, HolderInv, CellInv

-----------------------------------------------------------------------------
(* The test tasks.                                                         *)
-----------------------------------------------------------------------------

LEMMA GetOrTryInitIInv ==
    ASSUME IInv, NEW t \in Tests, get_or_try_init(t)
    PROVE  IInv'
<1>0. /\ TypeOK /\ HolderInv /\ StartInv /\ CellInv
      /\ pc[t] \notin Starting /\ holder # t
  BY DEF IInv, get_or_try_init, HolderInv
<1>1. CASE /\ cell # NoServer
           /\ pc' = [pc EXCEPT ![t] = "ready"]
           /\ UNCHANGED holder
  BY <1>0, <1>1 DEF get_or_try_init, IInv, TypeOK, PCs, ServerIds,
                    HolderInv, StartInv, CellInv
<1>2. CASE /\ cell = NoServer
           /\ holder = NoTest
           /\ holder' = t
           /\ pc' = [pc EXCEPT ![t] = "owner_conf"]
  BY <1>0, <1>2 DEF get_or_try_init, IInv, TypeOK, PCs, ServerIds,
                    HolderInv, StartInv, CellInv
<1>3. CASE /\ cell = NoServer
           /\ pc' = [pc EXCEPT ![t] = "blocked"]
           /\ UNCHANGED holder
  BY <1>0, <1>3 DEF get_or_try_init, IInv, TypeOK, PCs, ServerIds,
                    HolderInv, StartInv, CellInv
<1> QED BY <1>1, <1>2, <1>3 DEF get_or_try_init

\* The spawned server is a new thread: the ones already spawned keep their
\* states, so the serving ones still serve.
LEMMA GenerateOwnerConfIInv ==
    ASSUME IInv, NEW t \in Tests, generate_owner_conf(t)
    PROVE  IInv'
<1>0. /\ TypeOK /\ HolderInv /\ StartInv /\ CellInv
      /\ holder = t /\ cell = NoServer
      /\ \A u \in Tests \ {t} : pc[u] \notin Starting
  BY HolderAlone DEF IInv, generate_owner_conf
<1>1. /\ srv' \in Seq(ServerStates) /\ Len(srv') = Len(srv) + 1
      /\ \A i \in 1..Len(srv) : srv'[i] = srv[i]
      /\ chan' \in Seq(ChanStates) /\ Len(chan') = Len(chan) + 1
  BY <1>0, AppendProperties DEF generate_owner_conf, TypeOK, ServerStates, ChanStates
<1>2. ServerIds \subseteq ServerIds' /\ Len(srv) + 1 \in ServerIds'
  BY <1>0, <1>1 DEF ServerIds, TypeOK
<1>3. TypeOK'
  <2>1. pc' \in [Tests -> PCs] /\ holder' \in Tests \cup {NoTest}
    BY <1>0 DEF generate_owner_conf, TypeOK, PCs
  <2>2. /\ cell' \in ServerIds' \cup {NoServer}
        /\ port' \in ServerIds' \cup {NoServer}
        /\ ownerConf' \in ServerIds' \cup {NoServer, Absent}
        /\ userConf' \in ServerIds' \cup {NoServer, Absent}
    BY <1>0, <1>2 DEF generate_owner_conf, TypeOK
  <2>3. mine' \in [Tests -> ServerIds' \cup {NoServer}]
    BY <1>0, <1>2 DEF generate_owner_conf, TypeOK
  <2>4. timeout' \in [Tests -> -1..InitialTimeout] /\ waiting' \in [Tests -> Nat]
    BY <1>0 DEF generate_owner_conf, TypeOK
  <2> QED BY <1>0, <1>1, <2>1, <2>2, <2>3, <2>4 DEF TypeOK
<1>4. HolderInv'
  BY <1>0 DEF generate_owner_conf, HolderInv, TypeOK
<1>5. StartInv'
  BY <1>0, <1>2 DEF generate_owner_conf, StartInv, TypeOK
<1>6. CellInv'
  BY <1>0 DEF generate_owner_conf, CellInv, TypeOK
<1> QED BY <1>3, <1>4, <1>5, <1>6 DEF IInv

\* The initialiser panics: t leaves the start sequence and the permit is
\* free; the cell is still empty.
LEMMA PanicIInv ==
    ASSUME IInv, NEW t \in Tests, pc[t] \in Starting, Panic(t),
           UNCHANGED <<cell, srv, chan, port, mine, ownerConf, userConf>>,
           timeout' \in [Tests -> -1..InitialTimeout], waiting' \in [Tests -> Nat]
    PROVE  IInv'
<1>0. /\ TypeOK /\ HolderInv /\ StartInv /\ CellInv
      /\ holder = t /\ cell = NoServer
      /\ \A u \in Tests \ {t} : pc[u] \notin Starting
  BY HolderAlone DEF IInv
<1>1. TypeOK'
  BY <1>0 DEF Panic, TypeOK, PCs, ServerIds
<1>2. HolderInv'
  BY <1>0 DEF Panic, HolderInv, TypeOK
<1>3. StartInv'
  BY <1>0 DEF Panic, StartInv, TypeOK, ServerIds
<1>4. CellInv'
  BY <1>0 DEF Panic, CellInv, TypeOK
<1> QED BY <1>1, <1>2, <1>3, <1>4 DEF IInv

LEMMA StartTestKmsServerIInv ==
    ASSUME IInv, NEW t \in Tests, start_test_kms_server(t)
    PROVE  IInv'
<1>0. /\ TypeOK /\ HolderInv /\ StartInv /\ CellInv
      /\ pc[t] = "recv" /\ holder = t /\ cell = NoServer
      /\ \A u \in Tests \ {t} : pc[u] \notin Starting
  BY HolderAlone DEF IInv, start_test_kms_server
<1>1. CASE pc' = [pc EXCEPT ![t] = "wait"] /\ UNCHANGED holder
  BY <1>0, <1>1 DEF start_test_kms_server, IInv, TypeOK, PCs, ServerIds,
                    HolderInv, StartInv, CellInv
<1>2. CASE Panic(t)
  BY <1>0, <1>2, PanicIInv DEF start_test_kms_server, TypeOK
<1> QED BY <1>1, <1>2 DEF start_test_kms_server

\* A failed poll counts down from a non-negative `timeout` and panics when
\* it goes below 0, so the loop never runs with a negative one.
LEMMA WaitForServerToStartIInv ==
    ASSUME IInv, NEW t \in Tests, wait_for_server_to_start(t)
    PROVE  IInv'
<1>0. /\ TypeOK /\ HolderInv /\ StartInv /\ CellInv
      /\ pc[t] = "wait" /\ holder = t /\ cell = NoServer
      /\ timeout[t] \in 0..InitialTimeout /\ mine[t] \in ServerIds
      /\ \A u \in Tests \ {t} : pc[u] \notin Starting
  BY HolderAlone DEF IInv, wait_for_server_to_start, StartInv, TypeOK
<1>1. CASE /\ srv[mine[t]] = "serving"
           /\ pc' = [pc EXCEPT ![t] = "new_database"]
           /\ UNCHANGED <<holder, timeout, waiting>>
  BY <1>0, <1>1 DEF wait_for_server_to_start, IInv, TypeOK, PCs, ServerIds,
                    HolderInv, StartInv, CellInv
<1>2. CASE /\ srv[mine[t]] # "serving"
           /\ timeout' = [timeout EXCEPT ![t] = @ - 1]
           /\ timeout'[t] >= 0
           /\ waiting' = [waiting EXCEPT ![t] = @ * 2]
           /\ UNCHANGED <<pc, holder>>
  BY <1>0, <1>2 DEF wait_for_server_to_start, IInv, TypeOK, PCs, ServerIds,
                    HolderInv, StartInv, CellInv
<1>3. CASE /\ srv[mine[t]] # "serving"
           /\ timeout' = [timeout EXCEPT ![t] = @ - 1]
           /\ ~(timeout'[t] >= 0)
           /\ Panic(t) /\ UNCHANGED waiting
  <2>1. timeout' \in [Tests -> -1..InitialTimeout]
    BY <1>0, <1>3 DEF TypeOK
  <2> QED BY <1>0, <1>3, <2>1, PanicIInv DEF wait_for_server_to_start, TypeOK
<1> QED BY <1>1, <1>2, <1>3 DEF wait_for_server_to_start

\* The owner conf gets the secret of t's own server.
LEMMA NewDatabaseIInv ==
    ASSUME IInv, NEW t \in Tests, new_database(t)
    PROVE  IInv'
<1>0. /\ TypeOK /\ HolderInv /\ StartInv /\ CellInv
      /\ pc[t] = "new_database" /\ holder = t /\ cell = NoServer
      /\ mine[t] \in ServerIds
      /\ \A u \in Tests \ {t} : pc[u] \notin Starting
  BY HolderAlone DEF IInv, new_database, StartInv
<1> QED BY <1>0 DEF new_database, IInv, TypeOK, PCs, ServerIds,
                    HolderInv, StartInv, CellInv

\* The context is published with the server whose secret both conf files
\* now hold, and that server serves.
LEMMA GenerateUserConfIInv ==
    ASSUME IInv, NEW t \in Tests, generate_user_conf(t)
    PROVE  IInv'
<1>0. /\ TypeOK /\ HolderInv /\ StartInv /\ CellInv
      /\ pc[t] = "user_conf" /\ holder = t /\ cell = NoServer
      /\ mine[t] \in ServerIds /\ srv[mine[t]] = "serving"
      /\ ownerConf = mine[t]
      /\ \A u \in Tests \ {t} : pc[u] \notin Starting
  BY HolderAlone DEF IInv, generate_user_conf, StartInv
<1>1. mine[t] # NoServer
  BY <1>0 DEF ServerIds
<1> QED BY <1>0, <1>1 DEF generate_user_conf, IInv, TypeOK, PCs, ServerIds,
                          HolderInv, StartInv, CellInv

-----------------------------------------------------------------------------
(* The server threads.                                                     *)
-----------------------------------------------------------------------------

\* A server thread's step changes only a thread that has not served yet;
\* a serving thread stays serving.
LEMMA ServerStepIInv ==
    ASSUME IInv, NEW i \in ServerIds, ServerStep(i)
    PROVE  IInv'
<1>0. TypeOK /\ HolderInv /\ StartInv /\ CellInv
  BY DEF IInv
<1>1. /\ srv' \in Seq(ServerStates) /\ Len(srv') = Len(srv)
      /\ chan' \in Seq(ChanStates) /\ Len(chan') = Len(chan)
      /\ srv[i] # "serving"
      /\ \A j \in ServerIds : j # i => srv'[j] = srv[j]
      /\ srv'[i] = "serving" => srv[i] = "bound"
  <2>1. CASE ServerBind(i)
    <3>1. srv[i] = "starting"
      BY <2>1 DEF ServerBind
    <3>2. CASE port = NoServer
      <4>1. srv' = [srv EXCEPT ![i] = "bound"] /\ chan' = [chan EXCEPT ![i] = "handle"]
        BY <2>1, <3>2 DEF ServerBind
      <4> QED BY <1>0, <3>1, <4>1, ExceptSeq DEF TypeOK, ServerIds, ServerStates, ChanStates
    <3>3. CASE port # NoServer
      <4>1. srv' = [srv EXCEPT ![i] = "in_use"] /\ chan' = [chan EXCEPT ![i] = "closed"]
        BY <2>1, <3>3 DEF ServerBind
      <4> QED BY <1>0, <3>1, <4>1, ExceptSeq DEF TypeOK, ServerIds, ServerStates, ChanStates
    <3> QED BY <3>2, <3>3
  <2>2. CASE ServerFail(i)
    BY <1>0, <2>2, ExceptSeq DEF ServerFail, TypeOK, ServerIds, ServerStates, ChanStates
  <2>3. CASE ServerServe(i)
    BY <1>0, <2>3, ExceptSeq DEF ServerServe, TypeOK, ServerIds, ServerStates, ChanStates
  <2> QED BY <2>1, <2>2, <2>3 DEF ServerStep
<1>2. /\ UNCHANGED <<pc, holder, cell, mine, timeout, waiting, ownerConf, userConf>>
      /\ port' \in {port, i}
  BY DEF ServerStep, ServerBind, ServerFail, ServerServe
<1>3. ServerIds' = ServerIds
  BY <1>1 DEF ServerIds
<1>4. TypeOK'
  BY <1>0, <1>1, <1>2, <1>3 DEF TypeOK
<1>5. StartInv'
  BY <1>0, <1>1, <1>2, <1>3 DEF StartInv, TypeOK
<1>6. CellInv'
  BY <1>0, <1>1, <1>2 DEF CellInv, TypeOK
<1> QED BY <1>0, <1>2, <1>4, <1>5, <1>6 DEF IInv, HolderInv

-----------------------------------------------------------------------------
(* The theorems.                                                           *)
-----------------------------------------------------------------------------

LEMMA NextIInv == IInv /\ [Next]_vars => IInv'
<1> SUFFICES ASSUME IInv, [Next]_vars PROVE IInv'
  OBVIOUS
<1>1. CASE \E t \in Tests : TaskStep(t)
  <2>1. PICK t \in Tests : TaskStep(t)
    BY <1>1
  <2> QED BY <2>1, GetOrTryInitIInv, GenerateOwnerConfIInv,
             StartTestKmsServerIInv, WaitForServerToStartIInv,
             NewDatabaseIInv, GenerateUserConfIInv DEF TaskStep
<1>2. CASE \E i \in ServerIds : ServerStep(i)
  BY <1>2, ServerStepIInv
<1>3. CASE UNCHANGED vars
  BY <1>3 DEF vars, IInv, TypeOK, ServerIds, HolderInv, StartInv, CellInv
<1> QED BY <1>1, <1>2, <1>3 DEF Next

LEMMA SpecIInv == Spec => []IInv
BY InitIInv, NextIInv, PTL DEF Spec

\* For any set of test tasks, the state of the harness keeps its type:
\* in particular `timeout` never goes below -1 and the sequence of
\* spawned servers and of their channels grow together.
THEOREM TypeCorrect == Spec => []TypeOK
BY SpecIInv, PTL DEF IInv

\* For any set of test tasks, whatever the servers do and whichever
\* initialisers panic or time out: a task that got the context reads conf
\* files with the secret of the context's server, and that server answers.
THEOREM ContextCorrect == Spec => []ContextConsistent
<1>1. IInv => ContextConsistent
  BY DEF IInv, CellInv, ContextConsistent
<1> QED BY <1>1, SpecIInv, PTL

=============================================================================

------------------------------ MODULE TestServer ------------------------------
(***************************************************************************)
(* The shared test KMS server of test_server/src/test_server.rs.           *)
(*                                                                         *)
(* Tests run as concurrent tasks of one test binary.  Each obtains the     *)
(* test context through the process-wide cell ONCE (a tokio OnceCell):     *)
(* one task at a time holds the cell's initialisation permit and runs      *)
(* start_test_server_with_options; the others wait on the cell.  When the  *)
(* initialising task panics (every `expect` of the start sequence) the     *)
(* permit is released with the cell still empty and a waiting task starts  *)
(* the sequence again.                                                     *)
(*                                                                         *)
(* The start sequence: write the owner client conf without database secret *)
(* (generate_owner_conf), spawn the server thread with a handle channel    *)
(* and block on it for at most 25 s (start_test_kms_server), poll the      *)
(* server's version with at most 6 attempts (wait_for_server_to_start),    *)
(* create the database and rewrite the owner conf with its secret, write   *)
(* the user conf, publish the context.                                     *)
(*                                                                         *)
(* A server thread (start_kms_server, not in this repository) binds the    *)
(* fixed port, sends its handle, then serves; it fails, dropping the       *)
(* channel's sender, when it cannot open its database or bind the port.    *)
(* Time is abstracted: a 25 s timeout or an unanswered poll may happen at  *)
(* any point where the awaited event has not happened yet.                 *)
(***************************************************************************)
EXTENDS Integers, Sequences

CONSTANTS
    Tests,          \* the test tasks that call ONCE.get_or_try_init
    NoTest          \* no task holds the initialisation permit

ASSUME TestsAssumption == NoTest \notin Tests

\* wait_for_server_to_start: `let mut timeout = 5; let mut waiting = 1;`
InitialTimeout == 5
InitialWaiting == 1

NoServer == 0

VARIABLES
    pc,         \* per task: where it is in the get_or_try_init call
    holder,     \* the task holding the cell's initialisation permit
    cell,       \* the published context: the index of its server, or NoServer
    srv,        \* srv[i]: state of the i-th server thread ever spawned
    chan,       \* chan[i]: the handle channel of the i-th server thread
    port,       \* the server thread bound to the fixed port, or NoServer
    mine,       \* mine[t]: the server thread task t spawned
    timeout,    \* timeout[t]: wait_for_server_to_start's `timeout`
    waiting,    \* waiting[t]: wait_for_server_to_start's `waiting`
    ownerConf,  \* /tmp/owner_kms_{port}.json: the server whose secret it holds
    userConf    \* /tmp/user_kms_{port}.json: the server whose secret it holds

vars == <<pc, holder, cell, srv, chan, port, mine, timeout, waiting,
          ownerConf, userConf>>

PCs == {"idle", "blocked", "owner_conf", "recv", "wait", "new_database",
        "user_conf", "ready", "panicked"}
ServerStates == {"starting", "bound", "serving", "failed", "in_use"}
ChanStates == {"empty", "handle", "closed"}

\* The conf files hold a server's secret, NoServer when written without one
\* (generate_owner_conf), and are absent before the first write.
Absent == -1

ServerIds == 1..Len(srv)

TypeOK ==
    /\ pc \in [Tests -> PCs]
    /\ holder \in Tests \cup {NoTest}
    /\ srv \in Seq(ServerStates)
    /\ chan \in Seq(ChanStates) /\ Len(chan) = Len(srv)
    /\ cell \in ServerIds \cup {NoServer}
    /\ port \in ServerIds \cup {NoServer}
    /\ mine \in [Tests -> ServerIds \cup {NoServer}]
    /\ timeout \in [Tests -> -1..InitialTimeout]
    /\ waiting \in [Tests -> Nat]
    /\ ownerConf \in ServerIds \cup {NoServer, Absent}
    /\ userConf \in ServerIds \cup {NoServer, Absent}

Init ==
    /\ pc = [t \in Tests |-> "idle"]
    /\ holder = NoTest
    /\ cell = NoServer
    /\ srv = <<>>
    /\ chan = <<>>
    /\ port = NoServer
    /\ mine = [t \in Tests |-> NoServer]
    /\ timeout = [t \in Tests |-> InitialTimeout]
    /\ waiting = [t \in Tests |-> InitialWaiting]
    /\ ownerConf = Absent
    /\ userConf = Absent

-----------------------------------------------------------------------------
(* The test tasks.                                                         *)
-----------------------------------------------------------------------------

\* ONCE.get_or_try_init: a published context is returned at once; else the
\* caller takes the free permit and runs the initialiser, or waits.
\* Fault variant: a caller returns without looking at the cell.
get_or_try_init_early(t) ==
    /\ pc[t] \in {"idle", "blocked"}
    /\ \/ /\ pc' = [pc EXCEPT ![t] = "ready"]
          /\ UNCHANGED holder
       \/ /\ cell = NoServer
          /\ holder = NoTest
          /\ holder' = t
          /\ pc' = [pc EXCEPT ![t] = "owner_conf"]
    /\ UNCHANGED <<cell, srv, chan, port, mine, timeout, waiting,
                   ownerConf, userConf>>

get_or_try_init(t) ==
    /\ pc[t] \in {"idle", "blocked"}
    /\ \/ /\ cell # NoServer
          /\ pc' = [pc EXCEPT ![t] = "ready"]
          /\ UNCHANGED holder
       \/ /\ cell = NoServer
          /\ holder = NoTest
          /\ holder' = t
          /\ pc' = [pc EXCEPT ![t] = "owner_conf"]
       \/ /\ cell = NoServer
          /\ holder # NoTest
          /\ pc[t] = "idle"
          /\ pc' = [pc EXCEPT ![t] = "blocked"]
          /\ UNCHANGED holder
    /\ UNCHANGED <<cell, srv, chan, port, mine, timeout, waiting,
                   ownerConf, userConf>>

\* The initialiser panics: the permit is released, the cell stays empty.
Panic(t) ==
    /\ pc' = [pc EXCEPT ![t] = "panicked"]
    /\ holder' = NoTest

\* generate_owner_conf writes the conf without database secret, then
\* start_test_kms_server spawns the server thread with a fresh channel.
generate_owner_conf(t) ==
    /\ pc[t] = "owner_conf"
    /\ ownerConf' = NoServer
    /\ srv' = Append(srv, "starting")
    /\ chan' = Append(chan, "empty")
    /\ mine' = [mine EXCEPT ![t] = Len(srv) + 1]
    /\ timeout' = [timeout EXCEPT ![t] = InitialTimeout]
    /\ waiting' = [waiting EXCEPT ![t] = InitialWaiting]
    /\ pc' = [pc EXCEPT ![t] = "recv"]
    /\ UNCHANGED <<holder, cell, port, userConf>>

\* start_test_kms_server: rx.recv_timeout(25 s).expect(...) panics on a
\* closed channel and on the timeout.
start_test_kms_server(t) ==
    /\ pc[t] = "recv"
    /\ \/ /\ chan[mine[t]] = "handle"
          /\ pc' = [pc EXCEPT ![t] = "wait"]
          /\ UNCHANGED holder
       \/ /\ chan[mine[t]] \in {"empty", "closed"}
          /\ Panic(t)
    /\ UNCHANGED <<cell, srv, chan, port, mine, timeout, waiting,
                   ownerConf, userConf>>

\* Fault variants: `retry = timeout >= -1` (one attempt too many), and a
\* failed poll that neither counts nor waits.
wait_for_server_to_start_offbyone(t) ==
    /\ pc[t] = "wait"
    /\ \/ /\ srv[mine[t]] = "serving"
          /\ pc' = [pc EXCEPT ![t] = "new_database"]
          /\ UNCHANGED <<holder, timeout, waiting>>
       \/ /\ srv[mine[t]] # "serving"
          /\ timeout' = [timeout EXCEPT ![t] = @ - 1]
          /\ IF timeout'[t] >= -1
               THEN /\ waiting' = [waiting EXCEPT ![t] = @ * 2]
                    /\ UNCHANGED <<pc, holder>>
               ELSE /\ Panic(t)
                    /\ UNCHANGED waiting
    /\ UNCHANGED <<cell, srv, chan, port, mine, ownerConf, userConf>>

wait_for_server_to_start_nodec(t) ==
    /\ pc[t] = "wait"
    /\ \/ /\ srv[mine[t]] = "serving"
          /\ pc' = [pc EXCEPT ![t] = "new_database"]
          /\ UNCHANGED <<holder, timeout, waiting>>
       \/ /\ srv[mine[t]] # "serving"
          /\ UNCHANGED <<pc, holder, timeout, waiting>>
    /\ UNCHANGED <<cell, srv, chan, port, mine, ownerConf, userConf>>

\* One iteration of wait_for_server_to_start's loop: the version request
\* succeeds once the server serves; a failure decrements `timeout`, sleeps
\* `waiting` seconds and doubles it while `timeout >= 0`, else bails, and
\* the caller's expect("server timeout") panics.
wait_for_server_to_start(t) ==
    /\ pc[t] = "wait"
    /\ \/ /\ srv[mine[t]] = "serving"
          /\ pc' = [pc EXCEPT ![t] = "new_database"]
          /\ UNCHANGED <<holder, timeout, waiting>>
       \/ /\ srv[mine[t]] # "serving"
          /\ timeout' = [timeout EXCEPT ![t] = @ - 1]
          /\ IF timeout'[t] >= 0
               THEN /\ waiting' = [waiting EXCEPT ![t] = @ * 2]
                    /\ UNCHANGED <<pc, holder>>
               ELSE /\ Panic(t)
                    /\ UNCHANGED waiting
    /\ UNCHANGED <<cell, srv, chan, port, mine, ownerConf, userConf>>

\* Fault variant: the conf is not rewritten with the database secret.
new_database_unsaved(t) ==
    /\ pc[t] = "new_database"
    /\ pc' = [pc EXCEPT ![t] = "user_conf"]
    /\ UNCHANGED <<holder, cell, srv, chan, port, mine, timeout, waiting,
                   ownerConf, userConf>>

\* kms_client.new_database() on the started server, then the owner conf is
\* rewritten with the returned secret.
new_database(t) ==
    /\ pc[t] = "new_database"
    /\ ownerConf' = mine[t]
    /\ pc' = [pc EXCEPT ![t] = "user_conf"]
    /\ UNCHANGED <<holder, cell, srv, chan, port, mine, timeout, waiting,
                   userConf>>

\* generate_user_conf clones the owner conf into the user conf file; the
\* context is published and the permit released.
generate_user_conf(t) ==
    /\ pc[t] = "user_conf"
    /\ userConf' = ownerConf
    /\ cell' = mine[t]
    /\ holder' = NoTest
    /\ pc' = [pc EXCEPT ![t] = "ready"]
    /\ UNCHANGED <<srv, chan, port, mine, timeout, waiting, ownerConf>>

-----------------------------------------------------------------------------
(* The server threads (start_kms_server).                                  *)
-----------------------------------------------------------------------------

\* The server binds the port and sends its handle; the bind fails on a port
\* another server holds ("Address already in use").
ServerBind(i) ==
    /\ srv[i] = "starting"
    /\ IF port = NoServer
         THEN /\ port' = i
              /\ srv' = [srv EXCEPT ![i] = "bound"]
              /\ chan' = [chan EXCEPT ![i] = "handle"]
         ELSE /\ srv' = [srv EXCEPT ![i] = "in_use"]
              /\ chan' = [chan EXCEPT ![i] = "closed"]
              /\ UNCHANGED port
    /\ UNCHANGED <<pc, holder, cell, mine, timeout, waiting, ownerConf, userConf>>

\* The server fails before binding (database, TLS or runtime error).
ServerFail(i) ==
    /\ srv[i] = "starting"
    /\ srv' = [srv EXCEPT ![i] = "failed"]
    /\ chan' = [chan EXCEPT ![i] = "closed"]
    /\ UNCHANGED <<pc, holder, cell, port, mine, timeout, waiting,
                   ownerConf, userConf>>

\* The bound server starts answering requests.
ServerServe(i) ==
    /\ srv[i] = "bound"
    /\ srv' = [srv EXCEPT ![i] = "serving"]
    /\ UNCHANGED <<pc, holder, cell, chan, port, mine, timeout, waiting,
                   ownerConf, userConf>>

TaskStep(t) ==
    \/ get_or_try_init(t)
    \/ generate_owner_conf(t)
    \/ start_test_kms_server(t)
    \/ wait_for_server_to_start(t)
    \/ new_database(t)
    \/ generate_user_conf(t)

ServerStep(i) == ServerBind(i) \/ ServerFail(i) \/ ServerServe(i)

Next ==
    \/ \E t \in Tests : TaskStep(t)
    \/ \E i \in ServerIds : ServerStep(i)

\* Tasks are scheduled by the test runtime and never stop while one of
\* their steps is enabled; server threads get no fairness (a server may be
\* arbitrarily slow), which the timeouts of the start sequence cover.
Spec == Init /\ [][Next]_vars /\ \A t \in Tests : WF_vars(TaskStep(t))

-----------------------------------------------------------------------------
(* Properties.                                                             *)
-----------------------------------------------------------------------------

\* A task that holds the context finds the owner and user conf files
\* written with the database secret of the context's server, and that
\* server answering: generate_owner_conf's first write (no secret) and an
\* abandoned start's files are never what a test reads.
ContextConsistent ==
    \A t \in Tests :
        pc[t] = "ready" =>
            /\ cell # NoServer
            /\ ownerConf = cell
            /\ userConf = cell
            /\ srv[cell] = "serving"

\* Every test task eventually holds the context or has panicked: the
\* 25 s handle timeout and the bounded version polling end every start
\* attempt, and a released permit is taken by a waiting task.
StartTerminates == \A t \in Tests : <>(pc[t] \in {"ready", "panicked"})

\* The comment above ONCE: the cell exists so that the tests do not start
\* one server each and fail with "Address already in use"; no server
\* thread should ever fail on the port.
SingleServer == \A i \in ServerIds : srv[i] # "in_use"

=============================================================================

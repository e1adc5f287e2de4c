---------------------------- MODULE InsertKeypairs ----------------------------
(***************************************************************************)
(* The CLI action `google keypairs insert`                                 *)
(* (cli/src/actions/google/keypairs/insert_keypairs.rs).                   *)
(*                                                                         *)
(* run builds a Gmail client for the requester (a service-account token),  *)
(* lists the *.wrap files of the key directory and the *.p7pem files of   *)
(* the certificate directory, keys both by e-mail (the file's basename),   *)
(* then, in the HashMap's arbitrary order, posts one keypair per e-mail    *)
(* that has both files.  Every error before the post's response (a         *)
(* missing directory, an unreadable or malformed key file, an unreadable   *)
(* certificate, a failed HTTP request) aborts the whole run with `?`; an   *)
(* error the Gmail API answers is printed and the loop goes on.            *)
(*                                                                         *)
(* The files are abstract: per e-mail, the state of its key file and of    *)
(* its certificate file.  Gmail is the environment: it may accept or       *)
(* refuse a keypair, and a request that fails in transport may or may not  *)
(* have reached it.  An operator may run the command again, MaxRuns times. *)
(***************************************************************************)
EXTENDS Naturals

CONSTANTS
    Emails,     \* the users the directories hold files for (a finite set)
    MaxRuns     \* bound on the times the command is run (a natural)

\* The state of <email>.wrap in the key directory and of <email>.p7pem in
\* the certificate directory ("none": no such regular file).
KeyFiles == {"none", "valid", "badjson", "unreadable"}
CertFiles == {"none", "valid", "unreadable"}

VARIABLES
    keyDir,     \* keyDir[e]: the key file of e
    certDir,    \* certDir[e]: the certificate file of e
    pc,         \* where the CLI is: "idle", "loop", "done" or "error"
    keyMap,     \* email_key_file_map's keys
    certMap,    \* email_cert_file_map's keys
    todo,       \* the e-mails of keyMap the loop has not reached
    attempted,  \* the e-mails this run posted a keypair for
    gmail,      \* the e-mails Gmail holds a keypair of
    runs        \* the times the command was run

vars == <<keyDir, certDir, pc, keyMap, certMap, todo, attempted, gmail, runs>>

Init ==
    /\ keyDir \in [Emails -> KeyFiles]
    /\ certDir \in [Emails -> CertFiles]
    /\ pc = "idle"
    /\ keyMap = {} /\ certMap = {} /\ todo = {} /\ attempted = {}
    /\ gmail = {}
    /\ runs = 0

\* get_input_files then get_email_to_file: the e-mails with a regular file
\* of the extension.
EmailToFile(dir) == {e \in Emails : dir[e] # "none"}

\* run, lines 140-151: GmailClient::new (the token may be refused), then
\* both directories listed (read_dir fails on a missing directory): either
\* fails the run.  The operator may run the command again once a run has
\* ended.
run ==
    /\ pc \in {"idle", "done", "error"}
    /\ runs < MaxRuns
    /\ runs' = runs + 1
    /\ attempted' = {}
    /\ \/ /\ keyMap' = EmailToFile(keyDir)
          /\ certMap' = EmailToFile(certDir)
          /\ todo' = EmailToFile(keyDir)
          /\ pc' = "loop"
       \/ /\ pc' = "error"
          /\ UNCHANGED <<keyMap, certMap, todo>>
    /\ UNCHANGED <<keyDir, certDir, gmail>>

\* post_keypairs, lines 102-138: read and parse the key file, read the
\* certificate, post; a transport error aborts (Gmail may have applied the
\* request or not), a refusal by Gmail is printed and ignored.
post_keypairs(e) ==
    /\ attempted' = attempted \cup {e}
    /\ IF keyDir[e] = "valid" /\ certDir[e] = "valid"
         THEN \/ /\ gmail' = gmail \cup {e}          \* 2xx
                 /\ UNCHANGED pc
              \/ /\ UNCHANGED <<gmail, pc>>           \* API error, printed
              \/ /\ pc' = "error"                     \* transport error
                 /\ gmail' \in {gmail, gmail \cup {e}}
         ELSE /\ pc' = "error"
              /\ UNCHANGED gmail

\* run, lines 152-158: one iteration over email_key_file_map; an e-mail
\* without certificate is skipped.
loop_step ==
    /\ pc = "loop"
    /\ \E e \in todo :
          /\ todo' = todo \ {e}
          /\ IF e \in certMap
               THEN post_keypairs(e)
               ELSE UNCHANGED <<pc, attempted, gmail>>
    /\ UNCHANGED <<keyDir, certDir, keyMap, certMap, runs>>

\* run, line 159: the loop is over, Ok(()).
loop_end ==
    /\ pc = "loop"
    /\ todo = {}
    /\ pc' = "done"
    /\ UNCHANGED <<keyDir, certDir, keyMap, certMap, todo, attempted, gmail, runs>>

Next == run \/ loop_step \/ loop_end

\* The CLI runs to its end once started; nothing is assumed of the operator.
Spec == Init /\ [][Next]_vars /\ WF_vars(loop_step \/ loop_end)

-----------------------------------------------------------------------------

\* The e-mails the directories give both a key file and a certificate for.
Paired == EmailToFile(keyDir) \cap EmailToFile(certDir)

\* A run that exits with Ok has posted a keypair for every e-mail that has
\* both a key file and a certificate, whatever the order the HashMap
\* yields them in and whichever e-mails lack a certificate.
AllPairedAttempted == pc = "done" => Paired \subseteq attempted

\* Spec, error handling: the front-ends present every failure through
\* their exit code and nothing is swallowed silently; so a run of the
\* command that exits with Ok has left Gmail holding a keypair for every
\* e-mail with both a key file and a certificate.
AllPairedInserted == pc = "done" => Paired \subseteq gmail

=============================================================================

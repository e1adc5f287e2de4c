-------------------------- MODULE InsertKeypairsProofs --------------------------
(***************************************************************************)
(* Proof, for any set of e-mails and any number of runs, that a run of     *)
(* `google keypairs insert` that exits with Ok has posted every e-mail     *)
(* with both files.  The property is not inductive: during the loop, the   *)
(* e-mails with both files are either attempted or still to come, and the  *)
(* maps the loop reads are those of the directories.                       *)
(***************************************************************************)
EXTENDS InsertKeypairs, TLAPS

PCs == {"idle", "loop", "done", "error"}

TypeOK ==
    /\ keyDir \in [Emails -> KeyFiles]
    /\ certDir \in [Emails -> CertFiles]
    /\ pc \in PCs
    /\ keyMap \subseteq Emails /\ certMap \subseteq Emails
    /\ todo \subseteq Emails /\ attempted \subseteq Emails
    /\ gmail \subseteq Emails
    /\ runs \in Nat

\* The loop's view: the maps are those of the directories, and an e-mail
\* with both files is either posted already or still in the iterator.
LoopInv ==
    pc = "loop" =>
        /\ keyMap = EmailToFile(keyDir)
        /\ certMap = EmailToFile(certDir)
        /\ Paired \subseteq attempted \cup todo

IInv == TypeOK /\ LoopInv /\ AllPairedAttempted

LEMMA InitIInv == Init => IInv
BY DEF Init, IInv, TypeOK, PCs, LoopInv, AllPairedAttempted

\* What post_keypairs does, whichever way it ends.
LEMMA PostKeypairs ==
    ASSUME NEW e \in Emails, gmail \subseteq Emails, post_keypairs(e)
    PROVE  /\ attempted' = attempted \cup {e}
           /\ pc' \in {pc, "error"}
           /\ gmail' \subseteq Emails
BY DEF post_keypairs

LEMMA RunIInv == IInv /\ run => IInv'
<1> SUFFICES ASSUME IInv, run PROVE IInv'
  OBVIOUS
<1>1. TypeOK'
  BY DEF IInv, TypeOK, run, PCs, EmailToFile
<1>2. LoopInv'
  BY DEF IInv, TypeOK, run, LoopInv, Paired, EmailToFile
<1>3. AllPairedAttempted'
  BY DEF run, AllPairedAttempted
<1> QED BY <1>1, <1>2, <1>3 DEF IInv

LEMMA LoopStepIInv == IInv /\ loop_step => IInv'
<1> SUFFICES ASSUME IInv, loop_step PROVE IInv'
  OBVIOUS
<1>0. TypeOK /\ LoopInv /\ pc = "loop"
  BY DEF IInv, loop_step
<1>1. PICK e \in todo :
        /\ todo' = todo \ {e}
        /\ IF e \in certMap THEN post_keypairs(e)
                            ELSE UNCHANGED <<pc, attempted, gmail>>
  BY DEF loop_step
<1>2. UNCHANGED <<keyDir, certDir, keyMap, certMap, runs>>
  BY DEF loop_step
<1>3. e \in Emails
  BY <1>0 DEF TypeOK
<1>4. CASE e \in certMap
  <2>1. /\ attempted' = attempted \cup {e}
        /\ pc' \in {"loop", "error"}
        /\ gmail' \subseteq Emails
    BY <1>0, <1>1, <1>3, <1>4, PostKeypairs DEF TypeOK
  <2>2. TypeOK'
    BY <1>0, <1>1, <1>2, <1>3, <2>1 DEF TypeOK, PCs
  <2>3. LoopInv'
    BY <1>0, <1>1, <1>2, <2>1 DEF LoopInv, Paired
  <2> QED BY <2>1, <2>2, <2>3 DEF IInv, AllPairedAttempted
<1>5. CASE e \notin certMap
  <2>1. UNCHANGED <<pc, attempted, gmail>>
    BY <1>1, <1>5
  <2>2. e \notin Paired
    BY <1>0, <1>5 DEF LoopInv, Paired
  <2>3. TypeOK'
    BY <1>0, <1>1, <1>2, <2>1 DEF TypeOK
  <2>4. LoopInv'
    BY <1>0, <1>1, <1>2, <2>1, <2>2 DEF LoopInv, Paired
  <2> QED BY <1>0, <2>1, <2>3, <2>4 DEF IInv, AllPairedAttempted
<1> QED BY <1>4, <1>5

LEMMA LoopEndIInv == IInv /\ loop_end => IInv'
BY DEF IInv, TypeOK, PCs, LoopInv, AllPairedAttempted, loop_end, Paired

LEMMA NextIInv == IInv /\ [Next]_vars => IInv'
<1> SUFFICES ASSUME IInv, [Next]_vars PROVE IInv'
  OBVIOUS
<1>1. CASE run
  BY <1>1, RunIInv
<1>2. CASE loop_step
  BY <1>2, LoopStepIInv
<1>3. CASE loop_end
  BY <1>3, LoopEndIInv
<1>4. CASE UNCHANGED vars
  BY <1>4 DEF vars, IInv, TypeOK, LoopInv, AllPairedAttempted, Paired, EmailToFile
<1> QED BY <1>1, <1>2, <1>3, <1>4 DEF Next

\* For every set of e-mails: a run that ends with Ok, in whatever order the
\* HashMap yields the e-mails and whichever of them it skips, has posted a
\* keypair for each e-mail with both a key file and a certificate.
THEOREM PairedAttempted == Spec => []AllPairedAttempted
<1>1. Spec => []IInv
  BY InitIInv, NextIInv, PTL DEF Spec
<1> QED BY <1>1, PTL DEF IInv

=============================================================================

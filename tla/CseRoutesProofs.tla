---------------------------- MODULE CseRoutesProofs ----------------------------
(***************************************************************************)
(* Proof, for every set of DEKs, resources and error codes, of the unwrap   *)
(* property of the Google CSE routes that MC_CseRoutes.cfg checks.  It is   *)
(* about the last reply and the request it answers, and every step that     *)
(* sends a reply establishes it afresh; it also needs the issued blobs to   *)
(* be genuine records, so that a blob is the DEK and resource it carries.   *)
(***************************************************************************)
EXTENDS CseRoutes, TLAPS

USE CseAssumption

\* The wrapped keys issued so far are genuine blobs.
IssuedOK == issued \subseteq Blobs

\* The inductive invariant of the unwrap property.
IInv == IssuedOK /\ UnwrapReturnsWrappedDek

MappedCodes == {400, 401, 403, 404, 405, 422}

\* The status From<CseErrorReply> gives an error code is an error status,
\* and the code itself when the match names it.
LEMMA HttpStatusOfFaithful ==
    ASSUME NEW code \in ErrorCodes
    PROVE  /\ HttpStatusOf(code) \in Nat
           /\ HttpStatusOf(code) >= 400
           /\ code \in MappedCodes => HttpStatusOf(code) = code
BY DEF HttpStatusOf, MappedCodes

\* The reply of an implemented endpoint to the outcome `code`: a result
\* under 200, or an error reply with an error status.
LEMMA RespondFaithful ==
    ASSUME NEW ep, NEW code \in ErrorCodes \cup {0}, NEW v, Respond(ep, code, v)
    PROVE  /\ reply'.endpoint = ep
           /\ code = 0 => reply'.status = 200 /\ reply'.body = "result"
                          /\ reply'.value = v
           /\ code # 0 => /\ reply'.body = "error"
                          /\ reply'.status \in Nat
                          /\ reply'.status >= 400
                          /\ reply'.code \in MappedCodes => reply'.status = reply'.code
<1>1. CASE code = 0
  BY <1>1 DEF Respond, OkReply
<1>2. CASE code # 0
  <2>1. code \in ErrorCodes
    BY <1>2
  <2>2. reply' = CseErrorReplyFrom(ep, code)
    BY <1>2 DEF Respond
  <2> QED BY <2>1, <2>2, HttpStatusOfFaithful DEF CseErrorReplyFrom
<1> QED BY <1>1, <1>2

-----------------------------------------------------------------------------
(* Unwrap.                                                                 *)
-----------------------------------------------------------------------------

LEMMA InitIInv == Init => IInv
BY DEF Init, IInv, IssuedOK, UnwrapReturnsWrappedDek

\* A step whose reply is not unwrap's, and that only adds genuine blobs,
\* keeps the invariant.
LEMMA OtherReply ==
    ASSUME IssuedOK, issued' \subseteq Blobs,
           reply' # NoValue => reply'.endpoint # "unwrap"
    PROVE  IInv'
BY DEF IInv, IssuedOK, UnwrapReturnsWrappedDek

LEMMA NextIInv == IInv /\ [Next]_vars => IInv'
<1> SUFFICES ASSUME IInv, [Next]_vars PROVE IInv'
  OBVIOUS
<1>0. IssuedOK
  BY DEF IInv
<1>1. CASE get_status
  BY <1>0, <1>1, OtherReply DEF get_status, OkReply, IssuedOK
<1>2. CASE \E ep \in NotImplementedEndpoints : not_implemented(ep)
  BY <1>0, <1>2, OtherReply DEF not_implemented, NotImplementedEndpoints, IssuedOK
<1>3. CASE \E d \in Deks, r \in Resources : wrap(d, r)
  <2>1. PICK d \in Deks, r \in Resources, code \in ErrorCodes \cup {0} :
          /\ Respond("wrap", code, [dek |-> d, resource |-> r])
          /\ issued' = IF code = 0 THEN issued \cup {[dek |-> d, resource |-> r]}
                       ELSE issued
    BY <1>3 DEF wrap
  <2>2. issued' \subseteq Blobs
    BY <1>0, <2>1 DEF IssuedOK, Blobs
  <2>3. reply'.endpoint = "wrap"
    BY <2>1, RespondFaithful
  <2> QED BY <1>0, <2>2, <2>3, OtherReply
<1>4. CASE \E b \in issued \cup {Forged}, r \in Resources : unwrap(b, r)
  <2>1. PICK b \in issued \cup {Forged}, r \in Resources, code \in ErrorCodes \cup {0} :
          /\ code = 0 => b \in issued /\ b.resource = r
          /\ Respond("unwrap", code, IF code = 0 THEN b.dek ELSE NoValue)
          /\ asked' = r
          /\ UNCHANGED issued
    BY <1>4 DEF unwrap
  <2>2. reply'.endpoint = "unwrap"
    BY <2>1, RespondFaithful
  <2>3. CASE code = 0
    <3>1. b \in Blobs
      BY <1>0, <2>1, <2>3 DEF IssuedOK
    <3>2. [dek |-> reply'.value, resource |-> asked'] = b
      BY <2>1, <2>3, <3>1, RespondFaithful DEF Blobs
    <3>3. reply'.status < 300 /\ reply'.body = "result"
      BY <2>1, <2>3, RespondFaithful
    <3>4. b.resource \in Resources
      BY <3>1 DEF Blobs
    <3> QED BY <1>0, <2>1, <2>3, <3>2, <3>3, <3>4
            DEF IInv, IssuedOK, UnwrapReturnsWrappedDek
  <2>4. CASE code # 0
    <3>1. reply'.status \in Nat /\ reply'.status >= 400 /\ reply'.body = "error"
      BY <2>1, <2>4, RespondFaithful
    <3>2. ~(reply'.status < 300)
      BY <3>1
    <3> QED BY <1>0, <2>1, <3>1, <3>2 DEF IInv, IssuedOK, UnwrapReturnsWrappedDek
  <2> QED BY <2>3, <2>4
<1>5. CASE \E b \in issued \cup {Forged} : private_key_sign(b)
  <2>1. PICK b \in issued \cup {Forged}, code \in ErrorCodes \cup {0} :
          /\ Respond("privatekeysign", code, IF code = 0 THEN b.dek ELSE NoValue)
          /\ UNCHANGED issued
    BY <1>5 DEF private_key_sign
  <2> QED BY <1>0, <2>1, RespondFaithful, OtherReply DEF IssuedOK
<1>6. CASE \E b \in issued \cup {Forged} : private_key_decrypt(b)
  <2>1. PICK b \in issued \cup {Forged}, code \in ErrorCodes \cup {0} :
          /\ Respond("privatekeydecrypt", code, IF code = 0 THEN b.dek ELSE NoValue)
          /\ UNCHANGED issued
    BY <1>6 DEF private_key_decrypt
  <2> QED BY <1>0, <2>1, RespondFaithful, OtherReply DEF IssuedOK
<1>7. CASE UNCHANGED vars
  BY <1>7 DEF vars, IInv, IssuedOK, UnwrapReturnsWrappedDek
<1> QED BY <1>1, <1>2, <1>3, <1>4, <1>5, <1>6, <1>7 DEF Next

\* For every set of DEKs, resources and error codes: a 2xx reply of unwrap
\* hands out only a DEK that an earlier wrap bound to the very resource the
\* unwrap request names, and a failed unwrap never gets a success status.
THEOREM UnwrapCorrect == Spec => []UnwrapReturnsWrappedDek
<1>1. Spec => []IInv
  BY InitIInv, NextIInv, PTL DEF Spec
<1> QED BY <1>1, PTL DEF IInv

=============================================================================

------------------------------ MODULE CseRoutes ------------------------------
(***************************************************************************)
(* The Google client-side-encryption routes of the server                  *)
(* (server/src/routes/google_cse/mod.rs): the HTTP handlers that Google    *)
(* Workspace calls as its key access control list service.                 *)
(*                                                                         *)
(* wrap, unwrap, privatekeysign and privatekeydecrypt call the matching    *)
(* function of the operations module and reply 200 with its JSON result,  *)
(* or turn its KmsError into a CseErrorReply whose HTTP status is the      *)
(* error's code when that is 400, 401, 403, 404, 405 or 422 and 500        *)
(* otherwise.  digest, privilegedprivatekeydecrypt, privilegedunwrap,      *)
(* privilegedwrap, rewrap and wrapprivatekey are not implemented and reply *)
(* 200 with an empty body.  get_status replies the status once the caller  *)
(* is identified, else the KmsError's own status.                          *)
(*                                                                         *)
(* The operations module is not in this repository; it is modelled from   *)
(* the spec's wrapping engine and authorization gate: a call fails with    *)
(* one of ErrorCodes (JWT or authorization failure, malformed request,     *)
(* storage error), and unwrap returns the DEK only of a blob that wrap     *)
(* produced for the same resource (the integrity check of the spec's       *)
(* unwrap).  Blobs are abstract: a blob is the DEK and resource it was     *)
(* made for, or Forged.                                                    *)
(***************************************************************************)
EXTENDS Naturals

CONSTANTS
    Deks,           \* data encryption keys clients ask to wrap
    Resources,      \* resource names the wraps are bound to
    ErrorCodes,     \* HTTP codes of the KmsErrors the operations can fail with
    Forged,         \* a wrapped key that wrap never produced
    NoValue         \* no value in a reply body

ASSUME CseAssumption ==
    /\ ErrorCodes \subseteq 400..599
    /\ Forged \notin [dek : Deks, resource : Resources]
    /\ NoValue \notin Deks

\* The endpoints whose handler only logs "not implemented yet".
NotImplementedEndpoints ==
    {"digest", "privilegedprivatekeydecrypt", "privilegedunwrap",
     "privilegedwrap", "rewrap", "wrapprivatekey"}
Endpoints ==
    {"status", "wrap", "unwrap", "privatekeysign", "privatekeydecrypt"}
        \cup NotImplementedEndpoints

\* The endpoints whose reply carries the key, signature or digest the
\* client asked for.
ResultEndpoints == Endpoints \ {"status"}

Blobs == [dek : Deks, resource : Resources]

VARIABLES
    issued,     \* the wrapped keys wrap has returned
    reply,      \* the last reply sent
    asked       \* the resource the last unwrap request named (history)

vars == <<issued, reply, asked>>

Init ==
    /\ issued = {}
    /\ reply = NoValue
    /\ asked = NoValue

\* impl From<CseErrorReply> for HttpResponse: the status of an error reply.
HttpStatusOf(code) ==
    IF code \in {400, 401, 403, 404, 405, 422} THEN code ELSE 500

\* CseErrorReply::from, then into(): the reply of an endpoint to an error.
CseErrorReplyFrom(ep, code) ==
    [endpoint |-> ep, status |-> HttpStatusOf(code), body |-> "error",
     code |-> code, value |-> NoValue]

\* HttpResponse::Ok().json(result)
OkReply(ep, v) ==
    [endpoint |-> ep, status |-> 200, body |-> "result", code |-> 0, value |-> v]

\* The reply to a call of an implemented endpoint: its result, or the
\* error code the operation failed with.
Respond(ep, code, v) ==
    reply' = IF code = 0 THEN OkReply(ep, v) ELSE CseErrorReplyFrom(ep, code)

\* get_status: the KResult's error goes through the KmsError's own status.
get_status ==
    \E code \in ErrorCodes \cup {0} :
        /\ reply' = IF code = 0 THEN OkReply("status", NoValue)
                    ELSE [endpoint |-> "status", status |-> code, body |-> "error",
                          code |-> code, value |-> NoValue]
        /\ UNCHANGED <<issued, asked>>

\* The not-implemented handlers: HttpResponse::Ok().finish().
not_implemented(ep) ==
    /\ ep \in NotImplementedEndpoints
    /\ reply' = [endpoint |-> ep, status |-> 200, body |-> "empty", code |-> 0,
                 value |-> NoValue]
    /\ UNCHANGED <<issued, asked>>

\* wrap: operations::wrap binds the DEK to the resource.
wrap(dek, res) ==
    \E code \in ErrorCodes \cup {0} :
        LET blob == [dek |-> dek, resource |-> res] IN
        /\ Respond("wrap", code, blob)
        /\ issued' = IF code = 0 THEN issued \cup {blob} ELSE issued
        /\ UNCHANGED asked

\* Fault variant: the unwrap ignores the resource the blob is bound to.
unwrap_unbound(blob, res) ==
    \E code \in ErrorCodes \cup {0} :
        /\ code = 0 => blob \in issued
        /\ Respond("unwrap", code, IF code = 0 THEN blob.dek ELSE NoValue)
        /\ asked' = res
        /\ UNCHANGED issued

\* unwrap: operations::unwrap returns the DEK of a genuine blob for the
\* resource it was made for; any other blob fails its integrity check.
unwrap(blob, res) ==
    \E code \in ErrorCodes \cup {0} :
        /\ code = 0 => blob \in issued /\ blob.resource = res
        /\ Respond("unwrap", code, IF code = 0 THEN blob.dek ELSE NoValue)
        /\ asked' = res
        /\ UNCHANGED issued

\* privatekeysign and privatekeydecrypt: the wrapped private key is
\* unwrapped and used; the result is abstract.
private_key_sign(blob) ==
    \E code \in ErrorCodes \cup {0} :
        /\ code = 0 => blob \in issued
        /\ Respond("privatekeysign", code, IF code = 0 THEN blob.dek ELSE NoValue)
        /\ UNCHANGED <<issued, asked>>

private_key_decrypt(blob) ==
    \E code \in ErrorCodes \cup {0} :
        /\ code = 0 => blob \in issued
        /\ Respond("privatekeydecrypt", code, IF code = 0 THEN blob.dek ELSE NoValue)
        /\ UNCHANGED <<issued, asked>>

Next ==
    \/ get_status
    \/ \E ep \in NotImplementedEndpoints : not_implemented(ep)
    \/ \E d \in Deks, r \in Resources : wrap(d, r)
    \/ \E b \in issued \cup {Forged}, r \in Resources : unwrap(b, r)
    \/ \E b \in issued \cup {Forged} : private_key_sign(b) \/ private_key_decrypt(b)

Spec == Init /\ [][Next]_vars

-----------------------------------------------------------------------------

\* A 2xx reply of unwrap hands out exactly a DEK that an earlier wrap bound
\* to the resource this unwrap request names, and a failed unwrap is never
\* reported with a success status: a forged blob, or the blob of another
\* document presented for this one, never yields a key under a 2xx reply.
UnwrapReturnsWrappedDek ==
    reply # NoValue /\ reply.endpoint = "unwrap" =>
        IF reply.status < 300
          THEN /\ reply.body = "result"
               /\ [dek |-> reply.value, resource |-> asked] \in issued
          ELSE reply.body = "error"

\* Spec, error handling: the engine never swallows an error and front-ends
\* map outcomes to statuses; a 200 reply of an endpoint whose reply carries
\* a key, a signature or a digest carries it.
SuccessCarriesResult ==
    reply # NoValue /\ reply.endpoint \in ResultEndpoints /\ reply.status = 200 =>
        reply.body = "result"

=============================================================================

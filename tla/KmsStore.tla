------------------------------ MODULE KmsStore ------------------------------
(***************************************************************************)
(* The cryptographic object store and operation engine of the KMS server:  *)
(* the objects kept by the storage layer, their owner and access grants,   *)
(* their key material (plaintext or wrapped under another object), the     *)
(* private-key <-> certificate links, and the operations Create, Import    *)
(* (keys and certificates, with replace_existing and unwrap), Export       *)
(* (optionally wrapped), Destroy, Grant and Revoke.                        *)
(*                                                                         *)
(* Each operation is one atomic step: the storage layer serialises the     *)
(* mutating calls on one object id, and a request runs the authorization   *)
(* gate and the storage call without an interleaving that matters to the  *)
(* other requests on the same id.  Concurrency is the interleaving of the  *)
(* requests of several callers, each a whole operation.                    *)
(*                                                                         *)
(* Key material is abstract: a material value m stands for the bytes of a  *)
(* symmetric key or of a key pair (the private key and the certificate of  *)
(* one pair carry the same m).  Garbage stands for what an unwrap under    *)
(* the wrong key would decrypt to.  Tags, algorithms, lengths and formats  *)
(* are left out: no property of this module tells them apart.             *)
(***************************************************************************)
EXTENDS Naturals, FiniteSets

CONSTANTS
    Ids,                   \* object identifiers (caller supplied or storage assigned)
    Users,                 \* transport-authenticated caller identities
    Materials,             \* key material values
    DefaultUsername,       \* server_params.default_username
    ForceDefaultUsername,  \* server_params.force_default_username
    NoId,                  \* absent link / no wrapping key
    NoObj,                 \* an id that holds no object
    Plain,                 \* the wrapping of plaintext material
    Garbage,               \* the result of unwrapping under a wrong key
    MaxBlobs,              \* bound on the exported blobs held by callers
    GrantRights            \* the rights the callers grant in a run

ASSUME ConstantsAssumption ==
    /\ DefaultUsername \in Users
    /\ ForceDefaultUsername \in BOOLEAN
    /\ NoId \notin Ids
    /\ Garbage \notin Materials
    /\ MaxBlobs \in Nat
    /\ GrantRights \subseteq {"Get", "Export", "Decrypt", "Destroy"}

Kinds  == {"SymmetricKey", "PrivateKey", "Certificate"}
Rights == {"Get", "Export", "Decrypt", "Destroy"}

\* Wrapping metadata: the id of the wrapping object and the material the
\* blob was encrypted under (its integrity tag binds it to that material).
Wrappings == {Plain} \cup [key : Ids, kmat : Materials \cup {Garbage}]

\* What a caller holds after an export: a key block, plaintext or wrapped.
Blobs == [kind : Kinds, mat : Materials \cup {Garbage}, wrap : Wrappings]

\* One stored record: object, owner, grant list and its single link field
\* (linked certificate of a private key, linked private key of a certificate).
Objects == [kind : Kinds, owner : Users, mat : Materials \cup {Garbage},
            wrap : Wrappings, grants : SUBSET (Users \X Rights),
            link : Ids \cup {NoId}]

\* The empty-slot marker of the store is not itself an object.
ASSUME NoObjAssumption == NoObj \notin Objects

VARIABLES
    store,      \* the storage layer: id -> record or NoObj
    blobs,      \* exported key blocks in the callers' hands
    caller      \* the resolved identity of the last successful call

vars == <<store, blobs, caller>>

TypeOK ==
    /\ store \in [Ids -> Objects \cup {NoObj}]
    /\ blobs \in SUBSET Blobs
    /\ caller \in Users

-----------------------------------------------------------------------------
(* Authorization gate                                                      *)
-----------------------------------------------------------------------------

\* The identity the server works with: when force_default_username is set,
\* every caller is mapped to the default username before any check.
Identity(u) == IF ForceDefaultUsername THEN DefaultUsername ELSE u

Exists(id) == id \in Ids /\ store[id] # NoObj

\* The owner has every right; anyone else needs a stored grant.
HasRight(who, id, r) ==
    /\ Exists(id)
    /\ \/ store[id].owner = who
       \/ <<who, r>> \in store[id].grants

-----------------------------------------------------------------------------
(* Wrapping engine                                                         *)
-----------------------------------------------------------------------------

\* The object that unwraps what was wrapped under w: a symmetric key
\* unwraps with itself, a certificate with its linked private key.
UnwrapperOf(w) ==
    IF store[w].kind = "Certificate" THEN store[w].link ELSE w

\* The plaintext material that can wrap under w (a symmetric key's bytes,
\* or the public half of a certificate's pair); w itself must be plaintext.
CanWrapUnder(who, w) ==
    /\ HasRight(who, w, "Get")
    /\ store[w].kind \in {"SymmetricKey", "Certificate"}
    /\ store[w].wrap = Plain

\* Fault variant: the wrapping metadata records the wrapping key's whole
\* record instead of its material.
WrapUnderRecord(b, w) == [b EXCEPT !.wrap = [key |-> w, kmat |-> store[w]]]

WrapUnder(b, w) ==
    [b EXCEPT !.wrap = [key |-> w, kmat |-> store[w].mat]]

\* The integrity check of the unwrap: the blob's tag verifies only under
\* the material it was wrapped under.
IntegrityOk(b, k) == k = b.wrap.kmat

\* Unwrapping a blob with the material k: the plaintext, or Garbage.
Unwrap(b, k) ==
    [b EXCEPT !.mat  = IF k = b.wrap.kmat THEN b.mat ELSE Garbage,
              !.wrap = Plain]

\* Unwrapping b on behalf of who: the unwrapping key exists, is
\* plaintext, who may decrypt with it, and the integrity check passes.
CanUnwrap(who, b) ==
    /\ b.wrap # Plain
    /\ Exists(b.wrap.key)
    /\ LET k == UnwrapperOf(b.wrap.key) IN
         /\ HasRight(who, k, "Decrypt")
         /\ store[k].wrap = Plain
         /\ IntegrityOk(b, store[k].mat)

UnwrapFor(b) == Unwrap(b, store[UnwrapperOf(b.wrap.key)].mat)

-----------------------------------------------------------------------------
(* Operations                                                              *)
-----------------------------------------------------------------------------

Record(kind, who, mat, wrap) ==
    [kind |-> kind, owner |-> who, mat |-> mat, wrap |-> wrap,
     grants |-> {}, link |-> NoId]

\* Writing to id: a fresh id, or an existing one when the caller asked to
\* replace it and may destroy what is there (replacing erases it).
MayWrite(who, id, replace) ==
    \/ ~Exists(id)
    \/ replace /\ HasRight(who, id, "Destroy")

\* Material still referenced by a stored object, an exported block or a
\* wrapping tag.  Fresh random bytes are never one of these; a value no
\* longer referenced anywhere may stand for fresh bytes again.
InUse ==
    LET objs == {store[id] : id \in {i \in Ids : Exists(i)}}
        tags == {o.wrap.kmat : o \in {x \in objs \cup blobs : x.wrap # Plain}}
    IN  {o.mat : o \in objs \cup blobs} \cup tags

Done(who) == caller' = who

\* Create: fresh random key material under a storage-assigned id.
Create(u, id, m) ==
    LET who == Identity(u) IN
    /\ ~Exists(id)
    /\ m \notin InUse
    /\ store' = [store EXCEPT ![id] = Record("SymmetricKey", who, m, Plain)]
    /\ Done(who)
    /\ UNCHANGED blobs

\* Import of a key block b (caller's own plaintext bytes, or one exported
\* earlier), with the id collision policy and the optional unwrap.
ImportKey(u, id, b, replace, unwrap) ==
    LET who    == Identity(u)
        stored == IF unwrap /\ b.wrap # Plain THEN UnwrapFor(b) ELSE b
    IN
    /\ b.kind # "Certificate"
    /\ MayWrite(who, id, replace)
    /\ unwrap /\ b.wrap # Plain => CanUnwrap(who, b)
    /\ store' = [store EXCEPT ![id] =
                    Record(b.kind, who, stored.mat, stored.wrap)]
    /\ Done(who)
    /\ UNCHANGED blobs

\* Import of a certificate block c, optionally linked to the private key
\* k (k = NoId: no link).  A linked certificate is the key's back-link.
ImportCertificate(u, id, c, k, replace) ==
    LET who  == Identity(u)
        cert == [Record("Certificate", who, c.mat, Plain) EXCEPT !.link = k]
    IN
    /\ c.kind = "Certificate"
    /\ id # k
    /\ k # NoId => HasRight(who, k, "Get") /\ store[k].kind = "PrivateKey"
    /\ MayWrite(who, id, replace)
    /\ store' = IF k = NoId THEN [store EXCEPT ![id] = cert]
                            ELSE [store EXCEPT ![id] = cert, ![k].link = id]
    /\ Done(who)
    /\ UNCHANGED blobs

\* Export of id, as stored (w = NoId) or wrapped under w.  A key's
\* material needs the Export right; a certificate only Get.  Re-wrapping
\* a wrapped object unwraps it transiently first.
Export(u, id, w) ==
    LET who   == Identity(u)
        b     == [kind |-> store[id].kind, mat |-> store[id].mat,
                  wrap |-> store[id].wrap]
        plain == IF b.wrap = Plain THEN b ELSE UnwrapFor(b)
        out   == IF w = NoId THEN b ELSE WrapUnder(plain, w)
    IN
    /\ Exists(id)
    /\ HasRight(who, id, IF b.kind = "Certificate" THEN "Get" ELSE "Export")
    /\ w # NoId => /\ w # id
                   /\ CanWrapUnder(who, w)
                   /\ b.wrap # Plain => CanUnwrap(who, b)
    /\ out \notin blobs
    /\ Cardinality(blobs) < MaxBlobs
    /\ blobs' = blobs \cup {out}
    /\ Done(who)
    /\ UNCHANGED store

\* Destroy: hard delete; the cleanup of the linked object's back-link is
\* best effort and may not happen.
Destroy(u, id, cleaned) ==
    LET who == Identity(u)
        l   == store[id].link
    IN
    /\ HasRight(who, id, "Destroy")
    /\ store' = IF cleaned /\ l # id /\ Exists(l) /\ store[l].link = id
                  THEN [store EXCEPT ![id] = NoObj, ![l].link = NoId]
                  ELSE [store EXCEPT ![id] = NoObj]
    /\ Done(who)
    /\ UNCHANGED blobs

\* Grant and revoke: only the owner manages the grant list of an object.
Grant(u, id, v, r) ==
    LET who == Identity(u) IN
    /\ Exists(id)
    /\ store[id].owner = who
    /\ v # who
    /\ store' = [store EXCEPT ![id].grants = @ \cup {<<v, r>>}]
    /\ Done(who)
    /\ UNCHANGED blobs

Revoke(u, id, v, r) ==
    LET who == Identity(u) IN
    /\ Exists(id)
    /\ store[id].owner = who
    /\ <<v, r>> \in store[id].grants
    /\ store' = [store EXCEPT ![id].grants = @ \ {<<v, r>>}]
    /\ Done(who)
    /\ UNCHANGED blobs

-----------------------------------------------------------------------------

\* The key blocks a caller may import: its own fresh plaintext key bytes,
\* or any block exported earlier.
Importable ==
    blobs \cup [kind : {"SymmetricKey", "PrivateKey"},
                mat : Materials \ InUse, wrap : {Plain}]

\* The certificates a caller may import linked to k: one exported earlier,
\* the certificate of a fresh external pair, or the certificate of k's pair.
CertImportable(k) ==
    {b \in blobs : b.kind = "Certificate"}
    \cup [kind : {"Certificate"}, mat : Materials \ InUse, wrap : {Plain}]
    \cup IF Exists(k) THEN {[kind |-> "Certificate", mat |-> store[k].mat,
                              wrap |-> Plain]}
                     ELSE {}

Init ==
    /\ store = [id \in Ids |-> NoObj]
    /\ blobs = {}
    /\ caller = DefaultUsername

Next ==
    \E u \in Users, id \in Ids :
        \/ \E m \in Materials : Create(u, id, m)
        \/ \E b \in Importable, replace, unwrap \in BOOLEAN :
              ImportKey(u, id, b, replace, unwrap)
        \/ \E k \in Ids \cup {NoId}, replace \in BOOLEAN :
              \E c \in CertImportable(k) : ImportCertificate(u, id, c, k, replace)
        \/ \E w \in Ids \cup {NoId} : Export(u, id, w)
        \/ \E cleaned \in BOOLEAN : Destroy(u, id, cleaned)
        \/ \E v \in Users, r \in GrantRights : Grant(u, id, v, r) \/ Revoke(u, id, v, r)

\* The server handles requests one at a time per object; no fairness: a
\* client may stop sending requests at any point.
Spec == Init /\ [][Next]_vars

(* Properties of the object store. *)

\* Link symmetry (spec, data model): a certificate linked to an existing
\* private key is that key's linked certificate, and a private key linked
\* to an existing certificate is that certificate's linked private key.
LinkSymmetry ==
    \A id \in Ids :
        Exists(id) /\ Exists(store[id].link) =>
            store[store[id].link].link = id


=============================================================================

# Formal models of the KMS

TLA+ models of the parts of this repository whose behaviour depends on the
order of events. TLC checks them on small instances. TLAPS proves the safety properties of
the passing runs for every value of the constants.

## The system and its models

| Part | Source | Module |
|---|---|---|
| Object store and KMIP operations of the server | the server's operations, not in `src/` (from `spec.md`) | `KmsStore`, proofs in `KmsStoreProofs` |
| Test server shared by the tests | `test_server/src/test_server.rs` | `TestServer`, proofs in `TestServerProofs` |
| PKCS#11 provider tests on that server | `pkcs11/provider/src/tests.rs` | `Pkcs11Tests` (extends `TestServer`), proofs in `Pkcs11TestsProofs` |
| `ckms sym keys create` | `cli/src/actions/symmetric/keys/create_key.rs` | `CreateKey`, proofs in `CreateKeyProofs` |
| Google CSE routes | `server/src/routes/google_cse/mod.rs` | `CseRoutes`, proofs in `CseRoutesProofs` |
| Server start-up | `server/src/main.rs`, `config/params/server_params.rs` | `ServerMain` |
| `ckms google keypairs insert` | `cli/src/actions/google/keypairs/insert_keypairs.rs` | `InsertKeypairs`, proofs in `InsertKeypairsProofs` |

The CLI and the tests talk to the server over HTTP. The server's object
store is shared between them, and so is the test server that `ONCE` starts
once per test binary. Every module keeps the function names of the code for
its actions. `PROJECT.json` maps every definition to the lines it models.

### KmsStore

- `store` maps each id to an object record: kind, owner, material,
  wrapping, link, grants.
- `blobs` holds the exported key blobs, bounded by `MaxBlobs`.
- `caller` is the identity of the last request.

The actions are Create, ImportKey (`replace_existing`, optional unwrap),
ImportCertificate (which links to its private key), Export (optionally
wrapped under another key), Destroy, Grant and Revoke. Each request is
atomic, as the spec's storage abstraction says. Material is abstract: a
wrapped blob records the key it was wrapped under and that key's material.
Unwrapping under other material fails the integrity check. All of this is
modelled from the spec, because the operations are not under `src/`. The
property checked against it is about the CLI test `get_attributes.rs`,
which imports a PKCS#12 under a fixed id and asserts that the certificate
links back to its private key.

### TestServer

Each test is a task with its own program counter through
`ONCE.get_or_try_init`:

1. `generate_owner_conf`
2. `start_test_kms_server` (the `recv_timeout` on the handle channel)
3. `wait_for_server_to_start` (the loop with `timeout` from 5 down to 0 and
   `waiting` doubling)
4. `new_database` (the owner conf rewritten with the secret)
5. `generate_user_conf`, which publishes the context

Each spawned server is a separate process (`srv`). It binds the single port
9990, fails, or starts serving. A panic anywhere in the initialiser releases
the permit and leaves the cell empty, as `OnceCell::get_or_try_init` does.

### Pkcs11Tests

`test_kms_client` and `test_backend` run as two tasks of `TestServer`. Each
call of a test body is one action: the imports of `create_keys` and
`load_p12`, then the assertions on counts and labels. `Located(kind,
tags)` is the server's locate. `test_kms_client` locates by the tag
`disk-encryption` alone (`tests.rs:25-29`), which is `kind = AnyKind`;
`test_backend`'s `find_all_*` locate by tag and object type. The
server's import is modelled from the spec: it refuses an existing id unless
`replace_existing` is set, and it splits a PKCS#12 into a private key and a
certificate. `Stored` is the store after an import, written as an
`EXCEPT` update. `NoObjAssumption` says that the empty-slot value is not
an object record.

### CreateKey

One action, `run`, covers all four outcomes:

- an invalid base 64 key;
- `cli_bail!` on a SHA3 or SHAKE length;
- an import of the given bytes;
- a Create request that the server validates.

### CseRoutes

There is one action per handler. Each reply is the operation's result or
`CseErrorReply::from(e).into()`. The operations are abstract: any call may
fail with an error code, and unwrap succeeds only for a blob that wrap
issued for the same resource. The history variable `asked` keeps the
resource that the last unwrap request named, so that the property can
relate the reply to the request.

### InsertKeypairs

Per e-mail, the state of its `.wrap` key file and of its `.p7pem`
certificate is abstract (none, valid, malformed JSON, unreadable). `run`
builds the Gmail client and lists both directories (either may fail the
run). `loop_step` takes the next e-mail of the key map in any order,
skips it without a certificate, and otherwise calls `post_keypairs`, which
ends in one of three ways: Gmail accepts the keypair; Gmail refuses it,
which is printed and ignored; or the request fails in transport after
Gmail may or may not have applied it, which aborts the run with `?`. An
unreadable or malformed file also aborts. `loop_end` returns `Ok(())`.
The operator may run the command again, `MaxRuns` times.

### ServerMain

Each file-system access of `main` is its own step:

- `exists()` at line 50;
- `exists()` at line 61;
- `read_to_string` and the TOML parse.

`ServerMainAssumption` states the values the constants take; no proof is
about this module, so it is a definition and not an `ASSUME`.

`ChangeFile` is another process (a deployment tool) that creates, replaces
or removes a configuration file, at most `MaxFsChanges` times.
`ServerParams::try_from` refuses an authority certificate without HTTPS, or
one that cannot be loaded.

## Runs

Each pass run below has a mutant, a plausible bug in a mapped definition,
and TLC finds that mutant's property violated (see `mutants` in
`PROJECT.json`).

| Run | Checks | Result |
|---|---|---|
| `MC_KmsStore_wrap.cfg` | `TypeOK` over every operation, with grants, revocations, wrapped exports and unwrapping imports | pass, about 16k states |
| `MC_KmsStore_links.cfg` | `LinkSymmetry` | **violation**: a replacing import leaves the certificate's link one-sided (the spec does not say what replace does to links) |
| `MC_TestServer.cfg` | `TypeOK`, `ContextConsistent` (a ready test sees a serving server and conf files with its secret), `StartTerminates` | pass |
| `MC_TestServer_once.cfg` | `SingleServer` | **violation**: when `recv_timeout` expires, the test panics while its server is still starting. The next test starts a second server, which finds port 9990 in use: the failure the comment on `ONCE` says it prevents |
| `MC_Pkcs11Tests.cfg` | `Pk_TypeOK`, `Pkcs11Outcomes`: in every interleaving, `test_backend` passes, and `test_kms_client` fails only when `load_p12` stored its private key and certificate before the locate | pass, 1111 states |
| `MC_Pkcs11Tests_p12.cfg` | `Pkcs11TestsPass` | **violation**: `test_backend`'s `load_p12` runs first, `test_kms_client`'s locate by tag finds 4 objects, and `assert_eq!(keys.len(), 2)` fails. The suite is order-dependent |
| `MC_CreateKey.cfg` | `DigestLengthValid` | pass |
| `MC_CreateKey_length.cfg` | `KeyLengthValid` | **violation**: `--bytes-b64` keys are imported with no length check (a 4-byte AES key is stored) |
| `MC_CseRoutes.cfg` | `UnwrapReturnsWrappedDek`: a 2xx unwrap carries a DEK that wrap bound to the resource this request names, and a failed unwrap is never a 2xx | pass |
| `MC_CseRoutes_empty.cfg` | `SuccessCarriesResult` | **violation**: the unimplemented endpoints answer 200 with an empty body |
| `MC_ServerMain_toctou.cfg` | `EnvConfHonoured` with one file change | **violation**: the env conf file is removed between the checks at lines 50 and 61, and the server runs on the command line |
| `MC_InsertKeypairs_refused.cfg` | `AllPairedInserted` | **violation**: Gmail refuses a keypair, the error is printed, and the command exits `Ok` with the keypair not inserted |

### Bounds

- **KmsStore:** two ids, two users and two materials for the type run
  (a key wrapped under a key, a grant held by a non-owner); three ids for
  the link run (a PKCS#12 key, its certificate and a replacement). One
  blob is enough for an export to be re-imported.
- **Pkcs11Tests:** the two tests of `tests.rs` and their four objects.
- **InsertKeypairs:** two e-mails and one run; one refusal is enough.
- **TestServer:** three tests, which reach a second initialiser after a
  panic and a third test that finds the cell set. The timeout counts down
  to the code's real bound, 5.
- **ServerMain:** two paths, and all configuration records allowed by the
  three authority states.
- **CseRoutes:** two DEKs and two resources, so that a blob can be used
  with the wrong resource.

Symmetry is used only over ids, users, materials and tests. These are
interchangeable model values.

### Fairness

- **TestServer:** weak fairness per test task. Each test is a tokio task
  that runs until it blocks, and the servers get no fairness: a server may
  stay "starting". `StartTerminates` therefore holds because of the
  countdown in the wait loop, not because the server is assumed to come up.

`CHECK_DEADLOCK FALSE` is used where the program stops: tests that end, and
`main` ending in an error or running forever.

## Proofs (checked by `tlapm`)

`KmsStoreProofs`:

- `TypeCorrect`: `Spec => []TypeOK`, for any sets of ids, users and
  materials that satisfy the `ASSUME`s of `KmsStore`. `NoObjAssumption`
  is needed: the empty-slot value is not an object record.

`CseRoutesProofs` (under `CseAssumption`):

- `UnwrapCorrect`: `Spec => []UnwrapReturnsWrappedDek`. The inductive
  invariant adds `IssuedOK` (every issued blob is a genuine record), so
  that the DEK and resource a blob carries are those wrap put in it. The
  unwrap step records its request's resource in `asked`, and a 2xx reply
  is given only after the check that the blob's resource is that one.
  `HttpStatusOfFaithful` and `RespondFaithful` say what
  `From<CseErrorReply>` gives a code and what a handler's reply is.

`InsertKeypairsProofs`:

- `PairedAttempted`: `Spec => []AllPairedAttempted`, for any set of
  e-mails and any `MaxRuns`. The property is not inductive: the
  strengthening `LoopInv` says that during the loop the maps are those of
  the directories and every e-mail with both files is either posted
  already or still in the iterator; one lemma per action preserves it.

`CreateKeyProofs`:

- `DigestCorrect`: `Spec => []DigestLengthValid`, for every build and
  every set of lengths. The invariant is inductive as it stands.
  `AlgorithmOfDigest` does the work: the SHA3 or SHAKE algorithm that
  `run` maps a length to is the one whose digest size is that length.

`TestServerProofs`, for any set of test tasks:

- `TypeCorrect`: `Spec => []TypeOK`.
- `ContextCorrect`: `Spec => []ContextConsistent`.

None of these is inductive as it stands. The inductive invariant
`IInv == TypeOK /\ HolderInv /\ StartInv /\ CellInv` says the following:

- `HolderInv`: exactly the task holding the permit is inside the start
  sequence.
- `StartInv`: that task's server exists once spawned, and serves from
  `new_database` on. Its poll countdown is never negative. At
  `generate_user_conf`, the owner conf holds that server's secret.
- `CellInv`: once the context is published, nobody holds the permit, both
  conf files hold the secret of its server, and that server serves.

`HolderAlone` (only the holder is inside the start sequence, and the cell
is empty meanwhile) is what rules out a second writer of the conf files.
One lemma per action, and one for every server step, preserves `IInv`.

`Pkcs11TestsProofs`, for any names of the two tests:

- `PkTypeCorrect`: `Pk_Spec => []Pk_TypeOK`.
- `TestsOutcome`: `Pk_Spec => []Pkcs11Outcomes`. This is the property
  the `MC_Pkcs11Tests.cfg` run checks.

The inductive invariant `PkInv` adds three facts to `TestServer`'s `IInv`:

- `ObjectsInv`: each of the four objects is in the store exactly when one
  of the tests got past the import that stores it, with that import's kind
  and tags.
- `StepInv`: a test runs until it is past its last call, or has stopped
  on a failed call.
- `Pkcs11Outcomes` itself.

`CallOk` shows that every call succeeds except `test_kms_client`'s
locate when `load_p12` already ran; `CallObjects` says what each call
does to the store. The lemmas
`FindKeysAsserted` and `FindP12Asserted` compute `Located` and `Labels` on
such a store, with cardinalities taken from `FiniteSetTheorems`.

What stays with TLC:

- the liveness property `StartTerminates`. TLAPS does not reason about
  fairness or `ENABLED`, so it is not proved;
- the violation runs (`LinkSymmetry`, `SingleServer`, `Pkcs11TestsPass`,
  `KeyLengthValid`, `SuccessCarriesResult`, `EnvConfHonoured`,
  `AllPairedInserted`). Each shows a behaviour, and a behaviour is a
  counterexample, not a theorem;
- `ServerMain` as a whole: its only run is the violation run.

## Not modelled

- The CLI test scripts (`cli/src/tests/...`). They are sequential command
  invocations of the operations that `KmsStore` models.
- `client_builder.rs`: token and HTTP request construction, with no
  state. Its outcomes are the nondeterministic choices of `InsertKeypairs`.
- `server/src/tests/test_utils.rs`: builders.
- `ServerParams`' `Debug` and `Clone`. `Clone` forces HTTP while keeping
  the client certificate, and drops the database parameters. No code in
  this repository starts a server from a clone.
- `main.rs`' `test_toml`.

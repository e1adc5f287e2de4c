------------------------------ MODULE CreateKey ------------------------------
(***************************************************************************)
(* The CLI action `sym keys create` (cli/src/actions/symmetric/keys/       *)
(* create_key.rs) and the server operations it calls.                      *)
(*                                                                         *)
(* CreateKeyAction::run takes the key length from the decoded --bytes-b64  *)
(* key (8 bits per byte) or from --number-of-bits (default 256), maps the  *)
(* algorithm option and length to a KMIP cryptographic algorithm (SHA3 and *)
(* SHAKE take their digest size from the length and bail on any other),    *)
(* then imports the given bytes (import_object, no id, no replace) or      *)
(* sends a Create request for a random key.  The server side is modelled   *)
(* from the spec: Create refuses a length that is not valid for the        *)
(* algorithm (InvalidParameter); Import stores the decoded key as given.   *)
(***************************************************************************)
EXTENDS Naturals, FiniteSets

CONSTANTS
    Fips,           \* the CLI is built with the "fips" feature
    ByteLengths,    \* lengths of the keys given with --bytes-b64
    BitLengths,     \* values given with --number-of-bits
    NoInput,        \* the option is absent
    BadBase64       \* a --bytes-b64 value that is not base 64

ASSUME CreateKeyAssumption ==
    /\ Fips \in BOOLEAN
    /\ ByteLengths \subseteq Nat /\ BitLengths \subseteq Nat
    /\ NoInput \notin Nat /\ BadBase64 \notin Nat /\ NoInput # BadBase64

\* enum SymmetricAlgorithm: Chacha20 exists only without the fips feature.
SymmetricAlgorithm ==
    {"Aes", "Sha3", "Shake"} \cup (IF Fips THEN {} ELSE {"Chacha20"})

\* Fault variant: the 224- and 256-bit SHA3 arms swapped.
Sha3AlgorithmSwapped ==
    [b \in {224, 256, 384, 512} |->
        <<"SHA3", CASE b = 224 -> 256 [] b = 256 -> 224 [] OTHER -> b>>]

\* The KMIP SHA3 and SHAKE algorithms, by digest size.
Sha3Algorithm == [b \in {224, 256, 384, 512} |-> <<"SHA3", b>>]
ShakeAlgorithm == [b \in {128, 256} |-> <<"SHAKE", b>>]

\* The key lengths the spec's Create accepts per algorithm.
ValidBits(alg) ==
    CASE alg = <<"AES", 0>>      -> {128, 192, 256}
      [] alg = <<"ChaCha20", 0>> -> {256}
      [] OTHER                   -> {alg[2]}

Bail == <<"bail", 0>>

\* run, lines 67-76: the key length in bits.
NumberOfBits(bytes, bits) ==
    IF bytes # NoInput THEN bytes * 8
    ELSE IF bits = NoInput THEN 256 ELSE bits

\* run, lines 78-95: the KMIP algorithm, or Bail (cli_bail!).
AlgorithmOf(alg, nbits) ==
    CASE alg = "Aes"      -> <<"AES", 0>>
      [] alg = "Chacha20" -> <<"ChaCha20", 0>>
      [] alg = "Sha3"     -> IF nbits \in DOMAIN Sha3Algorithm
                               THEN Sha3Algorithm[nbits] ELSE Bail
      [] alg = "Shake"    -> IF nbits \in DOMAIN ShakeAlgorithm
                               THEN ShakeAlgorithm[nbits] ELSE Bail

VARIABLES
    keys,       \* the symmetric keys stored on the server: [alg, bits, via]
    result      \* the outcome of the last run

vars == <<keys, result>>

Init ==
    /\ keys = {}
    /\ result = "none"

\* One run of the action with the algorithm option alg, --bytes-b64 decoding
\* to a key of `bytes` bytes (or BadBase64, or NoInput) and --number-of-bits
\* bits (clap puts both options in one group: at most one is given).
run(alg, bytes, bits) ==
    LET nbits == NumberOfBits(bytes, bits)
        kalg  == AlgorithmOf(alg, nbits)
    IN
    /\ bytes = NoInput \/ bits = NoInput
    /\ \/ /\ bytes = BadBase64
          /\ result' = "bad_base64"
          /\ UNCHANGED keys
       \/ /\ bytes # BadBase64
          /\ kalg = Bail
          /\ result' = "bail"
          /\ UNCHANGED keys
       \/ /\ bytes \in Nat
          /\ kalg # Bail
          /\ keys' = keys \cup {[alg |-> kalg, bits |-> nbits, via |-> "import"]}
          /\ result' = "imported"
       \/ /\ bytes = NoInput
          /\ kalg # Bail
          /\ IF nbits \in ValidBits(kalg)
               THEN /\ keys' = keys \cup {[alg |-> kalg, bits |-> nbits, via |-> "create"]}
                    /\ result' = "created"
               ELSE /\ result' = "invalid_parameter"
                    /\ UNCHANGED keys

Next ==
    \E alg \in SymmetricAlgorithm,
       bytes \in ByteLengths \cup {NoInput, BadBase64},
       bits \in BitLengths \cup {NoInput} :
        run(alg, bytes, bits)

Spec == Init /\ [][Next]_vars

-----------------------------------------------------------------------------

\* The CLI's own length check for SHA3 and SHAKE agrees with the server:
\* whichever of --bytes-b64 and --number-of-bits gave the length, a SHA3
\* or SHAKE key is stored with the length of its digest size, even on the
\* import path where the server checks nothing.
DigestLengthValid ==
    \A k \in keys : k.alg[1] \in {"SHA3", "SHAKE"} => k.bits \in ValidBits(k.alg)

\* The spec's Create: a key created from random or caller-supplied bytes
\* has a length valid for its algorithm (128/192/256 bits for AES).
KeyLengthValid == \A k \in keys : k.bits \in ValidBits(k.alg)

=============================================================================

---------------------------- MODULE KeyDerivation ----------------------------
(***************************************************************************)
(* From a key's text to the secrets of a vault: vault-core/src/            *)
(* key_material.rs and derivation.rs, slh-wallet/src/keygen.rs.            *)
(*                                                                         *)
(* A hash is the tuple of what was hashed, and a node of the BIP32 tree is *)
(* the path that leads to it: both collide exactly when their inputs are   *)
(* equal.  A step that may fail returns the set of its results, which is   *)
(* empty or has one element.                                               *)
(***************************************************************************)
EXTENDS Naturals, Sequences

CONSTANT ChildLimit  \* 2^31: a hardened child has an index below it

PURPOSE   == 101110
COIN_TYPE == 111111
XI_DOMAIN     == "KaspaPQV-v1"
XI_DOMAIN_RAW == "KaspaPQV-v1-rawkey"

ASSUME ChildLimitAssumption ==
    ChildLimit \in Nat /\ PURPOSE < ChildLimit /\ COIN_TYPE < ChildLimit

LmsSha256 == "LmsSha256"
SchemeIndex ==
    [LmsSha256 |-> 1, SlhDsaSha2_128s |-> 2,
     SlhDsaSha2_128_24 |-> 3, SlhDsaSha2_128_24D2 |-> 4]
Scheme == DOMAIN SchemeIndex

\* The parameter set an SLH-DSA scheme derives; LMS has none.
ParamsFor ==
    [SlhDsaSha2_128s     |-> "SLH-DSA-SHA2-128s",
     SlhDsaSha2_128_24   |-> "SLH-DSA-SHA2-128-24",
     SlhDsaSha2_128_24D2 |-> "SLH-DSA-SHA2-128-24d2"]

-----------------------------------------------------------------------------
(***************************************************************************)
(* Key material.  A text is its form and the secret it writes: "words" is  *)
(* a mnemonic, "seed" 128 hex characters, "xprv" an extended private key,  *)
(* "raw" 64 hex characters, "junk" anything else.  The words, the seed and *)
(* the master key of one BIP39 seed write the same secret.                 *)
(***************************************************************************)
Form == {"words", "seed", "xprv", "raw", "junk"}

FromMnemonic(text) ==
    IF text.form = "words" THEN {[kind |-> "Bip39Seed", secret |-> text.secret]} ELSE {}

\* A mnemonic is no key: it has blanks, and neither 128 nor 64 hex digits.
ParseKey(text) ==
    LET Kind == [seed |-> "Bip39Seed", xprv |-> "Extended", raw |-> "Raw"]
    IN  IF text.form \in DOMAIN Kind
        THEN {[kind |-> Kind[text.form], secret |-> text.secret]} ELSE {}

-----------------------------------------------------------------------------
\* The five hardened levels, in order.
Levels(scheme, account, keyIndex) ==
    <<PURPOSE, COIN_TYPE, SchemeIndex[scheme], account, keyIndex>>

\* Hardened derivation from the node a secret stands for, level by level.
Derived(secret, levels) ==
    IF \A i \in DOMAIN levels : levels[i] < ChildLimit
    THEN {<<secret, levels>>} ELSE {}

(***************************************************************************)
(* xi, the 32 bytes every key pair starts from.  A bare private key has no *)
(* chain code: it is hashed with the indices, and the scheme is not in it. *)
(***************************************************************************)
XiFrom(scheme, material, account, keyIndex) ==
    IF material.kind = "Raw"
    THEN {<<XI_DOMAIN_RAW, account, keyIndex, material.secret>>}
    ELSE {<<XI_DOMAIN, key>> :
              key \in Derived(material.secret, Levels(scheme, account, keyIndex))}

\* Seeded fault: one tag for all parameter sets, as XI_DOMAIN is for schemes.
KeyDomain_OneForAll(set) == <<"KaspaPQV", "v1">>

\* The tag that keeps the parameter sets apart when they share an xi.
KeyDomain(set) == <<"KaspaPQV", set, "v1">>

SeedsFromXi(set, xi) ==
    [sk_seed |-> <<KeyDomain(set), "sk.seed", xi>>,
     sk_prf  |-> <<KeyDomain(set), "sk.prf", xi>>,
     pk_seed |-> <<KeyDomain(set), "pk.seed", xi>>]

\* What a vault's key pair is generated from: LMS keys come from xi itself.
Secrets(scheme, xi) ==
    IF scheme = LmsSha256
    THEN {xi}
    ELSE LET seeds == SeedsFromXi(ParamsFor[scheme], xi)
         IN  {seeds.sk_seed, seeds.sk_prf, seeds.pk_seed}
=============================================================================

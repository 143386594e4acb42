# Verification of the kaspa-pqv vault wallets

TLA+ models of the post-quantum vault wallets in this repository, the TLC runs
that check them on small instances, and TLAPS proofs of the properties that
matter most. All paths below are relative to the repository's root.

    cd tla
    tlc -config Journal.cfg MCSpendJournal      # any run of PROJECT.json
    tlapm SpendJournalProofs.tla                # the proofs; likewise every *Proofs.tla

`PROJECT.json` lists the runs, the theorems, which source lines every definition
models, a seeded fault that each property catches, the hazards of the code and
the places where it does not do what its comments say.

## The system

Two wallets spend from Kaspa script addresses that only a hash-based signature
opens. The **LMS vault** has 32,768 one-time keys ("leaves"), one address each;
spending leaf q sends the change to leaf q+1. Two different signatures by one
leaf lose the money on it, so a journal on disk remembers what each leaf has
signed. The **SLH-DSA vault** has one address and a key that may sign any number
of times, and keeps no state at all.

| part | source | state it keeps | operations | what makes it correct |
|---|---|---|---|---|
| spend journal | `crates/lms-wallet/src/journal.rs` | journal file; in-memory copy | `FileJournal::open`, `get`, `put`, `sign_once` | a leaf never signs two digests, whatever is killed, fails or loses power |
| LMS spend command | `crates/vault-cli/src/spend_cmd.rs`, `crates/lms-wallet/src/{spend,preflight,tx}.rs` | the located UTXO and the signed transaction, while it runs | `locate_funds`, `run`, `build_spend`, `assemble` | nothing is signed that cannot confirm; a spend can be tried again |
| LMS vault | `crates/lms-wallet/src/vault.rs` | public key; a once-only self test | `change_target`, `LeafBudget`, `signing_key_at` | money always lies on a leaf that can still sign |
| leaf scanning | `crates/lms-wallet/src/scan.rs` | none | `scan_range`, `scan_from_hint`, `discover_vaults` | funded leaves are found, though they move |
| preflight | `crates/vault-core/src/preflight.rs` | none | `estimate`, `enforce` | what passes is what the node accepts |
| binding digest | `crates/vault-core/src/binding.rs` | none | `binding_preimage`, script emission | script and wallet compute one digest; different spends, different digests |
| key derivation | `crates/vault-core/src/{derivation,key_material}.rs` | none | paths, key string parsing | schemes and indices never share a key |
| node client | `crates/vault-node/src/client.rs` | connection; balance cache | `utxos_for`, `broadcast`, `load_balances`, `balance` | an unusable node is not taken for an empty vault |
| SLH-DSA spend command | `crates/vault-cli/src/slh_cmd.rs`, `crates/slh-wallet/src/spend.rs` | the located UTXO and the signed transaction, while it runs | `vault_utxos`, `cmd_spend`, `build_spend` | a payment is made, and made once |
| SLH-DSA vault, keys | `crates/slh-wallet/src/{vault,keygen,lib}.rs` | none | address, key pair | a function of the seed, and of nothing another key shares |
| SLH-DSA signer | `crates/slh-script/src/signer.rs` | leaf cache; worker threads | `parallel_map`, `leaf_layer`, `treehash_auth`, `sign` | threads and cache change nothing about the signature |
| SLH-DSA script | `crates/slh-script/src/{emit,frame,witness,reference,adrs,params}.rs` | the emitter's picture of the stack | emission, witness order | the script accepts what the reference accepts |
| LMS script | `crates/lms-script/src/{ots,verify,params}.rs` | none | emission of digits, checksum, chains and path | the script accepts what the scheme accepts |
| script writer | `crates/vault-core/src/builder.rs` | the script so far | `op`, `data`, `num` | forwards to the node software's builder |
| command line | `crates/vault-cli/src/{main,env}.rs` | the settings file | `parse_args`, `EnvFile::load`, `resolve`, `init-env` | the intended key is used, on one network |
| artifacts listing | `crates/vault-cli/src/artifacts_cmd.rs` | none | prints constants | |
| test harness | `crates/vault-harness` | none | runs scripts in the node's engine | tests only |

How the parts interact. `run` asks the node client for the UTXOs of 64 leaf
addresses, fixes fee and change with `estimate`, shows the spend, and when it is
confirmed opens the journal and calls `build_spend`, which enforces the preflight
and signs through `sign_once`; `assemble` measures the script and `broadcast`
submits. Between any two of these steps the chain moves, the process may die,
and another wallet may run. The SLH-DSA command is the same without a journal.
What is hard is therefore: processes that share the journal file; writes and
syncs that fail, are cut short or lost; UTXOs that go away between the look and
the signature; transactions the node drops, chain reorganisations, lost replies;
payments that arrive late; the loss of the journal; and, inside the signer,
threads that share a counter. Before all of it, every command reads flags, shell
variables and a settings file anew and derives its vault from what they say. A
wallet that lost everything but its mnemonic asks the node for one vault after
another and looks for money in what was answered, while earlier spends may still
be confirming. A redeem script is a program of up to hundreds of
thousands of opcodes without loops or variables, written by an emitter that
addresses the stack by what it believes to be there, and executed once for every branch a
signature can take: hard to test because an error in it shows only for some
digests, and for the larger sets a signature takes minutes to make.

## Modules

| module | models | runs | proofs |
|---|---|---|---|
| `OneTimeKey` | what a journal promises, abstractly | as a property of `SpendJournal` | |
| `SpendJournal`, `MCSpendJournal` | `journal.rs` | `journal_*` | `SpendJournalProofs` |
| `Preflight` | `preflight.rs`, amounts of the digest | through the next two | in `VaultSpendProofs` and `SlhSpendProofs` |
| `VaultSpend` (extends `Preflight`) | the LMS spend command and the chain | `vault_chain`, `vault_beyond_window`, `vault_restored_beyond_window` | `VaultSpendProofs` |
| `SlhSpend` (extends `Preflight`) | the SLH-DSA spend command and the chain | `slh_orders` | `SlhSpendProofs` |
| `LeafScan` | `scan.rs`, the balance cache of `client.rs`, `LeafBudget` and `ChangeTarget` of `vault.rs` | `leaf_scan` | `LeafScanProofs` |
| `KeyDerivation` | `key_material.rs`, `derivation.rs`, `keygen.rs`: from a key's text to a vault's secrets | through `Settings` | through `SettingsProofs` |
| `Settings` (extends `KeyDerivation`), `MCSettings` | `env.rs`, `main.rs` | `settings` | `SettingsProofs` |
| `ParallelMap`, `MCParallelMap` | `parallel_map` of `signer.rs` | `parallel_map` | `ParallelMapProofs` |
| `ScriptWriter` | `builder.rs`: a script as a sequence of calls | through `VaultScript` | |
| `Binding` | `binding.rs`: the digest, in the wallet and in the script | through `VaultScript` | through `VaultScriptProofs` |
| `LmsScheme` | digits and checksum of `ots.rs`, `params.rs`; the signing library (external) | through `VaultScript` | through `LmsScriptProofs` |
| `LmsEmit` | `ots.rs`, `verify.rs`: the calls of the LMS emitter | through `VaultScript` | through `LmsScriptProofs` |
| `SlhParams`, `SlhHash` | `params.rs`, `adrs.rs` | through `VaultScript` | |
| `SlhReference` | the verifier of `reference.rs` | through `VaultScript` | |
| `SlhSigner` | key generation and signing of `signer.rs` | through `VaultScript` | |
| `SlhEmit` | `emit.rs` and `witness.rs`: the calls of the SLH-DSA emitter | through `VaultScript` | |
| `TxScript` | the engine's opcodes, as the emitters use them (external) | through `VaultScript` | |
| `VaultScript`, `MCVaultScript`, `MCVaultRealSets` | a redeem script of either wallet while it is written and run; the primitives and the frame of the SLH-DSA emitter (`emit.rs`, `frame.rs`) | `vault_script`, `vault_real_sets` | `VaultScriptProofs`, `LmsScriptProofs` |

### SpendJournal

`file` is the sequence of writes that reached the file, each with the place at
which it was cut (`Cut`): the models of `open` need to know only whether a line
ends, parses, or runs into the next one. `synced` counts the writes known to be
on the disk. Every process has its copy `entries` and the `sign_once` call it is
in (`pc`, `request`). `released` is a history: what `sign_once` has returned.

| action | code |
|---|---|
| `Open` | `FileJournal::open`; not enabled when it would fail on an unreadable line |
| `ReturnStored` | `sign_once`, leaf on record, same digest. With another digest it fails and changes nothing |
| `Sign`, `WriteLine`, `SyncAll`, `ReturnSigned` | `sign_once` on a fresh leaf: signature, `write_all`, `sync_all`, then the copy and the return |
| `WriteFails`, `SyncFails` | the errors of `put`; part of the line may stay in the file |
| `End`, `PowerLoss` | a process ends or is killed; the machine loses power |

Which faults an execution may meet is the variable `faults`, chosen at the start
from the combinations the constant `FaultSets` names and never changed: one run
so covers executions under different faults, and a theorem can speak of those
combinations it holds for. `VaultSpend` does the same.

`PowerLoss` keeps everything synced and any byte prefix of the rest. It is
assumed that the first sync also makes the directory entry durable, that file
systems lose a suffix of an append, not a middle, and that the remains of two
torn writes never form one valid record of mixed origin.

`ImplementsOneTimeKey` is the refinement: `bound` is what the file says of a
leaf, `released` what has been given away. In `OneTimeKey`, a leaf signs only
for what it is bound to, and once it has signed its binding is fixed.

### Preflight, VaultSpend, SlhSpend

Amounts are small numbers and sums and differences are taken modulo `Word`, for
the release build's wrapping arithmetic: fees up to 126 of 128 make
`amount + fee` wrap. Fees below the floor and amounts that leave a change below
dust or too small for the storage mass are among the inputs, so every check
matters. The fee floor is a constant because for a vault spend the transient
mass, which is that of a fixed shape, exceeds the compute mass (the argument of
`crates/slh-wallet/src/spend.rs:50-63`; in the LMS wallet the measured budget of
about 40 units is below the 60 assumed for sizing). `SlhSpend` assumes the fee
floor to be at least the dust threshold, as it is for scripts of tens of
kilobytes: the halved change of the probe rests on it.

An outpoint is the payment it descends from and the spends in between (`path`).
The transaction id does not cover the signature, so the same spend creates the
same outpoint however often it is signed or accepted.

| action | code or environment |
|---|---|
| `Locate` | `locate_funds` and the change target: exactly one UTXO among the first `Window` leaves, not on the last leaf. In `SlhSpend`, one of the largest UTXOs |
| `Sign`, `Build` | all checks up to the signature and, for LMS, `sign_once` and `assemble` |
| `Broadcast`, `Submit`, `SubmitUnanswered` | `broadcast` and what the command tells the user |
| `End` | a check fails, the user declines, a dry run, an error, a kill |
| `Deposit`, `Accept`, `Evict`, `Reorg`, `Restore` | payments, the chain, the node's mempool, a wallet restored without its journal |

In `VaultSpend` one command runs at a time and the journal is a set of spends
that only grows. That is what `SpendJournal` shows of one wallet: bindings of
leaves that have signed never change. Whether the journal itself survives two
wallets is a question to `SpendJournal`. `Restore` loses the journal when every
spend it signed is on the chain for good: `Reorg` takes back only spends that
the journal still has. Deposits are final, and the node's index shows confirmed
outputs only. In `SlhSpend` one command per payment runs
at a time, any number of them side by side.

### LeafScan

`at` says where every coin lies: a vault, a leaf, the leaf it came into that
vault at and the critical reports its spends have made since. The cache keeps
the coins themselves where the code keeps their sum, and `found` leaves by vault.

| action | code or environment |
|---|---|
| `Deposit` | a payment to any leaf of any vault |
| `Spend` | an accepted spend of the only coin on the leaves asked about: `change_target` from leaf to leaf, from the last leaf to the next key index (`plan_migration`, which no command performs; a library user may), and `budget_after` |
| `Restore` | a wallet is restored from its mnemonic, connects to a node that passes `assert_node_is_usable`, and begins to load |
| `Fetch`, `Fill` | `load_balances`: the request, and the cache under its lock, in two steps |
| `Discover` | `discover_vaults`, which reads nothing but the cache; not enabled where it would run past what was loaded and fail |

No command calls `discover_vaults` or `load_balances`; they are the library's
offer to a wallet. The order of the calls is therefore an assumption on the
caller: one `load_balances` per vault, in the order of the key indices, each for
the leaves of the window. A node that is behind, or of another network, answers
with no coins; it is asked once, when connected, and assumed to stay as it is.
`emptied`, `strayed` and `known` are histories for the
property.

### KeyDerivation and Settings

A hash is the tuple of what was hashed and a node of the key tree its path, so
two values are equal exactly when they were made of the same input: it is what
the domain tags and paths themselves do that is checked. A text is its form, as
`KeyMaterial::parse` tells them apart, and the secret it writes; a mnemonic, its
seed in hex and its master key write the same one.

`Settings` has as state what commands read: the process environment, the
settings files with their permissions, and `init-env` between its two steps.
`Open(f)` is what a command with flags `f` would open there: `EnvFile::load`,
`resolve`, `prefix_for`, `open_vault` and the node that is connected to, and
empty where any of them fails. Both properties quantify over all command lines.
`SettingsAreHonoured` compares with the precedence `env.rs` states at its head,
written down place by place.

| action | code or environment |
|---|---|
| `Export`, `Edit`, `Chmod` | the user: a shell variable, a line in a file (a broken one too), its permissions |
| `InitEnvWrite`, `InitEnvRestrict`, `InitEnvKilled` | `cmd_init_env`: the file is written, then restricted; the command dies in between |

### ParallelMap

One action per atomic step of a worker (`Claim` is the `fetch_add`, `MapChunk`
the loop body) and one per buffer the caller copies (`Merge`). The mapped
function is pure, so a worker's buffer is the set of its chunks. For one thread
or fewer than 1024 elements the code maps serially, and there is nothing to
model.

### The vault scripts

A vault's redeem script computes the digest of the transaction that spends and
verifies a signature of it. Four parts of the code must agree: what the wallet
serialises and signs, the digest the script assembles, the signer, and the
verifier, which for SLH-DSA exists twice, on the host and in script.

`SlhReference` and `SlhSigner` are operators, one per function, over the
parameter sets of `SlhParams`. A signature is the sequence of its elements.
SHA-256 is replaced by a small polynomial hash of every byte (`SlhHash`): equal
inputs give equal values and, in the runs, different inputs do not, which is all
an agreement needs. The signer builds its trees from the leaves up with the
treehash of the code and shares with the verifier what it shares there, the
digits and the split of the digest. The LMS scheme itself is a library here;
`LmsScheme` has the digits and the checksum of `ots.rs` and, marked external,
what RFC 8554 makes of them.

A script is a sequence of calls, to the script writer (`ScriptWriter`), to the
SLH-DSA emitter's wrappers around it, and to the phases they make up:
`Binding` (`EmitBindingDigest`), `LmsEmit` and `SlhEmit` have one operator for
every phase. `VaultScript` makes the calls one after the other (`todo`) and
gives the primitives their meaning: what each does to the emitter (`frame`,
`pending`, `next`, `peak`) and what its opcode does to the engine (`main`,
`alt`, `skip`, of `TxScript`). The code emits the whole script first and the
node runs it later; since nothing an emitter does depends on a witness or on a
transaction, emitting each opcode just before it is run is the same, and it lets
a property compare the frame with the stack at every opcode. An emitter that
asks for a slot it does not have, or misses an element at the end, returns an
error and writes no script: the action is not enabled, and TLC reports a
deadlock.

| action | code |
|---|---|
| `EnterPhase` | a method of an emitter, or the body of a loop in one |
| `WriteOpcode` | `op`, `data` and `num` of the script writer, as the LMS emitter and the digest call them: no frame |
| `PushItem`, `Calculate`, `CopyTop`, `SwapTop`, `DropTop`, `NipTop` | `data`, `num`; an opcode and `f.replace`; `dup`, `over`; `swap`, `drop_top`, `nip` |
| `ResolveSlot`, `PickSlot`, `RollSlot` | `pick`, `roll` and `roll_depth`: the name becomes a depth, the depth is pushed, the opcode takes it |
| `NameTop`, `Branch`, `EndBranch` | `name_top`; `OpIf`, `OpEndIf` |
| `SliceNextBlob`, `TakeBlob`, `Stash`, `FetchElement` | `fetch`, `slice_blob` |
| `QueueBlob`, `StartFrame`, `ExpectSpent` | the prologue, the first slot, the checks at the end of `emit_body` |

`TxScript` is not this repository's code: it has the opcodes the emitters use,
with the demands the emitters' comments and tests make of them (shortest
encodings for numbers, a width that `OpNum2Bin` must not exceed, a sign bit in
the top byte), and the introspection opcodes over a transaction with one input.

`emit_verify` of the SLH-DSA emitter is the same script without the digest; the
repository's tests use it, the wallet does not, and it is not modelled apart.

## Runs

Bounds: two leaves and two digests suffice for everything the journal says,
since its properties relate two records of a leaf and only `file` is shared
between leaves; `MaxWrites` of 3 or 4 leaves room for a torn write, a write
after it and a third on another leaf. In `vault_chain`, `LeafCount = 4` and
`Window = 3` give a spent leaf, a current one, a next one at the edge of what
the command asks about, and one past it that is never located but receives
change; in the code they are 32,768 and 64. `MaxDeposits` 3 is a payment, a late
one and another, on any leaf and at any moment, beyond the window too.
Counters are bounded in the guards of `WriteLine`, `WriteFails` and `Deposit`.
Deadlock is not checked where the system may really stop: the bound is used up,
the journal no longer opens, or money lies on the last leaf.

| run | question | answer |
|---|---|---|
| `journal` | one wallet, restarted at will; kills, writes cut short anywhere and failed syncs in some executions, power cuts in others | all properties hold, and the journal implements `OneTimeKey` |
| `vault_chain` | late and stray payments, dropped spends and a restore without the journal when every spend is on the chain for good, with and without reorganisations; some leaves are not asked about | within the window change lands on a leaf that can spend it and a leaf signs once; with the journal, a leaf signs once wherever the change goes; the money of a spend on the chain lies beyond its leaf; every signed spend is acceptable to the node and its input exists or will; keys are burned for live outputs only, reorganisations apart; without them a signed spend that is repeated confirms, unless a second output makes the command refuse |
| `leaf_scan` | payments, spends and migrations while a restored wallet loads and discovers its vaults | a discovery that succeeds misses only money that was past the window, or behind as many empty-looking vaults as the gap limit; money reaches a last leaf only after its critical reports |
| `settings` | every command line over shell variables, settings files and `init-env` killed half way | a command opens the vault of the foremost key given for its scheme, tells its origin, and asks the network of its addresses; two vaults share a secret exactly when they are one |
| `slh_orders` | three payments side by side, small and large UTXOs, dropped spends, a lost reply | a payment is repeated only after a lost reply, and each is made in the end unless the node loses it; the fee probe refuses nothing that would do |
| `parallel_map` | three workers | the serial result, always |
| `vault_script` | signatures of two small SLH-DSA keys and of every leaf of a small LMS key; the same in another transaction, with one element changed or two exchanged; transactions that do not fit the digest's fields | the script computes the wallet's digest, is where the reference is at every element and at every chain, and accepts exactly what the key signed; the roots recovered from a signature are the signer's trees |
| `vault_real_sets` | two SLH-DSA and two LMS sets at their real widths, on made-up signatures, for SLH-DSA one of nothing but sign bits too | no opcode fails, script and reference agree on every index and digit, an LMS script accepts what leads to its root and rejects the same for the next leaf, the stacks stay under the engine's limit |

`leaf_scan`: three leaves and a window of two give a leaf inside, one at the edge
and one past the window; five vaults and a gap limit of two, room for a gap, a
funded vault behind it and another gap; two coins, that one vault holds two, or
two vaults one each. One critical report is due, and one leaf more is announced
as approaching. `settings`: two assignments, since a disagreement has two sides,
and two flags; keys in four forms (a mnemonic, its seed, a bare key, no key),
`2147483648` standing for the first index that is not hardened, scaled to
`ChildLimit`.

Bounds of the script runs: `vault_script` shrinks an SLH-DSA hash value to 2
bytes, a block to 4 and a SHA-256 value to 6, so that whole keys can be
computed. Its sets keep what distinguishes the real ones: three layers (a leaf
and a tree index out of one number, twice), or one (no tree index at all);
fields of the digest that do not end on bytes; chains of 15 and of 3 steps; FORS
numbers above 127, where the sign bit matters; for LMS a shifted checksum over
four digits. Its transactions have amounts on both sides of a byte's sign bit
and at the top of TLC's integers, empty scripts, script versions that differ
when their bytes are exchanged, fields exchanged or moved from one output to the
next, one output more or less, and values one past a field's width.

`vault_real_sets` has the real values of all three constants. A key of these
sizes can not be computed, so signatures are made up. For SLH-DSA the script
rejects them in the last comparison. For LMS the root is not part of what is
signed, so a key can be fitted to a signature: its root is what the signature
leads to, at leaf 19286 of the 2^15 of the wallet's set and at leaf 30 of the
W4 set.

Both runs visit one state per opcode and case. SLH-DSA-SHA2-128s (`SHA2_128S`)
is in no run: its tree index of 54 bits is beyond TLC's integers, and for the
same reason operands of arithmetic have at most 4 bytes where the engine allows
8, so amounts above 2^31 are not tried. That a
signature with one element changed is rejected is shown for elements of every
kind, not for all elements; a collision of the small hash would show up as a
violation, and there is none.

These find the code at odds with what it says; PROJECT.json quotes the text.

| run | what TLC shows |
|---|---|
| `journal_two_wallets` | two wallets open the journal, both sign with one leaf |
| `journal_unsynced_reload` | kill after the write, reload from the page cache, the stored signature is given away, power cut: the record is gone |
| `vault_beyond_window` | no fault at all: the spend of the last leaf asked about (1 in the model, 63 in the code) sends its change one leaf further, where the command does not look; a payment to an unused leaf before it is then the vault's only money, and its change goes to the leaf that has just signed |
| `vault_restored_beyond_window` | the change has walked past the leaves asked about (2 in the model, 64 in the code), the journal is gone, and a late payment makes a used leaf sign again |

`journal_unsynced_reload` and `journal` together say when the journal is safe:
under process faults, or under power cuts, but not under both. `vault_chain` and
`vault_beyond_window` together say where the vault's walk is safe: as long as it
has not gone past the leaves asked about (`WithinWindow`). In the second run's
state the journal still refuses a second signature, so the change is stuck on a
burned leaf; without the journal, `vault_restored_beyond_window`, the key signs
again. `ChangeIsSpendableWithinWindow` and `SignOnceWithinWindow` carry the
condition.

What the models show and no run states: a line cut inside its signature loads,
and `sign_once` returns it as the stored record (`whole` is then FALSE); a
record that lacks its newline is spoilt by the write after it; a torn last line
blocks `Open`, though the comment at `crates/lms-wallet/src/journal.rs:148` says
it is discarded; money on a leaf beyond the first `Window` is not located, so
that after leaf 63 nothing moves by the command while the budget reports
`Healthy` (`scan_from_hint`, which would start from the journal, is not called).

* A payment that arrives between a signature and the second run makes
  `locate_funds` refuse (`crates/vault-cli/src/spend_cmd.rs:75`), though line 190
  says "Re-running with the same amount will reuse it rather than sign again."
  The stored signature is safe but can not be broadcast, and no command moves
  either output while both are there. `SignedConfirms` therefore promises that a signed spend
  confirms or that the vault becomes `Crowded`; without that alternative TLC
  finds it violated on `VaultChain.cfg`.
* An SLH-DSA spend whose reply is lost is reported with "Nothing was consumed"
  (`crates/vault-cli/src/slh_cmd.rs:280`); running again pays a second time.
  `PaidOncePerReply` is what holds instead.
* The gap limit's comment (`crates/lms-wallet/src/scan.rs:129`) says a gap only
  appears if a user never funded a vault. Migration empties vaults, so after as
  many migrations as the limit the discovery from index 0 finds nothing.
* `plan_migration` of a leaf before the last plans to stay in the same vault,
  though `crates/lms-wallet/src/spend.rs:148` offers it at any point.
* `LeafBudget::status` turns critical at exactly 100 remaining keys, where
  `crates/lms-wallet/src/vault.rs:158` says fewer than 100.
* `--key` is refused when a mnemonic is set anywhere, though "a flag always
  wins" (`crates/vault-cli/src/env.rs:14`); and a file that holds the SLH-DSA
  pair beats a shared key set in the shell, though "the file never silently
  overrides" it. `SettingsAreHonoured` states the precedence per pair of
  variables, and a refusal opens no vault.
* `init-env --env-file PATH` never writes: `main` loads the file first and
  refuses a path that does not exist, `init-env` one that does. Between the two
  steps of `init-env` the template is readable by others, and between its check
  and its write a file made by another process is overwritten.
* `crates/vault-cli/src/main.rs:121` has the path's scheme level separate the
  SLH-DSA sets; for a bare key there is no path, and the tags of `key_domain` do.
* The network is no part of a derivation: the one-time keys of a seed are the
  same on the test network and on mainnet, so a leaf may sign once over both
  together. A journal shared by them keeps it so; `vault.journal` in another
  directory does not.

By
arithmetic alone: `crates/lms-script/src/verify.rs:129-130` says the parameter
sets keep the checksum below 2^15, and for `SHA256_H5_W1`, which no wallet uses,
the all-zero digest makes it 256 << 7, exactly 2^15.

### Fairness

`vault_chain`, for `SignedConfirms`: the user repeats the same command until the
spend confirms (strong fairness, for the node may drop the spend and the command
may be killed again and again), commands are not killed for ever, and the chain
accepts spends the node holds (strong fairness, for a spend may be dropped).
Fairness asks for a command only while the command is possible: where
`locate_funds` refuses, nothing is assumed, which is the `Crowded` case of the
property. It speaks of executions without reorganisations; one that takes every
spend back for ever confirms nothing. Nothing makes the
node drop a spend. `slh_orders`: the user repeats the command for a payment
that no command has reported, naming no fee, and confirms the prompt; commands
end; the chain accepts. Strong fairness of `Build` and `Submit` is needed since
`End` may always come first. `parallel_map`: the operating system runs every
thread; the scope joins them.

## Proofs

Eight modules, over any values of the constants. `SpendJournalProofs` proves, for
any set of leaves and digests, any number of writes and every placement of the
faults:

* `TypeCorrect`, without hypotheses;
* `SignOnceHolds`, `RecordedBeforeReleaseHolds`, `MemoryMatchesFileHolds` and
  `JournalImplementsOneTimeKey` under two hypotheses: `SingleWriter` (at most
  one wallet process) and `PowerLossAlone` (in an execution with power cuts
  nothing else fails). The violation runs `journal_two_wallets` and `journal_unsynced_reload`
  show that neither can be dropped.

`SignOnce` is not inductive: it says nothing of where a signature is recorded.
`IInv` adds that every returned signature's leaf has a readable record in the
part of the file that no fault of the execution takes away, `Firm`
(`ReleasedRecorded`), likewise every entry in memory
(`MemoryRecorded`), that an open wallet's memory knows every returned signature
(`MemoryKnowsReleased`), that a closed process has an empty memory
(`ClosedForgets`), what the file holds while a call is in flight (`InFlight`),
and that with power cuts possible all but the write in flight is synced
(`SyncedUpToDate`). A record is the
last write of its leaf that reaches the digest, and appending for another leaf
keeps it (`AppendKeepsRecord`), as do syncs (`SyncKeepsRecord`) and power cuts
(`PowerLossKeepsRecord`). The step lemmas, one per action, rest on these. The
refinement maps every step that returns a signature to `Release` and every
other to `Rebind` or a stutter.

`ParallelMapProofs` proves `MapTypeCorrect`, `NoElementTwiceHolds` and
`SameAsSerialHolds` for any number of threads and elements, any chunk size and
any function. The invariant: claimed chunks lie below the counter and apart
from each other, everything below the counter is claimed, a worker ends only
when the counter has passed the end, and merged buffers are in the result.

`LeafScanProofs` proves `ScanTypeCorrect`, `LastLeafIsAnnouncedHolds` and
`DiscoveryMissesNoMoneyHolds` for any number of vaults, leaves and payments, any
window and any gap limit. The first two follow from how a spend moves a coin
(`ChangeMovesOn`): `Announced` counts reports against spends. The discovery
needs `ScanInv`. What was loaded, in the cache or still on its way into it, is
one set of answers (`Loaded`), which a `Fill` does not change; vaults are answered for from
the first on (`LoadedInOrder`); an answer without money is of a vault that has
been seen empty (`Watched`), the node being one that knows all coins (`Connected`); and while loading, every coin there was lies in a
vault not answered for yet, or has been past the window, or was seen in an
answer for a vault no later than its own (`KnownFollowed`). This last part is the
argument: coins move only to later vaults (`MoveKeepsScanInv`), and loading
moves the same way, so a coin can not slip behind it. `DiscoverFinds` closes it:
a coin seen in vault k is found there, or the discovery gave up before k.

`SettingsProofs` proves `SettingsTypeCorrect`, `SettingsAreHonouredHolds` and
`SecretsTellVaultsApartHolds` for any key texts, indices, networks and limit. For
the second, the last line of a file, which the code keeps and the property picks
by CHOOSE, is the value both read (`GetIsGiven`); then the two ways of finding
a value, `get`'s and the property's place by place, agree for a single variable
and for the pairs of them that exclude each other. `XiTellsMaterial` says that xi determines the
indices, the secret and, but for a bare key, the scheme; `SecretsTellXi` that
the secrets determine xi and the scheme. The assumption is the one of the model:
hashes do not collide, and a child key determines its path.

Both spend commands rest on `EnforcedIsAccepted`, in `VaultSpendProofs`: what
passes `enforce` and the bounds of the digest is what the node's rules accept, in
true arithmetic, though `amount + fee` and the change may have wrapped around
before. The digest's bound, half of `Word`, is what makes it so: two amounts
below it can not wrap. `SlhSpendProofs` has the same fact for its own command,
and `EnforcedIsProbed`: the halved change of the fee probe is no dust when the
fee floor is not below the dust threshold.

`VaultSpendProofs` proves `VaultTypeCorrect`, `VaultSignOnceHolds`,
`ChangeIsSpendableHolds`, `FundsLieBeyondSpentLeavesHolds`,
`SignedCanConfirmHolds` and `FreshSignatureSpendsLiveFundsHolds` for any number
of leaves, any window, any payments and commands and every combination of
faults, without hypotheses beyond the assumptions on the constants. Where a
result needs the change to be within the window, the property says so as a
condition on the state. The invariant `VaultInv` rests on one observation: a
payment is one output that spends move and never split (`OneOutputPerPayment`).
All that a payment has been, is and will be once the signed spends are accepted
is a line: one output on each leaf and a signed spend on every leaf but the last
(`Lines`). The output there is now parts the accepted spends of its line from the
others (`Frontier`), and what the journal has lost lies behind it
(`Remembered`). A new signature is therefore made at the end of its line
(`LeafIsFresh`, `SignStep`), and what the chain does only moves the output along
it (`OutputMoves`); this much holds inside the window and outside, and gives four
of the theorems. The lines of two payments can meet on one leaf. While all
change is within the window they do not, because then only one payment is ever
spent from (`OnePaymentSpent`): the output of the payment spent before is still
among the leaves asked about (`SpentIsVisible`), so the command that locates
exactly one output locates that one, or refuses. Beyond the window the journal
takes over where it is kept: it has every signature, and one per leaf. To see
`VaultInv` on an instance, give it to TLC as an invariant of `VaultChain.cfg`
with `VaultSpendProofs` as the module; no run does, because the proof says more.

`SlhSpendProofs` proves `SlhTypeCorrect`, `PaidOncePerReplyHolds` and
`FeasibleSpendIsBuiltHolds` for any orders, payments, fees and number of lost
replies. The invariant: a command serves an open order (`CommandsServeOpen`), and
of what the node took for an order all is lost while it is open, and all but one
spend after that (`TakenOnce`).

`VaultScriptProofs` proves four theorems about the script while it is written
and run: `ScriptDigestsWhatTheWalletSigned`, for both schemes, and
`ElementsComeInOrder`, `ScriptStaysWithinEstimate` and `FrameIsAsHighAsStack`
(the first half of `FrameDescribesStack`) for SLH-DSA, for any
transaction, any signature and any set. They share one invariant, `ScriptInv`,
which says at every call what is left to emit and what the stacks hold:

- `Queueing`: the prologue has moved the first of the blobs;
- `Digesting`: the opcodes of the digest that are left, and exactly the bytes of
  the fields so far (`AtHeader`, `AtOutput`, `AtDigest`, `AtVerify`);
- `Verifying`, for LMS: no call is left that makes a digest;
- for SLH-DSA, outside of branches (`Reading`), in one (`Branched`), before a blob
  is taken (`Opening`) and while it is cut up (`Taking`): the frame is as high as
  the stack, and the alternative stack holds what `Holds` says of the
  blobs not opened and the elements not fetched;
- `Stopped` and `Broken`: an opcode has failed.

`Fits` adds the bound on the stacks. What had to be shown:

- the bytes: a number the engine holds, cut to a field by `num2bin`, is the little-
  endian field of the wallet, and one that does not fit fails there
  (`NumberRead`, and what leads to it), which is the agreement of two encodings
  that the comments of `binding.rs` are about;
- the calls: the script up to the digest is a sequence of opcodes known one by
  one, and what comes after it is made of a few kinds of call (`Calls`), though
  there are tens of thousands of them and they depend on the set;
- the branches: the emitter writes the frame as if every branch were taken, and
  the machine skips some. What is in a branch never fetches, and leaves the
  frame as high as it found it (`Rises`, `Closes`); so while a branch is skipped
  the stack differs from the frame by what is left of the branch, and at its end by
  nothing;
- the order: moving the blobs over reverses them, cutting a blob up from the back
  reverses its elements, and both together put the next one on top
  (`CutStep`, `LastStep`), for a last blob of any size (`NextBlob`, `WaitingIs`);
- the height: the frame's peak covers the stack (`Noted`), and one blob has gone
  for the at most three elements of it that are stashed (`TakingFits`); an opcode
  that fails or is skipped puts nothing on the stacks (`NothingPut`).

`WitnessInOrder` speaks of the end of a script as well as of every fetch, also when
the last opcode is the one that failed; a script stopped before that goes no
further (`Broken`, `Halted`). What is assumed of the constants: a transaction has its fields in their types (`SpendView`), the hash
value has 1 to 16 bytes, a signature has its elements (`CasesAssumption`), and a set
is well formed (`WellFormed`, `Consistent`), as the sets of the code are. `Fits` and
`WitnessAt` were given to TLC as invariants of the small cases before they were
proved; no run states them.

`LmsScriptProofs` proves that the LMS script does what the scheme does, for any
parameter set, key, signature and transaction:

- `EveryChainMeetsItsDigit`: `ChainsMeetTheirDigits`, for both schemes (the
  SLH-DSA script makes no such call);
- `LmsScriptNeverFails`: of a transaction the wallet signs, no opcode refuses its
  operands, whatever bytes the signature holds;
- `LmsScriptDecidesAsReference`: of the transactions with the vault's two outputs,
  it accepts those within the fields whose signature leads to the root it pins,
  and no other.

An invariant that lists what the stacks hold before every call of such a script
would be as long as the emitter. The proof executes the script on unknown bytes
instead. A configuration (`Config`) is what is left to emit, the two stacks and
whether a branch is skipped; `Leads` is what one call makes of it, and a
configuration `Goes` when it belongs to a set in which each has an end of the
right verdict or leads to another, and holds what `ChainsMeetTheirDigits` says.
`GoesStep` is then the whole inductive argument: what the script is in goes, so
its next state does and has not failed. What is left is one lemma for every
operator of `LmsEmit`, from the last opcode back to the first: what the emitter
writes goes if what follows it goes from the values it is meant to compute
(`CoefficientGoes`, `ChecksumGoes`, `StepTurnGoes`, `ChainLoopGoes`,
`CandidateGoes`, `MerkleGoes`, `MessageGoes`, `VerifyGoes`, `HeaderGoes`,
`OutputGone`, `ScriptGoes`). A loop goes if each turn of it does (`LoopGoes`).
What those values demand is arithmetic: a digit is cut out of a byte by a shift
and a remainder, the sum of the digits and its shift fit two bytes with the
sign bit clear, the bytes exchanged are the big-endian checksum, a chain that
skips its first steps is the scheme's walk from the digit on (`ReachedIs`), and
the node above two others is hashed in the order the bit of the leaf says.

What is assumed there of a set (`Consistent`): no digit straddles two bytes, the
checksum stays under 2^15, as the comment at
`crates/lms-script/src/verify.rs:129` demands, and the counts are what the
sets' tests say; of a signature, that all its parts are hash values
(`LmsSignatures`); of a key, that its leaf is one of the tree's, as
`emit_verify` makes sure.

A transaction with more than two outputs is another matter: the script digests
the number of outputs and the first two, so that such a transaction is rejected
because its digest is another one, which is no fact about the script. It is
`DecidesAsReference` in the runs, and so is its second half, that what is
accepted is exactly what the key signed.

The library states induction with operators as parameters, which none of the
provers can instantiate. The proofs that need it here take the least element of
a set of counterexamples instead (`LeastNat`, `InductionOn`, and for lists joined by halves
`CallsJoined`); that reaches facts about recursive functions, but not RECURSIVE
operators, which is why no module under `VaultScript` declares one.

Model-checked only: liveness (`SignedConfirms`, `OrdersPaid`, `Returns`), which
the prover does not do; and of the scripts

- `ScriptNeverFails` and `DecidesAsReference` for SLH-DSA, the second half of
  `FrameDescribesStack` and `FetchAgreesWithReference`: they need the
  SLH-DSA verifier executed on unknown bytes, as `LmsScriptProofs` does the LMS
  one, with the frame and the fetches besides;
- `ForsRootsAreTheTrees` and what a key signed, in `DecidesAsReference`: these
  compare with trees and signatures made by the cases, and hold because the
  hash of the runs has no collisions among them;
- `StackWithinEngine`, which is about the sets in use and not about any set.

## Plan

In order of weight. The journal, the spend commands and the parallel map came
first because money is lost there, then the vault scripts, the largest part of
the code, on which every address of both wallets depends, then what finds the
vaults again: keys, settings and the scan.

1. Proofs: the SLH-DSA verifier executed on unknown bytes, the digest's split and
   the FORS trees first, from which `FrameDescribesStack` follows.
2. `VaultSpend`: deposits taken back by a reorganisation; the journal lost with
   spends in flight, as a second violation of `SignOnce` with its own fault.
3. The scripts: the upper bounds of amounts and outpoint indices, over numbers
   wider than TLC's; the parsing of keys and signatures.

Every passing run takes a question of its own, and a new module takes the place
of one that a stronger run makes superfluous.

## Not modelled

The compression function and the signature schemes' security (data, and
cryptography); the mass calculator of the node software (a dependency, used as
its interface promises), and with it the measured compute budget;
`estimated_slice_units` (a cost report); the leaf cache of the signer
(`leaf_layer`), whose entry is replaced whole and carries its key, and which no
command shares between signatures; the once-only self test; `emit_verify` of the
SLH-DSA emitter, `MemoryJournal` and the test harness, which tests alone use;
usage, listings and the artifacts command, which print.

------------------------------ MODULE LeafScan ------------------------------
(***************************************************************************)
(* Finding the vaults of a seed again: lms-wallet/src/scan.rs over the     *)
(* balance cache of vault-node/src/client.rs, while the money moves on.    *)
(*                                                                         *)
(* Spends walk a coin from leaf to leaf and from key index to key index    *)
(* (change_target of lms-wallet/src/vault.rs).  A wallet restored from the *)
(* mnemonic loads the balances of one vault after another and then         *)
(* discovers; a spend broadcast before the loss may confirm meanwhile, and *)
(* so may payments.  The cache sums amounts per address; here it keeps the *)
(* coins themselves, and an address is empty when it keeps none.           *)
(***************************************************************************)
EXTENDS Integers, FiniteSets

CONSTANTS
    LeafCount,   \* one-time leaves of a vault
    KeyIndices,  \* how many vaults the restored wallet loads
    LeafWindow,  \* leaf_window of discover_vaults
    GapLimit,    \* gap_limit of discover_vaults
    LEAF_CRITICAL_REMAINING,
    LEAF_WARNING_THRESHOLD,
    MaxCoins     \* bound: payments to the vaults

ASSUME ScanAssumption ==
    /\ LeafCount \in Nat \ {0} /\ KeyIndices \in Nat /\ GapLimit \in Nat \ {0}
    /\ LeafWindow \in Nat /\ MaxCoins \in Nat
    /\ LEAF_CRITICAL_REMAINING \in Nat /\ LEAF_WARNING_THRESHOLD \in Nat

Coin  == 1..MaxCoins
Vault == 0..(KeyIndices - 1)
Leaf  == 0..(LeafCount - 1)
\* Where a coin lies, the leaf it came into that vault at, and how many of the
\* spends since then were reported as critical.
Place == [key_index: Vault, leaf: Leaf, entered: Leaf, warnings: Nat]

\* What get_server_info tells of a node; network is whether it is the vault's.
ServerInfo == [is_synced: BOOLEAN, has_utxo_index: BOOLEAN, network: BOOLEAN]

VARIABLES
    at,        \* at[c]: the place of every coin there is
    phase,     \* the restored wallet: "lost", "loading" or "done"
    node,      \* the node the restored wallet is connected to, if it is
    answered,  \* the vaults the node has answered for
    answer,    \* its last answer, while load_balances waits for the lock
    cache,     \* cache[k][l]: the coins last loaded for leaf l of vault k
    found,     \* what discover_vaults returned: vaults and their funded leaves
    known,     \* history: the coins there were when the loading began
    emptied,   \* history: the vaults that have looked empty since then
    strayed    \* history: the coins that have been past the window since then

vars == <<at, phase, node, answered, answer, cache, found, known, emptied, strayed>>

-----------------------------------------------------------------------------
(* LeafBudget and ChangeTarget. *)

Remaining(leaf) == LeafCount - (leaf + 1)

\* Seeded fault: fewer than the critical number, as the comment has it.
Status_Fewer(leaf) ==
    CASE Remaining(leaf) = 0                       -> "Exhausted"
      [] Remaining(leaf) \in 1..(LEAF_CRITICAL_REMAINING - 1) -> "Critical"
      [] OTHER -> IF leaf >= LEAF_WARNING_THRESHOLD THEN "Approaching" ELSE "Healthy"

\* What a spend of the leaf reports of the vault.
Status(leaf) ==
    CASE Remaining(leaf) = 0                       -> "Exhausted"
      [] Remaining(leaf) \in 1..LEAF_CRITICAL_REMAINING -> "Critical"
      [] OTHER -> IF leaf >= LEAF_WARNING_THRESHOLD THEN "Approaching" ELSE "Healthy"

\* Seeded fault: one leaf more than there is.
NextLeaf_PastTheEnd(leaf) == leaf < LeafCount

\* Change of the leaf stays in its vault.
NextLeaf(leaf) == leaf + 1 < LeafCount

ChangeTarget(p) ==
    IF NextLeaf(p.leaf)
    THEN [p EXCEPT !.leaf = @ + 1,
                   !.warnings = @ + (IF Status(p.leaf) = "Critical" THEN 1 ELSE 0)]
    ELSE [key_index |-> p.key_index + 1, leaf |-> 0, entered |-> 0, warnings |-> 0]

-----------------------------------------------------------------------------
(* Scanning. *)

\* assert_node_is_usable, before a new connection is used.
Usable(info) == info.is_synced /\ info.has_utxo_index /\ info.network

\* The leaves a restored wallet asks for.
Asked == {l \in Leaf : l < LeafWindow}

\* The coins the node has for them, in one vault: none, when it is behind or of
\* another network.
Balances(k) ==
    [l \in Asked |-> {c \in DOMAIN at : /\ at[c].key_index = k /\ at[c].leaf = l
                                       /\ \A info \in node : info.is_synced /\ info.network}]

\* scan_range: the funded leaves of a vault, out of loaded balances.
ScanRange(balances, from, to) ==
    {l \in Leaf : from <= l /\ l < to /\ balances[l] # {}}

Scan(k) == ScanRange(cache[k], 0, LeafWindow)

\* Seeded fault: a funded vault does not start the count of empty ones anew.
Reached_NoReset(k) == Cardinality({i \in 0..(k - 1) : Scan(i) = {}}) < GapLimit

\* discover_vaults gets to vault k: no GapLimit empty vaults come before it.
Reached(k) ==
    \A first \in 0..(k - 1) : first + GapLimit <= k =>
        \E i \in first..(first + GapLimit - 1) : Scan(i) # {}

Empty(k) == \A c \in DOMAIN at : at[c].key_index = k => at[c].leaf >= LeafWindow

\* What the histories gain from the state a step leads to.
Watch ==
    /\ emptied' = IF phase = "loading" THEN emptied \cup {k \in Vault : Empty(k)}' ELSE emptied
    /\ strayed' = IF phase = "loading"
                  THEN strayed \cup {c \in DOMAIN at' : at'[c].leaf >= LeafWindow} ELSE strayed

-----------------------------------------------------------------------------
Init ==
    /\ at = << >> /\ phase = "lost" /\ node = {} /\ answered = {} /\ answer = {}
    /\ cache = << >> /\ found = << >> /\ known = {} /\ emptied = {} /\ strayed = {}

\* Someone pays to an address of a vault.
Deposit(k, l) ==
    /\ \E coin \in Coin :
          /\ DOMAIN at = 1..(coin - 1)
          /\ at' = [c \in DOMAIN at \cup {coin} |->
                       IF c \in DOMAIN at THEN at[c]
                       ELSE [key_index |-> k, leaf |-> l, entered |-> l, warnings |-> 0]]
    /\ Watch
    /\ UNCHANGED <<phase, node, answered, answer, cache, found, known>>

\* A spend is accepted, of the only coin on the leaves the command asks about,
\* as many as a discovery does; its change is the coin.  Coins past them move by
\* the library alone, and so does a migration, which no command performs.
Spend(c) ==
    /\ \A d \in DOMAIN at \ {c} :
          at[d].key_index = at[c].key_index => at[d].leaf >= LeafWindow
    /\ ChangeTarget(at[c]).key_index \in Vault
    /\ at' = [at EXCEPT ![c] = ChangeTarget(@)]
    /\ Watch
    /\ UNCHANGED <<phase, node, answered, answer, cache, found, known>>

\* The wallet is restored from the mnemonic, connects to a node and starts to
\* load: finish_connect fails on one that is of no use.
Restore ==
    /\ phase = "lost" /\ phase' = "loading"
    /\ \E info \in ServerInfo : Usable(info) /\ node' = {info}
    /\ known' = DOMAIN at
    /\ emptied' = {k \in Vault : Empty(k)}
    /\ strayed' = {c \in DOMAIN at : at[c].leaf >= LeafWindow}
    /\ UNCHANGED <<at, answered, answer, cache, found>>

\* load_balances, the request: utxos_for the leaves of the next vault.  It
\* fails without an index of the outputs.
Fetch(k) ==
    /\ phase = "loading" /\ answer = {}
    /\ \A info \in node : info.has_utxo_index
    /\ answered = 0..(k - 1)
    /\ answered' = answered \cup {k}
    /\ answer' = {[key_index |-> k, balances |-> Balances(k)]}
    /\ UNCHANGED <<at, phase, node, cache, found, known, emptied, strayed>>

\* load_balances, the rest: the answer goes into the cache, under its lock.
Fill ==
    \E a \in answer :
        /\ cache' = [k \in DOMAIN cache \cup {a.key_index} |->
                        IF k = a.key_index THEN a.balances ELSE cache[k]]
        /\ answer' = {}
        /\ UNCHANGED <<at, phase, node, answered, found, known, emptied, strayed>>

(***************************************************************************)
(* discover_vaults.  It reads nothing but the cache.  Where it would go    *)
(* past the vaults that were loaded, balance fails, and so does it.        *)
(***************************************************************************)
Discover ==
    /\ phase = "loading" /\ answer = {} /\ DOMAIN cache = Vault
    /\ ~Reached(KeyIndices)
    /\ found' = [k \in {i \in Vault : Reached(i) /\ Scan(i) # {}} |-> Scan(k)]
    /\ phase' = "done"
    /\ UNCHANGED <<at, node, answered, answer, cache, known, emptied, strayed>>

Next ==
    \/ \E k \in Vault, l \in Leaf : Deposit(k, l)
    \/ \E c \in DOMAIN at : Spend(c)
    \/ Restore \/ Fill \/ Discover
    \/ \E k \in Vault : Fetch(k)

Spec == Init /\ [][Next]_vars
-----------------------------------------------------------------------------
\* The state is well-typed; money lies on leaves that exist.
TypeOK ==
    /\ DOMAIN at \subseteq Coin /\ at \in [DOMAIN at -> Place]
    /\ phase \in {"lost", "loading", "done"}
    /\ node \subseteq ServerInfo
    /\ answered \subseteq Vault
    /\ answer \subseteq [key_index: Vault, balances: [Asked -> SUBSET Coin]]
    /\ DOMAIN cache \subseteq Vault /\ cache \in [DOMAIN cache -> [Asked -> SUBSET Coin]]
    /\ DOMAIN found \subseteq Vault /\ found \in [DOMAIN found -> SUBSET Leaf]
    /\ known \subseteq Coin /\ emptied \subseteq Vault /\ strayed \subseteq Coin

(***************************************************************************)
(* A discovery that succeeds has found every coin the seed had when the    *)
(* loading began, wherever spends have carried it since, unless the coin   *)
(* has been past the leaf window meanwhile, or GapLimit consecutive vaults *)
(* before it have each looked empty meanwhile.  (discover_vaults over      *)
(* load_balances in the order of the key indices)                          *)
(***************************************************************************)
DiscoveryMissesNoMoney ==
    phase = "done" =>
        \A c \in known :
            \/ \E k \in DOMAIN found : \E l \in found[k] : c \in cache[k][l]
            \/ c \in strayed
            \/ \E first \in Vault :
                  /\ first + GapLimit <= at[c].key_index
                  /\ first..(first + GapLimit - 1) \subseteq emptied

(***************************************************************************)
(* Money that spends have carried to the last leaf of a vault, from where  *)
(* the spend command does not move it, was announced: of these spends the  *)
(* last LEAF_CRITICAL_REMAINING, or all when there were fewer, were        *)
(* reported as critical.  (budget_after and status at every spend)         *)
(***************************************************************************)
LastLeafIsAnnounced ==
    \A c \in DOMAIN at :
        LET p == at[c] spends == p.leaf - p.entered
        IN  p.leaf = LeafCount - 1 =>
              p.warnings >= IF spends < LEAF_CRITICAL_REMAINING
                            THEN spends ELSE LEAF_CRITICAL_REMAINING
=============================================================================

--------------------------- MODULE LeafScanProofs ---------------------------
(***************************************************************************)
(* The invariants of LeafScan, for any number of vaults and leaves, any    *)
(* window and gap limit, and any number of payments.                       *)
(***************************************************************************)
EXTENDS LeafScan, TLAPS

-----------------------------------------------------------------------------
(* The inductive invariant. *)

\* The answers the node has given, wherever they are kept now.
Loaded == {[key_index |-> k, balances |-> cache[k]] : k \in DOMAIN cache} \cup answer

Seen(c, a) == \E l \in Asked : c \in a.balances[l]

NotBegun ==
    phase = "lost" => answered = {} /\ answer = {} /\ DOMAIN cache = {} /\ known = {}

\* The wallet is connected to a node that knows all of its coins.
Connected == phase # "lost" => \A info \in node : Usable(info)

\* Vaults are loaded from the first one on, one at a time.
LoadedInOrder ==
    /\ answered = {a.key_index : a \in Loaded}
    /\ \A k \in answered : \A j \in 0..k : j \in answered
    /\ \A a, b \in answer : a = b /\ a.key_index \notin DOMAIN cache
    /\ phase = "done" => answer = {}

\* The histories have seen what the answers show and what there is now.
Watched ==
    /\ \A a \in Loaded : (\A l \in Asked : a.balances[l] = {}) => a.key_index \in emptied
    /\ phase = "loading" =>
          /\ \A k \in Vault : Empty(k) => k \in emptied
          /\ \A c \in DOMAIN at : at[c].leaf >= LeafWindow => c \in strayed

\* No coin slips from a vault not yet loaded past the loading unseen.
KnownFollowed ==
    /\ known \subseteq DOMAIN at
    /\ phase = "loading" =>
          \A c \in known :
              \/ c \in strayed
              \/ at[c].key_index \notin answered
              \/ \E a \in Loaded : a.key_index <= at[c].key_index /\ Seen(c, a)

ScanInv ==
    TypeOK /\ NotBegun /\ Connected /\ LoadedInOrder /\ Watched /\ KnownFollowed
      /\ DiscoveryMissesNoMoney

\* A coin had a warning for every spend since it came, or for every spend that
\* left no more than LEAF_CRITICAL_REMAINING leaves.
Announced ==
    \A c \in DOMAIN at :
        LET p == at[c]
        IN  /\ p.entered <= p.leaf
            /\ \/ p.warnings >= p.leaf - p.entered
               \/ p.warnings >= p.leaf + LEAF_CRITICAL_REMAINING + 1 - LeafCount

-----------------------------------------------------------------------------
(* Types. *)

\* The leaf change goes to exists, and money never goes to an earlier vault.
LEMMA ChangeMovesOn ==
    ASSUME NEW p \in Place, ChangeTarget(p).key_index \in Vault
    PROVE  /\ ChangeTarget(p) \in Place
           /\ ChangeTarget(p).key_index >= p.key_index
  <1> USE ScanAssumption DEF Place, Vault, Leaf
  <1>1. CASE NextLeaf(p.leaf)
    <2> DEFINE more == IF Status(p.leaf) = "Critical" THEN 1 ELSE 0
    <2>1. p.leaf + 1 \in Leaf /\ p.warnings + more \in Nat
      BY <1>1 DEF NextLeaf
    <2>2. ChangeTarget(p) = [p EXCEPT !.leaf = p.leaf + 1, !.warnings = p.warnings + more]
      BY <1>1 DEF ChangeTarget
    <2>3. /\ ChangeTarget(p).key_index = p.key_index
          /\ ChangeTarget(p) \in Place
      <3> HIDE DEF more
      <3> QED
        BY <2>1, <2>2
    <2>4. p.key_index \in Int
      OBVIOUS
    <2> QED
      BY <2>3, <2>4
  <1>2. CASE ~NextLeaf(p.leaf)
    BY <1>2 DEF ChangeTarget, NextLeaf
  <1> QED
    BY <1>1, <1>2

LEMMA DepositType ==
    ASSUME TypeOK, NEW k \in Vault, NEW l \in Leaf, Deposit(k, l)
    PROVE  /\ DOMAIN at' \subseteq Coin /\ at' \in [DOMAIN at' -> Place]
           /\ DOMAIN at \subseteq DOMAIN at'
           /\ \A c \in DOMAIN at : at'[c] = at[c]
           /\ \A c \in DOMAIN at' \ DOMAIN at :
                 at'[c] = [key_index |-> k, leaf |-> l, entered |-> l, warnings |-> 0]
  <1>1. PICK coin \in Coin :
          at' = [c \in DOMAIN at \cup {coin} |->
                    IF c \in DOMAIN at THEN at[c]
                    ELSE [key_index |-> k, leaf |-> l, entered |-> l, warnings |-> 0]]
    BY DEF Deposit
  <1>2. [key_index |-> k, leaf |-> l, entered |-> l, warnings |-> 0] \in Place
    BY DEF Place
  <1> QED
    BY <1>1, <1>2 DEF TypeOK

LEMMA SpendType ==
    ASSUME TypeOK, NEW c \in DOMAIN at, Spend(c)
    PROVE  /\ DOMAIN at' = DOMAIN at /\ at' \in [DOMAIN at' -> Place]
           /\ \A d \in DOMAIN at : at'[d] = IF d = c THEN ChangeTarget(at[c]) ELSE at[d]
           /\ \A d \in DOMAIN at : at'[d].key_index >= at[d].key_index
  <1>1. at[c] \in Place
    BY DEF TypeOK
  <1>2. /\ ChangeTarget(at[c]) \in Place
        /\ ChangeTarget(at[c]).key_index >= at[c].key_index
    BY <1>1, ChangeMovesOn DEF Spend
  <1>3. /\ DOMAIN at' = DOMAIN at
        /\ \A d \in DOMAIN at : at'[d] = IF d = c THEN ChangeTarget(at[c]) ELSE at[d]
    BY DEF Spend, TypeOK
  <1>4. at' \in [DOMAIN at' -> Place]
    BY <1>2 DEF Spend, TypeOK
  <1>5. \A d \in DOMAIN at : at[d].key_index \in Int
    BY DEF TypeOK, Place, Vault
  <1> QED
    BY <1>2, <1>3, <1>4, <1>5

LEMMA WatchType ==
    ASSUME TypeOK, DOMAIN at' \subseteq Coin, Watch
    PROVE  emptied' \subseteq Vault /\ strayed' \subseteq Coin
  BY DEF Watch, TypeOK, Vault

LEMMA InitType == Init => TypeOK
  BY DEF Init, TypeOK

LEMMA NextType == TypeOK /\ [Next]_vars => TypeOK'
  <1> SUFFICES ASSUME TypeOK, [Next]_vars PROVE TypeOK'
    OBVIOUS
  <1>1. ASSUME NEW k \in Vault, NEW l \in Leaf, Deposit(k, l) PROVE TypeOK'
    BY <1>1, DepositType, WatchType DEF TypeOK, Deposit, Asked, Leaf, Vault, Place, Coin
  <1>2. ASSUME NEW c \in DOMAIN at, Spend(c) PROVE TypeOK'
    BY <1>2, SpendType, WatchType DEF TypeOK, Spend, Asked, Leaf, Vault, Place, Coin
  <1>3. CASE Restore
    BY <1>3 DEF TypeOK, Restore, Asked, Leaf, Vault, Place, Coin
  <1>4. CASE Fill
    BY <1>4 DEF TypeOK, Fill
  <1>5. CASE Discover
    BY <1>5 DEF TypeOK, Discover, Scan, ScanRange
  <1>6. ASSUME NEW k \in Vault, Fetch(k) PROVE TypeOK'
    <2>1. Balances(k) \in [Asked -> SUBSET Coin]
      BY DEF Balances, TypeOK
    <2> QED
      BY <1>6, <2>1 DEF TypeOK, Fetch
  <1>7. CASE UNCHANGED vars
    BY <1>7 DEF TypeOK, vars, Asked, Leaf, Vault, Place, Coin
  <1> QED
    BY <1>1, <1>2, <1>3, <1>4, <1>5, <1>6, <1>7 DEF Next

(***************************************************************************)
(* The state of a scan is well-typed and money lies on leaves that exist.  *)
(***************************************************************************)
THEOREM ScanTypeCorrect == Spec => []TypeOK
  BY InitType, NextType, PTL DEF Spec

-----------------------------------------------------------------------------
(* The announcement of the last leaf. *)

LEMMA SpendAnnounced ==
    ASSUME TypeOK, Announced, NEW c \in DOMAIN at, Spend(c)
    PROVE  Announced'
  <1> DEFINE p == at[c]
  <1>1. p \in Place /\ p.entered <= p.leaf
             /\ \/ p.warnings >= p.leaf - p.entered
                \/ p.warnings >= p.leaf + LEAF_CRITICAL_REMAINING + 1 - LeafCount
    BY DEF TypeOK, Announced
  <1>2. /\ p.leaf \in Nat /\ p.entered \in Nat /\ p.warnings \in Nat
        /\ LeafCount \in Nat /\ LEAF_CRITICAL_REMAINING \in Nat
        /\ p.leaf < LeafCount
    BY <1>1, ScanAssumption DEF Place, Leaf
  <1> DEFINE q == ChangeTarget(p)
  <1>3. /\ q.entered <= q.leaf
        /\ \/ q.warnings >= q.leaf - q.entered
           \/ q.warnings >= q.leaf + LEAF_CRITICAL_REMAINING + 1 - LeafCount
    <2>1. CASE ~NextLeaf(p.leaf)
      BY <1>2, <2>1 DEF ChangeTarget
    <2>2. CASE NextLeaf(p.leaf)
      <3> DEFINE more == IF Status(p.leaf) = "Critical" THEN 1 ELSE 0
      <3>1. /\ q.leaf = p.leaf + 1 /\ q.entered = p.entered
            /\ q.warnings = p.warnings + more
        BY <1>1, <2>2 DEF ChangeTarget, Place
      <3>2. CASE Remaining(p.leaf) \in 1..LEAF_CRITICAL_REMAINING
        <4>1. Remaining(p.leaf) # 0
          BY <3>2, <1>2
        <4>2. Status(p.leaf) = "Critical"
          BY <3>2, <4>1 DEF Status
        <4> QED
          BY <1>1, <1>2, <3>1, <4>2
      <3>3. CASE Remaining(p.leaf) \notin 1..LEAF_CRITICAL_REMAINING
        <4>1. p.leaf + 1 + LEAF_CRITICAL_REMAINING + 1 - LeafCount <= 0
          BY <3>3, <2>2, <1>2 DEF Remaining, NextLeaf
        <4>2. more \in Nat
          OBVIOUS
        <4> HIDE DEF more
        <4> QED
          BY <1>1, <1>2, <3>1, <4>1, <4>2
      <3> QED
        BY <3>2, <3>3
    <2> QED
      BY <2>1, <2>2
  <1> HIDE DEF q, p
  <1>4. /\ DOMAIN at' = DOMAIN at
        /\ \A d \in DOMAIN at : at'[d] = IF d = c THEN q ELSE at[d]
    BY SpendType DEF q, p
  <1> QED
    BY <1>3, <1>4 DEF Announced

LEMMA NextAnnounced == TypeOK /\ Announced /\ [Next]_vars => Announced'
  <1> SUFFICES ASSUME TypeOK, Announced, [Next]_vars PROVE Announced'
    OBVIOUS
  <1>1. ASSUME NEW k \in Vault, NEW l \in Leaf, Deposit(k, l) PROVE Announced'
    <2>1. l <= l /\ 0 >= l - l
      BY ScanAssumption DEF Leaf
    <2> QED
      BY <1>1, <2>1, DepositType DEF Announced
  <1>2. ASSUME NEW c \in DOMAIN at, Spend(c) PROVE Announced'
    BY <1>2, SpendAnnounced
  <1>3. CASE UNCHANGED at
    BY <1>3 DEF Announced
  <1> QED
    BY <1>1, <1>2, <1>3 DEF Next, Restore, Fill, Discover, Fetch, vars

(***************************************************************************)
(* Money that spends have carried to the last leaf of a vault has had a    *)
(* critical report from each of the last LEAF_CRITICAL_REMAINING spends,   *)
(* however many leaves a vault has. (budget_after, status, change_target)  *)
(***************************************************************************)
THEOREM LastLeafIsAnnouncedHolds == Spec => []LastLeafIsAnnounced
  <1>1. Init => Announced
    BY DEF Init, Announced
  <1>2. TypeOK /\ Announced => LastLeafIsAnnounced
    BY ScanAssumption DEF TypeOK, Announced, LastLeafIsAnnounced, Place, Leaf
  <1> QED
    BY <1>1, <1>2, NextAnnounced, ScanTypeCorrect, PTL DEF Spec

-----------------------------------------------------------------------------
(* The discovery. *)

\* The vaults answered for are those in the cache and that of the last answer.
LEMMA CacheAnswered ==
    ASSUME LoadedInOrder, NEW j \in DOMAIN cache
    PROVE  j \in answered
  <1> DEFINE a == [key_index |-> j, balances |-> cache[j]]
  <1>1. a \in Loaded
    BY DEF Loaded
  <1>2. a.key_index = j
    OBVIOUS
  <1> HIDE DEF a
  <1> QED
    BY <1>1, <1>2 DEF LoadedInOrder

\* What has been loaded, step by step.
LEMMA LoadedUnchanged ==
    ASSUME UNCHANGED <<answer, cache>>
    PROVE  Loaded' = Loaded
  BY DEF Loaded

LEMMA LoadedByFetch ==
    ASSUME NEW k \in Vault, Fetch(k)
    PROVE  Loaded' = Loaded \cup {[key_index |-> k, balances |-> Balances(k)]}
  BY DEF Fetch, Loaded

LEMMA LoadedByFill ==
    ASSUME TypeOK, LoadedInOrder, Fill
    PROVE  Loaded' = Loaded
  <1>1. PICK a \in answer :
          /\ cache' = [k \in DOMAIN cache \cup {a.key_index} |->
                          IF k = a.key_index THEN a.balances ELSE cache[k]]
          /\ answer' = {}
    BY DEF Fill
  <1>2. answer = {a} /\ a.key_index \notin DOMAIN cache
    BY DEF LoadedInOrder
  <1>3. a = [key_index |-> a.key_index, balances |-> a.balances]
    BY DEF TypeOK
  <1>4. DOMAIN cache' = DOMAIN cache \cup {a.key_index}
    BY <1>1
  <1>5. /\ \A k \in DOMAIN cache : cache'[k] = cache[k]
        /\ cache'[a.key_index] = a.balances
    BY <1>1, <1>2
  <1> QED
    BY <1>1, <1>2, <1>3, <1>4, <1>5 DEF Loaded

\* Money moves: payments and spends change nothing but the money and what the
\* histories see of it, and take no coin to an earlier vault.
Moved ==
    /\ DOMAIN at \subseteq DOMAIN at'
    /\ \A c \in DOMAIN at : at'[c].key_index >= at[c].key_index
    /\ Watch
    /\ UNCHANGED <<phase, node, answered, answer, cache, found, known>>

LEMMA MoveKeepsScanInv ==
    ASSUME ScanInv, TypeOK', Moved
    PROVE  ScanInv'
  <1>1. Loaded' = Loaded
    BY LoadedUnchanged DEF Moved
  <1>2. NotBegun' /\ Connected' /\ LoadedInOrder'
    BY <1>1 DEF ScanInv, NotBegun, Connected, LoadedInOrder, Moved
  <1>3. emptied \subseteq emptied' /\ strayed \subseteq strayed'
    BY DEF Moved, Watch
  <1>4. Watched'
    <2>1. phase' = "loading" =>
            /\ \A k \in Vault : Empty(k)' => k \in emptied'
            /\ \A c \in DOMAIN at' : at'[c].leaf >= LeafWindow => c \in strayed'
      BY DEF Moved, Watch
    <2> QED
      BY <1>1, <1>3, <2>1 DEF ScanInv, Watched, Moved
  <1>5. \A c \in DOMAIN at : /\ at[c].key_index \in Vault /\ at'[c].key_index \in Vault
                             /\ at'[c].key_index >= at[c].key_index
    BY DEF ScanInv, TypeOK, Place, Moved
  <1>6. KnownFollowed'
    <2>1. known' \subseteq DOMAIN at'
      BY DEF ScanInv, KnownFollowed, Moved
    <2>2. SUFFICES ASSUME phase = "loading", NEW c \in known
                   PROVE  \/ c \in strayed'
                          \/ at'[c].key_index \notin answered
                          \/ \E a \in Loaded : a.key_index <= at'[c].key_index /\ Seen(c, a)
      BY <1>1, <2>1 DEF KnownFollowed, Seen, Moved
    <2>3. c \in DOMAIN at
      BY DEF ScanInv, KnownFollowed
    <2>4. CASE c \in strayed
      BY <1>3, <2>4
    <2>5. CASE at[c].key_index \notin answered
      BY <1>5, <2>3, <2>5 DEF ScanInv, LoadedInOrder, Vault
    <2>6. CASE \E a \in Loaded : a.key_index <= at[c].key_index /\ Seen(c, a)
      <3>1. PICK a \in Loaded : a.key_index <= at[c].key_index /\ Seen(c, a)
        BY <2>6
      <3>2. a.key_index \in answered
        BY DEF ScanInv, LoadedInOrder
      <3>3. a.key_index \in Vault
        BY <3>2 DEF ScanInv, TypeOK
      <3> QED
        BY <1>5, <2>3, <3>1, <3>3 DEF Vault
    <2> QED
      BY <2>2, <2>4, <2>5, <2>6 DEF ScanInv, KnownFollowed
  <1>7. DiscoveryMissesNoMoney'
    <2>1. SUFFICES ASSUME phase = "done", NEW c \in known
                   PROVE  \/ \E k \in DOMAIN found : \E l \in found[k] : c \in cache[k][l]
                          \/ c \in strayed'
                          \/ \E first \in Vault :
                                /\ first + GapLimit <= at'[c].key_index
                                /\ first..(first + GapLimit - 1) \subseteq emptied'
      BY DEF DiscoveryMissesNoMoney, Moved
    <2>2. c \in DOMAIN at
      BY DEF ScanInv, KnownFollowed
    <2>3. CASE \E first \in Vault :
                  /\ first + GapLimit <= at[c].key_index
                  /\ first..(first + GapLimit - 1) \subseteq emptied
      <3>1. PICK first \in Vault :
                  /\ first + GapLimit <= at[c].key_index
                  /\ first..(first + GapLimit - 1) \subseteq emptied
        BY <2>3
      <3>2. first + GapLimit <= at'[c].key_index
        BY <1>5, <2>2, <3>1, ScanAssumption DEF Vault
      <3> QED
        BY <1>3, <3>1, <3>2
    <2> QED
      BY <1>3, <2>1, <2>3 DEF ScanInv, DiscoveryMissesNoMoney
  <1> QED
    BY <1>2, <1>4, <1>6, <1>7 DEF ScanInv

LEMMA DepositKeepsScanInv ==
    ASSUME ScanInv, TypeOK', NEW k \in Vault, NEW l \in Leaf, Deposit(k, l)
    PROVE  ScanInv'
  <1>1. \A c \in DOMAIN at : at[c].key_index \in Int
    BY DEF ScanInv, TypeOK, Place, Vault
  <1>2. /\ DOMAIN at \subseteq DOMAIN at' /\ \A c \in DOMAIN at : at'[c] = at[c]
    BY DepositType DEF ScanInv
  <1>3. Moved
    BY <1>1, <1>2 DEF Deposit, Moved
  <1> QED
    BY <1>3, MoveKeepsScanInv

LEMMA SpendKeepsScanInv ==
    ASSUME ScanInv, TypeOK', NEW c \in DOMAIN at, Spend(c)
    PROVE  ScanInv'
  <1>1. Moved
    BY SpendType DEF Spend, Moved, ScanInv
  <1> QED
    BY <1>1, MoveKeepsScanInv

LEMMA RestoreKeepsScanInv ==
    ASSUME ScanInv, TypeOK', Restore
    PROVE  ScanInv'
  <1>1. /\ Loaded = {} /\ answered = {} /\ Loaded' = Loaded
    BY DEF ScanInv, NotBegun, Restore, Loaded
  <1>2. /\ phase' = "loading" /\ answered' = {} /\ answer' = {}
    BY DEF ScanInv, NotBegun, Restore
  <1>3. LoadedInOrder' /\ Connected'
    BY <1>1, <1>2 DEF LoadedInOrder, Connected, Restore
  <1>4. Watched'
    BY <1>1 DEF Watched, Restore, Empty
  <1>5. KnownFollowed'
    BY <1>2 DEF KnownFollowed, Restore
  <1> QED
    BY <1>2, <1>3, <1>4, <1>5 DEF ScanInv, NotBegun, DiscoveryMissesNoMoney

LEMMA FetchKeepsScanInv ==
    ASSUME ScanInv, TypeOK', NEW k \in Vault, Fetch(k)
    PROVE  ScanInv'
  <1> DEFINE new == [key_index |-> k, balances |-> Balances(k)]
  <1>1. Loaded' = Loaded \cup {new}
    BY LoadedByFetch
  <1>2. /\ phase = "loading" /\ answer = {} /\ answered = 0..(k - 1)
        /\ answered' = answered \cup {k} /\ answer' = {new}
        /\ UNCHANGED <<at, phase, node, cache, found, known, emptied, strayed>>
    BY DEF Fetch
  <1>3. new.key_index = k /\ new.balances = Balances(k)
    OBVIOUS
  <1>4. LoadedInOrder'
    <2>1. answered' = {a.key_index : a \in Loaded'}
      BY <1>1, <1>2, <1>3 DEF ScanInv, LoadedInOrder
    <2>2. \A j \in answered' : \A i \in 0..j : i \in answered'
      BY <1>2 DEF Vault
    <2>3. k \notin DOMAIN cache
      <3>1. \A j \in DOMAIN cache : j \in answered
        BY CacheAnswered DEF ScanInv
      <3>2. k \notin answered
        BY <1>2 DEF Vault
      <3> QED
        BY <3>1, <3>2
    <2>4. phase' = "loading"
      BY <1>2
    <2> QED
      BY <1>2, <1>3, <2>1, <2>2, <2>3, <2>4 DEF LoadedInOrder
  <1>5. \A c \in DOMAIN at : at[c].key_index = k /\ at[c].leaf < LeafWindow =>
            at[c].leaf \in Asked /\ c \in new.balances[at[c].leaf]
    BY <1>2 DEF ScanInv, TypeOK, Place, Asked, Balances, Connected, Usable
  <1> HIDE DEF new
  <1>6. \A c \in DOMAIN at : at[c].leaf \in Int /\ LeafWindow \in Int
    BY ScanAssumption DEF ScanInv, TypeOK, Place, Leaf
  <1>7. Watched'
    <2>1. (\A l \in Asked : new.balances[l] = {}) => k \in emptied
      <3>1. (\A l \in Asked : new.balances[l] = {}) => Empty(k)
        BY <1>5, <1>6 DEF Empty
      <3> QED
        BY <1>2, <3>1 DEF ScanInv, Watched
    <2>2. \A i \in Vault : Empty(i)' => Empty(i)
      BY <1>2 DEF Empty
    <2> QED
      BY <1>1, <1>2, <1>3, <2>1, <2>2 DEF ScanInv, Watched
  <1>8. KnownFollowed'
    <2>1. SUFFICES ASSUME NEW c \in known
                   PROVE  \/ c \in strayed
                          \/ at[c].key_index \notin answered'
                          \/ \E a \in Loaded' : a.key_index <= at[c].key_index /\ Seen(c, a)
      BY <1>2 DEF ScanInv, KnownFollowed, Seen
    <2>2. c \in DOMAIN at
      BY DEF ScanInv, KnownFollowed
    <2>3. CASE at[c].key_index = k /\ c \notin strayed
      <3>1. at[c].leaf < LeafWindow
        BY <1>2, <1>6, <2>2, <2>3 DEF ScanInv, Watched
      <3>2. Seen(c, new)
        BY <1>5, <2>2, <2>3, <3>1 DEF Seen
      <3> QED
        BY <1>1, <1>3, <2>3, <3>2 DEF Vault
    <2> QED
      BY <1>1, <1>2, <2>3 DEF ScanInv, KnownFollowed
  <1> QED
    BY <1>2, <1>4, <1>7, <1>8 DEF ScanInv, NotBegun, Connected, DiscoveryMissesNoMoney

LEMMA FillKeepsScanInv ==
    ASSUME ScanInv, TypeOK', Fill
    PROVE  ScanInv'
  <1>1. Loaded' = Loaded
    BY LoadedByFill DEF ScanInv
  <1>2. /\ answer' = {} /\ answer # {}
        /\ UNCHANGED <<at, phase, node, answered, found, known, emptied, strayed>>
    BY DEF Fill
  <1>3. LoadedInOrder' /\ NotBegun' /\ Connected'
    BY <1>1, <1>2 DEF ScanInv, LoadedInOrder, NotBegun, Connected
  <1>4. Watched'
    BY <1>1, <1>2 DEF ScanInv, Watched, Empty
  <1>5. KnownFollowed'
    BY <1>1, <1>2 DEF ScanInv, KnownFollowed, Seen
  <1>6. phase # "done"
    BY <1>2 DEF ScanInv, LoadedInOrder
  <1> QED
    BY <1>2, <1>3, <1>4, <1>5, <1>6 DEF ScanInv, DiscoveryMissesNoMoney

\* What discover_vaults returns out of loaded balances holds every coin that was
\* seen in them, or GapLimit vaults before the coin were seen empty.
LEMMA DiscoverFinds ==
    ASSUME ScanInv, Discover, NEW c \in known, c \notin strayed
    PROVE  \/ \E k \in DOMAIN found' : \E l \in found'[k] : c \in cache[k][l]
           \/ \E first \in Vault :
                 /\ first + GapLimit <= at[c].key_index
                 /\ first..(first + GapLimit - 1) \subseteq emptied
  <1>1. /\ phase = "loading" /\ answer = {} /\ DOMAIN cache = Vault
        /\ found' = [k \in {i \in Vault : Reached(i) /\ Scan(i) # {}} |-> Scan(k)]
    BY DEF Discover
  <1>2. Loaded = {[key_index |-> k, balances |-> cache[k]] : k \in Vault}
    BY <1>1 DEF Loaded
  <1>3. answered = Vault
    BY <1>1, CacheAnswered DEF ScanInv, TypeOK
  <1>4. at[c].key_index \in Vault /\ at[c].key_index \in Int
    BY DEF ScanInv, KnownFollowed, TypeOK, Place, Vault
  <1>5. \E a \in Loaded : a.key_index <= at[c].key_index /\ Seen(c, a)
    BY <1>1, <1>3, <1>4 DEF ScanInv, KnownFollowed
  <1>6. PICK k \in Vault : /\ k <= at[c].key_index
                          /\ \E l \in Asked : c \in cache[k][l]
    BY <1>2, <1>5 DEF Seen
  <1>7. PICK l \in Asked : c \in cache[k][l]
    BY <1>6
  <1>8. l \in Scan(k)
    BY <1>7, ScanAssumption DEF Scan, ScanRange, Asked, Leaf
  <1>9. CASE Reached(k)
    BY <1>1, <1>7, <1>8, <1>9
  <1>10. CASE ~Reached(k)
    <2>1. PICK first \in 0..(k - 1) :
            /\ first + GapLimit <= k
            /\ \A i \in first..(first + GapLimit - 1) : Scan(i) = {}
      BY <1>10 DEF Reached
    <2>2. first \in Vault /\ k \in Int /\ GapLimit \in Nat \ {0}
      BY ScanAssumption DEF Vault
    <2>3. first + GapLimit <= at[c].key_index
      BY <1>4, <1>6, <2>1, <2>2 DEF Vault
    <2>4. ASSUME NEW i \in first..(first + GapLimit - 1) PROVE i \in emptied
      <3>1. i \in Vault
        BY <2>1, <2>2, ScanAssumption DEF Vault
      <3>2. \A j \in Asked : cache[i][j] = {}
        BY <2>1, ScanAssumption DEF Scan, ScanRange, Asked, Leaf
      <3>3. [key_index |-> i, balances |-> cache[i]] \in Loaded
        BY <1>2, <3>1
      <3> QED
        BY <3>2, <3>3 DEF ScanInv, Watched
    <2> QED
      BY <2>2, <2>3, <2>4
  <1> QED
    BY <1>9, <1>10

LEMMA DiscoverKeepsScanInv ==
    ASSUME ScanInv, TypeOK', Discover
    PROVE  ScanInv'
  <1>1. /\ phase' = "done" /\ answer' = {}
        /\ UNCHANGED <<at, node, answered, answer, cache, known, emptied, strayed>>
    BY DEF Discover
  <1>2. Loaded' = Loaded
    BY <1>1, LoadedUnchanged
  <1>3. NotBegun' /\ Connected' /\ LoadedInOrder' /\ Watched' /\ KnownFollowed'
    <2>1. phase = "loading"
      BY DEF Discover
    <2> QED
      BY <1>1, <1>2, <2>1
        DEF ScanInv, NotBegun, Connected, LoadedInOrder, Watched, KnownFollowed
  <1>4. DiscoveryMissesNoMoney'
    BY <1>1, DiscoverFinds DEF DiscoveryMissesNoMoney
  <1> QED
    BY <1>3, <1>4 DEF ScanInv

LEMMA InitScanInv == Init => ScanInv
  BY InitType
    DEF Init, ScanInv, NotBegun, Connected, LoadedInOrder, Watched, KnownFollowed, Loaded,
        DiscoveryMissesNoMoney

LEMMA NextScanInv == ScanInv /\ [Next]_vars => ScanInv'
  <1> SUFFICES ASSUME ScanInv, [Next]_vars PROVE ScanInv'
    OBVIOUS
  <1>1. TypeOK'
    BY NextType DEF ScanInv
  <1>2. CASE Next
    BY <1>1, <1>2, DepositKeepsScanInv, SpendKeepsScanInv, RestoreKeepsScanInv,
       FetchKeepsScanInv, FillKeepsScanInv, DiscoverKeepsScanInv DEF Next
  <1>3. CASE UNCHANGED vars
    <2>1. Loaded' = Loaded
      BY <1>3, LoadedUnchanged DEF vars
    <2> QED
      BY <1>1, <1>3, <2>1
        DEF vars, ScanInv, NotBegun, Connected, LoadedInOrder, Watched, KnownFollowed, Seen,
            Empty, DiscoveryMissesNoMoney
  <1> QED
    BY <1>2, <1>3

(***************************************************************************)
(* A discovery that succeeds has found every coin there was when the       *)
(* loading began, but for those past the window or behind a gap of vaults  *)
(* that looked empty meanwhile. (discover_vaults over load_balances)       *)
(***************************************************************************)
THEOREM DiscoveryMissesNoMoneyHolds == Spec => []DiscoveryMissesNoMoney
  <1>1. ScanInv => DiscoveryMissesNoMoney
    BY DEF ScanInv
  <1> QED
    BY <1>1, InitScanInv, NextScanInv, PTL DEF Spec
=============================================================================

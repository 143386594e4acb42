----------------------------- MODULE VaultSpend -----------------------------
(***************************************************************************)
(* The spend command of the LMS vault (vault-cli/src/spend_cmd.rs over     *)
(* lms-wallet/src/{spend,vault,tx}.rs and vault-core/src/preflight.rs),    *)
(* run again and again against a node.                                     *)
(*                                                                         *)
(* One command runs at a time.  It asks the node for the vault's UTXOs,    *)
(* decides the fee, signs through the journal and broadcasts; the chain    *)
(* moves between these steps, and the command may end after any of them.   *)
(* The journal is what SpendJournal shows of it for one wallet: at most    *)
(* one digest per leaf, never forgotten.  A digest stands for what it      *)
(* covers, so the transaction itself is used in its place.                 *)
(***************************************************************************)
EXTENDS Preflight, Sequences

CONSTANTS
    LeafCount,    \* one-time leaves of the vault
    Window,       \* leaves the command asks the node about
    Payments,     \* amounts others pay into the vault
    Amounts,      \* amounts the user asks to spend
    Fees,         \* fees the user may name with --fee
    MaxDeposits,  \* bound: payments into the vault
    FaultSets,    \* the combinations of faults an execution may meet
    None          \* no UTXO, no transaction

FaultKind == {"evict", "reorg", "restore"}

ASSUME SizeAssumption ==
    /\ LeafCount \in Nat \ {0} /\ Window \in Nat
    /\ Payments \subseteq 1..MaxAmount /\ MaxDeposits \in Nat
    /\ Amounts \subseteq 0..(Word - 1) /\ Fees \subseteq 0..(Word - 1)
ASSUME VaultFaultsAssumption == FaultSets \subseteq SUBSET FaultKind

Leaf == 0..(LeafCount - 1)

(***************************************************************************)
(* A UTXO of the vault.  Its outpoint is the payment it descends from and  *)
(* the spends in between: a transaction that is accepted again after a     *)
(* reorganisation creates the same outpoint again.                         *)
(***************************************************************************)
Utxo == [deposit: 1..MaxDeposits, leaf: Leaf, amount: Nat, path: Seq(Nat \X Nat)]
Tx   == [utxo: Utxo, amount: Nat, fee: Nat]

ASSUME AbsenceAssumption == None \notin Utxo /\ None \notin Tx

VARIABLES
    faults,    \* the faults this execution may meet
    utxos,     \* the vault's unspent outputs, as the node's UTXO index has them
    deposits,  \* how many payments were made to the vault
    mempool,   \* vault spends waiting in the node
    accepted,  \* vault spends the chain has accepted
    journal,   \* the spends the journal holds, for the wallet to look up
    signed,    \* the spends a signature was made for, ever
    found,     \* what the running command located
    tx         \* what the running command is about to broadcast

vars == <<faults, utxos, deposits, mempool, accepted, journal, signed, found, tx>>

Idle == found = None /\ tx = None

-----------------------------------------------------------------------------
\* What run leaves as change: two unsigned subtractions.
Rest(u, amount, fee) == Minus(Minus(u.amount, amount), fee)

\* Seeded fault: change goes back to the leaf that pays it.
Change_SameLeaf(t) ==
    [t.utxo EXCEPT !.amount = Rest(t.utxo, t.amount, t.fee),
                   !.path   = Append(@, <<t.amount, t.fee>>)]

\* The change output of a spend: change_target is the next leaf.
Change(t) ==
    [deposit |-> t.utxo.deposit,
     leaf    |-> t.utxo.leaf + 1,
     amount  |-> Rest(t.utxo, t.amount, t.fee),
     path    |-> Append(t.utxo.path, <<t.amount, t.fee>>)]

\* Every check before the signature: run's own, the two estimates, enforce in
\* build_spend, and the bounds of the binding digest.
Checked(u, amount, fee) ==
    /\ Estimate(u.amount, amount, Less(u.amount, amount))
    /\ Plus(amount, fee) <= u.amount
    /\ Enforce(u.amount, amount, Rest(u, amount, fee))
    /\ Bindable(amount, Rest(u, amount, fee))

\* What the node requires of a vault spend, by its own fee and mass rules.
Relayable(t) == NodeAccepts(t.utxo.amount, t.amount, Change(t).amount)

-----------------------------------------------------------------------------
TypeOK ==
    /\ faults \in FaultSets
    /\ utxos \subseteq Utxo
    /\ deposits \in 0..MaxDeposits
    /\ mempool \subseteq Tx /\ accepted \subseteq Tx
    /\ journal \subseteq Tx /\ signed \subseteq Tx
    /\ found \in Utxo \cup {None} /\ tx \in Tx \cup {None}
    /\ found = None \/ tx = None

Init ==
    /\ faults \in FaultSets
    /\ utxos = {} /\ deposits = 0
    /\ mempool = {} /\ accepted = {}
    /\ journal = {} /\ signed = {}
    /\ found = None /\ tx = None

\* Somebody pays one of the vault's addresses.
Deposit(l, amount) ==
    /\ deposits < MaxDeposits
    /\ deposits' = deposits + 1
    /\ utxos' = utxos \cup
           {[deposit |-> deposits', leaf |-> l, amount |-> amount, path |-> <<>>]}
    /\ UNCHANGED <<faults, mempool, accepted, journal, signed, found, tx>>

Visible == {u \in utxos : u.leaf < Window}

\* Seeded fault: the lowest funded leaf is spent however many there are.
Locate_LowestLeaf(u) ==
    /\ Idle
    /\ u \in Visible
    /\ \A v \in Visible : u.leaf <= v.leaf
    /\ u.leaf + 1 < LeafCount
    /\ found' = u
    /\ UNCHANGED <<faults, utxos, deposits, mempool, accepted, journal, signed, tx>>

\* locate_funds and the change target: exactly one UTXO on exactly one of
\* the leaves asked about, and not on the last leaf of the vault.
Locate(u) ==
    /\ Idle
    /\ Visible = {u}
    /\ u.leaf + 1 < LeafCount
    /\ found' = u
    /\ UNCHANGED <<faults, utxos, deposits, mempool, accepted, journal, signed, tx>>

\* Seeded fault: what was located stays in hand after signing.
Sign_KeepsFound(amount, fee) ==
    LET t == [utxo |-> found, amount |-> amount, fee |-> fee]
    IN  /\ found # None
        /\ Checked(found, amount, fee)
        /\ \A s \in journal : s.utxo.leaf = found.leaf => s = t
        /\ journal' = journal \cup {t}
        /\ signed' = signed \cup {t}
        /\ tx' = t
        /\ UNCHANGED <<faults, utxos, deposits, mempool, accepted, found>>

\* Seeded fault: the journal is not asked.
Sign_WithoutJournal(amount, fee) ==
    LET t == [utxo |-> found, amount |-> amount, fee |-> fee]
    IN  /\ found # None
        /\ Checked(found, amount, fee)
        /\ journal' = journal \cup {t}
        /\ signed' = signed \cup {t}
        /\ found' = None /\ tx' = t
        /\ UNCHANGED <<faults, utxos, deposits, mempool, accepted>>

\* The confirmed run: preflight, then build_spend signs through the journal,
\* or takes the stored signature of this very spend, and assemble.
Sign(amount, fee) ==
    LET t == [utxo |-> found, amount |-> amount, fee |-> fee]
    IN  /\ found # None
        /\ Checked(found, amount, fee)
        /\ \A s \in journal : s.utxo.leaf = found.leaf => s = t
        /\ journal' = journal \cup {t}
        /\ signed' = signed \cup {t}
        /\ found' = None /\ tx' = t
        /\ UNCHANGED <<faults, utxos, deposits, mempool, accepted>>

\* broadcast: the node takes the spend or rejects it; the command ends.
Broadcast ==
    /\ tx # None
    /\ mempool' = IF /\ tx.utxo \in utxos
                     /\ \A s \in mempool : s.utxo # tx.utxo
                     /\ Relayable(tx)
                  THEN mempool \cup {tx} ELSE mempool
    /\ tx' = None
    /\ UNCHANGED <<faults, utxos, deposits, accepted, journal, signed, found>>

\* The command ends early: refused, not confirmed, a dry run, an error, a kill.
End ==
    /\ ~Idle
    /\ found' = None /\ tx' = None
    /\ UNCHANGED <<faults, utxos, deposits, mempool, accepted, journal, signed>>

-----------------------------------------------------------------------------
\* The chain accepts a spend the node holds.
Accept(t) ==
    /\ t \in mempool /\ t.utxo \in utxos
    /\ utxos' = (utxos \ {t.utxo}) \cup {Change(t)}
    /\ accepted' = accepted \cup {t}
    /\ mempool' = mempool \ {t}
    /\ UNCHANGED <<faults, deposits, journal, signed, found, tx>>

\* The node drops a spend: expiry, restart, a full mempool.
Evict(t) ==
    /\ "evict" \in faults
    /\ t \in mempool
    /\ mempool' = mempool \ {t}
    /\ UNCHANGED <<faults, utxos, deposits, accepted, journal, signed, found, tx>>

\* A reorganisation takes back the newest spend of a line of change, unless it
\* was final before the wallet was restored; the node keeps the transaction or
\* loses it.
Reorg(t) ==
    /\ "reorg" \in faults
    /\ t \in accepted \cap journal /\ Change(t) \in utxos
    /\ utxos' = (utxos \ {Change(t)}) \cup {t.utxo}
    /\ accepted' = accepted \ {t}
    /\ mempool' \in {mempool, mempool \cup {t}}
    /\ UNCHANGED <<faults, deposits, journal, signed, found, tx>>

\* The wallet is restored from its mnemonic, without the journal, at a moment
\* when every spend it signed is on the chain for good.
Restore ==
    /\ "restore" \in faults
    /\ Idle
    /\ signed \subseteq accepted
    /\ journal # {}
    /\ journal' = {}
    /\ UNCHANGED <<faults, utxos, deposits, mempool, accepted, signed, found, tx>>

Next ==
    \/ \E l \in Leaf, amount \in Payments : Deposit(l, amount)
    \/ \E u \in utxos : Locate(u)
    \/ \E amount \in Amounts, fee \in Fees \cup {DefaultFee} : Sign(amount, fee)
    \/ Broadcast
    \/ End
    \/ \E t \in mempool : Accept(t) \/ Evict(t)
    \/ \E t \in accepted : Reorg(t)
    \/ Restore

Spec == Init /\ [][Next]_vars

\* The user runs the stored spend again for as long as it has not confirmed and
\* the command does not refuse, commands do not die for ever, and the chain keeps
\* accepting transactions.
Rerun == \E t \in journal : found = t.utxo /\ Sign(t.amount, t.fee)

Fairness ==
    /\ SF_vars(\E u \in utxos : Locate(u))
    /\ SF_vars(Rerun)
    /\ SF_vars(Broadcast)
    /\ SF_vars(\E t \in mempool : Accept(t))

LiveSpec == Spec /\ Fairness

-----------------------------------------------------------------------------
(***************************************************************************)
(* Properties.                                                             *)
(***************************************************************************)

\* No change has been sent past the leaves the command asks about, which are 64
\* of 32768: so far the vault has not made as many spends.
WithinWindow == \A t \in signed : t.utxo.leaf + 1 < Window

\* A one-time key signs once.
SignOnce ==
    \A s, t \in signed : s.utxo.leaf = t.utxo.leaf => s = t

\* Change is never sent to a leaf that cannot spend it: if the next leaf has
\* signed at all, what it signed is the spend of this change.
ChangeIsSpendable ==
    \A s, t \in signed : t.utxo.leaf = s.utxo.leaf + 1 => t.utxo = Change(s)

\* A one-time key signs once, wherever the vault has walked, as long as its
\* journal is kept; and without the journal while the change is within the
\* window, where what the chain shows keeps the command away from every used
\* leaf.  (sign_once behind locate_funds)
SignOnceWithinWindow == "restore" \notin faults \/ WithinWindow => SignOnce

\* As long as the change is within the window, it is sent to a leaf that can
\* spend it, whoever else pays the vault: a second funded leaf makes the command
\* refuse.  Beyond the window it would not see that leaf.  (locate_funds)
ChangeIsSpendableWithinWindow == WithinWindow => ChangeIsSpendable

\* The vault walks forward, seen or unseen: the money of an accepted spend lies
\* beyond its leaf, however often the chain reorganises.  (change_target)
FundsLieBeyondSpentLeaves ==
    \A t \in accepted :
        \E u \in utxos : u.deposit = t.utxo.deposit /\ u.leaf > t.utxo.leaf

\* A signature is never wasted: the node's own rules allow every signed spend
\* (it creates no money, whatever wrapped around), and until it is accepted
\* the output it spends exists or will, once the signed spend that creates it
\* is accepted.  (the checks of run and build_spend before sign_once)
SignedCanConfirm ==
    \A t \in signed :
        /\ Relayable(t)
        /\ t \notin accepted =>
              \/ t.utxo \in utxos
              \/ \E s \in signed \ accepted : Change(s) = t.utxo

\* A one-time key is burned only for money that is there at that moment, not
\* for an output that went away after the command had read it; only a
\* reorganisation can take it away, for nobody but the vault spends it.
FreshSignatureSpendsLiveFunds ==
    [][\A t \in signed' \ signed : t.utxo \in utxos \/ "reorg" \in faults]_vars

\* More than one output on the leaves asked about: locate_funds refuses.
Crowded == \E u, v \in Visible : u # v

\* Where the chain takes nothing back, every signed spend confirms in the end,
\* however often the node drops it, unless somebody pays an address the command
\* asks about before that: then it refuses to run, and the stored signature can
\* not be broadcast again.  (run, which reuses what sign_once stored)
SignedConfirms ==
    \A l \in Leaf :
        ("reorg" \notin faults /\ \E t \in signed : t.utxo.leaf = l)
            ~> (Crowded \/ \E t \in accepted : t.utxo.leaf = l)

=============================================================================

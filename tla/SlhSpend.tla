------------------------------ MODULE SlhSpend ------------------------------
(***************************************************************************)
(* The slh-spend command of the stateless vault (vault-cli/src/slh_cmd.rs  *)
(* over slh-wallet/src/spend.rs), run for several payments at a time.      *)
(*                                                                         *)
(* A vault is one address and every key signs any number of spends, so     *)
(* nothing is journalled: all that keeps a payment from being made twice   *)
(* is that the user stops running the command once it reports success.    *)
(* The user wants each of Orders paid once and runs a command for it, over *)
(* and over, until one says "broadcast".  Orders differ in their amount.   *)
(***************************************************************************)
EXTENDS Preflight, Sequences, FiniteSets

CONSTANTS
    Orders,       \* the amounts the user wants paid, each one once
    Payments,     \* amounts others pay into the vault
    Plenty,       \* a payment large enough for all orders
    Fees,         \* fees the user may name with --fee
    MaxDeposits,  \* bound: payments into the vault
    MaxLost,      \* bound: spends whose reply is lost
    None          \* no UTXO, no transaction

ASSUME OrderAssumption ==
    /\ Orders \subseteq 0..(Word - 1) /\ Fees \subseteq 0..(Word - 1)
    /\ Payments \subseteq 1..MaxAmount /\ MaxDeposits \in Nat
ASSUME FloorAssumption == FeeFloor >= Dust
ASSUME LossAssumption == MaxLost \in Nat

\* A UTXO of the vault; its path is the spends it is change of.
Utxo == [deposit: 1..MaxDeposits, amount: Nat, path: Seq(Nat \X Nat)]
Tx   == [utxo: Utxo, amount: Nat, fee: Nat]

ASSUME SlhAbsenceAssumption == None \notin Utxo /\ None \notin Tx

VARIABLES
    utxos,     \* the vault's unspent outputs, as the node's UTXO index has them
    deposits,  \* how many payments were made to the vault
    mempool,   \* vault spends waiting in the node
    accepted,  \* vault spends the chain has accepted
    open,      \* the orders no command has reported success for
    lost,      \* the spends the node took with its reply lost
    found,     \* found[o]: the UTXO the command for order o has located
    tx         \* tx[o]: the signed spend the command for o may broadcast

vars == <<utxos, deposits, mempool, accepted, open, lost, found, tx>>

-----------------------------------------------------------------------------
\* What cmd_spend leaves as change: two unsigned subtractions.
Rest(u, amount, fee) == Minus(Minus(u.amount, amount), fee)

\* The change output of a spend: back to the one address of the vault.
Change(t) ==
    [deposit |-> t.utxo.deposit,
     amount  |-> Rest(t.utxo, t.amount, t.fee),
     path    |-> Append(t.utxo.path, <<t.amount, t.fee>>)]

\* Seeded fault: the probe leaves more than half to the fee.
Probed_SmallerChange(u, amount) ==
    Estimate(u.amount, amount, Less(u.amount, amount) \div 8)

\* The outputs the fee floor is discovered with pass the estimate.
Probed(u, amount) == Estimate(u.amount, amount, Less(u.amount, amount) \div 2)

\* The outputs of the spend itself pass cmd_spend's and build_spend's checks.
Checked(u, amount, fee) ==
    /\ Plus(amount, fee) < u.amount
    /\ Enforce(u.amount, amount, Rest(u, amount, fee))
    /\ Bindable(amount, Rest(u, amount, fee))

Relayable(t) == NodeAccepts(t.utxo.amount, t.amount, Change(t).amount)

Idle(o) == found[o] = None /\ tx[o] = None

-----------------------------------------------------------------------------
TypeOK ==
    /\ utxos \subseteq Utxo /\ deposits \in 0..MaxDeposits
    /\ mempool \subseteq Tx /\ accepted \subseteq Tx
    /\ open \subseteq Orders
    /\ lost \subseteq Tx
    /\ found \in [Orders -> Utxo \cup {None}]
    /\ tx \in [Orders -> Tx \cup {None}]
    /\ \A o \in Orders : found[o] = None \/ tx[o] = None

Init ==
    /\ utxos = {} /\ deposits = 0
    /\ mempool = {} /\ accepted = {}
    /\ open = Orders
    /\ lost = {}
    /\ found = [o \in Orders |-> None]
    /\ tx = [o \in Orders |-> None]

\* Somebody pays the vault's address.
Deposit(amount) ==
    /\ deposits < MaxDeposits
    /\ deposits' = deposits + 1
    /\ utxos' = utxos \cup
           {[deposit |-> deposits', amount |-> amount, path |-> <<>>]}
    /\ UNCHANGED <<mempool, accepted, open, lost, found, tx>>

\* Seeded fault: the UTXO the node happens to list first, not the largest.
Locate_First(o, u) ==
    /\ o \in open /\ Idle(o)
    /\ \A v \in utxos : u.deposit <= v.deposit
    /\ found' = [found EXCEPT ![o] = u]
    /\ UNCHANGED <<utxos, deposits, mempool, accepted, open, lost, tx>>

\* vault_utxos, largest first: one of the largest.
Locate(o, u) ==
    /\ o \in open /\ Idle(o)
    /\ \A v \in utxos : v.amount <= u.amount
    /\ found' = [found EXCEPT ![o] = u]
    /\ UNCHANGED <<utxos, deposits, mempool, accepted, open, lost, tx>>

\* Seeded fault: the located UTXO stays in hand.
Build_KeepsFound(o, fee) ==
    /\ found[o] # None
    /\ Probed(found[o], o)
    /\ Checked(found[o], o, fee)
    /\ tx' = [tx EXCEPT ![o] = [utxo |-> found[o], amount |-> o, fee |-> fee]]
    /\ UNCHANGED <<utxos, deposits, mempool, accepted, open, lost, found>>

\* The fee, build_spend and its checks; the prompt is next.
Build(o, fee) ==
    /\ found[o] # None
    /\ Probed(found[o], o)
    /\ Checked(found[o], o, fee)
    /\ tx' = [tx EXCEPT ![o] = [utxo |-> found[o], amount |-> o, fee |-> fee]]
    /\ found' = [found EXCEPT ![o] = None]
    /\ UNCHANGED <<utxos, deposits, mempool, accepted, open, lost>>

\* The node's verdict on a submitted spend.
NodeTakes(t) ==
    /\ t.utxo \in utxos
    /\ \A s \in mempool : s.utxo # t.utxo
    /\ Relayable(t)

\* Seeded fault: the command reports a failure whatever the node answered.
Submit_ReportsFailure(o) ==
    /\ tx[o] # None
    /\ mempool' = IF NodeTakes(tx[o]) THEN mempool \cup {tx[o]} ELSE mempool
    /\ tx' = [tx EXCEPT ![o] = None]
    /\ UNCHANGED <<utxos, deposits, accepted, open, lost, found>>

\* broadcast: the node takes the spend and says so, or rejects it.
Submit(o) ==
    /\ tx[o] # None
    /\ IF NodeTakes(tx[o])
       THEN /\ mempool' = mempool \cup {tx[o]}
            /\ open' = open \ {o}
       ELSE UNCHANGED <<mempool, open>>
    /\ tx' = [tx EXCEPT ![o] = None]
    /\ UNCHANGED <<utxos, deposits, accepted, lost, found>>

\* The node takes the spend and the reply is lost; broadcast cannot tell this
\* from a rejection, nor can the user when the command is killed.
SubmitUnanswered(o) ==
    /\ tx[o] # None
    /\ NodeTakes(tx[o])
    /\ Cardinality(lost) < MaxLost
    /\ lost' = lost \cup {tx[o]}
    /\ mempool' = mempool \cup {tx[o]}
    /\ tx' = [tx EXCEPT ![o] = None]
    /\ UNCHANGED <<utxos, deposits, accepted, open, found>>

\* The command ends early: a check fails, a dry run, the prompt is declined.
End(o) ==
    /\ ~Idle(o)
    /\ found' = [found EXCEPT ![o] = None]
    /\ tx' = [tx EXCEPT ![o] = None]
    /\ UNCHANGED <<utxos, deposits, mempool, accepted, open, lost>>

-----------------------------------------------------------------------------
\* The chain accepts a spend the node holds.
Accept(t) ==
    /\ t \in mempool /\ t.utxo \in utxos
    /\ utxos' = (utxos \ {t.utxo}) \cup {Change(t)}
    /\ accepted' = accepted \cup {t}
    /\ mempool' = mempool \ {t}
    /\ UNCHANGED <<deposits, open, lost, found, tx>>

\* The node drops a spend.
Evict(t) ==
    /\ t \in mempool
    /\ mempool' = mempool \ {t}
    /\ UNCHANGED <<utxos, deposits, accepted, open, lost, found, tx>>

Next ==
    \/ \E amount \in Payments : Deposit(amount)
    \/ \E o \in Orders :
        \/ \E u \in utxos : Locate(o, u)
        \/ \E fee \in Fees \cup {DefaultFee} : Build(o, fee)
        \/ Submit(o) \/ SubmitUnanswered(o)
        \/ End(o)
    \/ \E t \in mempool : Accept(t) \/ Evict(t)

Spec == Init /\ [][Next]_vars

\* The user keeps running the command for an open order, at the default fee
\* and with the prompt confirmed, every command ends, and the chain keeps accepting spends.
Fairness ==
    /\ \A o \in Orders :
        /\ WF_vars(\E u \in utxos : Locate(o, u))
        /\ SF_vars(Build(o, DefaultFee))
        /\ SF_vars(Submit(o))
        /\ WF_vars(End(o))
    /\ WF_vars(\E t \in mempool : Accept(t))

LiveSpec == Spec /\ Fairness

-----------------------------------------------------------------------------
(***************************************************************************)
(* Properties.                                                             *)
(***************************************************************************)

Spends(o) == {t \in accepted : t.amount = o}

\* No order is paid twice while the node's replies arrive, though commands
\* race for the same UTXO, spends are rejected and dropped, and the user runs
\* every failed command again: each further payment costs a lost reply.
PaidOncePerReply ==
    \A o \in Orders :
        Cardinality(Spends(o)) <= 1 + Cardinality({t \in lost : t.amount = o})

\* A command reported success for the order, and the node dropped its spend.
Dropped(o) == o \notin open /\ \A t \in mempool : t.amount # o

\* Once somebody has paid the vault enough for everything, every order is
\* paid, or lost by the node after it had taken it: small payments do not get
\* in the way, and commands that chose the same UTXO do not starve each other.
OrdersPaid ==
    \A o \in Orders :
        (\E u \in utxos : u.amount >= Plenty) ~> (Spends(o) # {} \/ Dropped(o))

\* A spend within every limit is built: the probe that discovers the fee
\* floor, whose change is half of what is left, does not refuse it for dust.
\* This rests on the fee floor being no less than the dust threshold.
FeasibleSpendIsBuilt ==
    \A o \in Orders, fee \in Fees \cup {DefaultFee} :
        found[o] # None /\ Checked(found[o], o, fee) => Probed(found[o], o)

=============================================================================

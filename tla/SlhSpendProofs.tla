--------------------------- MODULE SlhSpendProofs ---------------------------
(***************************************************************************)
(* The safety properties of SlhSpend, for any orders, payments and fees,   *)
(* and any number of lost replies.                                         *)
(***************************************************************************)
EXTENDS SlhSpend, Integers, FiniteSetTheorems, TLAPS

-----------------------------------------------------------------------------
(* What the checks before a signature are worth: below MaxAmount none of the *)
(* sums and differences that decide can wrap around.                         *)

LEMMA NoWrap ==
    ASSUME NEW a \in 0..(Word - 1)
    PROVE  a % Word = a /\ (a + Word) % Word = a
  BY PreflightAssumption

LEMMA MaxAmountFits == MaxAmount \in Int /\ 2 * MaxAmount <= Word - 2
  BY PreflightAssumption DEF MaxAmount

\* A spend that passes enforce and the bounds of the binding digest is one
\* the node takes, however its amounts came about.
LEMMA EnforcedIsAccepted ==
    ASSUME NEW in \in Nat, in <= MaxAmount, NEW amount \in Nat, NEW change \in Nat,
           Enforce(in, amount, change), Bindable(amount, change)
    PROVE  NodeAccepts(in, amount, change)
  <1>1. /\ amount <= MaxAmount /\ change <= MaxAmount
        /\ Plus(amount, change) <= in
        /\ Minus(in, Plus(amount, change)) >= FeeFloor
        /\ StorageMass(in, amount, change) <= MassLimit
    BY DEF Bindable, Enforce, Estimate
  <1>2. Plus(amount, change) = amount + change
    BY <1>1, MaxAmountFits, NoWrap, PreflightAssumption DEF Plus
  <1>3. Minus(in, Plus(amount, change)) = in - (amount + change)
    <2>1. in - (amount + change) \in 0..(Word - 1)
      BY <1>1, <1>2, MaxAmountFits, PreflightAssumption
    <2>2. in + Word - (amount + change) = (in - (amount + change)) + Word
      BY PreflightAssumption
    <2> QED
      BY <1>2, <2>1, <2>2, NoWrap DEF Minus
  <1> QED
    BY <1>1, <1>3, PreflightAssumption DEF NodeAccepts

\* There is room for the fee floor, which is at least the dust threshold, so
\* half of what the destination leaves is no dust.
THEOREM EnforcedIsProbed ==
    ASSUME NEW in \in Nat, in <= MaxAmount, NEW amount \in Nat, NEW change \in Nat,
           Enforce(in, amount, change), Bindable(amount, change), FeeFloor >= Dust
    PROVE  Estimate(in, amount, Less(in, amount) \div 2)
  <1>1. NodeAccepts(in, amount, change)
    BY EnforcedIsAccepted
  <1>2. amount >= Dust /\ change >= Dust
    BY DEF Enforce, Estimate
  <1>3. amount + change + FeeFloor <= in
    BY <1>1 DEF NodeAccepts
  <1>4. Less(in, amount) = in - amount
    BY <1>2, <1>3, PreflightAssumption DEF Less
  <1> DEFINE half == (in - amount) \div 2
  <1>5. half \in Nat /\ half >= Dust /\ amount + half <= in
    BY <1>2, <1>3, PreflightAssumption
  <1> HIDE DEF half
  <1>6. Plus(amount, half) = amount + half
    BY <1>5, MaxAmountFits, NoWrap, PreflightAssumption DEF Plus
  <1>7. Estimate(in, amount, half)
    BY <1>2, <1>5, <1>6 DEF Estimate
  <1> QED
    BY <1>4, <1>7 DEF half
-----------------------------------------------------------------------------
(* The inductive invariant. *)

\* The spends for an order that the node holds or the chain has accepted.
Taken(o) == {t \in mempool \cup accepted : t.amount = o}

\* A command runs for an order that is open, and pays it.
CommandsServeOpen ==
    \A o \in Orders :
        /\ ~Idle(o) => o \in open
        /\ tx[o] # None => tx[o].amount = o

\* No amount is beyond what the digest can express.
AmountsAreBound ==
    /\ \A u \in utxos : u.amount <= MaxAmount
    /\ \A t \in mempool : Change(t).amount <= MaxAmount
    /\ \A o \in Orders :
          /\ found[o] # None => found[o].amount <= MaxAmount
          /\ tx[o] # None => Change(tx[o]).amount <= MaxAmount

\* What the node took for an open order is lost, and for a closed order too,
\* but for one spend.
TakenOnce ==
    /\ IsFiniteSet(lost)
    /\ \A o \in Orders :
          /\ o \in open => Taken(o) \subseteq lost
          /\ \E t : Taken(o) \subseteq lost \cup {t}

OrdersInv == TypeOK /\ CommandsServeOpen /\ AmountsAreBound /\ TakenOnce

-----------------------------------------------------------------------------
(* Types. *)

LEMMA RestIsNat ==
    ASSUME NEW u, u.amount \in Nat, NEW amount \in Nat, NEW fee \in Nat
    PROVE  Rest(u, amount, fee) \in Nat
  <1>1. Minus(u.amount, amount) \in Int
    BY PreflightAssumption DEF Minus
  <1> QED
    BY <1>1, PreflightAssumption DEF Rest, Minus

\* Change is an output of the vault.
LEMMA ChangeIsOutput ==
    ASSUME NEW t \in Tx
    PROVE  Change(t) \in Utxo
  <1>1. t.utxo \in Utxo /\ t.amount \in Nat /\ t.fee \in Nat
    BY DEF Tx
  <1>2. Rest(t.utxo, t.amount, t.fee) \in Nat
    BY <1>1, RestIsNat DEF Utxo
  <1>3. Append(t.utxo.path, <<t.amount, t.fee>>) \in Seq(Nat \X Nat)
    BY <1>1 DEF Utxo
  <1>4. t.utxo.deposit \in 1..MaxDeposits
    BY <1>1 DEF Utxo
  <1> QED
    BY <1>2, <1>3, <1>4 DEF Change, Utxo

\* The amounts and fees of the spends are words.
LEMMA BuiltTx ==
    ASSUME TypeOK, NEW o \in Orders, found[o] # None, NEW fee \in Fees \cup {DefaultFee}
    PROVE  /\ o \in Nat /\ fee \in Nat /\ found[o] \in Utxo /\ found[o].amount \in Nat
           /\ [utxo |-> found[o], amount |-> o, fee |-> fee] \in Tx
  <1>1. o \in Nat
    BY OrderAssumption, PreflightAssumption
  <1>2. DefaultFee \in Nat
    BY PreflightAssumption DEF DefaultFee
  <1>3. fee \in Nat
    BY <1>2, OrderAssumption, PreflightAssumption
  <1>4. found[o] \in Utxo
    BY DEF TypeOK
  <1>5. found[o].amount \in Nat
    BY <1>4 DEF Utxo
  <1> QED
    BY <1>1, <1>3, <1>4, <1>5 DEF Tx

-----------------------------------------------------------------------------
(* The steps. *)

LEMMA DepositStep ==
    ASSUME OrdersInv, NEW amount \in Payments, Deposit(amount)
    PROVE  OrdersInv'
  <1> DEFINE u == [deposit |-> deposits + 1, amount |-> amount, path |-> <<>>]
  <1> USE DEF OrdersInv
  <1>1. /\ utxos' = utxos \cup {u} /\ deposits' = deposits + 1
        /\ UNCHANGED <<mempool, accepted, open, lost, found, tx>>
    BY DEF Deposit
  <1>2. deposits + 1 \in 1..MaxDeposits /\ deposits + 1 \in 0..MaxDeposits
    BY OrderAssumption DEF TypeOK, Deposit
  <1>3. amount \in Nat /\ amount <= MaxAmount
    BY OrderAssumption, MaxAmountFits
  <1>4. u \in Utxo /\ u.amount <= MaxAmount
    <2>1. <<>> \in Seq(Nat \X Nat)
      OBVIOUS
    <2> QED
      BY <1>2, <1>3, <2>1 DEF Utxo
  <1> HIDE DEF u
  <1>5. TypeOK'
    BY <1>1, <1>2, <1>4 DEF TypeOK
  <1>6. CommandsServeOpen' /\ TakenOnce'
    BY <1>1 DEF CommandsServeOpen, Idle, TakenOnce, Taken
  <1>7. AmountsAreBound'
    BY <1>1, <1>4 DEF AmountsAreBound
  <1> QED
    BY <1>5, <1>6, <1>7

LEMMA LocateStep ==
    ASSUME OrdersInv, NEW o \in Orders, NEW u \in utxos, Locate(o, u)
    PROVE  OrdersInv'
  <1> USE DEF OrdersInv
  <1>1. /\ o \in open /\ tx[o] = None /\ found' = [found EXCEPT ![o] = u]
        /\ UNCHANGED <<utxos, deposits, mempool, accepted, open, lost, tx>>
    BY DEF Locate, Idle
  <1>2. u \in Utxo /\ u.amount <= MaxAmount
    BY DEF TypeOK, AmountsAreBound
  <1>3. TypeOK'
    BY <1>1, <1>2 DEF TypeOK
  <1>4. CommandsServeOpen' /\ TakenOnce'
    BY <1>1 DEF TypeOK, CommandsServeOpen, Idle, TakenOnce, Taken
  <1>5. AmountsAreBound'
    BY <1>1, <1>2 DEF TypeOK, AmountsAreBound
  <1> QED
    BY <1>3, <1>4, <1>5

LEMMA BuildStep ==
    ASSUME OrdersInv, NEW o \in Orders, NEW fee \in Fees \cup {DefaultFee}, Build(o, fee)
    PROVE  OrdersInv'
  <1> DEFINE t == [utxo |-> found[o], amount |-> o, fee |-> fee]
  <1> USE DEF OrdersInv
  <1>1. /\ found[o] # None /\ o \in open
        /\ tx' = [tx EXCEPT ![o] = t] /\ found' = [found EXCEPT ![o] = None]
        /\ UNCHANGED <<utxos, deposits, mempool, accepted, open, lost>>
    BY DEF Build, CommandsServeOpen, Idle
  <1>2. t \in Tx /\ t.amount = o
    BY <1>1, BuiltTx
  <1>3. Change(t).amount <= MaxAmount
    BY DEF Build, Checked, Bindable, Change
  <1> HIDE DEF t
  <1>4. TypeOK'
    BY <1>1, <1>2 DEF TypeOK
  <1>5. CommandsServeOpen' /\ TakenOnce'
    BY <1>1, <1>2 DEF TypeOK, CommandsServeOpen, Idle, TakenOnce, Taken
  <1>6. AmountsAreBound'
    BY <1>1, <1>3 DEF TypeOK, AmountsAreBound
  <1> QED
    BY <1>4, <1>5, <1>6

\* Whatever becomes of a submission, the command is over.
LEMMA CommandOver ==
    ASSUME OrdersInv, NEW o \in Orders, tx' = [tx EXCEPT ![o] = None],
           found' = [found EXCEPT ![o] = None], UNCHANGED <<utxos, deposits, accepted>>,
           mempool' = mempool \/ (tx[o] # None /\ mempool' = mempool \cup {tx[o]}),
           open' = open \/ open' = open \ {o},
           lost' = lost \/ (tx[o] # None /\ lost' = lost \cup {tx[o]}),
           TakenOnce'
    PROVE  OrdersInv'
  <1> USE DEF OrdersInv
  <1>1. tx[o] # None => tx[o] \in Tx
    BY DEF TypeOK
  <1>2. TypeOK'
    BY <1>1 DEF TypeOK
  <1>3. CommandsServeOpen'
    BY DEF TypeOK, CommandsServeOpen, Idle
  <1>4. AmountsAreBound'
    BY DEF TypeOK, AmountsAreBound
  <1> QED
    BY <1>2, <1>3, <1>4
\* The command is for an open order, of which nothing is taken but lost spends.
LEMMA SubmitStep ==
    ASSUME OrdersInv, NEW o \in Orders, Submit(o)
    PROVE  OrdersInv'
  <1> USE DEF OrdersInv
  <1>1. /\ tx[o] # None /\ tx' = [tx EXCEPT ![o] = None]
        /\ UNCHANGED <<utxos, deposits, accepted, lost, found>>
    BY DEF Submit
  <1>2. found' = [found EXCEPT ![o] = None]
    BY <1>1 DEF TypeOK
  <1>3. CASE NodeTakes(tx[o])
    <2>1. mempool' = mempool \cup {tx[o]} /\ open' = open \ {o}
      BY <1>3 DEF Submit
    <2>2. o \in open /\ tx[o].amount = o
      BY <1>1 DEF CommandsServeOpen, Idle
    <2>3. Taken(o)' \subseteq Taken(o) \cup {tx[o]}
      BY <1>1, <2>1 DEF Taken
    <2>4. \A r \in Orders : r # o => Taken(r)' = Taken(r)
      BY <1>1, <2>1, <2>2 DEF Taken
    <2>5. TakenOnce'
      <3>1. Taken(o)' \subseteq lost \cup {tx[o]}
        BY <2>2, <2>3 DEF TakenOnce
      <3>2. ASSUME NEW r \in Orders
            PROVE  /\ r \in open' => Taken(r)' \subseteq lost'
                   /\ \E t : Taken(r)' \subseteq lost' \cup {t}
        <4>1. CASE r = o
          BY <1>1, <2>1, <3>1, <4>1
        <4>2. CASE r # o
          BY <1>1, <2>1, <2>4, <4>2 DEF TakenOnce
        <4> QED
          BY <4>1, <4>2
      <3> QED
        BY <1>1, <3>2 DEF TakenOnce
    <2> QED
      BY <1>1, <1>2, <2>1, <2>5, CommandOver
  <1>4. CASE ~NodeTakes(tx[o])
    <2>1. mempool' = mempool /\ open' = open
      BY <1>4 DEF Submit
    <2>2. TakenOnce'
      BY <1>1, <2>1 DEF TakenOnce, Taken
    <2> QED
      BY <1>1, <1>2, <2>1, <2>2, CommandOver
  <1> QED
    BY <1>3, <1>4

LEMMA SubmitUnansweredStep ==
    ASSUME OrdersInv, NEW o \in Orders, SubmitUnanswered(o)
    PROVE  OrdersInv'
  <1> USE DEF OrdersInv
  <1>1. /\ tx[o] # None /\ tx' = [tx EXCEPT ![o] = None]
        /\ lost' = lost \cup {tx[o]} /\ mempool' = mempool \cup {tx[o]}
        /\ UNCHANGED <<utxos, deposits, accepted, open, found>>
    BY DEF SubmitUnanswered
  <1>2. found' = [found EXCEPT ![o] = None]
    BY <1>1 DEF TypeOK
  <1>3. \A r \in Orders : Taken(r)' \subseteq Taken(r) \cup {tx[o]}
    BY <1>1 DEF Taken
  <1>4. IsFiniteSet(lost')
    BY <1>1, FS_AddElement DEF TakenOnce
  <1>5. ASSUME NEW r \in Orders
        PROVE  /\ r \in open' => Taken(r)' \subseteq lost'
               /\ \E t : Taken(r)' \subseteq lost' \cup {t}
    <2>1. PICK t : Taken(r) \subseteq lost \cup {t}
      BY DEF TakenOnce
    <2>2. Taken(r)' \subseteq lost' \cup {t}
      BY <1>1, <1>3, <2>1
    <2>3. r \in open' => Taken(r)' \subseteq lost'
      BY <1>1, <1>3 DEF TakenOnce
    <2> QED
      BY <2>2, <2>3
  <1>6. TakenOnce'
    BY <1>4, <1>5 DEF TakenOnce
  <1> QED
    BY <1>1, <1>2, <1>6, CommandOver

LEMMA EndStep ==
    ASSUME OrdersInv, NEW o \in Orders, End(o)
    PROVE  OrdersInv'
  <1>1. TakenOnce'
    BY DEF OrdersInv, TakenOnce, Taken, End
  <1> QED
    BY <1>1, CommandOver DEF End

LEMMA AcceptStep ==
    ASSUME OrdersInv, NEW t \in mempool, Accept(t)
    PROVE  OrdersInv'
  <1> USE DEF OrdersInv
  <1>1. /\ utxos' = (utxos \ {t.utxo}) \cup {Change(t)}
        /\ accepted' = accepted \cup {t} /\ mempool' = mempool \ {t}
        /\ UNCHANGED <<deposits, open, lost, found, tx>>
    BY DEF Accept
  <1>2. t \in Tx /\ Change(t) \in Utxo
    BY ChangeIsOutput DEF TypeOK
  <1>3. TypeOK'
    BY <1>1, <1>2 DEF TypeOK
  <1>4. CommandsServeOpen'
    BY <1>1 DEF CommandsServeOpen, Idle
  <1>5. AmountsAreBound'
    BY <1>1 DEF AmountsAreBound
  <1>6. \A o : Taken(o)' \subseteq Taken(o)
    BY <1>1 DEF Taken
  <1>7. TakenOnce'
    BY <1>1, <1>6 DEF TakenOnce
  <1> QED
    BY <1>3, <1>4, <1>5, <1>7

LEMMA EvictStep ==
    ASSUME OrdersInv, NEW t \in mempool, Evict(t)
    PROVE  OrdersInv'
  <1> USE DEF OrdersInv
  <1>1. mempool' = mempool \ {t} /\ UNCHANGED <<utxos, deposits, accepted, open, lost, found, tx>>
    BY DEF Evict
  <1>2. \A o : Taken(o)' \subseteq Taken(o)
    BY <1>1 DEF Taken
  <1>3. TypeOK' /\ CommandsServeOpen' /\ AmountsAreBound'
    BY <1>1 DEF TypeOK, CommandsServeOpen, Idle, AmountsAreBound
  <1>4. TakenOnce'
    BY <1>1, <1>2 DEF TakenOnce
  <1> QED
    BY <1>3, <1>4

LEMMA InitOrdersInv == Init => OrdersInv
  <1> SUFFICES ASSUME Init PROVE OrdersInv
    OBVIOUS
  <1>1. \A o : Taken(o) = {}
    BY DEF Init, Taken
  <1>2. TakenOnce
    BY <1>1, FS_EmptySet DEF Init, TakenOnce
  <1>3. TypeOK /\ CommandsServeOpen /\ AmountsAreBound
    BY OrderAssumption DEF Init, TypeOK, CommandsServeOpen, Idle, AmountsAreBound
  <1> QED
    BY <1>2, <1>3 DEF OrdersInv

LEMMA NextOrdersInv == OrdersInv /\ [Next]_vars => OrdersInv'
  <1> SUFFICES ASSUME OrdersInv, [Next]_vars PROVE OrdersInv'
    OBVIOUS
  <1>1. ASSUME NEW amount \in Payments, Deposit(amount) PROVE OrdersInv'
    BY <1>1, DepositStep
  <1>2. ASSUME NEW o \in Orders, NEW u \in utxos, Locate(o, u) PROVE OrdersInv'
    BY <1>2, LocateStep
  <1>3. ASSUME NEW o \in Orders, NEW fee \in Fees \cup {DefaultFee}, Build(o, fee)
        PROVE  OrdersInv'
    BY <1>3, BuildStep
  <1>4. ASSUME NEW o \in Orders, Submit(o) PROVE OrdersInv'
    BY <1>4, SubmitStep
  <1>5. ASSUME NEW o \in Orders, SubmitUnanswered(o) PROVE OrdersInv'
    BY <1>5, SubmitUnansweredStep
  <1>6. ASSUME NEW o \in Orders, End(o) PROVE OrdersInv'
    BY <1>6, EndStep
  <1>7. ASSUME NEW t \in mempool, Accept(t) PROVE OrdersInv'
    BY <1>7, AcceptStep
  <1>8. ASSUME NEW t \in mempool, Evict(t) PROVE OrdersInv'
    BY <1>8, EvictStep
  <1>9. CASE UNCHANGED vars
    BY <1>9 DEF vars, OrdersInv, TypeOK, CommandsServeOpen, Idle, AmountsAreBound, TakenOnce, Taken
  <1> QED
    BY <1>1, <1>2, <1>3, <1>4, <1>5, <1>6, <1>7, <1>8, <1>9 DEF Next

LEMMA OrdersInvHolds == Spec => []OrdersInv
  BY InitOrdersInv, NextOrdersInv, PTL DEF Spec

-----------------------------------------------------------------------------
(* What the invariant says of the payments. *)

\* Type correctness of any number of commands side by side.
THEOREM SlhTypeCorrect == Spec => []TypeOK
  <1>1. OrdersInv => TypeOK
    BY DEF OrdersInv
  <1> QED
    BY <1>1, OrdersInvHolds, PTL

\* An order is paid at most once more often than replies were lost.
LEMMA PaidOnce == OrdersInv => PaidOncePerReply
  <1> SUFFICES ASSUME OrdersInv, NEW o \in Orders
               PROVE  Cardinality(Spends(o)) <= 1 + Cardinality({t \in lost : t.amount = o})
    BY DEF PaidOncePerReply
  <1> DEFINE L == {t \in lost : t.amount = o}
  <1>1. IsFiniteSet(L)
    BY FS_Subset DEF OrdersInv, TakenOnce
  <1>2. PICK x : Taken(o) \subseteq lost \cup {x}
    BY DEF OrdersInv, TakenOnce
  <1>3. Spends(o) \subseteq L \cup {x}
    BY <1>2 DEF Spends, Taken
  <1> HIDE DEF L
  <1>4. IsFiniteSet(L \cup {x}) /\ Cardinality(L \cup {x}) <= 1 + Cardinality(L)
    BY <1>1, FS_AddElement, FS_CardinalityType
  <1>5. Cardinality(Spends(o)) <= Cardinality(L \cup {x}) /\ IsFiniteSet(Spends(o))
    BY <1>3, <1>4, FS_Subset
  <1>6. Cardinality(Spends(o)) <= 1 + Cardinality(L)
    BY <1>1, <1>4, <1>5, FS_CardinalityType
  <1> QED
    BY <1>6 DEF L

\* No payment is made twice unless a reply was lost, however commands race,
\* fail and are run again.
THEOREM PaidOncePerReplyHolds == Spec => []PaidOncePerReply
  BY PaidOnce, OrdersInvHolds, PTL

\* The probe for the fee floor refuses no spend that every check would pass.
THEOREM FeasibleSpendIsBuiltHolds == Spec => []FeasibleSpendIsBuilt
  <1>1. ASSUME OrdersInv, NEW o \in Orders, NEW fee \in Fees \cup {DefaultFee},
               found[o] # None, Checked(found[o], o, fee)
        PROVE  Probed(found[o], o)
    <2> DEFINE r == Rest(found[o], o, fee)
    <2>1. /\ o \in Nat /\ fee \in Nat /\ found[o].amount \in Nat
          /\ found[o].amount <= MaxAmount
      BY <1>1, BuiltTx DEF OrdersInv, AmountsAreBound
    <2>2. r \in Nat
      BY <2>1, RestIsNat
    <2>3. Enforce(found[o].amount, o, r) /\ Bindable(o, r)
      BY <1>1 DEF Checked
    <2> HIDE DEF r
    <2> QED
      BY <2>1, <2>2, <2>3, EnforcedIsProbed, FloorAssumption DEF Probed
  <1>2. OrdersInv => FeasibleSpendIsBuilt
    BY <1>1 DEF FeasibleSpendIsBuilt
  <1> QED
    BY <1>2, OrdersInvHolds, PTL
=============================================================================

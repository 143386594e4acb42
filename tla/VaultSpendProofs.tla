-------------------------- MODULE VaultSpendProofs --------------------------
(***************************************************************************)
(* The safety properties of VaultSpend, for any number of leaves, payments *)
(* and commands, any window and any faults.                                *)
(***************************************************************************)
EXTENDS VaultSpend, Integers, TLAPS

-----------------------------------------------------------------------------
(* What the checks before a signature are worth: below MaxAmount none of the *)
(* sums and differences that decide can wrap around.                         *)

LEMMA NoWrap ==
    ASSUME NEW a \in 0..(Word - 1)
    PROVE  a % Word = a /\ (a + Word) % Word = a
  BY PreflightAssumption

LEMMA MaxAmountFits == MaxAmount \in Int /\ 2 * MaxAmount <= Word - 2
  BY PreflightAssumption DEF MaxAmount

\* A spend that passes enforce and the bounds of the binding digest is one
\* the node takes, however its amounts came about.
THEOREM EnforcedIsAccepted ==
    ASSUME NEW in \in Nat, in <= MaxAmount, NEW amount \in Nat, NEW change \in Nat,
           Enforce(in, amount, change), Bindable(amount, change)
    PROVE  NodeAccepts(in, amount, change)
  <1>1. /\ amount <= MaxAmount /\ change <= MaxAmount
        /\ Plus(amount, change) <= in
        /\ Minus(in, Plus(amount, change)) >= FeeFloor
        /\ StorageMass(in, amount, change) <= MassLimit
    BY DEF Bindable, Enforce, Estimate
  <1>2. Plus(amount, change) = amount + change
    BY <1>1, MaxAmountFits, NoWrap, PreflightAssumption DEF Plus
  <1>3. Minus(in, Plus(amount, change)) = in - (amount + change)
    <2>1. in - (amount + change) \in 0..(Word - 1)
      BY <1>1, <1>2, MaxAmountFits, PreflightAssumption
    <2>2. in + Word - (amount + change) = (in - (amount + change)) + Word
      BY PreflightAssumption
    <2> QED
      BY <1>2, <2>1, <2>2, NoWrap DEF Minus
  <1> QED
    BY <1>1, <1>3, PreflightAssumption DEF NodeAccepts

-----------------------------------------------------------------------------
(* The inductive invariants. *)

\* Everything in hand leaves a leaf for its change.
LeavesALeaf ==
    /\ \A t \in mempool \cup accepted \cup signed : t.utxo.leaf + 1 < LeafCount
    /\ tx # None => tx.utxo.leaf + 1 < LeafCount
    /\ found # None => found.leaf + 1 < LeafCount

TypeInv == TypeOK /\ LeavesALeaf

\* A payment is one output, which spends move and never split or merge.
OneOutputPerPayment ==
    /\ \A u \in utxos : u.deposit <= deposits /\ u.amount <= MaxAmount
    /\ \A u, v \in utxos : u.deposit = v.deposit => u = v
    /\ \A d \in 1..deposits : \E u \in utxos : u.deposit = d

\* The outputs the payments have been, are, or will be once the signed spends
\* are accepted.
Outputs ==
    {t.utxo : t \in signed} \cup {Change(t) : t \in signed}
      \cup utxos \cup ({found} \ {None})

\* Those of one payment are a line: one output on each leaf, and its spend signed
\* on every leaf before the last.
Lines ==
    /\ \A p \in Outputs : p.deposit <= deposits /\ p.amount <= MaxAmount
    /\ \A p, q \in Outputs : p.deposit = q.deposit /\ p.leaf = q.leaf => p = q
    /\ \A p, q \in Outputs : \A l \in Leaf :
          p.deposit = q.deposit /\ p.leaf <= l /\ l < q.leaf =>
              \E t \in signed : t.utxo.deposit = p.deposit /\ t.utxo.leaf = l

\* Only signed spends are anywhere, the node would take each of them, and no
\* two of one payment are of one leaf.
OnlySigned ==
    /\ \A s, t \in signed :
          s.utxo.deposit = t.utxo.deposit /\ s.utxo.leaf = t.utxo.leaf => s = t
    /\ \A t \in signed : Relayable(t)
    /\ mempool \subseteq signed /\ accepted \subseteq signed
    /\ journal \subseteq signed /\ tx \in signed \cup {None}

\* The output there is parts the spends that are accepted from the others.
Frontier ==
    \A t \in signed, u \in utxos :
        t.utxo.deposit = u.deposit => (t \in accepted <=> t.utxo.leaf < u.leaf)

\* The journal has one spend of a leaf, and what it has lost lies behind the
\* chain and behind the command.
Remembered ==
    /\ \A s, t \in journal : s.utxo.leaf = t.utxo.leaf => s = t
    /\ "restore" \notin faults => journal = signed
    /\ \A t \in signed \ journal :
          /\ t \in accepted
          /\ found # None /\ t.utxo.deposit = found.deposit => t.utxo.leaf < found.leaf

\* Without a reorganisation the chain is never behind the command.
ChainAhead ==
    "reorg" \notin faults /\ found # None =>
        \A u \in utxos : u.deposit = found.deposit => found.leaf <= u.leaf

\* While its change is within the window, the vault spends one payment only: the
\* command sees where that payment is, and refuses when it sees another.
OnePaymentSpent ==
    WithinWindow =>
        \A s \in signed :
            /\ \A t \in signed : s.utxo.deposit = t.utxo.deposit
            /\ found # None => s.utxo.deposit = found.deposit

VaultInv ==
    /\ TypeInv /\ OneOutputPerPayment /\ Lines /\ OnlySigned
    /\ Frontier /\ Remembered /\ ChainAhead /\ OnePaymentSpent

-----------------------------------------------------------------------------
(* Types. *)

LEMMA RestIsNat ==
    ASSUME NEW u, u.amount \in Nat, NEW amount \in Nat, NEW fee \in Nat
    PROVE  Rest(u, amount, fee) \in Nat
  <1>1. Minus(u.amount, amount) \in Int
    BY PreflightAssumption DEF Minus
  <1> QED
    BY <1>1, PreflightAssumption DEF Rest, Minus

\* Change is an output of the next leaf, of the same payment.
LEMMA ChangeIsOutput ==
    ASSUME NEW t \in Tx, t.utxo.leaf + 1 < LeafCount
    PROVE  /\ Change(t) \in Utxo
           /\ Change(t).leaf = t.utxo.leaf + 1
           /\ Change(t).deposit = t.utxo.deposit
           /\ Change(t).amount = Rest(t.utxo, t.amount, t.fee)
  <1>1. t.utxo \in Utxo /\ t.amount \in Nat /\ t.fee \in Nat
    BY DEF Tx
  <1>2. Rest(t.utxo, t.amount, t.fee) \in Nat
    BY <1>1, RestIsNat DEF Utxo
  <1>3. Append(t.utxo.path, <<t.amount, t.fee>>) \in Seq(Nat \X Nat)
    BY <1>1 DEF Utxo
  <1>4. t.utxo.leaf + 1 \in Leaf
    BY <1>1, SizeAssumption DEF Utxo, Leaf
  <1>5. t.utxo.deposit \in 1..MaxDeposits
    BY <1>1 DEF Utxo
  <1> QED
    BY <1>2, <1>3, <1>4, <1>5 DEF Change, Utxo

\* The amounts and fees a command signs are words.
LEMMA SignedTx ==
    ASSUME TypeInv, found # None,
           NEW amount \in Amounts, NEW fee \in Fees \cup {DefaultFee}
    PROVE  /\ amount \in Nat /\ fee \in Nat
           /\ [utxo |-> found, amount |-> amount, fee |-> fee] \in Tx
  <1>1. amount \in Nat
    BY SizeAssumption, PreflightAssumption
  <1>2. DefaultFee \in Nat
    BY PreflightAssumption DEF DefaultFee
  <1>3. fee \in Nat
    BY <1>2, SizeAssumption, PreflightAssumption
  <1>4. found \in Utxo
    BY DEF TypeInv, TypeOK
  <1> QED
    BY <1>1, <1>3, <1>4 DEF Tx

LEMMA DepositType ==
    ASSUME TypeInv, NEW l \in Leaf, NEW amount \in Payments, Deposit(l, amount)
    PROVE  TypeInv'
  <1> DEFINE u == [deposit |-> deposits + 1, leaf |-> l, amount |-> amount, path |-> <<>>]
  <1>1. deposits + 1 \in 1..MaxDeposits
    BY SizeAssumption DEF TypeInv, TypeOK, Deposit
  <1>2. amount \in Nat
    BY SizeAssumption, PreflightAssumption
  <1>3. u \in Utxo
    <2>1. <<>> \in Seq(Nat \X Nat)
      OBVIOUS
    <2> QED
      BY <1>1, <1>2, <2>1 DEF Utxo
  <1>4. utxos' = utxos \cup {u} /\ deposits' = deposits + 1
    BY DEF Deposit
  <1> HIDE DEF u
  <1>5. utxos' \subseteq Utxo /\ deposits' \in 0..MaxDeposits
    BY <1>1, <1>3, <1>4, SizeAssumption DEF TypeInv, TypeOK
  <1> QED
    BY <1>5 DEF TypeInv, TypeOK, LeavesALeaf, Deposit

LEMMA SignType ==
    ASSUME TypeInv, NEW amount \in Amounts, NEW fee \in Fees \cup {DefaultFee},
           Sign(amount, fee)
    PROVE  TypeInv'
  <1> DEFINE t == [utxo |-> found, amount |-> amount, fee |-> fee]
  <1>1. /\ journal' = journal \cup {t} /\ signed' = signed \cup {t}
        /\ found' = None /\ tx' = t /\ found # None
        /\ UNCHANGED <<faults, utxos, deposits, mempool, accepted>>
    BY DEF Sign
  <1>2. t \in Tx /\ t.utxo = found
    BY <1>1, SignedTx
  <1> HIDE DEF t
  <1>3. TypeOK'
    BY <1>1, <1>2 DEF TypeInv, TypeOK
  <1>4. LeavesALeaf'
    BY <1>1, <1>2 DEF TypeInv, LeavesALeaf
  <1> QED
    BY <1>3, <1>4 DEF TypeInv

LEMMA AcceptType ==
    ASSUME TypeInv, NEW t \in mempool, Accept(t)
    PROVE  TypeInv'
  <1>1. t \in Tx /\ t.utxo.leaf + 1 < LeafCount
    BY DEF TypeInv, TypeOK, LeavesALeaf
  <1>2. Change(t) \in Utxo
    BY <1>1, ChangeIsOutput
  <1>3. TypeOK'
    BY <1>1, <1>2 DEF TypeInv, TypeOK, Accept
  <1>4. LeavesALeaf'
    BY DEF TypeInv, LeavesALeaf, Accept
  <1> QED
    BY <1>3, <1>4 DEF TypeInv

LEMMA InitType == Init => TypeInv
  BY SizeAssumption DEF Init, TypeInv, TypeOK, LeavesALeaf

LEMMA NextType == TypeInv /\ [Next]_vars => TypeInv'
  <1> SUFFICES ASSUME TypeInv, [Next]_vars PROVE TypeInv'
    OBVIOUS
  <1>1. ASSUME NEW l \in Leaf, NEW amount \in Payments, Deposit(l, amount) PROVE TypeInv'
    BY <1>1, DepositType
  <1>2. ASSUME NEW u \in utxos, Locate(u) PROVE TypeInv'
    BY <1>2, AbsenceAssumption DEF TypeInv, TypeOK, LeavesALeaf, Locate, Idle
  <1>3. ASSUME NEW amount \in Amounts, NEW fee \in Fees \cup {DefaultFee}, Sign(amount, fee)
        PROVE  TypeInv'
    BY <1>3, SignType
  <1>4. CASE Broadcast
    BY <1>4 DEF TypeInv, TypeOK, LeavesALeaf, Broadcast
  <1>5. CASE End
    BY <1>5 DEF TypeInv, TypeOK, LeavesALeaf, End
  <1>6. ASSUME NEW t \in mempool, Accept(t) PROVE TypeInv'
    BY <1>6, AcceptType
  <1>7. ASSUME NEW t \in mempool, Evict(t) PROVE TypeInv'
    BY <1>7 DEF TypeInv, TypeOK, LeavesALeaf, Evict
  <1>8. ASSUME NEW t \in accepted, Reorg(t) PROVE TypeInv'
    <2>1. t \in Tx /\ t.utxo \in Utxo
      BY DEF TypeInv, TypeOK, Tx
    <2> QED
      BY <1>8, <2>1 DEF TypeInv, TypeOK, LeavesALeaf, Reorg
  <1>9. CASE Restore
    BY <1>9 DEF TypeInv, TypeOK, LeavesALeaf, Restore
  <1>10. CASE UNCHANGED vars
    BY <1>10 DEF TypeInv, TypeOK, LeavesALeaf, vars
  <1> QED
    BY <1>1, <1>2, <1>3, <1>4, <1>5, <1>6, <1>7, <1>8, <1>9, <1>10 DEF Next

\* The vault's outputs and spends are of their types throughout; change is
\* never sent past the last leaf.
THEOREM VaultTypeCorrect == Spec => []TypeOK
  <1>1. TypeInv => TypeOK
    BY DEF TypeInv
  <1> QED
    BY <1>1, InitType, NextType, PTL DEF Spec

-----------------------------------------------------------------------------
(* The lines of change. *)

\* Signed spends, where they come from and where their change goes.
LEMMA SignedFacts ==
    ASSUME TypeInv, NEW t \in signed
    PROVE  /\ t \in Tx /\ t.utxo \in Utxo /\ t.utxo.leaf \in Leaf /\ t.utxo.leaf \in Nat
           /\ t.utxo \in Outputs /\ Change(t) \in Outputs
           /\ Change(t) \in Utxo /\ Change(t).leaf = t.utxo.leaf + 1
           /\ Change(t).deposit = t.utxo.deposit
  <1>1. t \in Tx /\ t.utxo.leaf + 1 < LeafCount
    BY DEF TypeInv, TypeOK, LeavesALeaf
  <1>2. t.utxo \in Utxo
    BY <1>1 DEF Tx
  <1>3. t.utxo.leaf \in Leaf /\ t.utxo.leaf \in Nat
    BY <1>2, SizeAssumption DEF Utxo, Leaf
  <1>4. t.utxo \in Outputs /\ Change(t) \in Outputs
    BY DEF Outputs
  <1> QED
    BY <1>1, <1>2, <1>3, <1>4, ChangeIsOutput

LEMMA OutputsAreTyped ==
    ASSUME TypeInv
    PROVE  /\ Outputs \subseteq Utxo
           /\ \A p \in Outputs : p.leaf \in Leaf /\ p.leaf \in Nat /\ p.deposit \in 1..MaxDeposits
  <1>1. {t.utxo : t \in signed} \cup {Change(t) : t \in signed} \subseteq Utxo
    BY SignedFacts
  <1>2. utxos \cup ({found} \ {None}) \subseteq Utxo
    BY DEF TypeInv, TypeOK
  <1>3. Outputs \subseteq Utxo
    BY <1>1, <1>2 DEF Outputs
  <1> QED
    BY <1>3, SizeAssumption DEF Utxo, Leaf

\* Every payment has its output.
LEMMA PaymentHasOutput ==
    ASSUME TypeInv, OneOutputPerPayment, Lines, NEW p \in Outputs
    PROVE  \E u \in utxos : u.deposit = p.deposit /\ u \in Outputs
  <1>1. p.deposit \in 1..MaxDeposits /\ p.deposit <= deposits
    BY OutputsAreTyped DEF Lines
  <1>2. p.deposit \in 1..deposits
    BY <1>1, SizeAssumption DEF TypeInv, TypeOK
  <1> QED
    BY <1>2 DEF OneOutputPerPayment, Outputs

\* A step that signs nothing keeps the lines, if it adds no output to them.
LEMMA LinesKept ==
    ASSUME Lines, Outputs' \subseteq Outputs, signed' = signed, deposits' = deposits
    PROVE  Lines'
  BY DEF Lines

\* Steps that touch neither the chain nor the journal nor the signatures.
LEMMA QuietStep ==
    ASSUME VaultInv, TypeInv',
           UNCHANGED <<faults, utxos, deposits, accepted, journal, signed>>,
           found' = found \/ found' = None,
           mempool' \subseteq signed, tx' \in signed \cup {None}
    PROVE  VaultInv'
  <1>1. Outputs' \subseteq Outputs
    BY DEF Outputs
  <1>2. OneOutputPerPayment'
    BY DEF VaultInv, OneOutputPerPayment
  <1>3. Lines'
    BY <1>1, LinesKept DEF VaultInv
  <1>4. OnlySigned'
    BY DEF VaultInv, OnlySigned
  <1>5. Frontier'
    BY DEF VaultInv, Frontier
  <1>6. Remembered'
    BY DEF VaultInv, Remembered
  <1>7. ChainAhead'
    BY DEF VaultInv, ChainAhead
  <1>8. OnePaymentSpent'
    BY DEF VaultInv, OnePaymentSpent, WithinWindow
  <1> QED
    BY <1>2, <1>3, <1>4, <1>5, <1>6, <1>7, <1>8 DEF VaultInv

\* A payment starts a line of its own.
LEMMA DepositStep ==
    ASSUME VaultInv, TypeInv', NEW l \in Leaf, NEW amount \in Payments, Deposit(l, amount)
    PROVE  VaultInv'
  <1> DEFINE u == [deposit |-> deposits + 1, leaf |-> l, amount |-> amount, path |-> <<>>]
  <1> USE DEF VaultInv
  <1>1. /\ utxos' = utxos \cup {u} /\ deposits' = deposits + 1
        /\ UNCHANGED <<faults, mempool, accepted, journal, signed, found, tx>>
    BY DEF Deposit
  <1>2. u.deposit = deposits + 1 /\ u.amount <= MaxAmount
    BY SizeAssumption, PreflightAssumption DEF MaxAmount
  <1>3. u.leaf \in Nat
    BY SizeAssumption DEF Leaf
  <1> HIDE DEF u
  <1>4. deposits \in Nat /\ \A p \in Outputs : p.deposit \in Nat /\ p.deposit <= deposits
    BY OutputsAreTyped, SizeAssumption DEF TypeInv, TypeOK, Lines
  <1>5. utxos \subseteq Outputs
    BY DEF Outputs
  <1>6. Outputs' = Outputs \cup {u}
    BY <1>1 DEF Outputs
  <1>7. \A p \in Outputs : p.deposit # u.deposit
    BY <1>2, <1>4
  <1>8. OneOutputPerPayment'
    BY <1>1, <1>2, <1>4, <1>5 DEF OneOutputPerPayment
  <1>9. Lines'
    <2>1. \A p \in Outputs' : p.deposit <= deposits' /\ p.amount <= MaxAmount
      BY <1>1, <1>2, <1>4, <1>6 DEF Lines
    <2>2. \A p, q \in Outputs' : p.deposit = q.deposit /\ p.leaf = q.leaf => p = q
      BY <1>6, <1>7 DEF Lines
    <2>3. ASSUME NEW p \in Outputs', NEW q \in Outputs', NEW m \in Leaf,
                 p.deposit = q.deposit, p.leaf <= m, m < q.leaf
          PROVE  \E t \in signed : t.utxo.deposit = p.deposit /\ t.utxo.leaf = m
      <3>1. CASE p = u \/ q = u
        <4>1. p = u /\ q = u
          BY <1>6, <1>7, <2>3, <3>1
        <4> QED
          BY <1>3, <2>3, <4>1, SizeAssumption DEF Leaf
      <3>2. CASE p # u /\ q # u
        BY <1>6, <2>3, <3>2 DEF Lines
      <3> QED
        BY <3>1, <3>2
    <2> QED
      BY <1>1, <2>1, <2>2, <2>3 DEF Lines
  <1>10. OnlySigned' /\ Remembered'
    BY <1>1 DEF OnlySigned, Remembered
  <1>11. Frontier'
    <2>1. \A t \in signed : t.utxo.deposit # u.deposit
      BY <1>7, SignedFacts
    <2> QED
      BY <1>1, <2>1 DEF Frontier
  <1>12. ChainAhead'
    <2>1. found # None => found.deposit # u.deposit
      BY <1>7 DEF Outputs
    <2> QED
      BY <1>1, <2>1 DEF ChainAhead
  <1>13. OnePaymentSpent'
    BY <1>1 DEF OnePaymentSpent, WithinWindow
  <1> QED
    BY <1>8, <1>9, <1>10, <1>11, <1>12, <1>13

\* While the change is within the window, the command sees the output of a
\* payment it has spent of.
LEMMA SpentIsVisible ==
    ASSUME VaultInv, WithinWindow, NEW t \in signed, NEW u \in utxos,
           u.deposit = t.utxo.deposit
    PROVE  u \in Visible
  <1> USE DEF VaultInv
  <1>1. u \in Outputs /\ u.leaf \in Leaf /\ u.leaf \in Nat
    BY OutputsAreTyped DEF Outputs
  <1>2. t.utxo \in Outputs /\ t.utxo.leaf \in Nat /\ t.utxo.leaf + 1 < Window
    BY SignedFacts DEF WithinWindow
  <1>3. CASE u.leaf <= t.utxo.leaf
    BY <1>1, <1>2, <1>3, SizeAssumption DEF Visible
  <1>4. CASE ~(u.leaf <= t.utxo.leaf)
    <2> DEFINE l == u.leaf - 1
    <2>1. l \in Leaf /\ t.utxo.leaf <= l /\ l < u.leaf
      BY <1>1, <1>2, <1>4, SizeAssumption DEF Leaf
    <2>2. PICK s \in signed : s.utxo.leaf = l
      BY <1>1, <1>2, <2>1 DEF Lines
    <2>3. l + 1 < Window
      BY <2>2 DEF WithinWindow
    <2> QED
      BY <1>1, <2>3 DEF Visible
  <1> QED
    BY <1>3, <1>4

\* The command locates an output that is there, and the only one it sees.
LEMMA LocateStep ==
    ASSUME VaultInv, TypeInv', NEW u \in utxos, Locate(u)
    PROVE  VaultInv'
  <1> USE DEF VaultInv
  <1>1. /\ found' = u /\ Visible = {u}
        /\ UNCHANGED <<faults, utxos, deposits, mempool, accepted, journal, signed, tx>>
    BY DEF Locate
  <1>2. Outputs' \subseteq Outputs
    BY <1>1 DEF Outputs
  <1>3. Lines'
    BY <1>1, <1>2, LinesKept
  <1>4. OneOutputPerPayment' /\ OnlySigned' /\ Frontier'
    BY <1>1 DEF OneOutputPerPayment, OnlySigned, Frontier
  <1>5. Remembered'
    <2>1. \A t \in signed \ journal :
             t \in accepted /\ (t.utxo.deposit = u.deposit => t.utxo.leaf < u.leaf)
      BY DEF Remembered, Frontier
    <2> QED
      BY <1>1, <2>1 DEF Remembered
  <1>6. ChainAhead'
    <2>1. \A v \in utxos : v.deposit = u.deposit => v = u
      BY DEF OneOutputPerPayment
    <2>2. u.leaf \in Nat
      BY OutputsAreTyped DEF Outputs
    <2> QED
      BY <1>1, <2>1, <2>2 DEF ChainAhead
  <1>7. OnePaymentSpent'
    <2>1. ASSUME WithinWindow, NEW s \in signed
          PROVE  s.utxo.deposit = u.deposit
      <3>1. PICK v \in utxos : v.deposit = s.utxo.deposit
        BY SignedFacts, PaymentHasOutput
      <3>2. v \in Visible
        BY <2>1, <3>1, SpentIsVisible
      <3> QED
        BY <1>1, <3>1, <3>2
    <2> QED
      BY <1>1, <2>1 DEF OnePaymentSpent, WithinWindow
  <1> QED
    BY <1>3, <1>4, <1>5, <1>6, <1>7

\* The journal lets a leaf sign only what it has signed of this payment before.
LEMMA LeafIsFresh ==
    ASSUME VaultInv, found # None, NEW t,
           \A s \in journal : s.utxo.leaf = found.leaf => s = t,
           NEW s \in signed, s.utxo.deposit = found.deposit, s.utxo.leaf = found.leaf
    PROVE  s = t
  <1> USE DEF VaultInv
  <1>1. s.utxo.leaf \in Nat
    BY SignedFacts
  <1>2. s \in journal
    BY <1>1 DEF Remembered
  <1> QED
    BY <1>2

\* A new signature is made at the end of its line, and lengthens it.
LEMMA SignStep ==
    ASSUME VaultInv, TypeInv', NEW amount \in Amounts, NEW fee \in Fees \cup {DefaultFee},
           Sign(amount, fee)
    PROVE  VaultInv'
  <1> DEFINE t == [utxo |-> found, amount |-> amount, fee |-> fee]
  <1> USE DEF VaultInv
  <1>1. /\ journal' = journal \cup {t} /\ signed' = signed \cup {t}
        /\ found' = None /\ tx' = t /\ found # None
        /\ \A s \in journal : s.utxo.leaf = found.leaf => s = t
        /\ UNCHANGED <<faults, utxos, deposits, mempool, accepted>>
    BY DEF Sign
  <1>2. t \in Tx /\ t.utxo = found /\ t.amount = amount /\ t.fee = fee
    BY <1>1, SignedTx
  <1>3. found \in Outputs /\ found \in Utxo /\ found.leaf \in Leaf /\ found.leaf \in Nat
    BY <1>1, OutputsAreTyped DEF Outputs
  <1>4. Relayable(t) /\ Change(t).amount <= MaxAmount
    <2> DEFINE r == Rest(found, amount, fee)
    <2>1. Enforce(found.amount, amount, r) /\ Bindable(amount, r)
      BY DEF Sign, Checked
    <2>2. amount \in Nat /\ fee \in Nat /\ found.amount \in Nat /\ found.amount <= MaxAmount
      BY <1>1, <1>3, SignedTx DEF Lines, Utxo
    <2>3. r \in Nat
      BY <2>2, RestIsNat
    <2>4. Change(t).amount = r
      BY <1>2 DEF Change
    <2> HIDE DEF r
    <2>5. NodeAccepts(found.amount, amount, r) /\ r <= MaxAmount
      BY <2>1, <2>2, <2>3, EnforcedIsAccepted DEF Bindable
    <2> QED
      BY <1>2, <2>4, <2>5 DEF Relayable
  <1> HIDE DEF t
  <1>5. ASSUME NEW s \in signed, s.utxo.deposit = found.deposit, s.utxo.leaf = found.leaf
        PROVE  s = t
    BY <1>1, <1>5, LeafIsFresh
  <1>6. OneOutputPerPayment'
    BY <1>1 DEF OneOutputPerPayment
  <1>7. OnlySigned'
    BY <1>1, <1>2, <1>4, <1>5 DEF OnlySigned
  <1>8. Remembered'
    BY <1>1, <1>2 DEF Remembered
  <1>9. ChainAhead'
    BY <1>1 DEF ChainAhead
  <1>10. OnePaymentSpent'
    <2>1. WithinWindow' => WithinWindow
      BY <1>1 DEF WithinWindow
    <2> QED
      BY <1>1, <1>2, <2>1 DEF OnePaymentSpent
  <1>11. CASE t \in signed
    <2>1. signed' = signed
      BY <1>1, <1>11
    <2>2. Outputs' \subseteq Outputs
      BY <1>1, <2>1 DEF Outputs
    <2>3. Lines'
      BY <1>1, <2>1, <2>2, LinesKept
    <2>4. Frontier'
      BY <1>1, <2>1 DEF Frontier
    <2> QED
      BY <1>6, <1>7, <1>8, <1>9, <1>10, <2>3, <2>4
  <1>12. CASE t \notin signed
    <2> DEFINE c == Change(t)
    <2>1. \A s \in signed : ~(s.utxo.deposit = found.deposit /\ s.utxo.leaf = found.leaf)
      BY <1>5, <1>12
    <2>2. ASSUME NEW p \in Outputs, p.deposit = found.deposit
          PROVE  p.leaf <= found.leaf
      <3>1. p.leaf \in Nat
        BY OutputsAreTyped
      <3>2. ~(found.leaf < p.leaf)
        BY <1>3, <2>1, <2>2 DEF Lines
      <3> QED
        BY <1>3, <3>1, <3>2
    <2>3. /\ c.leaf = found.leaf + 1 /\ c.deposit = found.deposit /\ c.amount <= MaxAmount
      BY <1>2, <1>4 DEF Change
    <2>4. Outputs' \subseteq Outputs \cup {c}
      BY <1>1, <1>2, <1>3 DEF Outputs
    <2> HIDE DEF c
    <2>5. \A p \in Outputs' : p.deposit <= deposits' /\ p.amount <= MaxAmount
      BY <1>1, <1>3, <2>3, <2>4 DEF Lines
    <2>6. \A p \in Outputs : p.deposit = c.deposit => p.leaf \in Nat /\ p.leaf < c.leaf
      BY <1>3, <2>2, <2>3, OutputsAreTyped
    <2>7. \A p, q \in Outputs' : p.deposit = q.deposit /\ p.leaf = q.leaf => p = q
      BY <2>4, <2>6 DEF Lines
    <2>8. ASSUME NEW p \in Outputs', NEW q \in Outputs', NEW l \in Leaf,
                 p.deposit = q.deposit, p.leaf <= l, l < q.leaf
          PROVE  \E s \in signed' : s.utxo.deposit = p.deposit /\ s.utxo.leaf = l
      <3>1. l \in Nat /\ c.leaf \in Nat
        BY <1>3, <2>3, SizeAssumption DEF Leaf
      <3>2. p # c
        BY <2>4, <2>6, <2>8, <3>1
      <3>3. p \in Outputs
        BY <2>4, <3>2
      <3>4. CASE q # c
        <4>1. q \in Outputs
          BY <2>4, <3>4
        <4> QED
          BY <1>1, <2>8, <3>3, <4>1 DEF Lines
      <3>5. CASE q = c /\ l = found.leaf
        BY <1>1, <1>2, <2>3, <2>8, <3>5
      <3>6. CASE q = c /\ l # found.leaf
        <4>1. l < found.leaf /\ p.deposit = found.deposit
          BY <1>3, <2>3, <2>8, <3>1, <3>6
        <4> QED
          BY <1>1, <1>3, <2>8, <3>3, <4>1 DEF Lines
      <3> QED
        BY <3>4, <3>5, <3>6
    <2>9. Lines'
      BY <2>5, <2>7, <2>8 DEF Lines
    <2>10. Frontier'
      <3>1. \A u \in utxos : u.deposit = found.deposit => u.leaf \in Nat /\ ~(found.leaf < u.leaf)
        BY <1>3, <2>2, OutputsAreTyped DEF Outputs
      <3>2. t \notin accepted
        BY <1>12 DEF OnlySigned
      <3> QED
        BY <1>1, <1>2, <3>1, <3>2 DEF Frontier
    <2> QED
      BY <1>6, <1>7, <1>8, <1>9, <1>10, <2>9, <2>10
  <1> QED
    BY <1>11, <1>12

\* The chain moves an output one step along its line, one way or the other.
LEMMA OutputMoves ==
    ASSUME TypeInv, OneOutputPerPayment, Lines, NEW t \in signed,
           NEW from, NEW to, {from, to} = {t.utxo, Change(t)},
           from \in utxos, utxos' = (utxos \ {from}) \cup {to},
           UNCHANGED <<deposits, signed, found>>
    PROVE  /\ OneOutputPerPayment' /\ Lines'
           /\ \A u \in utxos' : IF u.deposit = t.utxo.deposit THEN u = to ELSE u \in utxos
           /\ \A u \in utxos : u.deposit = t.utxo.deposit => u = from
  <1>1. /\ from \in Outputs /\ to \in Outputs
        /\ from.deposit = t.utxo.deposit /\ to.deposit = t.utxo.deposit
    BY SignedFacts
  <1>2. \A u \in utxos : u.deposit = t.utxo.deposit => u = from
    BY <1>1 DEF OneOutputPerPayment
  <1>3. \A u \in utxos' : IF u.deposit = t.utxo.deposit THEN u = to ELSE u \in utxos
    BY <1>1, <1>2
  <1>4. Outputs' \subseteq Outputs
    BY <1>1 DEF Outputs
  <1>5. Lines'
    BY <1>4, LinesKept
  <1>6. OneOutputPerPayment'
    <2>1. \A u \in utxos' : u.deposit <= deposits /\ u.amount <= MaxAmount
      BY <1>1 DEF OneOutputPerPayment, Lines
    <2>2. \A u, v \in utxos' : u.deposit = v.deposit => u = v
      BY <1>3 DEF OneOutputPerPayment
    <2>3. ASSUME NEW d \in 1..deposits
          PROVE  \E u \in utxos' : u.deposit = d
      BY <1>1 DEF OneOutputPerPayment
    <2> QED
      BY <2>1, <2>2, <2>3 DEF OneOutputPerPayment
  <1> QED
    BY <1>2, <1>3, <1>5, <1>6

\* Where the output of a spend is there, the spends of its payment that are
\* accepted are those of the leaves before.
LEMMA AcceptStep ==
    ASSUME VaultInv, TypeInv', NEW t \in mempool, Accept(t)
    PROVE  VaultInv'
  <1> USE DEF VaultInv
  <1>1. /\ t.utxo \in utxos /\ utxos' = (utxos \ {t.utxo}) \cup {Change(t)}
        /\ accepted' = accepted \cup {t} /\ mempool' = mempool \ {t}
        /\ UNCHANGED <<faults, deposits, journal, signed, found, tx>>
    BY DEF Accept
  <1>2. t \in signed
    BY DEF OnlySigned
  <1>3. /\ OneOutputPerPayment' /\ Lines'
        /\ \A u \in utxos' : IF u.deposit = t.utxo.deposit THEN u = Change(t) ELSE u \in utxos
        /\ \A u \in utxos : u.deposit = t.utxo.deposit => u = t.utxo
    BY <1>1, <1>2, OutputMoves
  <1>4. OnlySigned'
    BY <1>1, <1>2 DEF OnlySigned
  <1>5. Remembered'
    BY <1>1 DEF Remembered
  <1>6. Change(t).leaf = t.utxo.leaf + 1 /\ t.utxo.leaf \in Nat
    BY <1>2, SignedFacts
  <1>7. Frontier'
    <2> SUFFICES ASSUME NEW s \in signed, NEW u \in utxos', s.utxo.deposit = u.deposit
                 PROVE  s \in accepted' <=> s.utxo.leaf < u.leaf
      BY <1>1 DEF Frontier
    <2>1. CASE u.deposit = t.utxo.deposit
      <3>1. s \in accepted <=> s.utxo.leaf < t.utxo.leaf
        BY <1>1, <2>1 DEF Frontier
      <3>2. s.utxo.leaf = t.utxo.leaf <=> s = t
        BY <1>2, <2>1 DEF OnlySigned
      <3>3. s.utxo.leaf \in Nat /\ u = Change(t)
        BY <1>3, <2>1, SignedFacts
      <3> QED
        BY <1>1, <1>6, <3>1, <3>2, <3>3
    <2>2. CASE u.deposit # t.utxo.deposit
      BY <1>1, <1>3, <2>2 DEF Frontier
    <2> QED
      BY <2>1, <2>2
  <1>8. ChainAhead'
    <2> SUFFICES ASSUME "reorg" \notin faults, found # None,
                        NEW u \in utxos', u.deposit = found.deposit
                 PROVE  found.leaf <= u.leaf
      BY <1>1 DEF ChainAhead
    <2>1. found.leaf \in Nat
      BY OutputsAreTyped DEF Outputs
    <2>2. CASE u.deposit = t.utxo.deposit
      <3>1. found.leaf <= t.utxo.leaf
        BY <1>1, <2>2 DEF ChainAhead
      <3> QED
        BY <1>3, <1>6, <2>1, <2>2, <3>1
    <2>3. CASE u.deposit # t.utxo.deposit
      BY <1>3, <2>3 DEF ChainAhead
    <2> QED
      BY <2>2, <2>3
  <1>9. OnePaymentSpent'
    BY <1>1 DEF OnePaymentSpent, WithinWindow
  <1> QED
    BY <1>3, <1>4, <1>5, <1>7, <1>8, <1>9

\* A reorganisation takes back only what the journal still has.
LEMMA ReorgStep ==
    ASSUME VaultInv, TypeInv', NEW t \in accepted, Reorg(t)
    PROVE  VaultInv'
  <1> USE DEF VaultInv
  <1>1. /\ Change(t) \in utxos /\ utxos' = (utxos \ {Change(t)}) \cup {t.utxo}
        /\ t \in journal /\ "reorg" \in faults
        /\ accepted' = accepted \ {t} /\ mempool' \subseteq mempool \cup {t}
        /\ UNCHANGED <<faults, deposits, journal, signed, found, tx>>
    BY DEF Reorg
  <1>2. t \in signed
    BY DEF OnlySigned
  <1>3. /\ OneOutputPerPayment' /\ Lines'
        /\ \A u \in utxos' : IF u.deposit = t.utxo.deposit THEN u = t.utxo ELSE u \in utxos
        /\ \A u \in utxos : u.deposit = t.utxo.deposit => u = Change(t)
    BY <1>1, <1>2, OutputMoves
  <1>4. OnlySigned'
    BY <1>1, <1>2 DEF OnlySigned
  <1>5. Remembered'
    BY <1>1 DEF Remembered
  <1>6. ChainAhead' /\ OnePaymentSpent'
    BY <1>1 DEF ChainAhead, OnePaymentSpent, WithinWindow
  <1>7. Frontier'
    <2> SUFFICES ASSUME NEW s \in signed, NEW u \in utxos', s.utxo.deposit = u.deposit
                 PROVE  s \in accepted' <=> s.utxo.leaf < u.leaf
      BY <1>1 DEF Frontier
    <2>1. CASE u.deposit = t.utxo.deposit
      <3>1. /\ Change(t).leaf = t.utxo.leaf + 1 /\ t.utxo.leaf \in Nat
            /\ Change(t).deposit = t.utxo.deposit /\ s.utxo.leaf \in Nat
        BY <1>2, SignedFacts
      <3>2. s \in accepted <=> s.utxo.leaf < t.utxo.leaf + 1
        BY <1>1, <2>1, <3>1 DEF Frontier
      <3>3. s.utxo.leaf = t.utxo.leaf <=> s = t
        BY <1>2, <2>1 DEF OnlySigned
      <3>4. u = t.utxo
        BY <1>3, <2>1
      <3> QED
        BY <1>1, <3>1, <3>2, <3>3, <3>4
    <2>2. CASE u.deposit # t.utxo.deposit
      BY <1>1, <1>3, <2>2 DEF Frontier
    <2> QED
      BY <2>1, <2>2
  <1> QED
    BY <1>3, <1>4, <1>5, <1>6, <1>7

\* The journal is lost when all that was signed is on the chain.
LEMMA RestoreStep ==
    ASSUME VaultInv, TypeInv', Restore
    PROVE  VaultInv'
  <1> USE DEF VaultInv
  <1>1. /\ "restore" \in faults /\ found = None /\ signed \subseteq accepted /\ journal' = {}
        /\ UNCHANGED <<faults, utxos, deposits, mempool, accepted, signed, found, tx>>
    BY DEF Restore, Idle
  <1>2. Outputs' \subseteq Outputs
    BY <1>1 DEF Outputs
  <1>3. Lines'
    BY <1>1, <1>2, LinesKept
  <1>4. OneOutputPerPayment' /\ OnlySigned' /\ Frontier'
    BY <1>1 DEF OneOutputPerPayment, OnlySigned, Frontier
  <1>5. Remembered' /\ ChainAhead' /\ OnePaymentSpent'
    BY <1>1 DEF Remembered, ChainAhead, OnePaymentSpent, WithinWindow
  <1> QED
    BY <1>3, <1>4, <1>5

-----------------------------------------------------------------------------
(* The invariant, and what it says of the chain and the signatures. *)

LEMMA InitVaultInv == Init => VaultInv
  <1> SUFFICES ASSUME Init PROVE VaultInv
    OBVIOUS
  <1>1. Outputs = {}
    BY DEF Init, Outputs
  <1>2. Lines /\ OneOutputPerPayment
    BY <1>1 DEF Init, Lines, OneOutputPerPayment
  <1>3. OnlySigned /\ Frontier /\ Remembered /\ ChainAhead /\ OnePaymentSpent
    BY DEF Init, OnlySigned, Frontier, Remembered, ChainAhead, OnePaymentSpent
  <1> QED
    BY <1>2, <1>3, InitType DEF VaultInv

LEMMA NextVaultInv == VaultInv /\ [Next]_vars => VaultInv'
  <1> SUFFICES ASSUME VaultInv, [Next]_vars PROVE VaultInv'
    OBVIOUS
  <1>t. TypeInv'
    BY NextType DEF VaultInv
  <1>1. ASSUME NEW l \in Leaf, NEW amount \in Payments, Deposit(l, amount) PROVE VaultInv'
    BY <1>1, <1>t, DepositStep
  <1>2. ASSUME NEW u \in utxos, Locate(u) PROVE VaultInv'
    BY <1>2, <1>t, LocateStep
  <1>3. ASSUME NEW amount \in Amounts, NEW fee \in Fees \cup {DefaultFee}, Sign(amount, fee)
        PROVE  VaultInv'
    BY <1>3, <1>t, SignStep
  <1>4. CASE Broadcast
    <2>1. mempool' \subseteq signed
      BY <1>4 DEF Broadcast, VaultInv, OnlySigned
    <2> QED
      BY <1>4, <1>t, <2>1, QuietStep DEF Broadcast
  <1>5. CASE End
    <2>1. mempool' \subseteq signed
      BY <1>5 DEF End, VaultInv, OnlySigned
    <2> QED
      BY <1>5, <1>t, <2>1, QuietStep DEF End
  <1>6. ASSUME NEW t \in mempool, Accept(t) PROVE VaultInv'
    BY <1>6, <1>t, AcceptStep
  <1>7. ASSUME NEW t \in mempool, Evict(t) PROVE VaultInv'
    <2>1. mempool' \subseteq signed /\ tx' \in signed \cup {None}
      BY <1>7 DEF Evict, VaultInv, OnlySigned
    <2> QED
      BY <1>7, <1>t, <2>1, QuietStep DEF Evict
  <1>8. ASSUME NEW t \in accepted, Reorg(t) PROVE VaultInv'
    BY <1>8, <1>t, ReorgStep
  <1>9. CASE Restore
    BY <1>9, <1>t, RestoreStep
  <1>10. CASE UNCHANGED vars
    <2>1. mempool' \subseteq signed /\ tx' \in signed \cup {None}
      BY <1>10 DEF vars, VaultInv, OnlySigned
    <2> QED
      BY <1>10, <1>t, <2>1, QuietStep DEF vars
  <1> QED
    BY <1>1, <1>2, <1>3, <1>4, <1>5, <1>6, <1>7, <1>8, <1>9, <1>10 DEF Next

LEMMA VaultInvHolds == Spec => []VaultInv
  BY InitVaultInv, NextVaultInv, PTL DEF Spec

\* No leaf ever signs two spends, whatever the user asks for, however often
\* the command dies or the chain reorganises: for a journal that is kept, in any
\* window; for one that is lost, while the change is within the window.
THEOREM VaultSignOnceHolds == Spec => []SignOnceWithinWindow
  <1>1. ASSUME VaultInv, "restore" \notin faults
        PROVE  SignOnce
    BY <1>1 DEF VaultInv, Remembered, SignOnce
  <1>2. ASSUME VaultInv, WithinWindow
        PROVE  SignOnce
    <2>1. \A s, t \in signed : s.utxo.deposit = t.utxo.deposit
      BY <1>2 DEF VaultInv, OnePaymentSpent
    <2> QED
      BY <1>2, <2>1 DEF VaultInv, OnlySigned, SignOnce
  <1>3. VaultInv => SignOnceWithinWindow
    BY <1>1, <1>2 DEF SignOnceWithinWindow
  <1> QED
    BY <1>3, VaultInvHolds, PTL

\* While the change is within the window, what a leaf signs is the spend of the
\* change the leaf before it sent there, whoever else pays the vault.
THEOREM ChangeIsSpendableHolds == Spec => []ChangeIsSpendableWithinWindow
  <1>1. ASSUME VaultInv, WithinWindow, NEW s \in signed, NEW t \in signed,
               t.utxo.leaf = s.utxo.leaf + 1
        PROVE  t.utxo = Change(s)
    <2>1. t.utxo.deposit = s.utxo.deposit
      BY <1>1 DEF VaultInv, OnePaymentSpent
    <2>2. /\ t.utxo \in Outputs /\ Change(s) \in Outputs
          /\ Change(s).deposit = s.utxo.deposit /\ Change(s).leaf = s.utxo.leaf + 1
      BY <1>1, SignedFacts DEF VaultInv
    <2> QED
      BY <1>1, <2>1, <2>2 DEF VaultInv, Lines
  <1>2. VaultInv => ChangeIsSpendableWithinWindow
    BY <1>1 DEF ChangeIsSpendableWithinWindow, ChangeIsSpendable
  <1> QED
    BY <1>2, VaultInvHolds, PTL

\* Beyond every leaf whose spend is on the chain lies its money, in any window
\* and under all faults.
THEOREM FundsLieBeyondSpentLeavesHolds == Spec => []FundsLieBeyondSpentLeaves
  <1>1. ASSUME VaultInv, NEW t \in accepted
        PROVE  \E u \in utxos : u.deposit = t.utxo.deposit /\ u.leaf > t.utxo.leaf
    <2> USE DEF VaultInv
    <2>1. t \in signed /\ t.utxo \in Outputs /\ t.utxo.leaf \in Nat
      BY <1>1, SignedFacts DEF OnlySigned
    <2>2. PICK u \in utxos : u.deposit = t.utxo.deposit /\ u \in Outputs
      BY <1>1, <2>1, PaymentHasOutput
    <2>3. u.leaf \in Nat
      BY <1>1, <2>2, OutputsAreTyped
    <2> QED
      BY <1>1, <2>1, <2>2, <2>3 DEF Frontier
  <1>2. VaultInv => FundsLieBeyondSpentLeaves
    BY <1>1 DEF FundsLieBeyondSpentLeaves
  <1> QED
    BY <1>2, VaultInvHolds, PTL

\* The output a signed spend waits for is there, or comes with the spend
\* signed on the leaf before it.
LEMMA OutputComes ==
    ASSUME VaultInv, NEW t \in signed, t \notin accepted
    PROVE  t.utxo \in utxos \/ \E s \in signed \ accepted : Change(s) = t.utxo
  <1> USE DEF VaultInv
  <1>1. t.utxo \in Outputs /\ t.utxo.leaf \in Leaf /\ t.utxo.leaf \in Nat
    BY SignedFacts
  <1>2. PICK u \in utxos : u.deposit = t.utxo.deposit /\ u \in Outputs
    BY <1>1, PaymentHasOutput
  <1>3. u.leaf \in Nat
    BY <1>2, OutputsAreTyped
  <1>4. u.leaf <= t.utxo.leaf
    BY <1>1, <1>2, <1>3 DEF Frontier
  <1>5. CASE u.leaf = t.utxo.leaf
    BY <1>1, <1>2, <1>5 DEF Lines
  <1>6. CASE u.leaf < t.utxo.leaf
    <2> DEFINE l == t.utxo.leaf - 1
    <2>1. l \in Leaf /\ u.leaf <= l /\ l < t.utxo.leaf
      BY <1>1, <1>3, <1>6, SizeAssumption DEF Leaf
    <2>2. PICK s \in signed : s.utxo.deposit = u.deposit /\ s.utxo.leaf = l
      BY <1>1, <1>2, <2>1 DEF Lines
    <2>3. Change(s) = t.utxo
      <3>1. /\ Change(s) \in Outputs /\ Change(s).deposit = t.utxo.deposit
            /\ Change(s).leaf = t.utxo.leaf
        BY <1>1, <1>2, <2>2, SignedFacts
      <3> QED
        BY <1>1, <3>1 DEF Lines
    <2>4. s \notin accepted
      BY <1>1, <1>2, <1>3, <2>1, <2>2 DEF Frontier
    <2> QED
      BY <2>3, <2>4
  <1> QED
    BY <1>1, <1>3, <1>4, <1>5, <1>6

\* Every signed spend is one the node would take, and nothing it waits for is
\* missing, in any window and under all faults.
THEOREM SignedCanConfirmHolds == Spec => []SignedCanConfirm
  <1>1. VaultInv => SignedCanConfirm
    BY OutputComes DEF VaultInv, OnlySigned, SignedCanConfirm
  <1> QED
    BY <1>1, VaultInvHolds, PTL

\* Where the chain does not reorganise, a fresh signature spends an output
\* that is there when it is made.
THEOREM FreshSignatureSpendsLiveFundsHolds == Spec => FreshSignatureSpendsLiveFunds
  <1> DEFINE Live == \A t \in signed' \ signed : t.utxo \in utxos \/ "reorg" \in faults
  <1>1. ASSUME VaultInv, [Next]_vars
        PROVE  [Live]_vars
    <2> USE DEF VaultInv
    <2> SUFFICES ASSUME NEW t \in signed' \ signed, "reorg" \notin faults
                 PROVE  t.utxo \in utxos
      OBVIOUS
    <2>1. PICK amount \in Amounts, fee \in Fees \cup {DefaultFee} : Sign(amount, fee)
      BY <1>1 DEF Next, Deposit, Locate, Broadcast, End, Accept, Evict, Reorg, Restore, vars
    <2>2. found # None /\ t = [utxo |-> found, amount |-> amount, fee |-> fee]
      BY <2>1 DEF Sign
    <2>3. found \in Outputs /\ found.leaf \in Leaf /\ found.leaf \in Nat
      BY <1>1, <2>2, OutputsAreTyped DEF Outputs
    <2>4. \A s \in signed : ~(s.utxo.deposit = found.deposit /\ s.utxo.leaf = found.leaf)
      BY <1>1, <2>1, <2>2, LeafIsFresh DEF Sign
    <2>5. PICK u \in utxos : u.deposit = found.deposit /\ u \in Outputs
      BY <1>1, <2>3, PaymentHasOutput
    <2>6. u.leaf \in Nat
      BY <1>1, <2>5, OutputsAreTyped
    <2>7. u.leaf <= found.leaf
      BY <1>1, <2>3, <2>4, <2>5, <2>6 DEF Lines
    <2>8. u.leaf = found.leaf
      BY <1>1, <2>2, <2>3, <2>5, <2>6, <2>7 DEF ChainAhead
    <2> QED
      BY <1>1, <2>2, <2>3, <2>5, <2>8 DEF Lines
  <1> QED
    BY <1>1, VaultInvHolds, PTL DEF Spec, FreshSignatureSpendsLiveFunds
=============================================================================

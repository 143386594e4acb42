-------------------------- MODULE LmsScriptProofs ---------------------------
(***************************************************************************)
(* An LMS redeem script, run on any signature of a transaction the wallet  *)
(* signs: every opcode accepts its operands, every chain meets its digit,  *)
(* and the verdict is the one of the scheme.                               *)
(*                                                                         *)
(* The script is executed on unknown bytes.  A configuration is what is    *)
(* left to emit and what the stacks hold; it GOES if it is in a set each   *)
(* of whose members is the verdict or leads to another, so that running it *)
(* from there never fails.  From the last opcode back to the first, what   *)
(* an emitter writes goes if what follows it goes from what the emitter is *)
(* meant to compute.                                                       *)
(*                                                                         *)
(* In this order: one opcode; what the emitters write, part by part; a     *)
(* digit of a string of bytes; loops; hashes; the string the digits are    *)
(* of, and its checksum; the tree; the one-time key; the chains; the       *)
(* verifier; the digest; and the invariant, with the three theorems.       *)
(***************************************************************************)
EXTENDS VaultScriptProofs

-----------------------------------------------------------------------------
(* One opcode, as a relation between what is before it and after it. *)

Then(c, t) == <<c>> \o t
On(b, x)   == b \o <<x>>

\* What is still to be emitted, the stacks, and whether a branch is skipped.
Config(t, m, a, s) == [todo |-> t, main |-> m, alt |-> a, skip |-> s]
Run(t, m, a)  == Config(t, m, a, FALSE)
Skip(t, m, a) == Config(t, m, a, TRUE)
Now == Config(todo, main, alt, skip)

\* What an opcode makes of the stacks, when it accepts its operands.
Turns(tx, e, m, a, n, f) ==
  \/ e.code = "data" /\ n = On(m, e.bytes) /\ f = a
  \/ e.code \in Globals /\ n = On(m, Global(tx, e.code)) /\ f = a
  \/ \E b, u : /\ IsSequence(b) /\ m = On(b, u)
               /\ \/ e.code = "dup" /\ n = On(m, u) /\ f = a
                  \/ e.code = "drop" /\ n = b /\ f = a
                  \/ e.code = "toalt" /\ n = b /\ f = On(a, u)
  \/ /\ e.code = "swap" /\ f = a
     /\ \E b, u, v : IsSequence(b) /\ m = On(On(b, u), v) /\ n = On(On(b, v), u)
  \/ e.code = "fromalt" /\ IsSequence(f) /\ \E u : a = On(f, u) /\ n = On(m, u)
  \/ /\ e.code \in DOMAIN Arity /\ f = a
     /\ \E b, z : /\ IsSequence(b) /\ IsSequence(z) /\ Len(z) = Arity[e.code]
                  /\ m = b \o z /\ Accepts(e.code, z) /\ n = On(b, Result(e.code, z))
  \/ /\ e.code \in OfOneInput /\ f = a
     /\ \E b : IsSequence(b) /\ m = On(b, Encode(0)) /\ n = On(b, OfInput(tx, e.code)[1])
  \/ /\ e.code \in OfOneOutput /\ f = a
     /\ \E b : \E i \in Word : /\ IsSequence(b) /\ m = On(b, Encode(i)) /\ i + 1 \in 1 .. Len(tx.outputs)
                               /\ n = On(b, OfOutput(tx, e.code)[i + 1])

\* Which opcode it is decides what runs.
LEMMA CodeRuns ==
    ASSUME NEW tx, NEW e, RunOpcode(tx, e)
    PROVE  /\ e.code = "dup" => OpDup
           /\ e.code = "drop" => OpDrop
           /\ e.code = "toalt" => OpToAltStack
           /\ e.code = "swap" => OpSwap
           /\ e.code = "fromalt" => OpFromAltStack
           /\ e.code = "if" => OpIf
           /\ e.code = "endif" => OpEndIf
           /\ e.code \in DOMAIN Arity => OpCalc(e.code, Arity[e.code])
  <1>1. DOMAIN Arity =
          {"cat", "sha256", "equal", "substr", "bin2num", "num2bin", "add", "sub", "mul", "div", "mod", "gte"}
    BY DEF Arity
  <1>2. CASE e.code \in {"dup", "drop", "toalt", "swap"}
    BY <1>1, <1>2 DEF RunOpcode, Globals, OfOneInput, OfOneOutput
  <1>3. CASE e.code \in {"fromalt", "if", "endif"}
    BY <1>1, <1>3 DEF RunOpcode, Globals, OfOneInput, OfOneOutput
  <1>4. CASE e.code \in DOMAIN Arity
    <2>1. e.code \notin {"data", "dup", "drop", "toalt", "swap", "fromalt", "if", "endif"}
      BY <1>1, <1>4
    <2>2. e.code \notin Globals \cup OfOneInput \cup OfOneOutput
      BY <1>1, <1>4 DEF Globals, OfOneInput, OfOneOutput
    <2>3. OpCalc(e.code, Arity[e.code])
      BY <1>4, <2>1, <2>2, Zenon DEF RunOpcode
    <2> QED
      BY <2>1, <2>3
  <1> QED
    BY <1>1, <1>2, <1>3, <1>4

\* The stack under its topmost items.
LEMMA TopOne ==
    ASSUME NEW b, IsSequence(b), NEW u, main = On(b, u)
    PROVE  /\ IsSequence(main) /\ Depth >= 1 /\ Top = u /\ Below(1) = b
           /\ SubSeq(main, Depth - 1 + 1, Depth) = <<u>>
  <1>1. /\ IsSequence(main) /\ Depth = Len(b) + 1 /\ Len(b) \in Nat /\ SubSeq(main, 1, Len(b)) = b
        /\ SubSeq(main, Len(b) + 1, Len(b) + 1) = <<u>> /\ main[Len(b) + 1] = u
    BY Stacked1 DEF Depth, On
  <1>2. Depth - 1 + 1 = Len(b) + 1 /\ Depth - 1 = Len(b) /\ Depth >= 1
    BY <1>1
  <1> QED
    BY <1>1, <1>2 DEF Below, Top

LEMMA TopSwapped ==
    ASSUME NEW b, IsSequence(b), NEW u, NEW v, main = On(On(b, u), v)
    PROVE  Depth >= 2 /\ Below(2) \o <<Top, main[Depth - 1]>> = On(On(b, v), u)
  <1>1. IsSequence(On(b, u)) /\ Len(On(b, u)) = Len(b) + 1 /\ Len(b) \in Nat /\ On(b, u)[Len(b) + 1] = u
    BY Stacked1 DEF On
  <1>2. Top = v /\ Below(1) = On(b, u)
    BY <1>1, TopOne
  <1>3. OneOnOther(b, u, v) /\ OneOnOther(b, v, u)
    BY Stacked2
  <1>4. main = b \o <<u, v>>
    BY <1>3, Zenon DEF OneOnOther, On
  <1>5. IsSequence(<<u, v>>) /\ Len(<<u, v>>) = 2
    BY Pairs
  <1>6. Below(2) = b /\ Depth = Len(b) + 2 /\ Depth >= 2
    BY <1>4, <1>5, TopTwo
  <1>7. main[Depth - 1] = u
    <2>1. main = On(b, u) \o <<v>>
      BY DEF On
    <2> DEFINE s == On(b, u)
    <2>2. IsSequence(s) /\ Len(s) = Len(b) + 1 /\ s[Len(b) + 1] = u /\ main = s \o <<v>>
      BY <1>1, <2>1
    <2> HIDE DEF s
    <2> DEFINE w == <<v>>
    <2>3. IsSequence(w) /\ Len(w) = 1 /\ main = s \o w
      BY <2>2, SequenceOne
    <2> HIDE DEF w
    <2>4. \A i \in 1 .. Len(s) + 1 : main[i] = IF i <= Len(s) THEN s[i] ELSE w[i - Len(s)]
      BY <2>2, <2>3, SequenceConcat
    <2>6. Depth - 1 = Len(b) + 1
      BY <1>1, <1>6
    <2>5. Len(b) + 1 \in 1 .. Len(s) + 1 /\ Len(b) + 1 <= Len(s)
      BY <1>1, <2>2
    <2> QED
      BY <2>2, <2>4, <2>5, <2>6
  <1>8. Below(2) \o <<Top, main[Depth - 1]>> = b \o <<v, u>>
    BY <1>2, <1>6, <1>7, Zenon
  <1> QED
    BY <1>3, <1>6, <1>8, Zenon DEF OneOnOther, On

Ended(n, f) == main' = n /\ alt' = f /\ ~failed' /\ ~skip'

LEMMA ExecutedTo ==
    ASSUME NEW n, NEW f, Execute(TRUE, n, f), ~skip
    PROVE  Ended(n, f)
  BY Zenon DEF Execute, Ended

LEMMA CalcRuns ==
    ASSUME NEW fn, NEW b, NEW z, IsSequence(b), IsSequence(z), Len(z) \in Nat, main = b \o z,
           Accepts(fn, z), OpCalc(fn, Len(z)), ~skip
    PROVE  Ended(On(b, Result(fn, z)), alt)
  <1>1. SubSeq(main, 1, Len(b)) = b /\ SubSeq(main, Len(b) + 1, Len(b) + Len(z)) = z
    BY TakenApart
  <1>2. Depth = Len(b) + Len(z) /\ Len(b) \in Nat
    BY SequenceConcat DEF Depth
  <1>3. Depth - Len(z) = Len(b) /\ Depth - Len(z) + 1 = Len(b) + 1 /\ Len(z) <= Depth
    BY <1>2
  <1>4. SubSeq(main, Depth - Len(z) + 1, Depth) = z
    BY <1>1, <1>2, <1>3, Zenon
  <1>5. Below(Len(z)) = b
    BY <1>1, <1>3, Zenon DEF Below
  <1>6. Execute(Len(z) <= Depth /\ Accepts(fn, z), Append(b, Result(fn, z)), alt)
    BY <1>4, <1>5, Zenon DEF OpCalc
  <1>7. Append(b, Result(fn, z)) = On(b, Result(fn, z))
    BY AppendIs DEF On
  <1>8. Execute(TRUE, On(b, Result(fn, z)), alt)
    <2>1. Len(z) <= Depth /\ Accepts(fn, z)
      BY <1>3
    <2>2. (Len(z) <= Depth /\ Accepts(fn, z)) = TRUE
      BY <2>1
    <2> QED
      BY <1>6, <1>7, <2>2, Zenon
  <1> QED
    BY <1>8, ExecutedTo

\* Accepted operands are replaced by what the opcode makes of them.
LEMMA TurnsRun ==
    ASSUME NEW tx, NEW e, RunOpcode(tx, e), ~skip, IsSequence(main), IsSequence(alt),
           NEW n, NEW f, Turns(tx, e, main, alt, n, f)
    PROVE  Ended(n, f)
  <1>1. CASE e.code = "data" /\ n = On(main, e.bytes) /\ f = alt
    BY <1>1, CodeDecides, Pushes, Zenon DEF Ran, Ended, On
  <1>2. CASE e.code \in Globals /\ n = On(main, Global(tx, e.code)) /\ f = alt
    BY <1>2, CodeDecides, Pushes, Zenon DEF Ran, Ended, On
  <1>3. ASSUME NEW b, NEW u, IsSequence(b), main = On(b, u),
               \/ e.code = "dup" /\ n = On(main, u) /\ f = alt
               \/ e.code = "drop" /\ n = b /\ f = alt
               \/ e.code = "toalt" /\ n = b /\ f = On(alt, u)
        PROVE  Ended(n, f)
    <2>1. Depth >= 1 /\ Top = u /\ Below(1) = b
      BY <1>3, TopOne
    <2>2. (Depth >= 1) = TRUE
      BY <2>1
    <2>3. Append(main, u) = On(main, u) /\ Append(alt, u) = On(alt, u)
      BY AppendIs DEF On
    <2>4. CASE e.code = "dup" /\ n = On(main, u) /\ f = alt
      <3>1. OpDup
        BY <2>4, CodeRuns
      <3>2. Execute(TRUE, n, f)
        BY <2>1, <2>2, <2>3, <2>4, <3>1, Zenon DEF OpDup
      <3> QED
        BY <3>2, ExecutedTo
    <2>5. CASE e.code = "drop" /\ n = b /\ f = alt
      <3>1. OpDrop
        BY <2>5, CodeRuns
      <3>2. Execute(TRUE, n, f)
        BY <2>1, <2>2, <2>3, <2>5, <3>1, Zenon DEF OpDrop
      <3> QED
        BY <3>2, ExecutedTo
    <2>6. CASE e.code = "toalt" /\ n = b /\ f = On(alt, u)
      <3>1. OpToAltStack
        BY <2>6, CodeRuns
      <3>2. Execute(TRUE, n, f)
        BY <2>1, <2>2, <2>3, <2>6, <3>1, Zenon DEF OpToAltStack
      <3> QED
        BY <3>2, ExecutedTo
    <2> QED
      BY <1>3, <2>4, <2>5, <2>6
  <1>4. ASSUME e.code = "swap", f = alt, NEW b, NEW u, NEW v, IsSequence(b),
               main = On(On(b, u), v), n = On(On(b, v), u)
        PROVE  Ended(n, f)
    <2>1. Depth >= 2 /\ Below(2) \o <<Top, main[Depth - 1]>> = n
      BY <1>4, TopSwapped
    <2>2. (Depth >= 2) = TRUE
      BY <2>1
    <2>3. OpSwap
      BY <1>4, CodeRuns
    <2>4. Execute(TRUE, n, f)
      BY <1>4, <2>1, <2>2, <2>3, Zenon DEF OpSwap
    <2> QED
      BY <2>4, ExecutedTo
  <1>5. ASSUME e.code = "fromalt", IsSequence(f), NEW u, alt = On(f, u), n = On(main, u)
        PROVE  Ended(n, f)
    <2>1. alt # <<>> /\ Last(alt) = u /\ Front(alt) = f
      <3>1. /\ IsSequence(alt) /\ Len(alt) = Len(f) + 1 /\ Len(f) \in Nat /\ alt[Len(f) + 1] = u
            /\ SubSeq(alt, 1, Len(f)) = f
        BY <1>5, Stacked1 DEF On
      <3>2. alt # <<>> /\ Len(alt) - 1 = Len(f)
        <4>1. alt = <<>> <=> Len(alt) = 0
          BY <3>1, SequenceLen
        <4> QED
          BY <3>1, <4>1
      <3> QED
        BY <3>1, <3>2 DEF Last, Front
    <2>2. (alt # <<>>) = TRUE
      BY <2>1
    <2>3. OpFromAltStack
      BY <1>5, CodeRuns
    <2>4. Append(main, u) = On(main, u)
      BY AppendIs DEF On
    <2>5. Execute(TRUE, n, f)
      BY <1>5, <2>1, <2>2, <2>3, <2>4, Zenon DEF OpFromAltStack
    <2> QED
      BY <2>5, ExecutedTo
  <1>6. ASSUME e.code \in DOMAIN Arity, f = alt, NEW b, NEW z, IsSequence(b), IsSequence(z),
               Len(z) = Arity[e.code], main = b \o z, Accepts(e.code, z), n = On(b, Result(e.code, z))
        PROVE  Ended(n, f)
    <2>1. OpCalc(e.code, Len(z))
      BY <1>6, CodeRuns
    <2>2. Len(z) \in Nat
      BY <1>6, SequenceLen
    <2> QED
      BY <1>6, <2>1, <2>2, CalcRuns
  <1>7. ASSUME e.code \in OfOneInput, f = alt, NEW b, IsSequence(b), main = On(b, Encode(0)),
               n = On(b, OfInput(tx, e.code)[1])
        PROVE  Ended(n, f)
    <2>1. OpTxField(1, OfInput(tx, e.code))
      BY <1>7, CodeDecides
    <2>2. 0 \in Word /\ 0 \in 0 .. 1 - 1 /\ 0 + 1 = 1
      BY SmallNumbers
    <2>3. Ran(b \o <<OfInput(tx, e.code)[0 + 1]>>)
      BY <1>7, <2>1, <2>2, FieldRuns DEF On
    <2> QED
      BY <1>7, <2>2, <2>3 DEF Ran, Ended, On
  <1>8. ASSUME e.code \in OfOneOutput, f = alt, NEW b, NEW i \in Word, IsSequence(b), main = On(b, Encode(i)),
               i + 1 \in 1 .. Len(tx.outputs), n = On(b, OfOutput(tx, e.code)[i + 1])
        PROVE  Ended(n, f)
    <2>1. OpTxField(Len(tx.outputs), OfOutput(tx, e.code))
      BY <1>8, CodeDecides
    <2>2. i \in Nat
      BY SMT DEF Word
    <2>3. i \in 0 .. Len(tx.outputs) - 1
      BY <1>8, <2>2
    <2>4. Ran(b \o <<OfOutput(tx, e.code)[i + 1]>>)
      BY <1>8, <2>1, <2>3, FieldRuns DEF On
    <2> QED
      BY <1>8, <2>4 DEF Ran, Ended, On
  <1> QED
    BY <1>1, <1>2, <1>3, <1>4, <1>5, <1>6, <1>7, <1>8, Zenon DEF Turns

-----------------------------------------------------------------------------
(* One call of the LMS script, and scripts that come to their end.          *)

Formed(x) ==
  /\ x = Config(x.todo, x.main, x.alt, x.skip) /\ x.skip \in BOOLEAN
  /\ IsSequence(x.todo) /\ IsSequence(x.main) /\ IsSequence(x.alt)

\* What is skipped in a branch not taken.
Skipped == {"data", "swap", "cat", "sha256"}

\* One opcode, in a branch or not, and one phase.
Written(c, e, x, y) ==
  \/ ~x.skip /\ ~y.skip /\ Turns(c.tx, e, x.main, x.alt, y.main, y.alt)
  \/ /\ e.code = "if" /\ ~x.skip /\ y.alt = x.alt
     /\ \E b : \/ IsSequence(b) /\ x.main = On(b, Bool(TRUE)) /\ y.main = b /\ ~y.skip
               \/ IsSequence(b) /\ x.main = On(b, Bool(FALSE)) /\ y.main = b /\ y.skip
  \/ e.code = "endif" /\ ~y.skip /\ y.main = x.main /\ y.alt = x.alt
  \/ e.code \in Skipped /\ x.skip /\ y.skip /\ y.main = x.main /\ y.alt = x.alt
Leads(c, x, y) ==
  \E e, t :
    /\ x.todo = Then(e, t) /\ IsSequence(t)
    /\ \/ e.op = "write" /\ y.todo = t /\ Written(c, e, x, y)
       \/ /\ e.op \in LmsPhases /\ y.todo = LmsBodyOf(c.p, c.pk, e) \o t
          /\ y.main = x.main /\ y.alt = x.alt /\ y.skip = x.skip

\* The branch of an OpIf is taken, or not.
LEMMA BranchRuns ==
    ASSUME OpIf, NEW b, IsSequence(b), NEW truth \in BOOLEAN, main = On(b, Bool(truth))
    PROVE  main' = b /\ alt' = alt /\ skip' = ~truth /\ ~failed'
  <1>1. Depth >= 1 /\ Top = Bool(truth) /\ Below(1) = b
    BY TopOne
  <1>2. Top \in {Bool(TRUE), Bool(FALSE)}
    BY <1>1
  <1>3. Bool(truth) = Bool(FALSE) <=> ~truth
    BY DEF Bool
  <1>4. main' = b /\ alt' = alt /\ ~failed'
    BY <1>1, <1>2, Zenon DEF OpIf
  <1>5. skip' = (Top = Bool(FALSE))
    BY <1>1, <1>2, Zenon DEF OpIf
  <1> QED
    BY <1>1, <1>3, <1>4, <1>5

\* Nothing happens in a branch not taken.
LEMMA SkippedRuns ==
    ASSUME NEW tx, NEW e, RunOpcode(tx, e), skip, e.code \in Skipped
    PROVE  main' = main /\ alt' = alt /\ skip' /\ ~failed'
  <1>1. ASSUME NEW accepts, NEW n, NEW f, Execute(accepts, n, f)
        PROVE  main' = main /\ alt' = alt /\ skip' /\ ~failed'
    BY <1>1, Zenon DEF Execute
  <1>2. DOMAIN Arity =
          {"cat", "sha256", "equal", "substr", "bin2num", "num2bin", "add", "sub", "mul", "div", "mod", "gte"}
    BY DEF Arity
  <1>3. OpPush(e.bytes) \/ OpSwap \/ OpCalc(e.code, Arity[e.code])
    BY <1>2, CodeDecides, CodeRuns DEF Skipped
  <1> QED
    BY <1>1, <1>3, Zenon DEF OpPush, OpSwap, OpCalc

\* What a relation between configurations says of a step.
LEMMA LeadsStep ==
    ASSUME Next, ~failed, NEW c, given = c, Formed(Now), NEW y, Formed(y), Leads(c, Now, y)
    PROVE  Now' = y /\ ~failed'
  <1> DEFINE x == Now
  <1>1. x.todo = todo /\ x.main = main /\ x.alt = alt /\ x.skip = skip /\ Now = Config(todo, main, alt, skip)
    BY DEF Now, Config
  <1>2. skip \in BOOLEAN /\ IsSequence(todo) /\ IsSequence(main) /\ IsSequence(alt)
    BY <1>1 DEF Formed
  <1>3. PICK e, t :
          /\ todo = Then(e, t) /\ IsSequence(t)
          /\ \/ e.op = "write" /\ y.todo = t /\ Written(c, e, Now, y)
             \/ /\ e.op \in LmsPhases /\ y.todo = LmsBodyOf(c.p, c.pk, e) \o t
                /\ y.main = main /\ y.alt = alt /\ y.skip = skip
    BY <1>1, Zenon DEF Leads
  <1>4. todo # <<>> /\ Head(todo) = e /\ Tail(todo) = t
    BY <1>3, CallFirst DEF Then
  <1>5. SUFFICES todo' = y.todo /\ main' = y.main /\ alt' = y.alt /\ skip' = y.skip /\ ~failed'
    <2>1. Now' = Config(todo', main', alt', skip')
      BY DEF Now
    <2>2. y = Config(y.todo, y.main, y.alt, y.skip)
      BY DEF Formed
    <2> QED
      BY <2>1, <2>2, <1>5, Zenon
  <1>6. CASE e.op = "write" /\ y.todo = t /\ Written(c, e, Now, y)
    <2>1. RunOpcode(c.tx, e) /\ todo' = t
      BY <1>2, <1>4, <1>6, WriteNext
    <2>2. y.skip \in BOOLEAN
      BY DEF Formed
    <2>3. CASE ~skip /\ ~y.skip /\ Turns(c.tx, e, main, alt, y.main, y.alt)
      <3>1. Ended(y.main, y.alt)
        BY <1>2, <2>1, <2>3, TurnsRun
      <3>2. skip' \in BOOLEAN
        <4>1. skip' = skip
          BY <2>3, <3>1, <1>2, MachineMoves DEF Executes, Execute, MachineStays, OpIf, OpEndIf, Ended
        <4> QED
          BY <1>2, <4>1
      <3> QED
        BY <1>6, <2>1, <2>2, <2>3, <3>1, <3>2 DEF Ended
    <2>4. CASE /\ e.code = "if" /\ ~skip /\ y.alt = alt
               /\ \E b : \/ IsSequence(b) /\ main = On(b, Bool(TRUE)) /\ y.main = b /\ ~y.skip
                         \/ IsSequence(b) /\ main = On(b, Bool(FALSE)) /\ y.main = b /\ y.skip
      <3>1. OpIf
        BY <2>1, <2>4, CodeRuns
      <3>2. PICK b : \/ IsSequence(b) /\ main = On(b, Bool(TRUE)) /\ y.main = b /\ ~y.skip
                     \/ IsSequence(b) /\ main = On(b, Bool(FALSE)) /\ y.main = b /\ y.skip
        BY <2>4
      <3>3. /\ main = On(b, Bool(TRUE)) => main' = b /\ alt' = alt /\ skip' = ~TRUE /\ ~failed'
            /\ main = On(b, Bool(FALSE)) => main' = b /\ alt' = alt /\ skip' = ~FALSE /\ ~failed'
        BY <3>1, <3>2, BranchRuns
      <3> QED
        BY <1>6, <2>1, <2>2, <2>4, <3>2, <3>3
    <2>5. CASE e.code = "endif" /\ ~y.skip /\ y.main = main /\ y.alt = alt
      <3>1. OpEndIf
        BY <2>1, <2>5, CodeRuns
      <3> QED
        BY <1>6, <2>1, <2>2, <2>5, <3>1 DEF OpEndIf
    <2>6. CASE e.code \in Skipped /\ skip /\ y.skip /\ y.main = main /\ y.alt = alt
      <3>1. main' = main /\ alt' = alt /\ skip' /\ ~failed'
        BY <2>1, <2>6, SkippedRuns
      <3>2. skip' = skip
        BY <2>1, <2>6, CodeDecides, CodeRuns
           DEF Skipped, OpPush, OpSwap, OpCalc, Execute, Arity
      <3> QED
        BY <1>2, <1>6, <2>1, <2>2, <2>6, <3>1, <3>2
    <2> QED
      BY <1>1, <1>6, <2>3, <2>4, <2>5, <2>6, Zenon DEF Written
  <1>7. CASE /\ e.op \in LmsPhases /\ y.todo = LmsBodyOf(c.p, c.pk, e) \o t
             /\ y.main = main /\ y.alt = alt /\ y.skip = skip
    <2>1. EnterPhase /\ Current = e /\ e.op \notin SlhPhases
      BY <1>4, <1>7, ActionOf DEF SlhPhases, LmsPhases, Current
    <2>2. Expand(LmsBodyOf(given.p, given.pk, e)) /\ UNCHANGED <<main, alt, skip, failed>>
      BY <2>1, Zenon DEF EnterPhase, Emits, machine
    <2>3. todo' = LmsBodyOf(c.p, c.pk, e) \o t
      BY <1>4, <2>2, Zenon DEF Expand
    <2> QED
      BY <1>7, <2>2, <2>3
  <1> QED
    BY <1>3, <1>6, <1>7

Source(c, m) == LmsSource(c.p, c.pk, c.sig, m)

\* What is claimed of every step of a chain, and of the end.
Meets(c, m, x) ==
  x.todo # <<>> /\ Head(x.todo).op = "lms_step" =>
    LET i == Head(x.todo).i
    IN  /\ x.main[Len(x.main) - 1] = Source(c, m)
        /\ Last(x.alt) = Encode(Coef(Source(c, m), i, c.p.w))
        /\ Len(x.alt) = i + 1 /\ Len(x.main) = c.p.h + (c.p.p - i) + 1
Verdict(c, m) == Bool(LmsRoot(c.p, c.pk, c.sig, Source(c, m)) = c.pk.root)
Ends(c, m, x) == x.todo = <<>> /\ x.main = <<Verdict(c, m)>> /\ ~x.skip

\* Configurations each of which ends or leads to another of them.
Closed(c, m, S) ==
  \A x \in S : Formed(x) /\ Meets(c, m, x) /\ (Ends(c, m, x) \/ \E y \in S : Leads(c, x, y))
Goes(c, m, x) == \E S : x \in S /\ Closed(c, m, S)

LEMMA GoesEnds ==
    ASSUME NEW c, NEW m, NEW x, Formed(x), Ends(c, m, x)
    PROVE  Goes(c, m, x)
  <1>1. x.todo = <<>>
    BY DEF Ends
  <1>2. Meets(c, m, x)
    BY <1>1 DEF Meets
  <1>3. x \in {x} /\ Closed(c, m, {x})
    BY <1>2 DEF Closed
  <1> QED
    BY <1>3 DEF Goes

LEMMA GoesBy ==
    ASSUME NEW c, NEW m, NEW x, NEW y, Formed(x), Meets(c, m, x), Leads(c, x, y), Goes(c, m, y)
    PROVE  Goes(c, m, x)
  <1>1. PICK S : y \in S /\ Closed(c, m, S)
    BY DEF Goes
  <1> DEFINE T == S \cup {x}
  <1>2. Closed(c, m, T)
    BY <1>1 DEF Closed
  <1>3. x \in T
    OBVIOUS
  <1> QED
    BY <1>2, <1>3 DEF Goes

LEMMA GoesOn ==
    ASSUME NEW c, NEW m, NEW x, Goes(c, m, x)
    PROVE  /\ Formed(x) /\ Meets(c, m, x)
           /\ Ends(c, m, x) \/ \E y : Leads(c, x, y) /\ Goes(c, m, y)
  BY DEF Goes, Closed

LEMMA GoesFormed ==
    ASSUME NEW c, NEW m, NEW t, NEW n, NEW a, NEW s, Goes(c, m, Config(t, n, a, s))
    PROVE  IsSequence(t) /\ IsSequence(n) /\ IsSequence(a) /\ s \in BOOLEAN
  <1>1. Formed(Config(t, n, a, s))
    BY GoesOn
  <1> QED
    BY <1>1 DEF Formed, Config

\* A step of the script.
LEMMA GoesStep ==
    ASSUME NEW c, NEW m, given = c, ~failed, Goes(c, m, Now), [Next]_vars
    PROVE  Goes(c, m, Now') /\ ~failed' /\ given' = c
  <1>1. CASE UNCHANGED vars
    <2>1. Now' = Now /\ failed' = failed /\ given' = given
      BY <1>1 DEF Now, vars, emitter, machine
    <2> QED
      BY <2>1
  <1>2. CASE Next /\ Ends(c, m, Now)
    <2>1. todo = <<>>
      BY <1>2 DEF Ends, Now, Config
    <2>2. UNCHANGED vars
      BY <1>2, <2>1, Halted
    <2> QED
      BY <1>1, <2>2
  <1>3. CASE Next /\ ~Ends(c, m, Now)
    <2>1. PICK y : Leads(c, Now, y) /\ Goes(c, m, y)
      BY <1>3, GoesOn
    <2>2. Formed(Now) /\ Formed(y)
      BY <2>1, GoesOn
    <2>3. Now' = y /\ ~failed'
      BY <1>3, <2>1, <2>2, LeadsStep
    <2>4. given' = given
      BY <1>3, GivenStays
    <2> QED
      BY <2>1, <2>3, <2>4
  <1> QED
    BY <1>1, <1>2, <1>3

SeqFacts ==
  /\ IsSequence(<<>>)
  /\ \A b, x : IsSequence(b) => IsSequence(On(b, x))
  /\ \A e, t : IsSequence(t) => IsSequence(Then(e, t)) /\ Then(e, t) # <<>> /\ Head(Then(e, t)) = e

LEMMA Sequences == SeqFacts
  <1>1. IsSequence(<<>>)
    BY CallsNone DEF Calls
  <1>2. ASSUME NEW b, NEW x, IsSequence(b) PROVE IsSequence(On(b, x))
    BY <1>2, Stacked1 DEF On
  <1>3. ASSUME NEW e, NEW t, IsSequence(t)
        PROVE  IsSequence(Then(e, t)) /\ Then(e, t) # <<>> /\ Head(Then(e, t)) = e
    BY <1>3, CallFirst DEF Then
  <1> QED
    BY <1>1, <1>2, <1>3 DEF SeqFacts

\* One opcode outside a branch.
LEMMA GoesTurn ==
    ASSUME NEW c, NEW m, NEW code, NEW bytes, NEW t, NEW n, NEW a, NEW o, NEW f,
           Goes(c, m, Run(t, o, f)), IsSequence(n), IsSequence(a),
           Turns(c.tx, Writes(code, bytes), n, a, o, f)
    PROVE  Goes(c, m, Run(Then(Writes(code, bytes), t), n, a))
  <1> DEFINE e == Writes(code, bytes)
             x == Run(Then(e, t), n, a)
             y == Run(t, o, f)
  <1>1. e.op = "write"
    BY DEF Writes
  <1> HIDE DEF e
  <1>2. IsSequence(t) /\ IsSequence(o) /\ IsSequence(f)
    BY GoesFormed DEF Run
  <1>3. /\ x.todo = Then(e, t) /\ x.main = n /\ x.alt = a /\ x.skip = FALSE
        /\ y.todo = t /\ y.main = o /\ y.alt = f /\ y.skip = FALSE
        /\ x = Config(x.todo, x.main, x.alt, x.skip)
    BY DEF Run, Config
  <1>4. IsSequence(Then(e, t)) /\ Head(Then(e, t)) = e
    BY <1>2, Sequences DEF SeqFacts
  <1> HIDE DEF x, y
  <1>5. Formed(x)
    BY <1>3, <1>4 DEF Formed
  <1>6. Meets(c, m, x)
    BY <1>1, <1>3, <1>4 DEF Meets
  <1>7. Written(c, e, x, y)
    BY <1>3, Zenon DEF Written, e
  <1>8. Leads(c, x, y)
    BY <1>1, <1>2, <1>3, <1>7, Zenon DEF Leads
  <1> QED
    BY <1>5, <1>6, <1>8, GoesBy DEF x, y, e

-----------------------------------------------------------------------------
(* The opcodes, each from what follows it. *)

Numeral(v) == Writes("data", Encode(v))

LEMMA CodeOf == \A code, bytes : Writes(code, bytes).code = code /\ Writes(code, bytes).bytes = bytes
  BY DEF Writes

LEMMA DataGoes ==
    ASSUME NEW c, NEW m, NEW t, NEW n, IsSequence(n), NEW bytes, NEW a, Goes(c, m, Run(t, On(n, bytes), a))
    PROVE  Goes(c, m, Run(Then(Writes("data", bytes), t), n, a))
  <1>1. Turns(c.tx, Writes("data", bytes), n, a, On(n, bytes), a)
    BY CodeOf, Zenon DEF Turns
  <1>2. IsSequence(a)
    BY GoesFormed DEF Run
  <1> QED
    BY <1>1, <1>2, GoesTurn

LEMMA NumberGoes ==
    ASSUME NEW c, NEW m, NEW t, NEW n, IsSequence(n), NEW v, NEW a, Goes(c, m, Run(t, On(n, Encode(v)), a))
    PROVE  Goes(c, m, Run(Then(Numeral(v), t), n, a))
  BY DataGoes DEF Numeral

LEMMA GlobalGoes ==
    ASSUME NEW c, NEW m, NEW t, NEW n, IsSequence(n), NEW code \in Globals, NEW a,
           Goes(c, m, Run(t, On(n, Global(c.tx, code)), a))
    PROVE  Goes(c, m, Run(Then(Writing(code), t), n, a))
  <1>1. Turns(c.tx, Writes(code, <<>>), n, a, On(n, Global(c.tx, code)), a)
    BY CodeOf, ZenonT(40) DEF Turns
  <1>2. IsSequence(a)
    BY GoesFormed DEF Run
  <1> QED
    BY <1>1, <1>2, GoesTurn DEF Writing

LEMMA DupGoes ==
    ASSUME NEW c, NEW m, NEW t, NEW b, IsSequence(b), NEW u, NEW a, Goes(c, m, Run(t, On(On(b, u), u), a))
    PROVE  Goes(c, m, Run(Then(Writing("dup"), t), On(b, u), a))
  <1>1. Turns(c.tx, Writes("dup", <<>>), On(b, u), a, On(On(b, u), u), a)
    BY CodeOf, Zenon DEF Turns
  <1>2. IsSequence(a) /\ IsSequence(On(b, u))
    BY GoesFormed, Sequences DEF Run, SeqFacts
  <1> QED
    BY <1>1, <1>2, GoesTurn DEF Writing

LEMMA DropGoes ==
    ASSUME NEW c, NEW m, NEW t, NEW b, IsSequence(b), NEW u, NEW a, Goes(c, m, Run(t, b, a))
    PROVE  Goes(c, m, Run(Then(Writing("drop"), t), On(b, u), a))
  <1>1. Turns(c.tx, Writes("drop", <<>>), On(b, u), a, b, a)
    BY CodeOf, Zenon DEF Turns
  <1>2. IsSequence(a) /\ IsSequence(On(b, u))
    BY GoesFormed, Sequences DEF Run, SeqFacts
  <1> QED
    BY <1>1, <1>2, GoesTurn DEF Writing

LEMMA StashGoes ==
    ASSUME NEW c, NEW m, NEW t, NEW b, IsSequence(b), NEW u, NEW a, IsSequence(a),
           Goes(c, m, Run(t, b, On(a, u)))
    PROVE  Goes(c, m, Run(Then(Writing("toalt"), t), On(b, u), a))
  <1>1. Turns(c.tx, Writes("toalt", <<>>), On(b, u), a, b, On(a, u))
    BY CodeOf, Zenon DEF Turns
  <1>2. IsSequence(On(b, u))
    BY Sequences DEF SeqFacts
  <1> QED
    BY <1>1, <1>2, GoesTurn DEF Writing

LEMMA TakeGoes ==
    ASSUME NEW c, NEW m, NEW t, NEW n, IsSequence(n), NEW u, NEW a, Goes(c, m, Run(t, On(n, u), a))
    PROVE  Goes(c, m, Run(Then(Writing("fromalt"), t), n, On(a, u)))
  <1>1. IsSequence(a)
    BY GoesFormed DEF Run
  <1>2. Turns(c.tx, Writes("fromalt", <<>>), n, On(a, u), On(n, u), a)
    BY <1>1, CodeOf, Zenon DEF Turns
  <1>3. IsSequence(On(a, u))
    BY <1>1, Sequences DEF SeqFacts
  <1> QED
    BY <1>2, <1>3, GoesTurn DEF Writing

LEMMA SwapGoes ==
    ASSUME NEW c, NEW m, NEW t, NEW b, IsSequence(b), NEW u, NEW v, NEW a,
           Goes(c, m, Run(t, On(On(b, v), u), a))
    PROVE  Goes(c, m, Run(Then(Writing("swap"), t), On(On(b, u), v), a))
  <1>1. Turns(c.tx, Writes("swap", <<>>), On(On(b, u), v), a, On(On(b, v), u), a)
    BY CodeOf, Zenon DEF Turns
  <1>2. IsSequence(a) /\ IsSequence(On(On(b, u), v))
    BY GoesFormed, Sequences DEF Run, SeqFacts
  <1> QED
    BY <1>1, <1>2, GoesTurn DEF Writing

\* One operand, two, three.
LEMMA UnaryGoes ==
    ASSUME NEW c, NEW m, NEW t, NEW b, IsSequence(b), NEW u, NEW fn, fn \in {"sha256", "bin2num"},
           Accepts(fn, <<u>>), NEW a, Goes(c, m, Run(t, On(b, Result(fn, <<u>>)), a))
    PROVE  Goes(c, m, Run(Then(Writing(fn), t), On(b, u), a))
  <1>1. fn \in DOMAIN Arity /\ Arity[fn] = 1
    BY DEF Arity
  <1>2. IsSequence(<<u>>) /\ Len(<<u>>) = 1
    BY SequenceOne
  <1>3. On(b, u) = b \o <<u>>
    BY DEF On
  <1>4. Turns(c.tx, Writes(fn, <<>>), On(b, u), a, On(b, Result(fn, <<u>>)), a)
    BY <1>1, <1>2, <1>3, CodeOf, Zenon DEF Turns
  <1>5. IsSequence(a) /\ IsSequence(On(b, u))
    BY GoesFormed, Sequences DEF Run, SeqFacts
  <1> QED
    BY <1>4, <1>5, GoesTurn DEF Writing

Binary == {"cat", "equal", "num2bin", "add", "sub", "mul", "div", "mod", "gte"}

LEMMA BinaryGoes ==
    ASSUME NEW c, NEW m, NEW t, NEW b, IsSequence(b), NEW u, NEW v, NEW fn \in Binary,
           Accepts(fn, <<u, v>>), NEW a, Goes(c, m, Run(t, On(b, Result(fn, <<u, v>>)), a))
    PROVE  Goes(c, m, Run(Then(Writing(fn), t), On(On(b, u), v), a))
  <1>1. fn \in DOMAIN Arity /\ Arity[fn] = 2
    BY DEF Arity, Binary
  <1>2. IsSequence(<<u, v>>) /\ Len(<<u, v>>) = 2
    BY Pairs
  <1>3. On(On(b, u), v) = b \o <<u, v>>
    <2>1. OneOnOther(b, u, v)
      BY Stacked2
    <2> QED
      BY <2>1, Zenon DEF On, OneOnOther
  <1>4. Turns(c.tx, Writes(fn, <<>>), On(On(b, u), v), a, On(b, Result(fn, <<u, v>>)), a)
    BY <1>1, <1>2, <1>3, CodeOf, ZenonT(40) DEF Turns
  <1>5. IsSequence(a) /\ IsSequence(On(On(b, u), v))
    BY GoesFormed, Sequences DEF Run, SeqFacts
  <1> QED
    BY <1>4, <1>5, GoesTurn DEF Writing

LEMMA SubstrGoes ==
    ASSUME NEW c, NEW m, NEW t, NEW b, IsSequence(b), NEW u, IsSequence(u), NEW i \in Word, NEW j \in Word,
           i <= j, j <= Len(u), NEW a, Goes(c, m, Run(t, On(b, SubSeq(u, i + 1, j)), a))
    PROVE  Goes(c, m, Run(Then(Writing("substr"), t), On(On(On(b, u), Encode(i)), Encode(j)), a))
  <1> DEFINE z == <<u, Encode(i), Encode(j)>>
             n == On(On(On(b, u), Encode(i)), Encode(j))
  <1>1. IsSequence(z) /\ Len(z) = 3 /\ z[1] = u /\ z[2] = Encode(i) /\ z[3] = Encode(j)
    <2>1. z \in Seq({u, Encode(i), Encode(j)})
      OBVIOUS
    <2> QED
      BY <2>1, SequenceIs
  <1>2. n = b \o z
    <2>1. b \o z = (b \o <<u>>) \o <<Encode(i), Encode(j)>>
      BY Stacked3
    <2>2. IsSequence(b \o <<u>>)
      BY Stacked1
    <2>3. OneOnOther(b \o <<u>>, Encode(i), Encode(j))
      BY <2>2, Stacked2
    <2> QED
      BY <2>1, <2>3, Zenon DEF OneOnOther, On
  <1>3. /\ Decode(Encode(i)) = i /\ Decode(Encode(j)) = j /\ IsNumber(Encode(i)) /\ IsNumber(Encode(j))
        /\ 0 <= i
    <2>1. 0 <= i
      BY SMT DEF Word
    <2> QED
      BY <2>1, NumberRead
  <1> HIDE DEF z, n
  <1>4. Accepts("substr", z) /\ Result("substr", z) = SubSeq(u, i + 1, j)
    BY <1>1, <1>3 DEF Accepts, Result
  <1>5. "substr" \in DOMAIN Arity /\ Len(z) = Arity["substr"]
    BY <1>1 DEF Arity
  <1>6. Turns(c.tx, Writes("substr", <<>>), n, a, On(b, Result("substr", z)), a)
    BY <1>1, <1>2, <1>4, <1>5, CodeOf, Zenon DEF Turns
  <1>7. IsSequence(a) /\ IsSequence(n)
    <2>1. IsSequence(n)
      BY Sequences DEF SeqFacts, n
    <2> QED
      BY <2>1, GoesFormed DEF Run
  <1> QED
    BY <1>4, <1>6, <1>7, GoesTurn DEF Writing, n

\* The opcodes on strings.
LEMMA CatGoes ==
    ASSUME NEW c, NEW m, NEW t, NEW b, IsSequence(b), NEW u, NEW v, NEW a, Goes(c, m, Run(t, On(b, u \o v), a))
    PROVE  Goes(c, m, Run(Then(Writing("cat"), t), On(On(b, u), v), a))
  <1>1. Accepts("cat", <<u, v>>) /\ Result("cat", <<u, v>>) = u \o v /\ "cat" \in Binary
    BY DEF Accepts, Result, Binary
  <1> QED
    BY <1>1, BinaryGoes

LEMMA ShaGoes ==
    ASSUME NEW c, NEW m, NEW t, NEW b, IsSequence(b), NEW u, NEW a, Goes(c, m, Run(t, On(b, Sha256(u)), a))
    PROVE  Goes(c, m, Run(Then(Writing("sha256"), t), On(b, u), a))
  <1>1. Accepts("sha256", <<u>>) /\ Result("sha256", <<u>>) = Sha256(u)
    BY DEF Accepts, Result
  <1> QED
    BY <1>1, UnaryGoes

LEMMA EqualGoes ==
    ASSUME NEW c, NEW m, NEW t, NEW b, IsSequence(b), NEW u, NEW v, NEW a, Goes(c, m, Run(t, On(b, Bool(u = v)), a))
    PROVE  Goes(c, m, Run(Then(Writing("equal"), t), On(On(b, u), v), a))
  <1>1. Accepts("equal", <<u, v>>) /\ Result("equal", <<u, v>>) = Bool(u = v) /\ "equal" \in Binary
    BY DEF Accepts, Result, Binary
  <1> QED
    BY <1>1, BinaryGoes

\* The opcodes on numbers.
LEMMA NumbersGo ==
    ASSUME NEW c, NEW m, NEW t, NEW b, IsSequence(b), NEW u \in Word, NEW v \in Word, NEW fn \in Binary, NEW w,
           fn \in {"add", "sub", "mul", "gte"} \/ (fn \in {"div", "mod"} /\ v # 0),
           w = CASE fn = "add" -> Encode(u + v)
                 [] fn = "sub" -> Encode(u - v)
                 [] fn = "mul" -> Encode(u * v)
                 [] fn = "div" -> Encode(Quotient(u, v))
                 [] fn = "mod" -> Encode(Remainder(u, v))
                 [] fn = "gte" -> Bool(u >= v),
           NEW a, Goes(c, m, Run(t, On(b, w), a))
    PROVE  Goes(c, m, Run(Then(Writing(fn), t), On(On(b, Encode(u)), Encode(v)), a))
  <1> DEFINE z == <<Encode(u), Encode(v)>>
  <1>1. z[1] = Encode(u) /\ z[2] = Encode(v)
    OBVIOUS
  <1>2. /\ Decode(Encode(u)) = u /\ Decode(Encode(v)) = v
        /\ IsNumber(Encode(u)) /\ IsNumber(Encode(v))
    BY NumberRead
  <1> HIDE DEF z
  <1>3. Accepts(fn, z)
    BY <1>1, <1>2 DEF Accepts
  <1>4. Result(fn, z) = w
    BY <1>1, <1>2 DEF Result
  <1> QED
    BY <1>3, <1>4, BinaryGoes DEF z

\* Numbers that leave the sign bit of a field clear fit it.
LEMMA FieldFits ==
    ASSUME NEW v \in Word
    PROVE  /\ Len(Encode(v)) <= 4
           /\ v < 32768 => Len(Encode(v)) <= 2
           /\ v < 128 => Len(Encode(v)) <= 1
  <1>1. CASE v = 0
    <2>1. Encode(v) = <<>>
      <3>1. ByteCount(v) = 0
        BY <1>1, ByteCounts, Weights, SMT
      <3>2. Magnitude(v) = <<>>
        BY <3>1, MagnitudeIs
      <3>3. Abs(v) = v
        BY <1>1 DEF Abs
      <3> QED
        BY <3>2, <3>3, Zenon DEF Encode
    <2> QED
      BY <2>1
  <1>2. CASE v # 0
    <2> DEFINE s == Magnitude(v)
               k == ByteCount(v)
    <2>1. s \in Seq(Octet) /\ Len(s) = k /\ k \in 0..4 /\ \A i \in 1..k : s[i] = (v \div ByteWeight[i]) % 256
      BY MagnitudeIs
    <2>2. /\ s # <<>> /\ Last(s) = (v \div ByteWeight[k]) % 256
          /\ Encode(v) = IF Last(s) >= 128 THEN Append(s, 0) ELSE s
          /\ k = 4 => Last(s) < 128
      BY <1>2, NumberBytes
    <2>3. v \in Nat /\ v <= 2147483647
      BY SMT DEF Word
    <2>4. /\ v < 256 => k <= 1
          /\ v < 65536 => k <= 2
      <3> HIDE DEF k
      <3>1. \/ v = 0 /\ k = 0
            \/ v \in 1..255 /\ k = 1
            \/ v >= 256 /\ v < 65536 /\ k = 2
            \/ v >= 65536
        BY <2>3, ByteCounts, Weights DEF k
      <3> QED
        BY <2>3, <3>1
    <2> DEFINE l == Last(s)
    <2> HIDE DEF s, k
    <2>5. Len(Append(s, 0)) = k + 1
      BY <2>1
    <2>6. k \in 1..4
      BY <2>1, <2>2
    <2>10. l \in 0..255 /\ l = (v \div ByteWeight[k]) % 256
      <3>1. l = (v \div ByteWeight[k]) % 256 /\ ByteWeight[k] \in {1, 256, 65536, 16777216}
        BY <2>2, <2>6, Weights
      <3> HIDE DEF l
      <3> QED
        BY <2>3, <3>1
    <2>11. /\ Len(Encode(v)) = IF l >= 128 THEN k + 1 ELSE k
           /\ k = 4 => l < 128
      BY <2>1, <2>2, <2>5
    <2> HIDE DEF l
    <2>7. Len(Encode(v)) <= 4
      BY <2>6, <2>10, <2>11
    <2>8. v < 32768 => Len(Encode(v)) <= 2
      <3>1. CASE v < 32768 /\ k = 2
        <4>1. l = (v \div 256) % 256
          BY <2>10, <3>1, Weights
        <4>2. l < 128
          BY <2>3, <3>1, <4>1
        <4> QED
          BY <2>10, <2>11, <3>1, <4>2
      <3> QED
        <4>1. CASE ~(v < 32768 /\ k = 2)
          <5>1. CASE v < 32768
            <6>1. k = 1
              BY <2>3, <2>4, <2>6, <4>1, <5>1
            <6> QED
              BY <2>10, <2>11, <6>1
          <5> QED
            BY <5>1
        <4> QED
          BY <3>1, <4>1
    <2>9. v < 128 => Len(Encode(v)) <= 1
      <3>1. CASE v < 128
        <4>1. k = 1 /\ l = (v \div 1) % 256
          BY <2>3, <2>4, <2>6, <2>10, <3>1, Weights
        <4>2. l < 128
          BY <2>3, <3>1, <4>1
        <4> QED
          BY <2>11, <4>1, <4>2
      <3> QED
        BY <3>1
    <2> QED
      BY <2>7, <2>8, <2>9
  <1> QED
    BY <1>1, <1>2

LEMMA SpreadGoes ==
    ASSUME NEW c, NEW m, NEW t, NEW b, IsSequence(b), NEW v \in Word, NEW n \in 1..8, Len(Encode(v)) <= n,
           NEW a, Goes(c, m, Run(t, On(b, LittleEndian(v, n)), a))
    PROVE  Goes(c, m, Run(Then(Numeral(n), Then(Writing("num2bin"), t)), On(b, Encode(v)), a))
  <1> DEFINE z == <<Encode(v), Encode(n)>>
  <1>1. z[1] = Encode(v) /\ z[2] = Encode(n)
    OBVIOUS
  <1>2. n \in Word /\ n \in 0..8
    BY SMT DEF Word
  <1>3. /\ Decode(Encode(v)) = v /\ IsNumber(Encode(v))
        /\ Decode(Encode(n)) = n /\ IsNumber(Encode(n))
    BY <1>2, NumberRead
  <1>4. Widened(v, n) = LittleEndian(v, n)
    BY WidenedIs
  <1> HIDE DEF z
  <1>5. Accepts("num2bin", z) /\ Result("num2bin", z) = LittleEndian(v, n) /\ "num2bin" \in Binary
    BY <1>1, <1>2, <1>3, <1>4 DEF Accepts, Result, Binary
  <1>6. Goes(c, m, Run(Then(Writing("num2bin"), t), On(On(b, Encode(v)), Encode(n)), a))
    BY <1>5, BinaryGoes DEF z
  <1>7. IsSequence(On(b, Encode(v)))
    BY Sequences DEF SeqFacts
  <1> QED
    BY <1>6, <1>7, NumberGoes

\* A byte, with a zero appended so that it is not taken for a negative number.
LEMMA ByteGoes ==
    ASSUME NEW c, NEW m, NEW t, NEW b, IsSequence(b), NEW v \in Octet, NEW a,
           Goes(c, m, Run(t, On(b, Encode(v)), a))
    PROVE  Goes(c, m, Run(Then(Writing("bin2num"), t), On(b, <<v>> \o <<0>>), a))
  <1> DEFINE z == <<v, 0>>
  <1>1. <<v>> \o <<0>> = z
    BY Pairs
  <1>2. Len(z) = 2 /\ z[1] = v /\ z[2] = 0 /\ z # <<>> /\ DOMAIN z = 1..2
    OBVIOUS
  <1> HIDE DEF z
  <1>3. v \in Nat
    BY DEF Octet
  <1>4. Unsigned(z) = v
    BY <1>2, <1>3, Weights DEF Unsigned
  <1>5. Last(z) = 0
    BY <1>2 DEF Last
  <1>6. Decode(z) = v
    BY <1>2, <1>4, <1>5 DEF Decode
  <1>7. Accepts("bin2num", <<z>>) /\ Result("bin2num", <<z>>) = Encode(v)
    <2> DEFINE w == <<z>>
    <2>1. w[1] = z
      OBVIOUS
    <2> HIDE DEF w
    <2>2. Accepts("bin2num", w) /\ Result("bin2num", w) = Encode(v)
      <3>1. Accepts("bin2num", w)
        <4>1. Len(w[1]) <= MaxNumLen
          <5>1. Len(w[1]) = 2
            BY <1>2, <2>1, Zenon
          <5>2. 2 <= MaxNumLen
            BY DEF MaxNumLen
          <5> QED
            BY <5>1, <5>2
        <4> QED
          BY <4>1 DEF Accepts
      <3>2. Result("bin2num", w) = Encode(v)
        BY <1>6, <2>1 DEF Result
      <3> QED
        BY <3>1, <3>2
    <2> QED
      BY <2>2 DEF w
  <1> QED
    BY <1>1, <1>7, UnaryGoes

\* The transaction's fields.
LEMMA InputGoes ==
    ASSUME NEW c, NEW m, NEW t, NEW b, IsSequence(b), NEW code \in OfOneInput, NEW a,
           Goes(c, m, Run(t, On(b, OfInput(c.tx, code)[1]), a))
    PROVE  Goes(c, m, Run(Then(Writing(code), t), On(b, Encode(0)), a))
  <1>1. Turns(c.tx, Writes(code, <<>>), On(b, Encode(0)), a, On(b, OfInput(c.tx, code)[1]), a)
    BY CodeOf, Zenon DEF Turns
  <1>2. IsSequence(a) /\ IsSequence(On(b, Encode(0)))
    BY GoesFormed, Sequences DEF Run, SeqFacts
  <1> QED
    BY <1>1, <1>2, GoesTurn DEF Writing

LEMMA OutputGoes ==
    ASSUME NEW c, NEW m, NEW t, NEW b, IsSequence(b), NEW code \in OfOneOutput, NEW i \in Word,
           i + 1 \in 1 .. Len(c.tx.outputs), NEW a,
           Goes(c, m, Run(t, On(b, OfOutput(c.tx, code)[i + 1]), a))
    PROVE  Goes(c, m, Run(Then(Writing(code), t), On(b, Encode(i)), a))
  <1>1. Turns(c.tx, Writes(code, <<>>), On(b, Encode(i)), a, On(b, OfOutput(c.tx, code)[i + 1]), a)
    BY CodeOf DEF Turns
  <1>2. IsSequence(a) /\ IsSequence(On(b, Encode(i)))
    BY GoesFormed, Sequences DEF Run, SeqFacts
  <1> QED
    BY <1>1, <1>2, GoesTurn DEF Writing

\* Branches.
LEMMA GoesWritten ==
    ASSUME NEW c, NEW m, NEW code, NEW t, NEW n, NEW a, NEW s \in BOOLEAN, NEW o, NEW r \in BOOLEAN, NEW bytes,
           Goes(c, m, Config(t, o, a, r)), IsSequence(n),
           Written(c, Writes(code, bytes), Config(Then(Writes(code, bytes), t), n, a, s), Config(t, o, a, r))
    PROVE  Goes(c, m, Config(Then(Writes(code, bytes), t), n, a, s))
  <1> DEFINE e == Writes(code, bytes)
             x == Config(Then(e, t), n, a, s)
             y == Config(t, o, a, r)
  <1>1. e.op = "write" /\ Written(c, e, x, y)
    BY DEF Writes
  <1> HIDE DEF e
  <1>2. IsSequence(t) /\ IsSequence(o) /\ IsSequence(a)
    BY GoesFormed
  <1>3. /\ x.todo = Then(e, t) /\ x.main = n /\ x.alt = a /\ x.skip = s /\ y.todo = t
        /\ x = Config(x.todo, x.main, x.alt, x.skip)
    BY DEF Config
  <1>4. IsSequence(Then(e, t)) /\ Head(Then(e, t)) = e
    BY <1>2, Sequences DEF SeqFacts
  <1>8. Goes(c, m, y)
    OBVIOUS
  <1> HIDE DEF x, y
  <1>5. Formed(x)
    BY <1>2, <1>3, <1>4 DEF Formed
  <1>6. Meets(c, m, x)
    BY <1>1, <1>3, <1>4 DEF Meets
  <1>7. Leads(c, x, y)
    BY <1>1, <1>2, <1>3, Zenon DEF Leads
  <1> QED
    BY <1>5, <1>6, <1>7, <1>8, GoesBy DEF x, e

LEMMA TakenGoes ==
    ASSUME NEW c, NEW m, NEW t, NEW b, IsSequence(b), NEW a, Goes(c, m, Run(t, b, a))
    PROVE  Goes(c, m, Run(Then(Writing("if"), t), On(b, Bool(TRUE)), a))
  <1>1. IsSequence(On(b, Bool(TRUE)))
    BY Sequences DEF SeqFacts
  <1>2. Written(c, Writes("if", <<>>), Config(Then(Writes("if", <<>>), t), On(b, Bool(TRUE)), a, FALSE), Config(t, b, a, FALSE))
    BY CodeOf DEF Written, Config
  <1> QED
    BY <1>1, <1>2, GoesWritten DEF Writing, Run

LEMMA NotTakenGoes ==
    ASSUME NEW c, NEW m, NEW t, NEW b, IsSequence(b), NEW a, Goes(c, m, Skip(t, b, a))
    PROVE  Goes(c, m, Run(Then(Writing("if"), t), On(b, Bool(FALSE)), a))
  <1>1. IsSequence(On(b, Bool(FALSE)))
    BY Sequences DEF SeqFacts
  <1>2. Written(c, Writes("if", <<>>), Config(Then(Writes("if", <<>>), t), On(b, Bool(FALSE)), a, FALSE), Config(t, b, a, TRUE))
    BY CodeOf DEF Written, Config
  <1> QED
    BY <1>1, <1>2, GoesWritten DEF Writing, Run, Skip

LEMMA SkipGoes ==
    ASSUME NEW c, NEW m, NEW t, NEW n, IsSequence(n), NEW a, NEW code \in Skipped, NEW bytes, Goes(c, m, Skip(t, n, a))
    PROVE  Goes(c, m, Skip(Then(Writes(code, bytes), t), n, a))
  <1>1. Written(c, Writes(code, bytes), Config(Then(Writes(code, bytes), t), n, a, TRUE), Config(t, n, a, TRUE))
    BY CodeOf DEF Written, Config
  <1> QED
    BY <1>1, GoesWritten DEF Skip

LEMMA EndIfGoes ==
    ASSUME NEW c, NEW m, NEW t, NEW n, IsSequence(n), NEW a, Goes(c, m, Run(t, n, a))
    PROVE  /\ Goes(c, m, Run(Then(Writing("endif"), t), n, a))
           /\ Goes(c, m, Skip(Then(Writing("endif"), t), n, a))
  <1>1. ASSUME NEW s \in BOOLEAN
        PROVE  Written(c, Writes("endif", <<>>), Config(Then(Writes("endif", <<>>), t), n, a, s), Config(t, n, a, FALSE))
    BY CodeOf DEF Written, Config
  <1> QED
    BY <1>1, GoesWritten DEF Writing, Run, Skip

\* A phase goes as its body does.
LEMMA PhaseGoes ==
    ASSUME NEW c, NEW m, NEW e, e.op \in LmsPhases, NEW t, IsSequence(t), NEW n, NEW a,
           Meets(c, m, Run(Then(e, t), n, a)),
           Goes(c, m, Run(LmsBodyOf(c.p, c.pk, e) \o t, n, a))
    PROVE  Goes(c, m, Run(Then(e, t), n, a))
  <1> DEFINE x == Run(Then(e, t), n, a)
             y == Run(LmsBodyOf(c.p, c.pk, e) \o t, n, a)
  <1>1. IsSequence(n) /\ IsSequence(a) /\ IsSequence(Then(e, t))
    BY GoesFormed, Sequences DEF Run, SeqFacts
  <1>2. /\ x.todo = Then(e, t) /\ x.main = n /\ x.alt = a /\ x.skip = FALSE
        /\ x = Config(x.todo, x.main, x.alt, x.skip)
        /\ y.todo = LmsBodyOf(c.p, c.pk, e) \o t /\ y.main = n /\ y.alt = a /\ y.skip = FALSE
    BY DEF Config, Run
  <1>3. Goes(c, m, y) /\ Meets(c, m, x)
    OBVIOUS
  <1> HIDE DEF x, y
  <1>4. Formed(x)
    BY <1>1, <1>2 DEF Formed
  <1>5. Leads(c, x, y)
    BY <1>2, Zenon DEF Leads
  <1> QED
    BY <1>3, <1>4, <1>5, GoesBy DEF x

-----------------------------------------------------------------------------
(* Code, part by part. *)

\* A piece of code is the first of its parts, and then the others.
Flat2(a, b, t) == IsSequence(a \o b) /\ (a \o b) \o t = a \o (b \o t)
Flat3(a, b, c, t) ==
  IsSequence((a \o b) \o c) /\ ((a \o b) \o c) \o t = a \o (b \o (c \o t))
Flat4(a, b, c, d, t) ==
  IsSequence(((a \o b) \o c) \o d) /\ (((a \o b) \o c) \o d) \o t = a \o (b \o (c \o (d \o t)))
Flat5(a, b, c, d, e, t) ==
  IsSequence((((a \o b) \o c) \o d) \o e) /\ ((((a \o b) \o c) \o d) \o e) \o t = a \o (b \o (c \o (d \o (e \o t))))
Flat6(a, b, c, d, e, f, t) ==
  IsSequence(((((a \o b) \o c) \o d) \o e) \o f) /\ (((((a \o b) \o c) \o d) \o e) \o f) \o t = a \o (b \o (c \o (d \o (e \o (f \o t)))))
Flat7(a, b, c, d, e, f, g, t) ==
  IsSequence((((((a \o b) \o c) \o d) \o e) \o f) \o g) /\ ((((((a \o b) \o c) \o d) \o e) \o f) \o g) \o t = a \o (b \o (c \o (d \o (e \o (f \o (g \o t))))))
Flat8(a, b, c, d, e, f, g, h, t) ==
  IsSequence(((((((a \o b) \o c) \o d) \o e) \o f) \o g) \o h) /\ (((((((a \o b) \o c) \o d) \o e) \o f) \o g) \o h) \o t = a \o (b \o (c \o (d \o (e \o (f \o (g \o (h \o t)))))))
Flat9(a, b, c, d, e, f, g, h, i, t) ==
  IsSequence((((((((a \o b) \o c) \o d) \o e) \o f) \o g) \o h) \o i) /\ ((((((((a \o b) \o c) \o d) \o e) \o f) \o g) \o h) \o i) \o t = a \o (b \o (c \o (d \o (e \o (f \o (g \o (h \o (i \o t))))))))
Flat10(a, b, c, d, e, f, g, h, i, j, t) ==
  IsSequence(((((((((a \o b) \o c) \o d) \o e) \o f) \o g) \o h) \o i) \o j) /\ (((((((((a \o b) \o c) \o d) \o e) \o f) \o g) \o h) \o i) \o j) \o t = a \o (b \o (c \o (d \o (e \o (f \o (g \o (h \o (i \o (j \o t)))))))))

LEMMA Flattened2 ==
    ASSUME NEW a, NEW b, NEW t, IsSequence(a), IsSequence(b), IsSequence(t)
    PROVE  Flat2(a, b, t)
  <1>1. IsSequence(a \o b)
    BY SequenceConcat
  <1>2. Regrouped(a, b, t)
    BY Regroups
  <1> QED
    BY <1>1, <1>2, Zenon DEF Flat2, Regrouped

LEMMA Flattened3 ==
    ASSUME NEW a, NEW b, NEW c, NEW t, IsSequence(a), IsSequence(b), IsSequence(c),
           IsSequence(t)
    PROVE  Flat3(a, b, c, t)
  <1> DEFINE s == a \o b
             u == c \o t
  <1>1. IsSequence(u)
    BY SequenceConcat
  <1>2. Flat2(a, b, u)
    <2> HIDE DEF u
    <2> QED
      BY <1>1, Flattened2
  <1>3. IsSequence(s)
    BY <1>2, Zenon DEF Flat2
  <1> HIDE DEF s
  <1>4. IsSequence(s \o c) /\ Regrouped(s, c, t)
    BY <1>3, SequenceConcat, Regroups
  <1> QED
    BY <1>2, <1>4, Zenon DEF Flat3, Flat2, Regrouped, s, u

LEMMA Flattened4 ==
    ASSUME NEW a, NEW b, NEW c, NEW d, NEW t, IsSequence(a), IsSequence(b), IsSequence(c),
           IsSequence(d), IsSequence(t)
    PROVE  Flat4(a, b, c, d, t)
  <1> DEFINE s == (a \o b) \o c
             u == d \o t
  <1>1. IsSequence(u)
    BY SequenceConcat
  <1>2. Flat3(a, b, c, u)
    <2> HIDE DEF u
    <2> QED
      BY <1>1, Flattened3
  <1>3. IsSequence(s)
    BY <1>2, Zenon DEF Flat3
  <1> HIDE DEF s
  <1>4. IsSequence(s \o d) /\ Regrouped(s, d, t)
    BY <1>3, SequenceConcat, Regroups
  <1> QED
    BY <1>2, <1>4, Zenon DEF Flat4, Flat3, Regrouped, s, u

LEMMA Flattened5 ==
    ASSUME NEW a, NEW b, NEW c, NEW d, NEW e, NEW t, IsSequence(a), IsSequence(b),
           IsSequence(c), IsSequence(d), IsSequence(e), IsSequence(t)
    PROVE  Flat5(a, b, c, d, e, t)
  <1> DEFINE s == ((a \o b) \o c) \o d
             u == e \o t
  <1>1. IsSequence(u)
    BY SequenceConcat
  <1>2. Flat4(a, b, c, d, u)
    <2> HIDE DEF u
    <2> QED
      BY <1>1, Flattened4
  <1>3. IsSequence(s)
    BY <1>2, Zenon DEF Flat4
  <1> HIDE DEF s
  <1>4. IsSequence(s \o e) /\ Regrouped(s, e, t)
    BY <1>3, SequenceConcat, Regroups
  <1> QED
    BY <1>2, <1>4, Zenon DEF Flat5, Flat4, Regrouped, s, u

LEMMA Flattened6 ==
    ASSUME NEW a, NEW b, NEW c, NEW d, NEW e, NEW f, NEW t, IsSequence(a), IsSequence(b),
           IsSequence(c), IsSequence(d), IsSequence(e), IsSequence(f), IsSequence(t)
    PROVE  Flat6(a, b, c, d, e, f, t)
  <1> DEFINE s == (((a \o b) \o c) \o d) \o e
             u == f \o t
  <1>1. IsSequence(u)
    BY SequenceConcat
  <1>2. Flat5(a, b, c, d, e, u)
    <2> HIDE DEF u
    <2> QED
      BY <1>1, Flattened5
  <1>3. IsSequence(s)
    BY <1>2, Zenon DEF Flat5
  <1> HIDE DEF s
  <1>4. IsSequence(s \o f) /\ Regrouped(s, f, t)
    BY <1>3, SequenceConcat, Regroups
  <1> QED
    BY <1>2, <1>4, Zenon DEF Flat6, Flat5, Regrouped, s, u

LEMMA Flattened7 ==
    ASSUME NEW a, NEW b, NEW c, NEW d, NEW e, NEW f, NEW g, NEW t, IsSequence(a), IsSequence(b),
           IsSequence(c), IsSequence(d), IsSequence(e), IsSequence(f), IsSequence(g),
           IsSequence(t)
    PROVE  Flat7(a, b, c, d, e, f, g, t)
  <1> DEFINE s == ((((a \o b) \o c) \o d) \o e) \o f
             u == g \o t
  <1>1. IsSequence(u)
    BY SequenceConcat
  <1>2. Flat6(a, b, c, d, e, f, u)
    <2> HIDE DEF u
    <2> QED
      BY <1>1, Flattened6
  <1>3. IsSequence(s)
    BY <1>2, Zenon DEF Flat6
  <1> HIDE DEF s
  <1>4. IsSequence(s \o g) /\ Regrouped(s, g, t)
    BY <1>3, SequenceConcat, Regroups
  <1> QED
    BY <1>2, <1>4, Zenon DEF Flat7, Flat6, Regrouped, s, u

LEMMA Flattened8 ==
    ASSUME NEW a, NEW b, NEW c, NEW d, NEW e, NEW f, NEW g, NEW h, NEW t, IsSequence(a),
           IsSequence(b), IsSequence(c), IsSequence(d), IsSequence(e), IsSequence(f),
           IsSequence(g), IsSequence(h), IsSequence(t)
    PROVE  Flat8(a, b, c, d, e, f, g, h, t)
  <1> DEFINE s == (((((a \o b) \o c) \o d) \o e) \o f) \o g
             u == h \o t
  <1>1. IsSequence(u)
    BY SequenceConcat
  <1>2. Flat7(a, b, c, d, e, f, g, u)
    <2> HIDE DEF u
    <2> QED
      BY <1>1, Flattened7
  <1>3. IsSequence(s)
    BY <1>2, Zenon DEF Flat7
  <1> HIDE DEF s
  <1>4. IsSequence(s \o h) /\ Regrouped(s, h, t)
    BY <1>3, SequenceConcat, Regroups
  <1> QED
    BY <1>2, <1>4, Zenon DEF Flat8, Flat7, Regrouped, s, u

LEMMA Flattened9 ==
    ASSUME NEW a, NEW b, NEW c, NEW d, NEW e, NEW f, NEW g, NEW h, NEW i, NEW t, IsSequence(a),
           IsSequence(b), IsSequence(c), IsSequence(d), IsSequence(e), IsSequence(f),
           IsSequence(g), IsSequence(h), IsSequence(i), IsSequence(t)
    PROVE  Flat9(a, b, c, d, e, f, g, h, i, t)
  <1> DEFINE s == ((((((a \o b) \o c) \o d) \o e) \o f) \o g) \o h
             u == i \o t
  <1>1. IsSequence(u)
    BY SequenceConcat
  <1>2. Flat8(a, b, c, d, e, f, g, h, u)
    <2> HIDE DEF u
    <2> QED
      BY <1>1, Flattened8
  <1>3. IsSequence(s)
    BY <1>2, Zenon DEF Flat8
  <1> HIDE DEF s
  <1>4. IsSequence(s \o i) /\ Regrouped(s, i, t)
    BY <1>3, SequenceConcat, Regroups
  <1> QED
    BY <1>2, <1>4, Zenon DEF Flat9, Flat8, Regrouped, s, u

LEMMA Flattened10 ==
    ASSUME NEW a, NEW b, NEW c, NEW d, NEW e, NEW f, NEW g, NEW h, NEW i, NEW j, NEW t,
           IsSequence(a), IsSequence(b), IsSequence(c), IsSequence(d), IsSequence(e),
           IsSequence(f), IsSequence(g), IsSequence(h), IsSequence(i), IsSequence(j),
           IsSequence(t)
    PROVE  Flat10(a, b, c, d, e, f, g, h, i, j, t)
  <1> DEFINE s == (((((((a \o b) \o c) \o d) \o e) \o f) \o g) \o h) \o i
             u == j \o t
  <1>1. IsSequence(u)
    BY SequenceConcat
  <1>2. Flat9(a, b, c, d, e, f, g, h, i, u)
    <2> HIDE DEF u
    <2> QED
      BY <1>1, Flattened9
  <1>3. IsSequence(s)
    BY <1>2, Zenon DEF Flat9
  <1> HIDE DEF s
  <1>4. IsSequence(s \o j) /\ Regrouped(s, j, t)
    BY <1>3, SequenceConcat, Regroups
  <1> QED
    BY <1>2, <1>4, Zenon DEF Flat10, Flat9, Regrouped, s, u

-----------------------------------------------------------------------------
(* What the emitters write, part by part.                                   *)

CodeFacts ==
  /\ \A code : IsSequence(Op(code)) /\ \A t : Op(code) \o t = Then(Writing(code), t)
  /\ \A bytes : IsSequence(Data(bytes)) /\ \A t : Data(bytes) \o t = Then(Writes("data", bytes), t)
  /\ \A v : IsSequence(Number(v)) /\ \A t : Number(v) \o t = Then(Numeral(v), t)
  /\ \A phase, i : IsSequence(Call(phase, i)) /\ \A t : Call(phase, i) \o t = Then([op |-> phase, i |-> i], t)

LEMMA CodeOne == CodeFacts
  <1>1. \A e : IsSequence(<<e>>)
    BY SequenceOne
  <1> QED
    BY <1>1, OneCall, Zenon DEF CodeFacts, Then, Numeral, Data, Call

LEMMA PrefixedCode ==
    ASSUME NEW prefix, NEW t, IsSequence(t)
    PROVE  /\ IsSequence(Prefixed(prefix))
           /\ Prefixed(prefix) \o t = Then(Writes("data", prefix), Then(Writing("swap"), Then(Writing("cat"), t)))
  <1>1. Flat3(Data(prefix), Op("swap"), Op("cat"), t)
    BY CodeOne, Flattened3, Zenon DEF CodeFacts
  <1>2. /\ Op("cat") \o t = Then(Writing("cat"), t)
        /\ Op("swap") \o Then(Writing("cat"), t) = Then(Writing("swap"), Then(Writing("cat"), t))
        /\ Data(prefix) \o Then(Writing("swap"), Then(Writing("cat"), t))
             = Then(Writes("data", prefix), Then(Writing("swap"), Then(Writing("cat"), t)))
    BY CodeOne, Zenon DEF CodeFacts
  <1> QED
    BY <1>1, <1>2, Zenon DEF Flat3, Prefixed

LEMMA ThenNextCode ==
    ASSUME NEW t, IsSequence(t)
    PROVE  /\ IsSequence(ThenNext)
           /\ ThenNext \o t = Then(Writing("swap"), Then(Writing("cat"), t))
  <1>1. Flat2(Op("swap"), Op("cat"), t)
    BY CodeOne, Flattened2, Zenon DEF CodeFacts
  <1> QED
    BY <1>1, CodeOne, Zenon DEF CodeFacts, Flat2, ThenNext

LEMMA PrefixedGoes ==
    ASSUME NEW c, NEW m, NEW t, NEW b, IsSequence(b), NEW u, NEW prefix, NEW a,
           Goes(c, m, Run(t, On(b, prefix \o u), a))
    PROVE  Goes(c, m, Run(Prefixed(prefix) \o t, On(b, u), a))
  <1>1. IsSequence(t)
    BY GoesFormed DEF Run
  <1>2. Goes(c, m, Run(Then(Writing("cat"), t), On(On(b, prefix), u), a))
    BY CatGoes
  <1>3. Goes(c, m, Run(Then(Writing("swap"), Then(Writing("cat"), t)), On(On(b, u), prefix), a))
    BY <1>2, SwapGoes
  <1>4. IsSequence(On(b, u))
    BY Sequences DEF SeqFacts
  <1>5. Goes(c, m, Run(Then(Writes("data", prefix), Then(Writing("swap"), Then(Writing("cat"), t))), On(b, u), a))
    BY <1>3, <1>4, DataGoes
  <1> QED
    BY <1>1, <1>5, PrefixedCode, Zenon

LEMMA ThenNextGoes ==
    ASSUME NEW c, NEW m, NEW t, NEW b, IsSequence(b), NEW u, NEW v, NEW a,
           Goes(c, m, Run(t, On(b, v \o u), a))
    PROVE  Goes(c, m, Run(ThenNext \o t, On(On(b, u), v), a))
  <1>1. IsSequence(t)
    BY GoesFormed DEF Run
  <1>2. Goes(c, m, Run(Then(Writing("cat"), t), On(On(b, v), u), a))
    BY CatGoes
  <1>3. Goes(c, m, Run(Then(Writing("swap"), Then(Writing("cat"), t)), On(On(b, u), v), a))
    BY <1>2, SwapGoes
  <1> QED
    BY <1>1, <1>3, ThenNextCode, Zenon

-----------------------------------------------------------------------------
(* Loops: the code of each turn, and then that of the turns after it.       *)

\* What is left of sequences joined, from each of them on.
Unrolls(T, f, n) ==
  /\ T[1] = Joined(f) /\ T[n + 1] = <<>>
  /\ \A k \in 1 .. n + 1 : IsSequence(T[k])
  /\ \A k \in 1..n : T[k] = f[k] \o T[k + 1]
Unrolled(f, n) == CHOOSE T : Unrolls(T, f, n)

LEMMA PartsAre ==
    ASSUME NEW X, NEW n \in Nat, NEW f \in [1..n -> Seq(X)], NEW P \in PartsOf(f, n, X)
    PROVE  /\ \A l \in 1..n, h \in 1..n : P[<<l, h>>] \in Seq(X)
           /\ \A l \in 1..n : P[<<l, l>>] = f[l]
           /\ \A l \in 1..n, h \in 1..n : l < h =>
                P[<<l, h>>] = P[<<l, (l + h) \div 2>>] \o P[<<(l + h) \div 2 + 1, h>>]
  <1>1. /\ P \in [(1..n) \X (1..n) -> Seq(X)]
        /\ \A l \in 1..n, h \in 1..n :
             P[<<l, h>>] = IF l >= h THEN f[l]
                           ELSE P[<<l, (l + h) \div 2>>] \o P[<<(l + h) \div 2 + 1, h>>]
    BY Zenon DEF PartsOf
  <1>2. \A l \in 1..n, h \in 1..n : l >= l /\ (l < h => ~(l >= h))
    OBVIOUS
  <1>3. \A l \in 1..n, h \in 1..n : P[<<l, h>>] \in Seq(X)
    BY <1>1
  <1>4. \A l \in 1..n : P[<<l, l>>] = f[l]
    BY <1>1, <1>2, Zenon
  <1>5. \A l \in 1..n, h \in 1..n : l < h =>
          P[<<l, h>>] = P[<<l, (l + h) \div 2>>] \o P[<<(l + h) \div 2 + 1, h>>]
    BY <1>1, <1>2, Zenon
  <1> QED
    BY <1>3, <1>4, <1>5

\* Where a span is split does not matter.
LEMMA PartsSplit ==
    ASSUME NEW X, NEW n \in Nat, NEW f \in [1..n -> Seq(X)], NEW P \in PartsOf(f, n, X),
           NEW lo \in 1..n, NEW hi \in 1..n, NEW k \in lo .. hi - 1
    PROVE  P[<<lo, hi>>] = P[<<lo, k>>] \o P[<<k + 1, hi>>]
  <1> DEFINE Split(l, h) == \A j \in l .. h - 1 : P[<<l, h>>] = P[<<l, j>>] \o P[<<j + 1, h>>]
             S == {d \in Nat : \A l \in 1..n : \A h \in 1..n : h - l <= d => Split(l, h)}
  <1>1. /\ \A l \in 1..n, h \in 1..n : P[<<l, h>>] \in Seq(X)
        /\ \A l \in 1..n, h \in 1..n : l < h =>
             P[<<l, h>>] = P[<<l, (l + h) \div 2>>] \o P[<<(l + h) \div 2 + 1, h>>]
    BY PartsAre, ZenonT(40)
  <1>2. 0 \in S
    <2>1. ASSUME NEW l \in 1..n, NEW h \in 1..n, h - l <= 0 PROVE l .. h - 1 = {}
      BY <2>1
    <2> QED
      BY <2>1
  <1>3. ASSUME NEW d \in Nat, d \in S PROVE d + 1 \in S
    <2>1. ASSUME NEW l \in 1..n, NEW h \in 1..n, h - l <= d + 1, NEW j \in l .. h - 1
          PROVE  P[<<l, h>>] = P[<<l, j>>] \o P[<<j + 1, h>>]
      <3> DEFINE middle == (l + h) \div 2
      <3>1. /\ middle \in l .. h - 1 /\ middle \in 1..n /\ middle + 1 \in 1..n /\ j \in 1..n /\ j + 1 \in 1..n
            /\ middle - l <= d /\ h - (middle + 1) <= d /\ h - (j + 1) <= d /\ j - l <= d /\ l < h
        BY <2>1
      <3>2. P[<<l, h>>] = P[<<l, middle>>] \o P[<<middle + 1, h>>]
        BY <1>1, <3>1, Zenon
      <3> HIDE DEF middle
      <3>3. CASE j = middle
        BY <3>2, <3>3
      <3>4. CASE j < middle
        <4>1. j \in l .. middle - 1 /\ middle \in j + 1 .. h - 1
          BY <2>1, <3>1, <3>4
        <4>2. /\ P[<<l, middle>>] = P[<<l, j>>] \o P[<<j + 1, middle>>]
              /\ P[<<j + 1, h>>] = P[<<j + 1, middle>>] \o P[<<middle + 1, h>>]
          BY <1>3, <3>1, <4>1
        <4>3. /\ P[<<l, j>>] \in Seq(X) /\ P[<<j + 1, middle>>] \in Seq(X) /\ P[<<middle + 1, h>>] \in Seq(X)
          BY <1>1, <3>1
        <4>4. Regrouped(P[<<l, j>>], P[<<j + 1, middle>>], P[<<middle + 1, h>>])
          BY <4>3, SequenceIs, Regroups
        <4> QED
          BY <3>2, <4>2, <4>4, Zenon DEF Regrouped
      <3>5. CASE j > middle
        <4>1. middle \in l .. j - 1 /\ j \in middle + 1 .. h - 1
          BY <2>1, <3>1, <3>5
        <4>2. /\ P[<<l, j>>] = P[<<l, middle>>] \o P[<<middle + 1, j>>]
              /\ P[<<middle + 1, h>>] = P[<<middle + 1, j>>] \o P[<<j + 1, h>>]
          BY <1>3, <3>1, <4>1
        <4>3. /\ P[<<l, middle>>] \in Seq(X) /\ P[<<middle + 1, j>>] \in Seq(X) /\ P[<<j + 1, h>>] \in Seq(X)
          BY <1>1, <3>1
        <4>4. Regrouped(P[<<l, middle>>], P[<<middle + 1, j>>], P[<<j + 1, h>>])
          BY <4>3, SequenceIs, Regroups
        <4> QED
          BY <3>2, <4>2, <4>4, Zenon DEF Regrouped
      <3>6. j = middle \/ j < middle \/ j > middle
        BY <3>1
      <3> QED
        BY <3>3, <3>4, <3>5, <3>6, Zenon
    <2>2. d + 1 \in Nat
      OBVIOUS
    <2> QED
      BY <2>1, <2>2
  <1>4. n \in S
    <2> HIDE DEF S
    <2> QED
      BY <1>2, <1>3, InductionOn
  <1>5. hi - lo <= n
    OBVIOUS
  <1> QED
    BY <1>4, <1>5

LEMMA LoopSplits ==
    ASSUME NEW X, NEW n \in Nat, NEW f \in [1..n -> Seq(X)]
    PROVE  Unrolls(Unrolled(f, n), f, n)
  <1>2. PICK P \in PartsOf(f, n, X) : Joined(f) = IF n = 0 THEN <<>> ELSE P[<<1, n>>]
    BY JoinedIs
  <1>3. /\ \A l \in 1..n, h \in 1..n : P[<<l, h>>] \in Seq(X)
        /\ \A l \in 1..n : P[<<l, l>>] = f[l]
        /\ \A l \in 1..n, h \in 1..n : l < h =>
             P[<<l, h>>] = P[<<l, (l + h) \div 2>>] \o P[<<(l + h) \div 2 + 1, h>>]
    BY <1>2, PartsAre
  <1> DEFINE T == [k \in 1 .. n + 1 |-> IF k = n + 1 THEN <<>> ELSE P[<<k, n>>]]
  <1>4. T[1] = Joined(f) /\ T[n + 1] = <<>>
    <2>1. 1 \in 1 .. n + 1 /\ n + 1 \in 1 .. n + 1 /\ (1 = n + 1 <=> n = 0)
      OBVIOUS
    <2> QED
      BY <1>2, <2>1
  <1>5. \A k \in 1 .. n + 1 : IsSequence(T[k])
    <2>1. ASSUME NEW k \in 1 .. n + 1, k # n + 1 PROVE IsSequence(P[<<k, n>>])
      <3>1. P[<<k, n>>] \in Seq(X)
        BY <1>3, <2>1
      <3> QED
        BY <3>1, SequenceIs
    <2>2. IsSequence(<<>>)
      BY Sequences DEF SeqFacts
    <2> QED
      BY <2>1, <2>2
  <1>6. ASSUME NEW k \in 1..n PROVE T[k] = f[k] \o T[k + 1]
    <2>1. T[k] = P[<<k, n>>] /\ T[k + 1] = IF k = n THEN <<>> ELSE P[<<k + 1, n>>]
      OBVIOUS
    <2>2. CASE k = n
      <3>1. f[n] \o <<>> = f[n]
        <4>1. f[n] \in Seq(X)
          BY <2>2
        <4>2. IsSequence(f[n])
          BY <4>1, SequenceIs
        <4> QED
          BY <4>2, Stacked1
      <3> QED
        BY <1>3, <2>1, <2>2, <3>1
    <2>3. CASE k # n
      <3>1. k \in k .. n - 1 /\ n \in 1..n
        BY <2>3
      <3>2. P[<<k, n>>] = P[<<k, k>>] \o P[<<k + 1, n>>]
        BY <3>1, PartsSplit
      <3> QED
        BY <1>3, <2>1, <2>3, <3>2
    <2> QED
      BY <2>2, <2>3
  <1> HIDE DEF T
  <1>7. Unrolls(T, f, n)
    BY <1>4, <1>5, <1>6 DEF Unrolls
  <1> QED
    BY <1>7, Zenon DEF Unrolled

LEMMA LoopUnrolls ==
    ASSUME NEW n \in Nat, NEW f, f = [i \in 1..n |-> f[i]], \A i \in 1..n : IsSequence(f[i])
    PROVE  Unrolls(Unrolled(f, n), f, n)
  <1> DEFINE X == UNION {Range(f[i]) : i \in 1..n}
  <1>1. f \in [1..n -> Seq(X)]
    <2>1. ASSUME NEW i \in 1..n PROVE f[i] \in Seq(X)
      <3>1. f[i] \in Seq(Range(f[i])) /\ Range(f[i]) \subseteq X
        BY DEF IsSequence
      <3> QED
        BY <3>1, SeqMonotonic
    <2> QED
      BY <2>1
  <1> HIDE DEF X
  <1> QED
    BY <1>1, LoopSplits

\* Induction from the end of a loop.
LEMMA Backwards ==
    ASSUME NEW n \in Nat, NEW S, n \in S, \A k \in 0 .. n - 1 : k + 1 \in S => k \in S
    PROVE  \A k \in 0..n : k \in S
  <1> DEFINE R == {d \in Nat : d <= n => n - d \in S}
  <1>1. 0 \in R
    OBVIOUS
  <1>2. ASSUME NEW d \in Nat, d \in R PROVE d + 1 \in R
    <2>1. ASSUME d + 1 <= n PROVE n - (d + 1) \in S
      <3>1. n - d \in S
        BY <1>2, <2>1
      <3>2. n - (d + 1) \in 0 .. n - 1 /\ (n - (d + 1)) + 1 = n - d
        BY <2>1
      <3> QED
        BY <3>1, <3>2
    <2> QED
      BY <2>1
  <1>3. \A d \in Nat : d \in R
    <2> HIDE DEF R
    <2> QED
      BY <1>1, <1>2, InductionOn
  <1>4. ASSUME NEW k \in 0..n PROVE k \in S
    <2>1. n - k \in Nat /\ n - k <= n /\ n - (n - k) = k
      OBVIOUS
    <2> QED
      BY <1>3, <2>1
  <1> QED
    BY <1>4

-----------------------------------------------------------------------------
(* The emitters' code.                                                      *)

\* Where a digit sits: in which byte, and how far from its end.
ByteOf(p, i)  == (i * p.w) \div 8
ShiftOf(p, i) == 8 - p.w - ((i * p.w) % 8)
Shifted(p, i) == IF ShiftOf(p, i) > 0 THEN Number(2 ^ ShiftOf(p, i)) \o Op("div") ELSE <<>>

\* The turns of the emitters' loops.
CsumTurns(p)     == [i \in 1 .. p.u - 1 - 0 + 1 |-> Call("lms_csum_sum", 0 + i - 1)]
StepTurns(p, i)  == [j \in 1 .. MaxCoef(p) - 1 - 0 + 1 |-> <<[op |-> "lms_step", i |-> i, j |-> 0 + j - 1]>>]
TakeTurns(p)     == [i \in 1 .. p.p - 1 + 1 |-> Op("fromalt")]
NextTurns(p)     == [i \in 1 .. p.p - 1 - 1 + 1 |-> ThenNext]
LevelTurns(p, key) == [i \in 1 .. p.h - 1 - 0 + 1 |-> EmitLevel(key, (LeafCount(p) + key.q) \div 2 ^ (0 + i - 1))]
ChainTurns(p)    == [i \in 1 .. p.p - 1 - 0 + 1 |-> Call("lms_chain", 0 + i - 1)]

LEMMA CoefficientCode ==
    ASSUME NEW p, NEW i, NEW t, IsSequence(t),
           IsSequence(Shifted(p, i))
    PROVE  /\ IsSequence(EmitCoefficient(p, i))
           /\ EmitCoefficient(p, i) \o t =
                Then(Writing("dup"), Then(Numeral(ByteOf(p, i)), Then(Numeral(ByteOf(p, i) + 1), Then(Writing("substr"), Then(Writes("data", <<0>>), Then(Writing("cat"), Then(Writing("bin2num"), (Shifted(p, i) \o Then(Numeral(2 ^ p.w), Then(Writing("mod"), t))))))))))
  <1>1. Flat10(Op("dup"), Number(ByteOf(p, i)), Number(ByteOf(p, i) + 1), Op("substr"), Data(<<0>>), Op("cat"), Op("bin2num"), Shifted(p, i), Number(2 ^ p.w), Op("mod"), t)
    BY CodeOne, Flattened10, Zenon DEF CodeFacts
  <1> DEFINE u0 == t
             u1 == Then(Writing("mod"), u0)
             u2 == Then(Numeral(2 ^ p.w), u1)
             u3 == Shifted(p, i) \o u2
             u4 == Then(Writing("bin2num"), u3)
             u5 == Then(Writing("cat"), u4)
             u6 == Then(Writes("data", <<0>>), u5)
             u7 == Then(Writing("substr"), u6)
             u8 == Then(Numeral(ByteOf(p, i) + 1), u7)
             u9 == Then(Numeral(ByteOf(p, i)), u8)
  <1> HIDE DEF u0, u1, u2, u3, u4, u5, u6, u7, u8, u9
  <1>2. /\ Op("mod") \o u0 = Then(Writing("mod"), u0)
        /\ Number(2 ^ p.w) \o u1 = Then(Numeral(2 ^ p.w), u1)
        /\ Op("bin2num") \o u3 = Then(Writing("bin2num"), u3)
        /\ Op("cat") \o u4 = Then(Writing("cat"), u4)
        /\ Data(<<0>>) \o u5 = Then(Writes("data", <<0>>), u5)
        /\ Op("substr") \o u6 = Then(Writing("substr"), u6)
        /\ Number(ByteOf(p, i) + 1) \o u7 = Then(Numeral(ByteOf(p, i) + 1), u7)
        /\ Number(ByteOf(p, i)) \o u8 = Then(Numeral(ByteOf(p, i)), u8)
        /\ Op("dup") \o u9 = Then(Writing("dup"), u9)
    BY CodeOne, Zenon DEF CodeFacts
  <1>3. EmitCoefficient(p, i) = Op("dup") \o Number(ByteOf(p, i)) \o Number(ByteOf(p, i) + 1) \o Op("substr") \o Data(<<0>>) \o Op("cat") \o Op("bin2num") \o Shifted(p, i) \o Number(2 ^ p.w) \o Op("mod")
    BY Zenon DEF EmitCoefficient, ByteOf, ShiftOf, Shifted
  <1> QED
    BY <1>1, <1>2, <1>3, Zenon DEF Flat10, u0, u1, u2, u3, u4, u5, u6, u7, u8, u9

LEMMA DigestSwapCode ==
    ASSUME NEW key, NEW t, IsSequence(t),
           IsSequence(Prefixed(Prefix(key.id, key.q, D_MESG))), IsSequence(ThenNext)
    PROVE  /\ IsSequence(EmitMessageDigest(key))
           /\ EmitMessageDigest(key) \o t =
                Then(Writing("swap"), (Prefixed(Prefix(key.id, key.q, D_MESG)) \o (ThenNext \o Then(Writing("sha256"), t))))
  <1>1. Flat4(Op("swap"), Prefixed(Prefix(key.id, key.q, D_MESG)), ThenNext, Op("sha256"), t)
    BY CodeOne, Flattened4, Zenon DEF CodeFacts
  <1> DEFINE u0 == t
             u1 == Then(Writing("sha256"), u0)
             u2 == ThenNext \o u1
             u3 == Prefixed(Prefix(key.id, key.q, D_MESG)) \o u2
  <1> HIDE DEF u0, u1, u2, u3
  <1>2. /\ Op("sha256") \o u0 = Then(Writing("sha256"), u0)
        /\ Op("swap") \o u3 = Then(Writing("swap"), u3)
    BY CodeOne, Zenon DEF CodeFacts
  <1>3. EmitMessageDigest(key) = Op("swap") \o Prefixed(Prefix(key.id, key.q, D_MESG)) \o ThenNext \o Op("sha256")
    BY Zenon DEF EmitMessageDigest
  <1> QED
    BY <1>1, <1>2, <1>3, Zenon DEF Flat4, u0, u1, u2, u3

LEMMA CsumSumCode ==
    ASSUME NEW p, NEW i, NEW t, IsSequence(t),
           IsSequence(EmitCoefficient(p, i))
    PROVE  /\ IsSequence(EmitCsumSum(p, i))
           /\ EmitCsumSum(p, i) \o t =
                EmitCoefficient(p, i) \o Then(Numeral(MaxCoef(p)), Then(Writing("swap"), Then(Writing("sub"), Then(Writing("fromalt"), Then(Writing("add"), Then(Writing("toalt"), t))))))
  <1>1. Flat7(EmitCoefficient(p, i), Number(MaxCoef(p)), Op("swap"), Op("sub"), Op("fromalt"), Op("add"), Op("toalt"), t)
    BY CodeOne, Flattened7, Zenon DEF CodeFacts
  <1> DEFINE u0 == t
             u1 == Then(Writing("toalt"), u0)
             u2 == Then(Writing("add"), u1)
             u3 == Then(Writing("fromalt"), u2)
             u4 == Then(Writing("sub"), u3)
             u5 == Then(Writing("swap"), u4)
             u6 == Then(Numeral(MaxCoef(p)), u5)
  <1> HIDE DEF u0, u1, u2, u3, u4, u5, u6
  <1>2. /\ Op("toalt") \o u0 = Then(Writing("toalt"), u0)
        /\ Op("add") \o u1 = Then(Writing("add"), u1)
        /\ Op("fromalt") \o u2 = Then(Writing("fromalt"), u2)
        /\ Op("sub") \o u3 = Then(Writing("sub"), u3)
        /\ Op("swap") \o u4 = Then(Writing("swap"), u4)
        /\ Number(MaxCoef(p)) \o u5 = Then(Numeral(MaxCoef(p)), u5)
    BY CodeOne, Zenon DEF CodeFacts
  <1>3. EmitCsumSum(p, i) = EmitCoefficient(p, i) \o Number(MaxCoef(p)) \o Op("swap") \o Op("sub") \o Op("fromalt") \o Op("add") \o Op("toalt")
    BY Zenon DEF EmitCsumSum
  <1> QED
    BY <1>1, <1>2, <1>3, Zenon DEF Flat7, u0, u1, u2, u3, u4, u5, u6

LEMMA ExchangedCode ==
    ASSUME NEW t, IsSequence(t)
    PROVE  /\ IsSequence(BytesExchanged)
           /\ BytesExchanged \o t =
                Then(Writing("dup"), Then(Numeral(1), Then(Numeral(2), Then(Writing("substr"), Then(Writing("swap"), Then(Numeral(0), Then(Numeral(1), Then(Writing("substr"), Then(Writing("cat"), t)))))))))
  <1>1. Flat9(Op("dup"), Number(1), Number(2), Op("substr"), Op("swap"), Number(0), Number(1), Op("substr"), Op("cat"), t)
    BY CodeOne, Flattened9, Zenon DEF CodeFacts
  <1> DEFINE u0 == t
             u1 == Then(Writing("cat"), u0)
             u2 == Then(Writing("substr"), u1)
             u3 == Then(Numeral(1), u2)
             u4 == Then(Numeral(0), u3)
             u5 == Then(Writing("swap"), u4)
             u6 == Then(Writing("substr"), u5)
             u7 == Then(Numeral(2), u6)
             u8 == Then(Numeral(1), u7)
  <1> HIDE DEF u0, u1, u2, u3, u4, u5, u6, u7, u8
  <1>2. /\ Op("cat") \o u0 = Then(Writing("cat"), u0)
        /\ Op("substr") \o u1 = Then(Writing("substr"), u1)
        /\ Number(1) \o u2 = Then(Numeral(1), u2)
        /\ Number(0) \o u3 = Then(Numeral(0), u3)
        /\ Op("swap") \o u4 = Then(Writing("swap"), u4)
        /\ Op("substr") \o u5 = Then(Writing("substr"), u5)
        /\ Number(2) \o u6 = Then(Numeral(2), u6)
        /\ Number(1) \o u7 = Then(Numeral(1), u7)
        /\ Op("dup") \o u8 = Then(Writing("dup"), u8)
    BY CodeOne, Zenon DEF CodeFacts
  <1>3. BytesExchanged = Op("dup") \o Number(1) \o Number(2) \o Op("substr") \o Op("swap") \o Number(0) \o Number(1) \o Op("substr") \o Op("cat")
    BY Zenon DEF BytesExchanged
  <1> QED
    BY <1>1, <1>2, <1>3, Zenon DEF Flat9, u0, u1, u2, u3, u4, u5, u6, u7, u8

LEMMA ChecksumCode ==
    ASSUME NEW p, NEW t, IsSequence(t),
           IsSequence(Joined(CsumTurns(p))), IsSequence(FixedWidth(2)), IsSequence(BytesExchanged)
    PROVE  /\ IsSequence(EmitChecksumAndV(p))
           /\ EmitChecksumAndV(p) \o t =
                Then(Numeral(0), Then(Writing("toalt"), (Joined(CsumTurns(p)) \o Then(Writing("fromalt"), Then(Numeral(2 ^ p.ls), Then(Writing("mul"), (FixedWidth(2) \o (BytesExchanged \o Then(Writing("cat"), t)))))))))
  <1>1. Flat9(Number(0), Op("toalt"), Joined(CsumTurns(p)), Op("fromalt"), Number(2 ^ p.ls), Op("mul"), FixedWidth(2), BytesExchanged, Op("cat"), t)
    BY CodeOne, Flattened9, Zenon DEF CodeFacts
  <1> DEFINE u0 == t
             u1 == Then(Writing("cat"), u0)
             u2 == BytesExchanged \o u1
             u3 == FixedWidth(2) \o u2
             u4 == Then(Writing("mul"), u3)
             u5 == Then(Numeral(2 ^ p.ls), u4)
             u6 == Then(Writing("fromalt"), u5)
             u7 == Joined(CsumTurns(p)) \o u6
             u8 == Then(Writing("toalt"), u7)
  <1> HIDE DEF u0, u1, u2, u3, u4, u5, u6, u7, u8
  <1>2. /\ Op("cat") \o u0 = Then(Writing("cat"), u0)
        /\ Op("mul") \o u3 = Then(Writing("mul"), u3)
        /\ Number(2 ^ p.ls) \o u4 = Then(Numeral(2 ^ p.ls), u4)
        /\ Op("fromalt") \o u5 = Then(Writing("fromalt"), u5)
        /\ Op("toalt") \o u7 = Then(Writing("toalt"), u7)
        /\ Number(0) \o u8 = Then(Numeral(0), u8)
    BY CodeOne, Zenon DEF CodeFacts
  <1>3. EmitChecksumAndV(p) = Number(0) \o Op("toalt") \o Joined(CsumTurns(p)) \o Op("fromalt") \o Number(2 ^ p.ls) \o Op("mul") \o FixedWidth(2) \o BytesExchanged \o Op("cat")
    BY Zenon DEF EmitChecksumAndV, CsumTurns, For
  <1> QED
    BY <1>1, <1>2, <1>3, Zenon DEF Flat9, u0, u1, u2, u3, u4, u5, u6, u7, u8

LEMMA StepCode ==
    ASSUME NEW key, NEW i, NEW j, NEW t, IsSequence(t),
           IsSequence(Prefixed(Append(Prefix(key.id, key.q, i), j)))
    PROVE  /\ IsSequence(EmitStep(key, i, j))
           /\ EmitStep(key, i, j) \o t =
                Then(Writing("fromalt"), Then(Writing("dup"), Then(Writing("toalt"), Then(Numeral(j), Then(Writing("swap"), Then(Writing("gte"), Then(Writing("if"), (Prefixed(Append(Prefix(key.id, key.q, i), j)) \o Then(Writing("sha256"), Then(Writing("endif"), t))))))))))
  <1>1. Flat10(Op("fromalt"), Op("dup"), Op("toalt"), Number(j), Op("swap"), Op("gte"), Op("if"), Prefixed(Append(Prefix(key.id, key.q, i), j)), Op("sha256"), Op("endif"), t)
    BY CodeOne, Flattened10, Zenon DEF CodeFacts
  <1> DEFINE u0 == t
             u1 == Then(Writing("endif"), u0)
             u2 == Then(Writing("sha256"), u1)
             u3 == Prefixed(Append(Prefix(key.id, key.q, i), j)) \o u2
             u4 == Then(Writing("if"), u3)
             u5 == Then(Writing("gte"), u4)
             u6 == Then(Writing("swap"), u5)
             u7 == Then(Numeral(j), u6)
             u8 == Then(Writing("toalt"), u7)
             u9 == Then(Writing("dup"), u8)
  <1> HIDE DEF u0, u1, u2, u3, u4, u5, u6, u7, u8, u9
  <1>2. /\ Op("endif") \o u0 = Then(Writing("endif"), u0)
        /\ Op("sha256") \o u1 = Then(Writing("sha256"), u1)
        /\ Op("if") \o u3 = Then(Writing("if"), u3)
        /\ Op("gte") \o u4 = Then(Writing("gte"), u4)
        /\ Op("swap") \o u5 = Then(Writing("swap"), u5)
        /\ Number(j) \o u6 = Then(Numeral(j), u6)
        /\ Op("toalt") \o u7 = Then(Writing("toalt"), u7)
        /\ Op("dup") \o u8 = Then(Writing("dup"), u8)
        /\ Op("fromalt") \o u9 = Then(Writing("fromalt"), u9)
    BY CodeOne, Zenon DEF CodeFacts
  <1>3. EmitStep(key, i, j) = Op("fromalt") \o Op("dup") \o Op("toalt") \o Number(j) \o Op("swap") \o Op("gte") \o Op("if") \o Prefixed(Append(Prefix(key.id, key.q, i), j)) \o Op("sha256") \o Op("endif")
    BY Zenon DEF EmitStep
  <1> QED
    BY <1>1, <1>2, <1>3, Zenon DEF Flat10, u0, u1, u2, u3, u4, u5, u6, u7, u8, u9

LEMMA ChainCode ==
    ASSUME NEW p, NEW i, NEW t, IsSequence(t),
           IsSequence(EmitCoefficient(p, i)), IsSequence(Joined(StepTurns(p, i)))
    PROVE  /\ IsSequence(EmitLmsChain(p, i))
           /\ EmitLmsChain(p, i) \o t =
                EmitCoefficient(p, i) \o Then(Writing("toalt"), Then(Writing("swap"), (Joined(StepTurns(p, i)) \o Then(Writing("fromalt"), Then(Writing("drop"), Then(Writing("toalt"), t))))))
  <1>1. Flat7(EmitCoefficient(p, i), Op("toalt"), Op("swap"), Joined(StepTurns(p, i)), Op("fromalt"), Op("drop"), Op("toalt"), t)
    BY CodeOne, Flattened7, Zenon DEF CodeFacts
  <1> DEFINE u0 == t
             u1 == Then(Writing("toalt"), u0)
             u2 == Then(Writing("drop"), u1)
             u3 == Then(Writing("fromalt"), u2)
             u4 == Joined(StepTurns(p, i)) \o u3
             u5 == Then(Writing("swap"), u4)
             u6 == Then(Writing("toalt"), u5)
  <1> HIDE DEF u0, u1, u2, u3, u4, u5, u6
  <1>2. /\ Op("toalt") \o u0 = Then(Writing("toalt"), u0)
        /\ Op("drop") \o u1 = Then(Writing("drop"), u1)
        /\ Op("fromalt") \o u2 = Then(Writing("fromalt"), u2)
        /\ Op("swap") \o u4 = Then(Writing("swap"), u4)
        /\ Op("toalt") \o u5 = Then(Writing("toalt"), u5)
    BY CodeOne, Zenon DEF CodeFacts
  <1>3. EmitLmsChain(p, i) = EmitCoefficient(p, i) \o Op("toalt") \o Op("swap") \o Joined(StepTurns(p, i)) \o Op("fromalt") \o Op("drop") \o Op("toalt")
    BY Zenon DEF EmitLmsChain, StepTurns, For
  <1> QED
    BY <1>1, <1>2, <1>3, Zenon DEF Flat7, u0, u1, u2, u3, u4, u5, u6

LEMMA CandidateCode ==
    ASSUME NEW p, NEW key, NEW t, IsSequence(t),
           IsSequence(Joined(TakeTurns(p))), IsSequence(Prefixed(Prefix(key.id, key.q, D_PBLC))), IsSequence(Joined(NextTurns(p)))
    PROVE  /\ IsSequence(EmitCandidateKey(p, key))
           /\ EmitCandidateKey(p, key) \o t =
                Then(Writing("drop"), (Joined(TakeTurns(p)) \o (Prefixed(Prefix(key.id, key.q, D_PBLC)) \o (Joined(NextTurns(p)) \o Then(Writing("sha256"), t)))))
  <1>1. Flat5(Op("drop"), Joined(TakeTurns(p)), Prefixed(Prefix(key.id, key.q, D_PBLC)), Joined(NextTurns(p)), Op("sha256"), t)
    BY CodeOne, Flattened5, Zenon DEF CodeFacts
  <1> DEFINE u0 == t
             u1 == Then(Writing("sha256"), u0)
             u2 == Joined(NextTurns(p)) \o u1
             u3 == Prefixed(Prefix(key.id, key.q, D_PBLC)) \o u2
             u4 == Joined(TakeTurns(p)) \o u3
  <1> HIDE DEF u0, u1, u2, u3, u4
  <1>2. /\ Op("sha256") \o u0 = Then(Writing("sha256"), u0)
        /\ Op("drop") \o u4 = Then(Writing("drop"), u4)
    BY CodeOne, Zenon DEF CodeFacts
  <1>3. EmitCandidateKey(p, key) = Op("drop") \o Joined(TakeTurns(p)) \o Prefixed(Prefix(key.id, key.q, D_PBLC)) \o Joined(NextTurns(p)) \o Op("sha256")
    BY Zenon DEF EmitCandidateKey, TakeTurns, NextTurns, For
  <1> QED
    BY <1>1, <1>2, <1>3, Zenon DEF Flat5, u0, u1, u2, u3, u4

LEMMA RightCode ==
    ASSUME NEW prefix, NEW t, IsSequence(t),
           IsSequence(Prefixed(prefix)), IsSequence(ThenNext)
    PROVE  /\ IsSequence((Op("swap") \o Prefixed(prefix) \o ThenNext \o Op("sha256")))
           /\ (Op("swap") \o Prefixed(prefix) \o ThenNext \o Op("sha256")) \o t =
                Then(Writing("swap"), (Prefixed(prefix) \o (ThenNext \o Then(Writing("sha256"), t))))
  <1>1. Flat4(Op("swap"), Prefixed(prefix), ThenNext, Op("sha256"), t)
    BY CodeOne, Flattened4, Zenon DEF CodeFacts
  <1> DEFINE u0 == t
             u1 == Then(Writing("sha256"), u0)
             u2 == ThenNext \o u1
             u3 == Prefixed(prefix) \o u2
  <1> HIDE DEF u0, u1, u2, u3
  <1>2. /\ Op("sha256") \o u0 = Then(Writing("sha256"), u0)
        /\ Op("swap") \o u3 = Then(Writing("swap"), u3)
    BY CodeOne, Zenon DEF CodeFacts
  <1>3. (Op("swap") \o Prefixed(prefix) \o ThenNext \o Op("sha256")) = Op("swap") \o Prefixed(prefix) \o ThenNext \o Op("sha256")
    OBVIOUS
  <1> QED
    BY <1>1, <1>2, <1>3, Zenon DEF Flat4, u0, u1, u2, u3

LEMMA LeftCode ==
    ASSUME NEW prefix, NEW t, IsSequence(t),
           IsSequence(Prefixed(prefix)), IsSequence(ThenNext)
    PROVE  /\ IsSequence((Prefixed(prefix) \o ThenNext \o Op("sha256")))
           /\ (Prefixed(prefix) \o ThenNext \o Op("sha256")) \o t =
                Prefixed(prefix) \o (ThenNext \o Then(Writing("sha256"), t))
  <1>1. Flat3(Prefixed(prefix), ThenNext, Op("sha256"), t)
    BY CodeOne, Flattened3, Zenon DEF CodeFacts
  <1> DEFINE u0 == t
             u1 == Then(Writing("sha256"), u0)
             u2 == ThenNext \o u1
  <1> HIDE DEF u0, u1, u2
  <1>2. /\ Op("sha256") \o u0 = Then(Writing("sha256"), u0)
    BY CodeOne, Zenon DEF CodeFacts
  <1>3. (Prefixed(prefix) \o ThenNext \o Op("sha256")) = Prefixed(prefix) \o ThenNext \o Op("sha256")
    OBVIOUS
  <1> QED
    BY <1>1, <1>2, <1>3, Zenon DEF Flat3, u0, u1, u2

MerkleParts(p, key, x, t) ==
  /\ IsSequence(EmitMerklePath(p, key))
  /\ EmitMerklePath(p, key) \o t = Prefixed(x) \o Then(Writing("sha256"), (Joined(LevelTurns(p, key)) \o t))
LEMMA MerkleCode ==
    ASSUME NEW p, NEW key, NEW t, NEW x, x = Prefix(key.id, LeafCount(p) + key.q, D_LEAF),
           IsSequence(t), IsSequence(Prefixed(x)), IsSequence(Joined(LevelTurns(p, key)))
    PROVE  MerkleParts(p, key, x, t)
  <1>1. Flat3(Prefixed(x), Op("sha256"), Joined(LevelTurns(p, key)), t)
    BY CodeOne, Flattened3, Zenon DEF CodeFacts
  <1> DEFINE u0 == t
             u1 == Joined(LevelTurns(p, key)) \o u0
             u2 == Then(Writing("sha256"), u1)
  <1> HIDE DEF u0, u1, u2
  <1>2. /\ Op("sha256") \o u1 = Then(Writing("sha256"), u1)
    BY CodeOne, Zenon DEF CodeFacts
  <1>3. EmitMerklePath(p, key) = Prefixed(x) \o Op("sha256") \o Joined(LevelTurns(p, key))
    BY Zenon DEF EmitMerklePath, LevelTurns, For
  <1> QED
    BY <1>1, <1>2, <1>3, Zenon DEF Flat3, u0, u1, u2, MerkleParts

VerifyParts(p, key, t) ==
  /\ IsSequence(EmitLmsVerify(p, key))
  /\ EmitLmsVerify(p, key) \o t =
       EmitMessageDigest(key) \o (EmitChecksumAndV(p) \o (Joined(ChainTurns(p)) \o (EmitCandidateKey(p, key) \o (EmitMerklePath(p, key) \o Then(Writes("data", key.root), Then(Writing("equal"), t))))))

LEMMA VerifyCode ==
    ASSUME NEW p, NEW key, NEW t, IsSequence(t),
           IsSequence(EmitMessageDigest(key)), IsSequence(EmitChecksumAndV(p)), IsSequence(Joined(ChainTurns(p))), IsSequence(EmitCandidateKey(p, key)), IsSequence(EmitMerklePath(p, key))
    PROVE  VerifyParts(p, key, t)
  <1>1. Flat7(EmitMessageDigest(key), EmitChecksumAndV(p), Joined(ChainTurns(p)), EmitCandidateKey(p, key), EmitMerklePath(p, key), Data(key.root), Op("equal"), t)
    BY CodeOne, Flattened7, Zenon DEF CodeFacts
  <1> DEFINE u0 == t
             u1 == Then(Writing("equal"), u0)
             u2 == Then(Writes("data", key.root), u1)
             u3 == EmitMerklePath(p, key) \o u2
             u4 == EmitCandidateKey(p, key) \o u3
             u5 == Joined(ChainTurns(p)) \o u4
             u6 == EmitChecksumAndV(p) \o u5
  <1> HIDE DEF u0, u1, u2, u3, u4, u5, u6
  <1>2. /\ Op("equal") \o u0 = Then(Writing("equal"), u0)
        /\ Data(key.root) \o u1 = Then(Writes("data", key.root), u1)
    BY CodeOne, Zenon DEF CodeFacts
  <1>3. EmitLmsVerify(p, key) = EmitMessageDigest(key) \o EmitChecksumAndV(p) \o Joined(ChainTurns(p)) \o EmitCandidateKey(p, key) \o EmitMerklePath(p, key) \o Data(key.root) \o Op("equal")
    BY Zenon DEF EmitLmsVerify, ChainTurns, For
  <1> QED
    BY <1>1, <1>2, <1>3, Zenon DEF VerifyParts, Flat7, u0, u1, u2, u3, u4, u5, u6

-----------------------------------------------------------------------------
(* A digit of a string of bytes.                                            *)

\* 2 to the width of a digit.
LEMMA PowerOfWidth ==
    ASSUME NEW p, Consistent(p)
    PROVE  /\ p.w = 1 => 2 ^ p.w = 2
           /\ p.w = 2 => 2 ^ p.w = 4
           /\ p.w = 4 => 2 ^ p.w = 16
           /\ p.w = 8 => 2 ^ p.w = 256
           /\ p.w \in {1, 2, 4, 8}
  <1>1. p.w \in {1, 2, 4, 8}
    BY DEF Consistent
  <1>2. 2 ^ 1 = 2 /\ 2 ^ 2 = 4 /\ 2 ^ 4 = 16 /\ 2 ^ 8 = 256
    OBVIOUS
  <1>3. /\ p.w = 1 => 2 ^ p.w = 2
        /\ p.w = 2 => 2 ^ p.w = 4
        /\ p.w = 4 => 2 ^ p.w = 16
        /\ p.w = 8 => 2 ^ p.w = 256
    BY <1>2, Zenon
  <1> QED
    BY <1>1, <1>3

LEMMA PowersUpTo8 ==
    /\ 2 ^ 0 = 1 /\ 2 ^ 1 = 2 /\ 2 ^ 2 = 4 /\ 2 ^ 3 = 8 /\ 2 ^ 4 = 16
    /\ 2 ^ 5 = 32 /\ 2 ^ 6 = 64 /\ 2 ^ 7 = 128 /\ 2 ^ 8 = 256
  OBVIOUS

\* The numbers of a set.
LEMMA SetNumbers ==
    ASSUME NEW p, Consistent(p)
    PROVE  /\ {p.u, p.v, p.h, p.p, p.ls} \subseteq Nat /\ p.p = p.u + p.v
           /\ p.u * p.w = 8 * DigestLen /\ DigestLen \in Nat \ {0}
           /\ p.ls = 16 - p.v * p.w /\ p.v * p.w <= 16
           /\ MaxCoef(p) = 2 ^ p.w - 1
  <1>1. /\ {p.h, p.u, p.v, p.ls} \subseteq Nat /\ p.w \in {1, 2, 4, 8}
        /\ p.u = (8 * DigestLen + p.w - 1) \div p.w /\ p.p = p.u + p.v
        /\ p.ls = 16 - p.v * p.w
    BY DEF Consistent, CeilDiv
  <1>2. DigestLen \in Nat \ {0}
    BY WidthsAssumption
  <1>3. p.u * p.w = 8 * DigestLen
    <2>1. CASE p.w = 1 BY <1>1, <1>2, <2>1
    <2>2. CASE p.w = 2 BY <1>1, <1>2, <2>2
    <2>3. CASE p.w = 4 BY <1>1, <1>2, <2>3
    <2>4. CASE p.w = 8 BY <1>1, <1>2, <2>4
    <2> QED BY <1>1, <2>1, <2>2, <2>3, <2>4
  <1>4. p.v * p.w <= 16
    <2> DEFINE x == p.v * p.w
    <2>1. x \in Nat
      BY <1>1
    <2>2. p.ls = 16 - x /\ p.ls \in Nat
      BY <1>1
    <2> HIDE DEF x
    <2>3. x <= 16
      BY <2>1, <2>2
    <2> QED
      BY <2>3 DEF x
  <1>5. p.p \in Nat
    BY <1>1
  <1> QED
    BY <1>1, <1>2, <1>3, <1>4, <1>5 DEF MaxCoef

\* The digits are within the string, the first u of them within the digest.
LEMMA DigitPlace ==
    ASSUME NEW p, Consistent(p), NEW i \in Nat
    PROVE  /\ ByteOf(p, i) \in Nat /\ ShiftOf(p, i) \in 0..7
           /\ i < p.p => ByteOf(p, i) <= DigestLen + 1
           /\ i < p.u => ByteOf(p, i) < DigestLen
  <1>1. /\ p.u \in Nat /\ p.v \in Nat /\ p.p = p.u + p.v
        /\ p.u * p.w = 8 * DigestLen /\ DigestLen \in Nat
        /\ p.v * p.w <= 16 /\ p.w \in {1, 2, 4, 8}
    BY SetNumbers, PowerOfWidth
  <1> DEFINE x == i * p.w
  <1>2. ByteOf(p, i) = x \div 8 /\ ShiftOf(p, i) = 8 - p.w - (x % 8)
    BY DEF ByteOf, ShiftOf
  <1>3. CASE p.w = 1 BY <1>1, <1>2, <1>3
  <1>4. CASE p.w = 2 BY <1>1, <1>2, <1>4
  <1>5. CASE p.w = 4 BY <1>1, <1>2, <1>5
  <1>6. CASE p.w = 8 BY <1>1, <1>2, <1>6
  <1> QED
    BY <1>1, <1>3, <1>4, <1>5, <1>6

\* What the opcodes compute of a byte is its digit.
LEMMA DigitIs ==
    ASSUME NEW p, Consistent(p), NEW i \in Nat, NEW s, NEW v \in Octet, v = s[ByteOf(p, i) + 1]
    PROVE  /\ v \in Word /\ 2 ^ p.w \in Word /\ 2 ^ p.w # 0
           /\ 2 ^ ShiftOf(p, i) \in Word /\ 2 ^ ShiftOf(p, i) # 0
           /\ v \div 2 ^ ShiftOf(p, i) \in Word
           /\ Quotient(v, 2 ^ ShiftOf(p, i)) = v \div 2 ^ ShiftOf(p, i)
           /\ ShiftOf(p, i) = 0 => v \div 2 ^ ShiftOf(p, i) = v
           /\ Remainder(v \div 2 ^ ShiftOf(p, i), 2 ^ p.w) = Coef(s, i, p.w)
           /\ Coef(s, i, p.w) \in 0 .. MaxCoef(p)
  <1> DEFINE d == 2 ^ ShiftOf(p, i)
             e == 2 ^ p.w
             q == v \div d
  <1>1. d \in {1, 2, 4, 8, 16, 32, 64, 128} /\ (ShiftOf(p, i) = 0 => d = 1)
    <2>1. ShiftOf(p, i) \in 0..7
      BY DigitPlace
    <2>2. \/ ShiftOf(p, i) = 0 \/ ShiftOf(p, i) = 1 \/ ShiftOf(p, i) = 2 \/ ShiftOf(p, i) = 3
          \/ ShiftOf(p, i) = 4 \/ ShiftOf(p, i) = 5 \/ ShiftOf(p, i) = 6 \/ ShiftOf(p, i) = 7
      BY <2>1
    <2>3. \/ d = 2 ^ 0 \/ d = 2 ^ 1 \/ d = 2 ^ 2 \/ d = 2 ^ 3
          \/ d = 2 ^ 4 \/ d = 2 ^ 5 \/ d = 2 ^ 6 \/ d = 2 ^ 7
      BY <2>2, Zenon
    <2>4. ShiftOf(p, i) = 0 => d = 2 ^ 0
      BY Zenon
    <2> HIDE DEF d
    <2> QED
      BY <2>3, <2>4, PowersUpTo8
  <1>2. e \in {2, 4, 16, 256} /\ MaxCoef(p) = e - 1
    BY PowerOfWidth DEF MaxCoef
  <1>3. Coef(s, i, p.w) = q % e
    BY DEF Coef, ByteOf, ShiftOf
  <1> HIDE DEF d, e
  <1>4. v \in 0..255
    BY DEF Octet
  <1>5. q \in 0..255 /\ (d = 1 => q = v)
    <2>1. CASE d = 1 BY <1>4, <2>1
    <2>2. CASE d = 2 BY <1>4, <2>2
    <2>3. CASE d = 4 BY <1>4, <2>3
    <2>4. CASE d = 8 BY <1>4, <2>4
    <2>5. CASE d = 16 BY <1>4, <2>5
    <2>6. CASE d = 32 BY <1>4, <2>6
    <2>7. CASE d = 64 BY <1>4, <2>7
    <2>8. CASE d = 128 BY <1>4, <2>8
    <2> QED BY <1>1, <2>1, <2>2, <2>3, <2>4, <2>5, <2>6, <2>7, <2>8
  <1>6. Quotient(v, d) = q
    <2>1. Abs(v) = v /\ Abs(d) = d /\ (v < 0) = (d < 0)
      BY <1>1, <1>4 DEF Abs
    <2>2. Quotient(v, d) = 1 * (v \div d)
      BY <2>1 DEF Quotient
    <2>3. q \in Int
      BY <1>5
    <2> QED
      BY <2>2, <2>3
  <1> HIDE DEF q
  <1>7. Remainder(q, e) = q % e /\ q % e \in 0 .. e - 1
    <2>1. Abs(q) = q /\ Abs(e) = e /\ (q < 0) = (e < 0)
      BY <1>2, <1>5 DEF Abs
    <2>2. Quotient(q, e) = 1 * (q \div e)
      BY <2>1 DEF Quotient
    <2>3. CASE e = 2 BY <1>5, <2>2, <2>3 DEF Remainder
    <2>4. CASE e = 4 BY <1>5, <2>2, <2>4 DEF Remainder
    <2>5. CASE e = 16 BY <1>5, <2>2, <2>5 DEF Remainder
    <2>6. CASE e = 256 BY <1>5, <2>2, <2>6 DEF Remainder
    <2> QED
      BY <1>2, <2>3, <2>4, <2>5, <2>6
  <1>8. v \in Word /\ d \in Word /\ e \in Word /\ q \in Word /\ d # 0 /\ e # 0
    BY <1>1, <1>2, <1>4, <1>5 DEF Word
  <1> QED
    BY <1>1, <1>2, <1>3, <1>5, <1>6, <1>7, <1>8 DEF d, e, q

\* A string of bytes, long enough for these digits.
Digits(p, i, s) == s \in Seq(Octet) /\ i \in Nat /\ ByteOf(p, i) < Len(s) /\ Len(s) < 40000

LEMMA ByteTaken ==
    ASSUME NEW s \in Seq(Octet), NEW k \in Nat, k < Len(s), Len(s) < 40000
    PROVE  /\ k \in Word /\ k + 1 \in Word /\ k <= k + 1 /\ k + 1 <= Len(s) /\ IsSequence(s)
           /\ s[k + 1] \in Octet /\ SubSeq(s, k + 1, k + 1) = <<s[k + 1]>>
  <1>1. Len(s) \in Nat /\ k + 1 \in 1..Len(s)
    OBVIOUS
  <1>2. k \in Word /\ k + 1 \in Word /\ k <= k + 1 /\ k + 1 <= Len(s)
    BY <1>1 DEF Word
  <1>3. s[k + 1] \in Octet
    BY <1>1
  <1> DEFINE r == SubSeq(s, k + 1, k + 1)
  <1>4. r = <<s[k + 1]>>
    <2>1. r \in Seq(Octet) /\ Len(r) = 1 /\ r[1] = s[k + 1]
      <3>1. \A j \in k + 1 .. k + 1 : s[j] \in Octet
        BY <1>3
      <3>2. /\ r \in Seq(Octet) /\ Len(r) = (k + 1) - (k + 1) + 1
            /\ \A j \in 1 .. (k + 1) - (k + 1) + 1 : r[j] = s[(k + 1) + j - 1]
        BY <1>1, <3>1, SubSeqProperties
      <3>3. (k + 1) - (k + 1) + 1 = 1 /\ (k + 1) + 1 - 1 = k + 1
        OBVIOUS
      <3> HIDE DEF r
      <3> QED
        BY <3>2, <3>3
    <2> HIDE DEF r
    <2> QED
      BY <2>1
  <1> QED
    BY <1>2, <1>3, <1>4, SequenceIs

LEMMA ShiftedCode ==
    ASSUME NEW p, NEW i, NEW t, IsSequence(t)
    PROVE  /\ IsSequence(Shifted(p, i))
           /\ ShiftOf(p, i) > 0 => Shifted(p, i) \o t = Then(Numeral(2 ^ ShiftOf(p, i)), Then(Writing("div"), t))
           /\ ~(ShiftOf(p, i) > 0) => Shifted(p, i) \o t = t
  <1>1. CASE ShiftOf(p, i) > 0
    <2>1. Flat2(Number(2 ^ ShiftOf(p, i)), Op("div"), t)
      BY CodeOne, Flattened2, Zenon DEF CodeFacts
    <2>2. /\ Op("div") \o t = Then(Writing("div"), t)
          /\ Number(2 ^ ShiftOf(p, i)) \o Then(Writing("div"), t) = Then(Numeral(2 ^ ShiftOf(p, i)), Then(Writing("div"), t))
      BY CodeOne, Zenon DEF CodeFacts
    <2>3. Shifted(p, i) = Number(2 ^ ShiftOf(p, i)) \o Op("div")
      BY <1>1, Zenon DEF Shifted
    <2> QED
      BY <1>1, <2>1, <2>2, <2>3, Zenon DEF Flat2
  <1>2. CASE ~(ShiftOf(p, i) > 0)
    <2>1. Shifted(p, i) = <<>>
      BY <1>2, Zenon DEF Shifted
    <2>2. <<>> \o t = t
      BY ConcatEmptySeq DEF IsSequence
    <2>3. IsSequence(<<>>)
      BY Sequences DEF SeqFacts
    <2> QED
      BY <1>2, <2>1, <2>2, <2>3, Zenon
  <1> QED
    BY <1>1, <1>2

\* emit_coefficient leaves the digit on the string.
LEMMA CoefficientGoes ==
    ASSUME NEW c, NEW m, NEW p, Consistent(p), NEW i, NEW s, Digits(p, i, s), NEW t, NEW b, IsSequence(b), NEW a,
           Goes(c, m, Run(t, On(On(b, s), Encode(Coef(s, i, p.w))), a))
    PROVE  /\ IsSequence(EmitCoefficient(p, i))
           /\ Goes(c, m, Run(EmitCoefficient(p, i) \o t, On(b, s), a))
  <1> DEFINE k == ByteOf(p, i)
             v == s[k + 1]
             h == ShiftOf(p, i)
             q == v \div 2 ^ h
             r == On(b, s)
  <1>1. /\ k \in Word /\ k + 1 \in Word /\ k <= k + 1 /\ k + 1 <= Len(s) /\ IsSequence(s)
        /\ v \in Octet /\ SubSeq(s, k + 1, k + 1) = <<v>> /\ i \in Nat
    <2>1. k \in Nat /\ k < Len(s) /\ s \in Seq(Octet) /\ Len(s) < 40000 /\ i \in Nat
      BY DigitPlace DEF Digits
    <2> HIDE DEF k
    <2> QED
      BY <2>1, ByteTaken
  <1>2. /\ v \in Word /\ 2 ^ p.w \in Word /\ 2 ^ p.w # 0
        /\ 2 ^ h \in Word /\ 2 ^ h # 0
        /\ q \in Word
        /\ Quotient(v, 2 ^ h) = q
        /\ h = 0 => q = v
        /\ Remainder(q, 2 ^ p.w) = Coef(s, i, p.w)
    <2>1. v \in Octet /\ v = s[ByteOf(p, i) + 1] /\ i \in Nat
      BY <1>1
    <2> HIDE DEF v
    <2> QED
      BY <2>1, DigitIs DEF q, h
  <1>3. h \in 0..7
    BY <1>1, DigitPlace
  <1>4. IsSequence(r) /\ IsSequence(t)
    BY Sequences, GoesFormed DEF SeqFacts, Run
  <1> DEFINE t1 == Then(Writing("mod"), t)
             t2 == Then(Numeral(2 ^ p.w), t1)
             t3 == Shifted(p, i) \o t2
             t4 == Then(Writing("bin2num"), t3)
             t5 == Then(Writing("cat"), t4)
             t6 == Then(Writes("data", <<0>>), t5)
             t7 == Then(Writing("substr"), t6)
             t8 == Then(Numeral(k + 1), t7)
             t9 == Then(Numeral(k), t8)
             t10 == Then(Writing("dup"), t9)
  <1>5. IsSequence(EmitCoefficient(p, i)) /\ EmitCoefficient(p, i) \o t = t10
    <2>1. IsSequence(Shifted(p, i))
      BY <1>4, ShiftedCode
    <2> QED
      BY <1>4, <2>1, CoefficientCode
  <1>6. Goes(c, m, Run(t, On(r, Encode(Coef(s, i, p.w))), a))
    OBVIOUS
  <1> HIDE DEF k, v, h, q, r
  <1>7. Goes(c, m, Run(t1, On(On(r, Encode(q)), Encode(2 ^ p.w)), a))
    <2>1. "mod" \in Binary
      BY DEF Binary
    <2> QED
      BY <1>2, <1>4, <1>6, <2>1, NumbersGo
  <1> HIDE DEF t1
  <1>8. IsSequence(On(r, Encode(q))) /\ IsSequence(On(r, Encode(v))) /\ IsSequence(On(On(r, s), Encode(k)))
        /\ IsSequence(On(r, <<v>>)) /\ IsSequence(On(r, s))
    BY <1>4, Sequences DEF SeqFacts
  <1>9. Goes(c, m, Run(t2, On(r, Encode(q)), a)) /\ IsSequence(t2)
    <2>1. Goes(c, m, Run(t2, On(r, Encode(q)), a))
      BY <1>7, <1>8, NumberGoes
    <2> QED
      BY <2>1, GoesFormed DEF Run
  <1> HIDE DEF t2
  <1>10. Goes(c, m, Run(t3, On(r, Encode(v)), a))
    <2>1. CASE h > 0
      <3>1. Goes(c, m, Run(Then(Writing("div"), t2), On(On(r, Encode(v)), Encode(2 ^ h)), a))
        <4>1. "div" \in Binary
          BY DEF Binary
        <4> QED
          BY <1>2, <1>4, <1>9, <4>1, NumbersGo
      <3>2. Goes(c, m, Run(Then(Numeral(2 ^ h), Then(Writing("div"), t2)), On(r, Encode(v)), a))
        BY <1>8, <3>1, NumberGoes
      <3> QED
        BY <1>9, <2>1, <3>2, ShiftedCode, Zenon DEF h
    <2>2. CASE ~(h > 0)
      <3>1. q = v
        BY <1>2, <1>3, <2>2
      <3> QED
        BY <1>9, <2>2, <3>1, ShiftedCode, Zenon DEF h
    <2> QED
      BY <2>1, <2>2
  <1> HIDE DEF t3
  <1>11. Goes(c, m, Run(t4, On(r, <<v>> \o <<0>>), a))
    BY <1>1, <1>4, <1>10, ByteGoes
  <1> HIDE DEF t4
  <1>12. Goes(c, m, Run(t5, On(On(r, <<v>>), <<0>>), a))
    BY <1>4, <1>11, CatGoes
  <1> HIDE DEF t5
  <1>13. Goes(c, m, Run(t6, On(r, <<v>>), a))
    BY <1>8, <1>12, DataGoes
  <1> HIDE DEF t6
  <1>14. Goes(c, m, Run(t7, On(On(On(r, s), Encode(k)), Encode(k + 1)), a))
    <2>1. Goes(c, m, Run(t6, On(r, SubSeq(s, k + 1, k + 1)), a))
      BY <1>1, <1>13, Zenon
    <2> QED
      BY <1>1, <1>4, <2>1, SubstrGoes
  <1> HIDE DEF t7
  <1>15. Goes(c, m, Run(t8, On(On(r, s), Encode(k)), a))
    BY <1>8, <1>14, NumberGoes
  <1> HIDE DEF t8
  <1>16. Goes(c, m, Run(t9, On(r, s), a))
    BY <1>8, <1>15, NumberGoes
  <1> HIDE DEF t9
  <1>17. Goes(c, m, Run(t10, On(b, s), a))
    BY <1>16, DupGoes DEF r
  <1> QED
    BY <1>5, <1>17, Zenon

-----------------------------------------------------------------------------
(* Loops.                                                                   *)

\* A loop goes when each of its turns leads from one state of the stacks to
\* the next.
LEMMA LoopGoes ==
    ASSUME NEW c, NEW m, NEW n \in Nat, NEW f, f = [i \in 1..n |-> f[i]], \A i \in 1..n : IsSequence(f[i]),
           NEW t, NEW mains, NEW alts, Goes(c, m, Run(t, mains[n + 1], alts[n + 1])),
           \A k \in 1..n : \A s : Goes(c, m, Run(s, mains[k + 1], alts[k + 1]))
                                    => Goes(c, m, Run(f[k] \o s, mains[k], alts[k]))
    PROVE  IsSequence(Joined(f)) /\ Goes(c, m, Run(Joined(f) \o t, mains[1], alts[1]))
  <1> DEFINE U == Unrolled(f, n)
             S == {k \in 0..n : Goes(c, m, Run(U[k + 1] \o t, mains[k + 1], alts[k + 1]))}
  <1>1. Unrolls(U, f, n)
    BY LoopUnrolls
  <1> HIDE DEF U
  <1>2. /\ U[1] = Joined(f) /\ U[n + 1] = <<>>
        /\ \A k \in 1 .. n + 1 : IsSequence(U[k])
        /\ \A k \in 1..n : U[k] = f[k] \o U[k + 1]
    BY <1>1, Zenon DEF Unrolls
  <1>3. IsSequence(t)
    BY GoesFormed DEF Run
  <1>4. n \in S
    <2>1. <<>> \o t = t
      BY <1>3, ConcatEmptySeq DEF IsSequence
    <2>2. U[n + 1] \o t = t
      BY <1>2, <2>1, Zenon
    <2>3. Goes(c, m, Run(U[n + 1] \o t, mains[n + 1], alts[n + 1]))
      BY <2>2, Zenon
    <2> QED
      BY <2>3
  <1>5. ASSUME NEW k \in 0 .. n - 1, k + 1 \in S PROVE k \in S
    <2>1. k + 1 \in 1..n /\ k + 1 \in 1 .. n + 1 /\ (k + 1) + 1 \in 1 .. n + 1 /\ k \in 0..n
      OBVIOUS
    <2>2. Goes(c, m, Run(U[(k + 1) + 1] \o t, mains[(k + 1) + 1], alts[(k + 1) + 1]))
      BY <1>5
    <2> DEFINE s == U[(k + 1) + 1] \o t
    <2>3. Goes(c, m, Run(f[k + 1] \o s, mains[k + 1], alts[k + 1]))
      BY <2>1, <2>2, Zenon
    <2>4. IsSequence(f[k + 1]) /\ IsSequence(U[(k + 1) + 1])
      BY <1>2, <2>1
    <2>5. Regrouped(f[k + 1], U[(k + 1) + 1], t)
      BY <1>3, <2>4, Regroups
    <2>6. U[k + 1] \o t = f[k + 1] \o s
      BY <1>2, <2>1, <2>5, Zenon DEF Regrouped
    <2>7. Goes(c, m, Run(U[k + 1] \o t, mains[k + 1], alts[k + 1]))
      BY <2>3, <2>6, Zenon
    <2> QED
      BY <2>1, <2>7
  <1>6. 0 \in S
    <2>1. 0 \in 0..n
      OBVIOUS
    <2> HIDE DEF S
    <2> QED
      BY <1>4, <1>5, <2>1, Backwards
  <1>7. Goes(c, m, Run(U[1] \o t, mains[1], alts[1]))
    <2>1. 0 + 1 = 1
      OBVIOUS
    <2> QED
      BY <1>6, <2>1, Zenon
  <1>8. IsSequence(U[1])
    <2>1. 1 \in 1 .. n + 1
      OBVIOUS
    <2> QED
      BY <1>2, <2>1
  <1> QED
    BY <1>2, <1>7, <1>8, Zenon

-----------------------------------------------------------------------------
(* The recursions of the scheme, one step at a time.                        *)

\* The sum of what the digits lack of their maximum.
Sums(F, q, p) ==
  /\ F[0] = 0 /\ F[p.u] = CoefSum(q, p)
  /\ \A k \in 1..p.u : F[k] = F[k - 1] + (MaxCoef(p) - Coef(q, k - 1, p.w))
\* A chain.
Walks(F, key, i, from, to, y) ==
  /\ F[from] = y /\ F[to] = Walk(key, i, from, to, y)
  /\ \A j \in from + 1 .. to : F[j] = Sha256(Prefix(key.id, key.q, i) \o <<j - 1>> \o F[j - 1])
\* The ancestors of a leaf.
Climbs(F, p, key, leaf, path) ==
  /\ F[0] = leaf /\ F[p.h] = ClimbPath(p, key, leaf, path)
  /\ \A j \in 1..p.h : F[j] = NodeAbove(key, (LeafCount(p) + key.q) \div 2 ^ (j - 1), F[j - 1], path[j])

LEMMA SumsExist ==
    ASSUME NEW p, Consistent(p), NEW q
    PROVE  \E F : Sums(F, q, p)
  <1> DEFINE Step(j, v) == v + (MaxCoef(p) - Coef(q, j - 1, p.w))
             Body(F, j) == IF j = 0 THEN 0 ELSE Step(j, F[j - 1])
             Solves(F, k) == F = [j \in 0 .. 0 + k |-> Body(F, j)]
             S == {k \in Nat : \E F : Solves(F, k)}
             n == p.u - 0
             All(F) == F = [j \in 0..p.u |-> Body(F, j)]
             H == CHOOSE F : All(F)
  <1>1. 0 \in Int /\ p.u \in Int /\ n \in Nat /\ 0 + n = p.u /\ 0 + 0 = 0
    BY SetNumbers
  <1> HIDE DEF n
  <1>2. CoefSum(q, p) = H[p.u]
    BY Zenon DEF CoefSum
  <1> HIDE DEF Step
  <1>3. 0 \in S
    <2> DEFINE G == [j \in 0 .. 0 + 0 |-> 0]
    <2>1. \A j \in 0 .. 0 + 0 : j = 0
      BY <1>1
    <2>2. Solves(G, 0)
      BY <2>1
    <2> QED
      BY <2>2
  <1>4. ASSUME NEW k \in Nat, k \in S PROVE k + 1 \in S
    <2>1. PICK F : Solves(F, k)
      BY <1>4
    <2> DEFINE G == [j \in 0 .. 0 + (k + 1) |-> IF j = 0 + (k + 1) THEN Step(j, F[j - 1]) ELSE F[j]]
    <2>2. ASSUME NEW j \in 0 .. 0 + (k + 1) PROVE G[j] = Body(G, j)
      <3>1. CASE j = 0
        <4>1. j # 0 + (k + 1) /\ j \in 0 .. 0 + k
          BY <1>1, <3>1
        <4>2. G[j] = F[j]
          BY <4>1
        <4>3. F[j] = Body(F, j)
          BY <2>1, <4>1
        <4> QED
          BY <3>1, <4>2, <4>3
      <3>2. CASE j # 0 /\ j # 0 + (k + 1)
        <4>1. j \in 0 .. 0 + k /\ j - 1 \in 0 .. 0 + (k + 1) /\ j - 1 # 0 + (k + 1)
          BY <1>1, <3>2
        <4>2. G[j] = F[j] /\ G[j - 1] = F[j - 1]
          BY <3>2, <4>1
        <4>3. F[j] = Body(F, j)
          BY <2>1, <4>1
        <4> QED
          BY <3>2, <4>2, <4>3, Zenon
      <3>3. CASE j = 0 + (k + 1)
        <4>1. j # 0 /\ j - 1 \in 0 .. 0 + (k + 1) /\ j - 1 # 0 + (k + 1)
          BY <1>1, <3>3
        <4>2. G[j] = Step(j, F[j - 1]) /\ G[j - 1] = F[j - 1]
          BY <3>3, <4>1
        <4> QED
          BY <4>1, <4>2, Zenon
      <3> QED
        BY <3>1, <3>2, <3>3
    <2>3. G = [j \in 0 .. 0 + (k + 1) |-> G[j]]
      OBVIOUS
    <2> HIDE DEF G
    <2>4. Solves(G, k + 1)
      BY <2>2, <2>3
    <2>5. k + 1 \in Nat
      OBVIOUS
    <2> QED
      BY <2>4, <2>5, Zenon
  <1>5. n \in S
    <2> HIDE DEF S
    <2> QED
      BY <1>1, <1>3, <1>4, InductionOn
  <1>6. PICK F : All(F)
    <2>1. PICK F : Solves(F, n)
      BY <1>5
    <2>2. All(F)
      BY <1>1, <2>1, Zenon
    <2> QED
      BY <2>2
  <1>7. All(H)
    BY <1>6, Zenon
  <1> HIDE DEF H
  <1>8. H[0] = 0
    <2>1. 0 \in 0..p.u
      BY <1>1
    <2>2. H[0] = Body(H, 0)
      BY <1>7, <2>1
    <2> QED
      BY <2>2
  <1>9. ASSUME NEW j \in 0 + 1 .. p.u PROVE H[j] = Step(j, H[j - 1])
    <2>1. j \in 0..p.u /\ j # 0
      BY <1>1
    <2>2. H[j] = Body(H, j)
      BY <1>7, <2>1
    <2> QED
      BY <2>1, <2>2, Zenon
  <1>10. ASSUME NEW k \in 1..p.u PROVE H[k] = H[k - 1] + (MaxCoef(p) - Coef(q, k - 1, p.w))
    <2>1. k \in 0 + 1 .. p.u
      OBVIOUS
    <2> QED
      BY <1>9, <2>1 DEF Step
  <1>11. Sums(H, q, p)
    BY <1>2, <1>8, <1>10, Zenon DEF Sums
  <1> QED
    BY <1>11

LEMMA WalksExist ==
    ASSUME NEW key, NEW i, NEW from \in Nat, NEW to \in Nat, from <= to, NEW y
    PROVE  \E F : Walks(F, key, i, from, to, y)
  <1> DEFINE Step(j, v) == Sha256(Prefix(key.id, key.q, i) \o <<j - 1>> \o v)
             Body(F, j) == IF j = from THEN y ELSE Step(j, F[j - 1])
             Solves(F, k) == F = [j \in from .. from + k |-> Body(F, j)]
             S == {k \in Nat : \E F : Solves(F, k)}
             n == to - from
             All(F) == F = [j \in from..to |-> Body(F, j)]
             H == CHOOSE F : All(F)
  <1>1. from \in Int /\ to \in Int /\ n \in Nat /\ from + n = to /\ from + 0 = from
    OBVIOUS
  <1> HIDE DEF n
  <1>2. Walk(key, i, from, to, y) = H[to]
    BY Zenon DEF Walk
  <1> HIDE DEF Step
  <1>3. 0 \in S
    <2> DEFINE G == [j \in from .. from + 0 |-> y]
    <2>1. \A j \in from .. from + 0 : j = from
      BY <1>1
    <2>2. Solves(G, 0)
      BY <2>1
    <2> QED
      BY <2>2
  <1>4. ASSUME NEW k \in Nat, k \in S PROVE k + 1 \in S
    <2>1. PICK F : Solves(F, k)
      BY <1>4
    <2> DEFINE G == [j \in from .. from + (k + 1) |-> IF j = from + (k + 1) THEN Step(j, F[j - 1]) ELSE F[j]]
    <2>2. ASSUME NEW j \in from .. from + (k + 1) PROVE G[j] = Body(G, j)
      <3>1. CASE j = from
        <4>1. j # from + (k + 1) /\ j \in from .. from + k
          BY <1>1, <3>1
        <4>2. G[j] = F[j]
          BY <4>1
        <4>3. F[j] = Body(F, j)
          BY <2>1, <4>1
        <4> QED
          BY <3>1, <4>2, <4>3
      <3>2. CASE j # from /\ j # from + (k + 1)
        <4>1. j \in from .. from + k /\ j - 1 \in from .. from + (k + 1) /\ j - 1 # from + (k + 1)
          BY <1>1, <3>2
        <4>2. G[j] = F[j] /\ G[j - 1] = F[j - 1]
          BY <3>2, <4>1
        <4>3. F[j] = Body(F, j)
          BY <2>1, <4>1
        <4> QED
          BY <3>2, <4>2, <4>3, Zenon
      <3>3. CASE j = from + (k + 1)
        <4>1. j # from /\ j - 1 \in from .. from + (k + 1) /\ j - 1 # from + (k + 1)
          BY <1>1, <3>3
        <4>2. G[j] = Step(j, F[j - 1]) /\ G[j - 1] = F[j - 1]
          BY <3>3, <4>1
        <4> QED
          BY <4>1, <4>2, Zenon
      <3> QED
        BY <3>1, <3>2, <3>3
    <2>3. G = [j \in from .. from + (k + 1) |-> G[j]]
      OBVIOUS
    <2> HIDE DEF G
    <2>4. Solves(G, k + 1)
      BY <2>2, <2>3
    <2>5. k + 1 \in Nat
      OBVIOUS
    <2> QED
      BY <2>4, <2>5, Zenon
  <1>5. n \in S
    <2> HIDE DEF S
    <2> QED
      BY <1>1, <1>3, <1>4, InductionOn
  <1>6. PICK F : All(F)
    <2>1. PICK F : Solves(F, n)
      BY <1>5
    <2>2. All(F)
      BY <1>1, <2>1, Zenon
    <2> QED
      BY <2>2
  <1>7. All(H)
    BY <1>6, Zenon
  <1> HIDE DEF H
  <1>8. H[from] = y
    <2>1. from \in from..to
      BY <1>1
    <2>2. H[from] = Body(H, from)
      BY <1>7, <2>1
    <2> QED
      BY <2>2
  <1>9. ASSUME NEW j \in from + 1 .. to PROVE H[j] = Step(j, H[j - 1])
    <2>1. j \in from..to /\ j # from
      BY <1>1
    <2>2. H[j] = Body(H, j)
      BY <1>7, <2>1
    <2> QED
      BY <2>1, <2>2, Zenon
  <1>10. \A j \in from + 1 .. to : H[j] = Sha256(Prefix(key.id, key.q, i) \o <<j - 1>> \o H[j - 1])
    BY <1>9 DEF Step
  <1>11. Walks(H, key, i, from, to, y)
    BY <1>2, <1>8, <1>10, Zenon DEF Walks
  <1> QED
    BY <1>11

LEMMA ClimbsExist ==
    ASSUME NEW p, Consistent(p), NEW key, NEW leaf, NEW path
    PROVE  \E F : Climbs(F, p, key, leaf, path)
  <1> DEFINE Step(j, v) == NodeAbove(key, (LeafCount(p) + key.q) \div 2 ^ (j - 1), v, path[j])
             Body(F, j) == IF j = 0 THEN leaf ELSE Step(j, F[j - 1])
             Solves(F, k) == F = [j \in 0 .. 0 + k |-> Body(F, j)]
             S == {k \in Nat : \E F : Solves(F, k)}
             n == p.h - 0
             All(F) == F = [j \in 0..p.h |-> Body(F, j)]
             H == CHOOSE F : All(F)
  <1>1. 0 \in Int /\ p.h \in Int /\ n \in Nat /\ 0 + n = p.h /\ 0 + 0 = 0
    BY SetNumbers
  <1> HIDE DEF n
  <1>2. ClimbPath(p, key, leaf, path) = H[p.h]
    BY Zenon DEF ClimbPath
  <1> HIDE DEF Step
  <1>3. 0 \in S
    <2> DEFINE G == [j \in 0 .. 0 + 0 |-> leaf]
    <2>1. \A j \in 0 .. 0 + 0 : j = 0
      BY <1>1
    <2>2. Solves(G, 0)
      BY <2>1
    <2> QED
      BY <2>2
  <1>4. ASSUME NEW k \in Nat, k \in S PROVE k + 1 \in S
    <2>1. PICK F : Solves(F, k)
      BY <1>4
    <2> DEFINE G == [j \in 0 .. 0 + (k + 1) |-> IF j = 0 + (k + 1) THEN Step(j, F[j - 1]) ELSE F[j]]
    <2>2. ASSUME NEW j \in 0 .. 0 + (k + 1) PROVE G[j] = Body(G, j)
      <3>1. CASE j = 0
        <4>1. j # 0 + (k + 1) /\ j \in 0 .. 0 + k
          BY <1>1, <3>1
        <4>2. G[j] = F[j]
          BY <4>1
        <4>3. F[j] = Body(F, j)
          BY <2>1, <4>1
        <4> QED
          BY <3>1, <4>2, <4>3
      <3>2. CASE j # 0 /\ j # 0 + (k + 1)
        <4>1. j \in 0 .. 0 + k /\ j - 1 \in 0 .. 0 + (k + 1) /\ j - 1 # 0 + (k + 1)
          BY <1>1, <3>2
        <4>2. G[j] = F[j] /\ G[j - 1] = F[j - 1]
          BY <3>2, <4>1
        <4>3. F[j] = Body(F, j)
          BY <2>1, <4>1
        <4> QED
          BY <3>2, <4>2, <4>3, Zenon
      <3>3. CASE j = 0 + (k + 1)
        <4>1. j # 0 /\ j - 1 \in 0 .. 0 + (k + 1) /\ j - 1 # 0 + (k + 1)
          BY <1>1, <3>3
        <4>2. G[j] = Step(j, F[j - 1]) /\ G[j - 1] = F[j - 1]
          BY <3>3, <4>1
        <4> QED
          BY <4>1, <4>2, Zenon
      <3> QED
        BY <3>1, <3>2, <3>3
    <2>3. G = [j \in 0 .. 0 + (k + 1) |-> G[j]]
      OBVIOUS
    <2> HIDE DEF G
    <2>4. Solves(G, k + 1)
      BY <2>2, <2>3
    <2>5. k + 1 \in Nat
      OBVIOUS
    <2> QED
      BY <2>4, <2>5, Zenon
  <1>5. n \in S
    <2> HIDE DEF S
    <2> QED
      BY <1>1, <1>3, <1>4, InductionOn
  <1>6. PICK F : All(F)
    <2>1. PICK F : Solves(F, n)
      BY <1>5
    <2>2. All(F)
      BY <1>1, <2>1, Zenon
    <2> QED
      BY <2>2
  <1>7. All(H)
    BY <1>6, Zenon
  <1> HIDE DEF H
  <1>8. H[0] = leaf
    <2>1. 0 \in 0..p.h
      BY <1>1
    <2>2. H[0] = Body(H, 0)
      BY <1>7, <2>1
    <2> QED
      BY <2>2
  <1>9. ASSUME NEW j \in 0 + 1 .. p.h PROVE H[j] = Step(j, H[j - 1])
    <2>1. j \in 0..p.h /\ j # 0
      BY <1>1
    <2>2. H[j] = Body(H, j)
      BY <1>7, <2>1
    <2> QED
      BY <2>1, <2>2, Zenon
  <1>10. ASSUME NEW j \in 1..p.h
         PROVE  H[j] = NodeAbove(key, (LeafCount(p) + key.q) \div 2 ^ (j - 1), H[j - 1], path[j])
    <2>1. j \in 0 + 1 .. p.h
      OBVIOUS
    <2> QED
      BY <1>9, <2>1 DEF Step
  <1>11. Climbs(H, p, key, leaf, path)
    BY <1>2, <1>8, <1>10, Zenon DEF Climbs
  <1> QED
    BY <1>11

-----------------------------------------------------------------------------
(* What is hashed, and what comes out.                                      *)

Spans(b) == Residues \X (DOMAIN b) \X (DOMAIN b)
Absorbs(A, b) ==
  /\ A \in [Spans(b) -> Residues]
  /\ \A acc \in Residues, lo \in DOMAIN b, hi \in DOMAIN b :
       A[<<acc, lo, hi>>] = IF lo >= hi THEN (acc * 251 + b[lo] + 1) % Prime
                            ELSE A[<<A[<<acc, lo, (lo + hi) \div 2>>], (lo + hi) \div 2 + 1, hi>>]

LEMMA ResidueIs ==
    ASSUME NEW acc \in Residues, NEW v \in Octet
    PROVE  (acc * 251 + v + 1) % Prime \in Residues
  <1>1. Prime = 8388593
    BY SMT DEF Prime
  <1>2. Prime \in Nat /\ Prime > 0
    BY <1>1, SMT
  <1>3. acc * 251 + v + 1 \in Nat
    <2>1. acc \in Nat /\ v \in Nat
      BY <1>2, SMT DEF Residues, Octet
    <2> QED
      BY <2>1, SMT
  <1> DEFINE x == acc * 251 + v + 1
  <1> HIDE DEF x
  <1>4. x \in Nat
    BY <1>3 DEF x
  <1>5. x % Prime \in Residues
    BY <1>2, <1>4, SMT DEF Residues
  <1> QED
    BY <1>5, SMT DEF x

LEMMA AbsorbsExist ==
    ASSUME NEW b \in Seq(Octet)
    PROVE  \E A : Absorbs(A, b)
  <1> DEFINE n == Len(b)
             D == DOMAIN b
             One(acc, lo) == (acc * 251 + b[lo] + 1) % Prime
             Two(A, acc, lo, hi) == A[<<A[<<acc, lo, (lo + hi) \div 2>>], (lo + hi) \div 2 + 1, hi>>]
             Holds3(A, k) == \A acc \in Residues, lo \in D, hi \in D : hi - lo <= k =>
                               A[<<acc, lo, hi>>] = IF lo >= hi THEN One(acc, lo) ELSE Two(A, acc, lo, hi)
             S == {k \in Nat : \E A \in [Spans(b) -> Residues] : Holds3(A, k)}
  <1>1. n \in Nat /\ D = 1..n /\ \A i \in D : b[i] \in Octet
    OBVIOUS
  <1>2. \A acc \in Residues, lo \in D : One(acc, lo) \in Residues
    BY <1>1, ResidueIs
  <1> HIDE DEF n, D, One
  <1>3. Spans(b) = Residues \X D \X D
    BY DEF Spans, D
  <1>4. \A lo \in D, hi \in D : lo < hi =>
          /\ (lo + hi) \div 2 \in D /\ (lo + hi) \div 2 + 1 \in D
          /\ (lo + hi) \div 2 - lo < hi - lo
          /\ hi - ((lo + hi) \div 2 + 1) < hi - lo
    BY <1>1
  <1>5. D \subseteq Nat
    BY <1>1
  <1>6. 0 \in S
    <2> DEFINE A == [q \in Spans(b) |-> One(q[1], q[2])]
    <2>1. A \in [Spans(b) -> Residues]
      BY <1>2, <1>3
    <2>2. \A acc \in Residues, lo \in D, hi \in D : A[<<acc, lo, hi>>] = One(acc, lo)
      BY <1>3
    <2> HIDE DEF A
    <2>3. \A lo \in D, hi \in D : hi - lo <= 0 => lo >= hi
      BY <1>5
    <2>4. Holds3(A, 0)
      BY <2>2, <2>3, Zenon
    <2> QED
      BY <2>1, <2>4
  <1>7. ASSUME NEW k \in Nat, k \in S PROVE k + 1 \in S
    <2>1. PICK A \in [Spans(b) -> Residues] : Holds3(A, k)
      BY <1>7
    <2> DEFINE B == [q \in Spans(b) |-> IF q[2] >= q[3] THEN One(q[1], q[2]) ELSE Two(A, q[1], q[2], q[3])]
    <2>2. ASSUME NEW acc \in Residues, NEW lo \in D, NEW hi \in D, lo < hi
          PROVE  Two(A, acc, lo, hi) \in Residues /\ A[<<acc, lo, (lo + hi) \div 2>>] \in Residues
      <3>1. (lo + hi) \div 2 \in D /\ (lo + hi) \div 2 + 1 \in D
        BY <1>4, <2>2
      <3> DEFINE middle == (lo + hi) \div 2
      <3> HIDE DEF middle
      <3>2. A[<<acc, lo, middle>>] \in Residues
        BY <1>3, <2>1, <3>1 DEF middle
      <3> DEFINE r == A[<<acc, lo, middle>>]
      <3> HIDE DEF r
      <3>3. A[<<r, middle + 1, hi>>] \in Residues
        BY <1>3, <2>1, <3>1, <3>2 DEF middle, r
      <3> QED
        BY <3>2, <3>3 DEF middle, r
    <2>3. ASSUME NEW acc \in Residues, NEW lo \in D, NEW hi \in D
          PROVE  B[<<acc, lo, hi>>] = IF lo >= hi THEN One(acc, lo) ELSE Two(A, acc, lo, hi)
      <3>1. <<acc, lo, hi>> \in Spans(b) /\ <<acc, lo, hi>>[1] = acc /\ <<acc, lo, hi>>[2] = lo /\ <<acc, lo, hi>>[3] = hi
        BY <1>3
      <3> DEFINE q == <<acc, lo, hi>>
      <3>2. B[q] = IF q[2] >= q[3] THEN One(q[1], q[2]) ELSE Two(A, q[1], q[2], q[3])
        BY <3>1
      <3> HIDE DEF B
      <3> QED
        BY <3>1, <3>2, Zenon
    <2>4. B \in [Spans(b) -> Residues]
      <3>1. ASSUME NEW q \in Spans(b)
            PROVE  (IF q[2] >= q[3] THEN One(q[1], q[2]) ELSE Two(A, q[1], q[2], q[3])) \in Residues
        <4>1. q[1] \in Residues /\ q[2] \in D /\ q[3] \in D
          BY <1>3
        <4>2. q[2] \in Nat /\ q[3] \in Nat
          BY <1>5, <4>1
        <4>3. q[2] >= q[3] \/ q[2] < q[3]
          BY <4>2
        <4> DEFINE acc == q[1]
                   lo == q[2]
                   hi == q[3]
        <4>4. acc \in Residues /\ lo \in D /\ hi \in D /\ (~(lo >= hi) => lo < hi)
          BY <4>1, <4>2
        <4> HIDE DEF acc, lo, hi
        <4>5. (IF lo >= hi THEN One(acc, lo) ELSE Two(A, acc, lo, hi)) \in Residues
          <5>1. CASE lo >= hi
            BY <1>2, <4>4, <5>1
          <5>2. CASE ~(lo >= hi)
            BY <2>2, <4>4, <5>2, Zenon
          <5> QED
            BY <5>1, <5>2
        <4> QED
          BY <4>5 DEF acc, lo, hi
      <3> QED
        BY <3>1
    <2> HIDE DEF B
    <2>5. ASSUME NEW acc \in Residues, NEW lo \in D, NEW hi \in D, hi - lo <= k
          PROVE  B[<<acc, lo, hi>>] = A[<<acc, lo, hi>>]
      <3> HIDE DEF Two
      <3>1. A[<<acc, lo, hi>>] = IF lo >= hi THEN One(acc, lo) ELSE Two(A, acc, lo, hi)
        BY <2>1, <2>5, Zenon
      <3>2. B[<<acc, lo, hi>>] = IF lo >= hi THEN One(acc, lo) ELSE Two(A, acc, lo, hi)
        BY <2>3, Zenon
      <3> QED
        BY <3>1, <3>2
    <2>6. ASSUME NEW acc \in Residues, NEW lo \in D, NEW hi \in D, hi - lo <= k + 1
          PROVE  B[<<acc, lo, hi>>] = IF lo >= hi THEN One(acc, lo) ELSE Two(B, acc, lo, hi)
      <3>1. CASE lo >= hi
        BY <2>3, <3>1
      <3>2. CASE ~(lo >= hi)
        <4>1. lo \in Nat /\ hi \in Nat /\ lo < hi
          BY <1>5, <3>2
        <4> DEFINE middle == (lo + hi) \div 2
        <4>2. middle \in D /\ middle + 1 \in D /\ middle - lo <= k /\ hi - (middle + 1) <= k
          <5>1. middle \in D /\ middle + 1 \in D /\ middle - lo < hi - lo /\ hi - (middle + 1) < hi - lo
            BY <1>4, <4>1
          <5> HIDE DEF middle
          <5>2. middle \in Nat
            BY <1>5, <5>1
          <5> QED
            BY <2>6, <4>1, <5>1, <5>2
        <4>3. B[<<acc, lo, hi>>] = Two(A, acc, lo, hi) /\ A[<<acc, lo, middle>>] \in Residues
          BY <2>2, <2>3, <3>2, <4>1, Zenon
        <4> HIDE DEF middle
        <4>4. B[<<acc, lo, middle>>] = A[<<acc, lo, middle>>]
          BY <2>5, <4>2
        <4> DEFINE r == A[<<acc, lo, middle>>]
        <4>5. r \in Residues /\ B[<<acc, lo, middle>>] = r
          BY <4>3, <4>4
        <4> HIDE DEF r
        <4>6. B[<<r, middle + 1, hi>>] = A[<<r, middle + 1, hi>>]
          BY <2>5, <4>2, <4>5
        <4>7. Two(A, acc, lo, hi) = A[<<r, middle + 1, hi>>] /\ Two(B, acc, lo, hi) = B[<<r, middle + 1, hi>>]
          BY <4>5, Zenon DEF middle, r
        <4> QED
          BY <3>2, <4>3, <4>6, <4>7, Zenon
      <3> QED
        BY <3>1, <3>2
    <2>7. Holds3(B, k + 1)
      BY <2>6, Zenon
    <2>8. k + 1 \in Nat
      OBVIOUS
    <2> QED
      BY <2>4, <2>7, <2>8, Zenon
  <1>8. n \in S
    <2> HIDE DEF S
    <2> QED
      BY <1>1, <1>6, <1>7, InductionOn
  <1>9. PICK A \in [Spans(b) -> Residues] : Holds3(A, n)
    BY <1>8
  <1>10. \A lo \in D, hi \in D : hi - lo <= n
    BY <1>1
  <1>11. \A acc \in Residues, lo \in D, hi \in D :
           A[<<acc, lo, hi>>] = IF lo >= hi THEN One(acc, lo) ELSE Two(A, acc, lo, hi)
    BY <1>9, <1>10, ZenonT(40)
  <1>12. Absorbs(A, b)
    BY <1>9, <1>11, Zenon DEF Absorbs, One, D
  <1> QED
    BY <1>12

LEMMA AbsorbedIs ==
    ASSUME NEW b \in Seq(Octet)
    PROVE  Absorbed(b) \in Nat
  <1> DEFINE Half(A, q) == LET acc == q[1] lo == q[2] hi == q[3] middle == (lo + hi) \div 2
                           IN  IF lo >= hi THEN (acc * 251 + b[lo] + 1) % Prime
                               ELSE A[<<A[<<acc, lo, middle>>], middle + 1, hi>>]
             Solves(A) == A = [q \in Residues \X (DOMAIN b) \X (DOMAIN b) |-> Half(A, q)]
             P == CHOOSE A : Solves(A)
  <1>1. Absorbed(b) = IF b = <<>> THEN 1 ELSE P[<<1, 1, Len(b)>>]
    BY Zenon DEF Absorbed
  <1>2. PICK A : Absorbs(A, b)
    BY AbsorbsExist
  <1>3. /\ A \in [Residues \X (DOMAIN b) \X (DOMAIN b) -> Residues]
        /\ \A acc \in Residues, lo \in DOMAIN b, hi \in DOMAIN b :
             A[<<acc, lo, hi>>] = IF lo >= hi THEN (acc * 251 + b[lo] + 1) % Prime
                                  ELSE A[<<A[<<acc, lo, (lo + hi) \div 2>>], (lo + hi) \div 2 + 1, hi>>]
    BY <1>2, Zenon DEF Absorbs, Spans
  <1>4. Solves(A)
    <2>1. ASSUME NEW q \in Residues \X (DOMAIN b) \X (DOMAIN b) PROVE A[q] = Half(A, q)
      <3>1. PICK acc \in Residues, lo \in DOMAIN b, hi \in DOMAIN b : q = <<acc, lo, hi>>
        OBVIOUS
      <3>2. <<acc, lo, hi>>[1] = acc /\ <<acc, lo, hi>>[2] = lo /\ <<acc, lo, hi>>[3] = hi
        OBVIOUS
      <3> QED
        BY <1>3, <3>1, <3>2, ZenonT(40)
    <2> QED
      BY <1>3, <2>1
  <1>5. Solves(P)
    BY <1>4, Zenon
  <1> HIDE DEF P
  <1>6. CASE b = <<>>
    BY <1>1, <1>6
  <1>7. CASE b # <<>>
    (* The value at any span is a residue: P agrees with A there.            *)
    <2> DEFINE D == DOMAIN b
               S == {k \in Nat : \A acc \in Residues, lo \in D, hi \in D : hi - lo <= k =>
                       P[<<acc, lo, hi>>] = A[<<acc, lo, hi>>]}
    <2>1. D = 1..Len(b) /\ Len(b) \in Nat \ {0}
      BY <1>7
    <2>2. ASSUME NEW acc \in Residues, NEW lo \in D, NEW hi \in D
          PROVE  P[<<acc, lo, hi>>] = IF lo >= hi THEN (acc * 251 + b[lo] + 1) % Prime
                                      ELSE P[<<P[<<acc, lo, (lo + hi) \div 2>>], (lo + hi) \div 2 + 1, hi>>]
      <3> DEFINE q == <<acc, lo, hi>>
      <3>1. q \in Residues \X (DOMAIN b) \X (DOMAIN b) /\ q[1] = acc /\ q[2] = lo /\ q[3] = hi
        OBVIOUS
      <3>2. P[q] = Half(P, q)
        BY <1>5, <3>1
      <3> QED
        BY <3>1, <3>2, Zenon
    <2>3. \A lo \in D, hi \in D : lo < hi =>
            /\ (lo + hi) \div 2 \in D /\ (lo + hi) \div 2 + 1 \in D
            /\ (lo + hi) \div 2 - lo < hi - lo
            /\ hi - ((lo + hi) \div 2 + 1) < hi - lo
      BY <2>1
    <2>4. D \subseteq Nat
      BY <2>1
    <2>5. \A acc \in Residues, lo \in D, hi \in D : A[<<acc, lo, hi>>] \in Residues
      BY <1>3
    <2>12. ASSUME NEW acc \in Residues, NEW lo \in D, NEW hi \in D
           PROVE  A[<<acc, lo, hi>>] = IF lo >= hi THEN (acc * 251 + b[lo] + 1) % Prime
                                       ELSE A[<<A[<<acc, lo, (lo + hi) \div 2>>], (lo + hi) \div 2 + 1, hi>>]
      BY <1>3, Zenon
    <2> HIDE DEF D
    <2>6. 0 \in S
      <3>1. \A lo \in D, hi \in D : hi - lo <= 0 => lo >= hi
        BY <2>4
      <3>2. ASSUME NEW acc \in Residues, NEW lo \in D, NEW hi \in D, hi - lo <= 0
            PROVE  P[<<acc, lo, hi>>] = A[<<acc, lo, hi>>]
        <4>1. lo >= hi
          BY <3>1, <3>2, Zenon
        <4> QED
          BY <2>2, <2>12, <4>1, Zenon
      <3> QED
        BY <3>2
    <2>7. ASSUME NEW k \in Nat, k \in S PROVE k + 1 \in S
      <3>1. ASSUME NEW acc \in Residues, NEW lo \in D, NEW hi \in D, hi - lo <= k + 1
            PROVE  P[<<acc, lo, hi>>] = A[<<acc, lo, hi>>]
        <4>1. CASE lo >= hi
          BY <2>2, <2>12, <4>1, Zenon
        <4>2. CASE ~(lo >= hi)
          <5>1. lo \in Nat /\ hi \in Nat /\ lo < hi
            BY <2>4, <4>2
          <5> DEFINE middle == (lo + hi) \div 2
          <5>2. middle \in D /\ middle + 1 \in D /\ middle - lo <= k /\ hi - (middle + 1) <= k
            <6>1. middle \in D /\ middle + 1 \in D /\ middle - lo < hi - lo /\ hi - (middle + 1) < hi - lo
              BY <2>3, <5>1
            <6> HIDE DEF middle
            <6>2. middle \in Nat
              BY <2>4, <6>1
            <6> QED
              BY <3>1, <5>1, <6>1, <6>2
          <5>3. /\ P[<<acc, lo, hi>>] = P[<<P[<<acc, lo, middle>>], middle + 1, hi>>]
                /\ A[<<acc, lo, hi>>] = A[<<A[<<acc, lo, middle>>], middle + 1, hi>>]
            BY <2>2, <2>12, <4>2, Zenon
          <5> HIDE DEF middle
          <5>4. P[<<acc, lo, middle>>] = A[<<acc, lo, middle>>] /\ A[<<acc, lo, middle>>] \in Residues
            BY <2>5, <2>7, <5>2
          <5> DEFINE r == A[<<acc, lo, middle>>]
          <5>5. r \in Residues /\ P[<<acc, lo, hi>>] = P[<<r, middle + 1, hi>>] /\ A[<<acc, lo, hi>>] = A[<<r, middle + 1, hi>>]
            BY <5>3, <5>4, Zenon
          <5> HIDE DEF r
          <5>6. P[<<r, middle + 1, hi>>] = A[<<r, middle + 1, hi>>]
            BY <2>7, <5>2, <5>5
          <5> QED
            BY <5>5, <5>6, Zenon
        <4> QED
          BY <4>1, <4>2
      <3>2. k + 1 \in Nat
        OBVIOUS
      <3> QED
        BY <3>1, <3>2, Zenon
    <2>8. 1 \in Residues /\ Residues \subseteq Nat
      <3>1. Prime = 8388593
        BY SMT DEF Prime
      <3>2. Prime \in Nat /\ Prime > 1
        BY <3>1, SMT
      <3> QED
        BY <3>2, SMT DEF Residues
    <2>9. 1 \in D /\ Len(b) \in D /\ Len(b) - 1 <= Len(b)
      BY <2>1
    <2>10. Len(b) \in S
      <3> HIDE DEF S
      <3> QED
        BY <2>1, <2>6, <2>7, InductionOn
    <2>11. P[<<1, 1, Len(b)>>] = A[<<1, 1, Len(b)>>]
      BY <2>8, <2>9, <2>10
    <2> QED
      BY <1>1, <1>7, <2>5, <2>8, <2>9, <2>11
  <1> QED
    BY <1>6, <1>7

LEMMA HashIs ==
    ASSUME NEW b \in Seq(Octet)
    PROVE  Sha256(b) \in HashValue /\ Sha256(b) \in Seq(Octet) /\ Len(Sha256(b)) = DigestLen
  <1> DEFINE state == Absorbed(b)
             Byte(j) == ((state % (4093 + 2 * j)) * 37) % 256
  <1>1. Sha256(b) = [j \in 1..DigestLen |-> Byte(j)]
    BY DEF Sha256
  <1>2. state \in Nat
    BY AbsorbedIs
  <1> HIDE DEF state
  <1>3. ASSUME NEW j \in 1..DigestLen PROVE Byte(j) \in Octet
    <2>1. j \in Nat
      BY WidthsAssumption
    <2>2. state % (4093 + 2 * j) \in Int
      BY <1>2, <2>1
    <2> DEFINE x == state % (4093 + 2 * j)
    <2> HIDE DEF x
    <2>4. x \in Int
      BY <2>2 DEF x
    <2>3. (x * 37) % 256 \in Octet
      BY <2>4 DEF Octet
    <2> QED
      BY <2>3 DEF x
  <1> HIDE DEF Byte
  <1>4. DigestLen \in Nat
    BY WidthsAssumption
  <1> QED
    BY <1>1, <1>3, <1>4 DEF HashValue

-----------------------------------------------------------------------------
(* What a case of an LMS vault holds, and the string its digits are of.     *)

LmsCase(c) ==
  /\ Consistent(c.p) /\ c.sig \in LmsSignatures(c.p)
  /\ c.pk.id \in Seq(Octet) /\ c.pk.q \in 0 .. LeafCount(c.p) - 1

LEMMA BigEndianIs ==
    ASSUME NEW v \in Nat, NEW n \in Nat
    PROVE  BigEndian(v, n) \in Seq(Octet) /\ Len(BigEndian(v, n)) = n
  <1> DEFINE Byte(i) == IF n - i > 3 THEN 0 ELSE (v \div ByteWeight[n - i + 1]) % 256
  <1>1. BigEndian(v, n) = [i \in 1..n |-> Byte(i)]
    BY DEF BigEndian
  <1>2. ASSUME NEW i \in 1..n PROVE Byte(i) \in Octet
    <2>1. CASE n - i > 3
      BY <2>1 DEF Octet
    <2>2. CASE ~(n - i > 3)
      <3>1. n - i + 1 \in 1..4
        BY <2>2
      <3>2. ByteWeight[n - i + 1] \in {1, 256, 65536, 16777216}
        BY <3>1, Weights
      <3> DEFINE w == ByteWeight[n - i + 1]
      <3>3. w \in {1, 256, 65536, 16777216}
        BY <3>2
      <3> HIDE DEF w
      <3>4. (v \div w) % 256 \in 0..255
        BY <3>3
      <3> QED
        BY <2>2, <3>4 DEF w, Octet
    <2> QED
      BY <2>1, <2>2
  <1> HIDE DEF Byte
  <1> QED
    BY <1>1, <1>2

LEMMA PrefixIs ==
    ASSUME NEW id \in Seq(Octet), NEW idx \in Nat, NEW domain \in Nat
    PROVE  Prefix(id, idx, domain) \in Seq(Octet)
  <1>1. BigEndian(idx, 4) \in Seq(Octet) /\ BigEndian(domain, 2) \in Seq(Octet)
    <2>1. 4 \in Nat /\ 2 \in Nat
      OBVIOUS
    <2> QED
      BY <2>1, BigEndianIs
  <1> DEFINE a == BigEndian(idx, 4)
             b == BigEndian(domain, 2)
  <1>2. Prefix(id, idx, domain) = id \o a \o b
    BY DEF Prefix
  <1> HIDE DEF a, b
  <1>3. a \in Seq(Octet) /\ b \in Seq(Octet)
    BY <1>1 DEF a, b
  <1>4. id \o a \o b \in Seq(Octet)
    BY <1>3
  <1> QED
    BY <1>2, <1>4

LEMMA PowersUpTo16 ==
    ASSUME NEW x \in 0..16
    PROVE  2 ^ x \in Nat \ {0}
  <1>1. /\ 2 ^ 0 = 1 /\ 2 ^ 1 = 2 /\ 2 ^ 2 = 4 /\ 2 ^ 3 = 8 /\ 2 ^ 4 = 16 /\ 2 ^ 5 = 32 /\ 2 ^ 6 = 64
        /\ 2 ^ 7 = 128 /\ 2 ^ 8 = 256 /\ 2 ^ 9 = 512 /\ 2 ^ 10 = 1024 /\ 2 ^ 11 = 2048 /\ 2 ^ 12 = 4096
        /\ 2 ^ 13 = 8192 /\ 2 ^ 14 = 16384 /\ 2 ^ 15 = 32768 /\ 2 ^ 16 = 65536
    OBVIOUS
  <1>2. \/ x = 0 \/ x = 1 \/ x = 2 \/ x = 3 \/ x = 4 \/ x = 5 \/ x = 6 \/ x = 7 \/ x = 8
        \/ x = 9 \/ x = 10 \/ x = 11 \/ x = 12 \/ x = 13 \/ x = 14 \/ x = 15 \/ x = 16
    OBVIOUS
  <1> DEFINE y == 2 ^ x
  <1>3. \/ y = 2 ^ 0 \/ y = 2 ^ 1 \/ y = 2 ^ 2 \/ y = 2 ^ 3 \/ y = 2 ^ 4 \/ y = 2 ^ 5 \/ y = 2 ^ 6
        \/ y = 2 ^ 7 \/ y = 2 ^ 8 \/ y = 2 ^ 9 \/ y = 2 ^ 10 \/ y = 2 ^ 11 \/ y = 2 ^ 12 \/ y = 2 ^ 13
        \/ y = 2 ^ 14 \/ y = 2 ^ 15 \/ y = 2 ^ 16
    BY <1>2, Zenon
  <1> HIDE DEF y
  <1>4. y \in Nat \ {0}
    BY <1>1, <1>3
  <1> QED
    BY <1>4 DEF y

\* A digest is short enough for every number about it.
LEMMA DigestShort ==
    ASSUME NEW p, Consistent(p)
    PROVE  /\ 2 ^ p.ls \in Nat \ {0} /\ MaxCoef(p) \in 1..255
           /\ p.u < 32768 /\ DigestLen < 32768 /\ 2 ^ p.ls < 32768 /\ p.u \in Nat
           /\ p.u * MaxCoef(p) * 2 ^ p.ls < 32768
  <1> DEFINE e == 2 ^ p.ls
             x == MaxCoef(p)
  <1>1. p.ls \in 0..16
    <2>1. p.ls \in Nat /\ p.v \in Nat /\ p.ls = 16 - p.v * p.w /\ p.w \in {1, 2, 4, 8}
      BY SetNumbers, PowerOfWidth
    <2> DEFINE y == p.v * p.w
    <2>2. y \in Nat /\ p.ls = 16 - y
      BY <2>1
    <2> HIDE DEF y
    <2> QED
      BY <2>1, <2>2
  <1>2. e \in Nat \ {0}
    BY <1>1, PowersUpTo16
  <1>3. x \in 1..255
    BY LmsTypes
  <1>4. p.u \in Nat /\ DigestLen \in Nat \ {0} /\ p.u * p.w = 8 * DigestLen /\ p.w \in {1, 2, 4, 8}
    BY SetNumbers, PowerOfWidth
  <1>5. DigestLen <= p.u /\ p.u # 0
    BY <1>4
  <1>6. p.u * x * e < 32768
    <2>1. 2 ^ 15 = 32768
      OBVIOUS
    <2>2. p.u * x * e < 2 ^ 15
      BY Zenon DEF Consistent
    <2> DEFINE z == p.u * x * e
               g == 2 ^ 15
    <2>3. g = 32768 /\ z < g
      BY <2>1, <2>2
    <2> HIDE DEF z, g
    <2>4. z < 32768
      BY <2>3
    <2> QED
      BY <2>4 DEF z
  <1> HIDE DEF e, x
  <1>7. p.u <= p.u * x /\ p.u * x \in Nat
    BY <1>3, <1>4
  <1> DEFINE y == p.u * x
  <1>8. y \in Nat \ {0} /\ p.u <= y
    BY <1>4, <1>5, <1>7
  <1>9. y * e < 32768
    BY <1>6
  <1> HIDE DEF y
  <1>10. y <= y * e /\ e <= y * e /\ y * e \in Nat
    BY <1>2, <1>8
  <1> DEFINE z == y * e
  <1>11. z < 32768 /\ y <= z /\ e <= z /\ z \in Nat
    BY <1>9, <1>10
  <1> HIDE DEF z
  <1>12. p.u < 32768 /\ DigestLen < 32768 /\ e < 32768
    BY <1>2, <1>4, <1>5, <1>8, <1>11
  <1> QED
    BY <1>2, <1>3, <1>4, <1>6, <1>12 DEF e, x

\* The digest the digits are of, before its checksum.
QDigest(c, m) == Sha256(Prefix(c.pk.id, c.pk.q, D_MESG) \o c.sig.c \o m)

LEMMA QDigestIs ==
    ASSUME NEW c, LmsCase(c), NEW m \in Seq(Octet)
    PROVE  QDigest(c, m) \in Seq(Octet) /\ Len(QDigest(c, m)) = DigestLen
  <1>1. c.sig.c \in Seq(Octet)
    <2>1. c.sig.c \in HashValue
      BY DEF LmsCase, LmsSignatures
    <2>2. DigestLen \in Nat
      BY WidthsAssumption
    <2> QED
      BY <2>1, <2>2 DEF HashValue
  <1>2. c.pk.id \in Seq(Octet) /\ c.pk.q \in Nat
    <2>1. c.pk.q \in 0 .. LeafCount(c.p) - 1 /\ c.pk.id \in Seq(Octet)
      BY Zenon DEF LmsCase
    <2> DEFINE n == LeafCount(c.p) - 1
    <2>2. c.pk.q \in 0 .. n
      BY <2>1
    <2> HIDE DEF n
    <2> QED
      BY <2>1, <2>2
  <1>3. Prefix(c.pk.id, c.pk.q, D_MESG) \in Seq(Octet)
    <2>1. D_MESG \in Nat
      BY SMT DEF D_MESG
    <2> QED
      BY <1>2, <2>1, PrefixIs
  <1>4. Prefix(c.pk.id, c.pk.q, D_MESG) \o c.sig.c \o m \in Seq(Octet)
    <2> DEFINE a == Prefix(c.pk.id, c.pk.q, D_MESG)
    <2>1. a \in Seq(Octet)
      BY <1>3
    <2> HIDE DEF a
    <2>2. a \o c.sig.c \o m \in Seq(Octet)
      BY <1>1, <2>1
    <2> QED
      BY <2>2 DEF a
  <1> QED
    BY <1>4, HashIs DEF QDigest

\* Every digit of a string of bytes is one, and their sum stays in bounds.
LEMMA SumsBounded ==
    ASSUME NEW p, Consistent(p), NEW q \in Seq(Octet), Len(q) = DigestLen, NEW F, Sums(F, q, p), NEW k \in 0..p.u
    PROVE  F[k] \in Nat /\ F[k] <= k * MaxCoef(p)
  <1> DEFINE x == MaxCoef(p)
             C(j) == Coef(q, j, p.w)
             S == {j \in Nat : j <= p.u => F[j] \in Nat /\ F[j] <= j * x}
  <1>1. x \in 1..255 /\ p.u \in Nat
    BY LmsTypes
  <1>2. F[0] = 0 /\ \A j \in 1..p.u : F[j] = F[j - 1] + (x - C(j - 1))
    BY Zenon DEF Sums
  <1>3. ASSUME NEW j \in 0 .. p.u - 1 PROVE C(j) \in 0..x
    <2>1. j \in Nat /\ j < p.u
      BY <1>1
    <2>2. ByteOf(p, j) \in Nat /\ ByteOf(p, j) < DigestLen
      BY <2>1, DigitPlace
    <2>3. q[ByteOf(p, j) + 1] \in Octet
      BY <2>2
    <2> QED
      BY <2>1, <2>3, DigitIs
  <1> HIDE DEF x, C
  <1>4. 0 \in S
    BY <1>1, <1>2
  <1>5. ASSUME NEW j \in Nat, j \in S PROVE j + 1 \in S
    <2>1. ASSUME j + 1 <= p.u PROVE F[j + 1] \in Nat /\ F[j + 1] <= (j + 1) * x
      <3>1. j \in 0 .. p.u - 1 /\ j + 1 \in 1..p.u /\ (j + 1) - 1 = j /\ j <= p.u
        BY <1>1, <2>1
      <3>2. F[j] \in Nat /\ F[j] <= j * x
        BY <1>5, <3>1
      <3>3. F[j + 1] = F[j] + (x - C(j))
        BY <1>2, <3>1
      <3>4. C(j) \in 0..x
        BY <1>3, <3>1
      <3> QED
        BY <1>1, <3>2, <3>3, <3>4
    <2> QED
      BY <2>1
  <1>6. k \in Nat /\ k \in S
    <2>1. k \in Nat
      BY <1>1
    <2> HIDE DEF S
    <2> QED
      BY <1>4, <1>5, <2>1, InductionOn
  <1>7. k <= p.u
    BY <1>1
  <1> QED
    BY <1>6, <1>7 DEF x

\* The checksum, shifted, leaves the sign bit of its two bytes clear.
LEMMA ChecksumFits ==
    ASSUME NEW p, Consistent(p), NEW q \in Seq(Octet), Len(q) = DigestLen
    PROVE  /\ CoefSum(q, p) \in Word /\ 2 ^ p.ls \in Word
           /\ Cksm(q, p) = CoefSum(q, p) * 2 ^ p.ls
           /\ Cksm(q, p) \in Word /\ Cksm(q, p) < 32768
  <1> DEFINE e == 2 ^ p.ls
             s == CoefSum(q, p)
             x == p.u * MaxCoef(p)
  <1>1. PICK F : Sums(F, q, p)
    BY SumsExist
  <1>2. s \in Nat /\ s <= x
    <2>1. p.u \in 0..p.u
      BY SetNumbers
    <2>2. F[p.u] \in Nat /\ F[p.u] <= p.u * MaxCoef(p)
      BY <1>1, <2>1, SumsBounded
    <2>3. F[p.u] = CoefSum(q, p)
      BY <1>1 DEF Sums
    <2> QED
      BY <2>2, <2>3, Zenon
  <1>3. e \in Nat \ {0} /\ x \in Nat /\ x * e < 32768 /\ e < 32768
    <2>1. /\ 2 ^ p.ls \in Nat \ {0} /\ MaxCoef(p) \in 1..255
          /\ p.u < 32768 /\ DigestLen < 32768 /\ 2 ^ p.ls < 32768 /\ p.u \in Nat
          /\ p.u * MaxCoef(p) * 2 ^ p.ls < 32768
      BY DigestShort
    <2> DEFINE g == MaxCoef(p)
               d == 2 ^ p.ls
    <2> HIDE DEF g, d
    <2>6. /\ d \in Nat \ {0} /\ g \in 1..255
          /\ p.u < 32768 /\ DigestLen < 32768 /\ d < 32768 /\ p.u \in Nat
          /\ p.u * g * d < 32768
      BY <2>1 DEF g, d
    <2>2. g \in Nat /\ d \in Nat \ {0} /\ p.u \in Nat /\ p.u * g * d < 32768 /\ d < 32768
      BY <2>6
    <2>3. p.u * g \in Nat /\ d \in Nat \ {0} /\ p.u * g * d < 32768 /\ d < 32768
      BY <2>2
    <2>4. x = p.u * g /\ e = d
      BY Zenon DEF g, d
    <2> HIDE DEF x, e
    <2>5. x * e = p.u * g * d
      BY <2>4, Zenon
    <2> QED
      BY <2>3, <2>4, <2>5
  <1>4. Cksm(q, p) = (s * e) % 65536
    <2>1. 2 ^ 16 = 65536
      OBVIOUS
    <2>2. Cksm(q, p) = (s * e) % 2 ^ 16
      BY Zenon DEF Cksm
    <2> QED
      BY <2>1, <2>2
  <1> HIDE DEF e, s, x
  <1>5. s * e <= x * e /\ s <= s * e /\ s * e \in Nat /\ x * e \in Nat
    <2>1. x * e - s * e = (x - s) * e
      BY <1>2, <1>3
    <2>2. (x - s) * e \in Nat
      BY <1>2, <1>3
    <2>3. s * e \in Nat /\ x * e \in Nat
      BY <1>2, <1>3
    <2>4. s * e - s = s * (e - 1)
      BY <1>2, <1>3
    <2>5. s * (e - 1) \in Nat
      BY <1>2, <1>3
    <2> DEFINE y == s * e
               z == x * e
               d == (x - s) * e
               g == s * (e - 1)
    <2>6. y \in Nat /\ z \in Nat /\ d \in Nat /\ g \in Nat /\ z - y = d /\ y - s = g
      BY <2>1, <2>2, <2>3, <2>4, <2>5
    <2> HIDE DEF y, z, d, g
    <2>7. y <= z /\ s <= y
      BY <1>2, <2>6
    <2> QED
      BY <2>6, <2>7 DEF y, z
  <1> DEFINE y == s * e
             z == x * e
  <1>6. y \in Nat /\ z \in Nat /\ y <= z /\ s <= y /\ z < 32768 /\ Cksm(q, p) = y % 65536
    BY <1>3, <1>4, <1>5
  <1> HIDE DEF y, z
  <1>7. y < 32768 /\ s < 32768 /\ Cksm(q, p) = y
    BY <1>2, <1>6
  <1>8. \A v \in Nat : v < 32768 => v \in Word
    BY SMT DEF Word
  <1> QED
    BY <1>2, <1>3, <1>6, <1>7, <1>8, SMTT(30) DEF e, s, y

-----------------------------------------------------------------------------
(* The checksum, from the digest to the string the digits are read from.    *)

LEMMA DigitRange ==
    ASSUME NEW p, Consistent(p), NEW i, NEW s, Digits(p, i, s)
    PROVE  /\ Coef(s, i, p.w) \in 0 .. MaxCoef(p) /\ MaxCoef(p) \in 1..255
           /\ Coef(s, i, p.w) \in Word /\ MaxCoef(p) \in Word /\ MaxCoef(p) - Coef(s, i, p.w) \in Word
  <1>1. ByteOf(p, i) \in Nat /\ i \in Nat
    <2>1. i \in Nat
      BY DEF Digits
    <2> QED
      BY <2>1, DigitPlace
  <1>2. s[ByteOf(p, i) + 1] \in Octet
    <2> DEFINE k == ByteOf(p, i)
    <2>1. k \in Nat /\ k < Len(s) /\ s \in Seq(Octet) /\ Len(s) < 40000
      BY <1>1 DEF Digits
    <2> HIDE DEF k
    <2>2. s[k + 1] \in Octet
      BY <2>1, ByteTaken
    <2> QED
      BY <2>2 DEF k
  <1> DEFINE a == Coef(s, i, p.w)
             x == MaxCoef(p)
  <1>3. a \in 0..x
    BY <1>1, <1>2, DigitIs
  <1>4. x \in 1..255
    BY LmsTypes
  <1> HIDE DEF a, x
  <1>5. a \in Nat /\ x \in Nat /\ x - a \in Nat /\ a <= 2147483647 /\ x <= 2147483647 /\ x - a <= 2147483647
    BY <1>3, <1>4
  <1>6. a \in Word /\ x \in Word /\ x - a \in Word
    BY <1>5 DEF Word
  <1> QED
    BY <1>3, <1>4, <1>6 DEF a, x

\* What a digit lacks of its maximum is added to the sum.
LEMMA CsumTurnGoes ==
    ASSUME NEW c, NEW m, NEW p, Consistent(p), NEW i, NEW q, Digits(p, i, q), NEW v \in Word, NEW t,
           NEW b, IsSequence(b), NEW e, IsSequence(e),
           Goes(c, m, Run(t, On(b, q), On(e, Encode((MaxCoef(p) - Coef(q, i, p.w)) + v))))
    PROVE  /\ IsSequence(EmitCsumSum(p, i))
           /\ Goes(c, m, Run(EmitCsumSum(p, i) \o t, On(b, q), On(e, Encode(v))))
  <1> DEFINE a == Coef(q, i, p.w)
             x == MaxCoef(p)
             r == On(b, q)
             t1 == Then(Writing("toalt"), t)
             t2 == Then(Writing("add"), t1)
             t3 == Then(Writing("fromalt"), t2)
             t4 == Then(Writing("sub"), t3)
             t5 == Then(Writing("swap"), t4)
             t6 == Then(Numeral(x), t5)
  <1>1. a \in Word /\ x \in Word /\ x - a \in Word
    BY DigitRange
  <1>2. IsSequence(r) /\ IsSequence(t) /\ \A y : IsSequence(On(r, y)) /\ IsSequence(On(e, y))
    BY Sequences, GoesFormed DEF SeqFacts, Run
  <1>3. Goes(c, m, Run(t, r, On(e, Encode((x - a) + v))))
    OBVIOUS
  <1>4. "add" \in Binary /\ "sub" \in Binary
    BY DEF Binary
  <1> HIDE DEF r
  <1>5. Goes(c, m, Run(t1, On(r, Encode((x - a) + v)), e))
    BY <1>2, <1>3, StashGoes
  <1> HIDE DEF t1, a, x
  <1>6. Goes(c, m, Run(t2, On(On(r, Encode(x - a)), Encode(v)), e))
    BY <1>1, <1>2, <1>4, <1>5, NumbersGo
  <1> HIDE DEF t2
  <1>7. Goes(c, m, Run(t3, On(r, Encode(x - a)), On(e, Encode(v))))
    BY <1>2, <1>6, TakeGoes
  <1> HIDE DEF t3
  <1>8. Goes(c, m, Run(t4, On(On(r, Encode(x)), Encode(a)), On(e, Encode(v))))
    BY <1>1, <1>2, <1>4, <1>7, NumbersGo
  <1> HIDE DEF t4
  <1>9. Goes(c, m, Run(t5, On(On(r, Encode(a)), Encode(x)), On(e, Encode(v))))
    BY <1>2, <1>8, SwapGoes
  <1> HIDE DEF t5
  <1>10. Goes(c, m, Run(t6, On(r, Encode(a)), On(e, Encode(v))))
    BY <1>2, <1>9, NumberGoes
  <1> HIDE DEF t6
  <1>11. IsSequence(EmitCoefficient(p, i)) /\ Goes(c, m, Run(EmitCoefficient(p, i) \o t6, r, On(e, Encode(v))))
    <2>1. Goes(c, m, Run(t6, On(On(b, q), Encode(Coef(q, i, p.w))), On(e, Encode(v))))
      BY <1>10, Zenon DEF r, a
    <2> QED
      BY <2>1, CoefficientGoes DEF r
  <1>12. IsSequence(EmitCsumSum(p, i)) /\ EmitCsumSum(p, i) \o t = EmitCoefficient(p, i) \o t6
    BY <1>2, <1>11, CsumSumCode DEF t6, t5, t4, t3, t2, t1, x
  <1> QED
    BY <1>11, <1>12, Zenon DEF r

\* All the digits of the digest.
LEMMA CsumLoopGoes ==
    ASSUME NEW c, NEW m, LmsCase(c), NEW q \in Seq(Octet), Len(q) = DigestLen, NEW t,
           NEW b, IsSequence(b), NEW e, IsSequence(e),
           Goes(c, m, Run(t, On(b, q), On(e, Encode(CoefSum(q, c.p)))))
    PROVE  /\ IsSequence(Joined(CsumTurns(c.p)))
           /\ Goes(c, m, Run(Joined(CsumTurns(c.p)) \o t, On(b, q), On(e, Encode(0))))
  <1> DEFINE p == c.p
             n == p.u
             f == CsumTurns(p)
             turn(k) == [op |-> "lms_csum_sum", i |-> 0 + k - 1]
  <1>1. Consistent(p) /\ p.u \in Nat /\ DigestLen \in Nat /\ DigestLen < 32768
    <2>1. Consistent(p)
      BY DEF LmsCase
    <2>2. p.u \in Nat /\ DigestLen \in Nat
      BY <2>1, SetNumbers
    <2>3. DigestLen < 32768
      BY <2>1, DigestShort
    <2> QED
      BY <2>1, <2>2, <2>3
  <1>2. PICK F : Sums(F, q, p)
    BY <1>1, SumsExist
  <1>3. F[0] = 0 /\ F[n] = CoefSum(q, p) /\ \A k \in 1..n : F[k] = F[k - 1] + (MaxCoef(p) - Coef(q, k - 1, p.w))
    BY <1>2, Zenon DEF Sums
  <1>4. \A k \in 0..n : F[k] \in Word
    <2>1. CoefSum(q, p) \in Word
      BY <1>1, ChecksumFits
    <2> SUFFICES ASSUME NEW k \in 0..n PROVE F[k] \in Word
      OBVIOUS
    <2>2. F[k] \in Nat /\ F[k] <= k * MaxCoef(p)
      BY <1>1, <1>2, SumsBounded
    <2>3. MaxCoef(p) \in 1..255 /\ p.u < 32768
      BY <1>1, DigestShort
    <2> DEFINE x == MaxCoef(p)
    <2>4. x \in 1..255 /\ F[k] \in Nat /\ F[k] <= k * x /\ k \in Nat /\ k < 32768
      BY <1>1, <2>2, <2>3
    <2> HIDE DEF x, n
    <2>5. k * x <= 32768 * 255
      BY <2>4
    <2>6. F[k] <= 2147483647
      BY <2>4, <2>5
    <2> QED
      BY <2>4, <2>6 DEF Word
  <1> DEFINE mains == [k \in 1 .. n + 1 |-> On(b, q)]
             alts == [k \in 1 .. n + 1 |-> On(e, Encode(F[k - 1]))]
  <1>5. f = [k \in 1..n |-> f[k]] /\ \A k \in 1..n : f[k] = Call("lms_csum_sum", 0 + k - 1)
    <2>1. p.u - 1 - 0 + 1 = n
      BY <1>1
    <2>2. f = [k \in 1..n |-> Call("lms_csum_sum", 0 + k - 1)]
      BY <2>1, Zenon DEF CsumTurns
    <2> HIDE DEF f
    <2> QED
      BY <2>2
  <1>6. \A k \in 1..n : IsSequence(f[k]) /\ \A s : f[k] \o s = Then(turn(k), s)
    <2> SUFFICES ASSUME NEW k \in 1..n PROVE IsSequence(f[k]) /\ \A s : f[k] \o s = Then(turn(k), s)
      OBVIOUS
    <2> DEFINE g == Call("lms_csum_sum", 0 + k - 1)
    <2>1. IsSequence(g) /\ \A s : g \o s = Then(turn(k), s)
      BY CodeOne, ZenonT(40) DEF CodeFacts
    <2>2. f[k] = g
      BY <1>5
    <2> HIDE DEF g, f, turn
    <2> QED
      BY <2>1, <2>2
  <1>7. /\ \A k \in 1..n : /\ mains[k + 1] = On(b, q) /\ alts[k + 1] = On(e, Encode(F[k]))
                           /\ mains[k] = On(b, q) /\ alts[k] = On(e, Encode(F[k - 1]))
        /\ mains[n + 1] = On(b, q) /\ alts[n + 1] = On(e, Encode(F[n]))
        /\ mains[1] = On(b, q) /\ alts[1] = On(e, Encode(F[0]))
    <2>1. /\ \A k \in 1..n : k \in 1 .. n + 1 /\ k + 1 \in 1 .. n + 1 /\ (k + 1) - 1 = k
          /\ n + 1 \in 1 .. n + 1 /\ (n + 1) - 1 = n /\ 1 \in 1 .. n + 1 /\ 1 - 1 = 0
      BY <1>1
    <2> HIDE DEF n, f
    <2> QED
      BY <2>1, Zenon
  <1> HIDE DEF f, mains, alts
  <1>8. ASSUME NEW k \in 1..n, NEW s, Goes(c, m, Run(s, mains[k + 1], alts[k + 1]))
        PROVE  Goes(c, m, Run(f[k] \o s, mains[k], alts[k]))
    <2> DEFINE i == 0 + k - 1
    <2>1. i = k - 1 /\ i \in Nat /\ i < p.u /\ i \in 0..n /\ k - 1 \in 0..n
      BY <1>1
    <2>2. Digits(p, i, q)
      <3>1. ByteOf(p, i) < DigestLen
        BY <1>1, <2>1, DigitPlace
      <3> HIDE DEF i
      <3> QED
        BY <1>1, <2>1, <3>1 DEF Digits
    <2>3. F[k] = (MaxCoef(p) - Coef(q, i, p.w)) + F[k - 1]
      <3> DEFINE d == MaxCoef(p) - Coef(q, i, p.w)
      <3>1. d \in Word
        BY <1>1, <2>2, DigitRange
      <3>2. F[k - 1] \in Word
        BY <1>4, <2>1
      <3>3. F[k] = F[k - 1] + d
        BY <1>3, <2>1, Zenon
      <3> HIDE DEF d
      <3>4. d \in Nat /\ F[k - 1] \in Nat
        BY <3>1, <3>2 DEF Word
      <3>5. F[k] = d + F[k - 1]
        BY <3>3, <3>4
      <3> QED
        BY <3>5 DEF d
    <2>4. Goes(c, m, Run(s, On(b, q), On(e, Encode((MaxCoef(p) - Coef(q, i, p.w)) + F[k - 1]))))
      BY <1>7, <1>8, <2>3, Zenon
    <2>5. F[k - 1] \in Word
      BY <1>4, <2>1
    <2> HIDE DEF i, n
    <2>6. /\ IsSequence(EmitCsumSum(p, i))
          /\ Goes(c, m, Run(EmitCsumSum(p, i) \o s, On(b, q), On(e, Encode(F[k - 1]))))
      <3> DEFINE v == F[k - 1]
      <3>1. v \in Word /\ Goes(c, m, Run(s, On(b, q), On(e, Encode((MaxCoef(p) - Coef(q, i, p.w)) + v))))
        BY <2>4, <2>5, Zenon
      <3>2. Consistent(p)
        BY DEF LmsCase
      <3> HIDE DEF v, p
      <3>3. IsSequence(EmitCsumSum(p, i)) /\ Goes(c, m, Run(EmitCsumSum(p, i) \o s, On(b, q), On(e, Encode(v))))
        BY <2>2, <3>1, <3>2, CsumTurnGoes
      <3> QED
        BY <3>3, Zenon DEF v
    <2>7. IsSequence(s)
      BY <2>4, GoesFormed DEF Run
    <2> DEFINE o == [op |-> "lms_csum_sum", i |-> i]
    <2>8. o.op = "lms_csum_sum" /\ o.i = i
      OBVIOUS
    <2>9. o.op \in LmsPhases /\ o.op # "lms_step" /\ LmsBodyOf(c.p, c.pk, o) = EmitCsumSum(p, i)
      BY <2>8 DEF LmsPhases, LmsBodyOf
    <2> HIDE DEF o
    <2>10. Meets(c, m, Run(Then(o, s), On(b, q), On(e, Encode(F[k - 1]))))
      <3>1. Run(Then(o, s), On(b, q), On(e, Encode(F[k - 1]))).todo = Then(o, s)
        BY DEF Run, Config
      <3>2. Head(Then(o, s)) = o
        BY <2>7, Sequences DEF SeqFacts
      <3> QED
        BY <2>9, <3>1, <3>2, Zenon DEF Meets
    <2>11. Goes(c, m, Run(Then(o, s), On(b, q), On(e, Encode(F[k - 1]))))
      BY <2>6, <2>7, <2>9, <2>10, PhaseGoes
    <2> QED
      BY <1>6, <1>7, <2>11, Zenon DEF o, i
  <1>9. Goes(c, m, Run(t, mains[n + 1], alts[n + 1]))
    BY <1>3, <1>7, Zenon
  <1>10. IsSequence(Joined(f)) /\ Goes(c, m, Run(Joined(f) \o t, mains[1], alts[1]))
    <2>1. n \in Nat
      BY <1>1
    <2>2. \A k \in 1..n : IsSequence(f[k])
      BY <1>6
    <2> HIDE DEF n
    <2> QED
      BY <1>5, <1>8, <1>9, <2>1, <2>2, LoopGoes
  <1> QED
    BY <1>3, <1>7, <1>10, Zenon DEF f

\* A number in a fixed width.
LEMMA FixedGoes ==
    ASSUME NEW c, NEW m, NEW t, NEW b, IsSequence(b), NEW v \in Word, NEW n \in 1..8, Len(Encode(v)) <= n,
           NEW a, Goes(c, m, Run(t, On(b, LittleEndian(v, n)), a))
    PROVE  /\ IsSequence(FixedWidth(n))
           /\ Goes(c, m, Run(FixedWidth(n) \o t, On(b, Encode(v)), a))
  <1>1. IsSequence(t)
    BY GoesFormed DEF Run
  <1>2. IsSequence(Number(n)) /\ IsSequence(Op("num2bin"))
    BY CodeOne, Zenon DEF CodeFacts
  <1>3. IsSequence(FixedWidth(n)) /\ FixedWidth(n) \o t = Number(n) \o (Op("num2bin") \o t)
    BY <1>1, <1>2, SequenceConcat, SequenceAssoc DEF FixedWidth
  <1>4. FixedWidth(n) \o t = Then(Numeral(n), Then(Writing("num2bin"), t))
    BY <1>3, CodeOne, ZenonT(40) DEF CodeFacts
  <1>5. Goes(c, m, Run(Then(Numeral(n), Then(Writing("num2bin"), t)), On(b, Encode(v)), a))
    BY SpreadGoes
  <1> QED
    BY <1>3, <1>4, <1>5, Zenon

\* Two bytes change places.
LEMMA TwoBytes ==
    ASSUME NEW v \in Word
    PROVE  LET x == LittleEndian(v, 2)
           IN  /\ IsSequence(x) /\ Len(x) = 2
               /\ SubSeq(x, 1 + 1, 2) \o SubSeq(x, 0 + 1, 1) = BigEndian(v, 2)
  <1> DEFINE x == LittleEndian(v, 2)
             y == BigEndian(v, 2)
  <1>1. /\ y \in Seq(Octet) /\ Len(y) = 2 /\ x = Reverse(y)
    BY LittleEndianIs DEF LittleEndian
  <1> HIDE DEF y, x
  <1>2. x = [i \in 1..2 |-> y[(2 - i) + 1]]
    BY <1>1 DEF Reverse
  <1>7. y[1] \in Octet /\ y[2] \in Octet
    <2>1. y \in Seq(Octet) /\ 1 \in 1..Len(y) /\ 2 \in 1..Len(y)
      BY <1>1
    <2> QED
      BY <2>1, ElementOfSeq
  <1>8. x[1] = y[2] /\ x[2] = y[1]
    BY <1>2
  <1>3. x \in Seq(Octet) /\ Len(x) = 2 /\ x[1] = y[2] /\ x[2] = y[1]
    <2>1. x = [i \in 1..2 |-> x[i]]
      BY <1>2
    <2>2. x = <<y[2], y[1]>>
      BY <1>8, <2>1
    <2> QED
      BY <1>7, <1>8, <2>2
  <1>4. SubSeq(x, 1 + 1, 2) = <<y[1]>> /\ SubSeq(x, 0 + 1, 1) = <<y[2]>>
    <2>1. 1 \in Nat /\ 1 < Len(x) /\ 0 \in Nat /\ 0 < Len(x) /\ Len(x) < 40000
      BY <1>3
    <2>2. SubSeq(x, 1 + 1, 1 + 1) = <<x[1 + 1]>> /\ SubSeq(x, 0 + 1, 0 + 1) = <<x[0 + 1]>>
      <3>1. \A k \in Nat : k < Len(x) => SubSeq(x, k + 1, k + 1) = <<x[k + 1]>>
        <4> SUFFICES ASSUME NEW k \in Nat, k < Len(x) PROVE SubSeq(x, k + 1, k + 1) = <<x[k + 1]>>
          OBVIOUS
        <4>1. x \in Seq(Octet) /\ k < Len(x) /\ Len(x) < 40000
          BY <1>3, <2>1
        <4> QED
          BY <4>1, ByteTaken
      <3>2. 1 \in Nat /\ 1 < Len(x) /\ 0 \in Nat /\ 0 < Len(x)
        BY <2>1
      <3> QED
        BY <3>1, <3>2, Zenon
    <2>3. 1 + 1 = 2 /\ 0 + 1 = 1
      OBVIOUS
    <2> QED
      BY <1>8, <2>2, <2>3
  <1>5. <<y[1]>> \o <<y[2]>> = y
    BY <1>1
  <1>6. SubSeq(x, 1 + 1, 2) \o SubSeq(x, 0 + 1, 1) = y
    BY <1>4, <1>5, Zenon
  <1> QED
    BY <1>3, <1>6, SequenceIs DEF x, y

LEMMA ExchangedGoes ==
    ASSUME NEW c, NEW m, NEW t, NEW b, IsSequence(b), NEW v \in Word, NEW a,
           Goes(c, m, Run(t, On(b, BigEndian(v, 2)), a))
    PROVE  /\ IsSequence(BytesExchanged)
           /\ Goes(c, m, Run(BytesExchanged \o t, On(b, LittleEndian(v, 2)), a))
  <1> DEFINE x == LittleEndian(v, 2)
             y == SubSeq(x, 1 + 1, 2)
             z == SubSeq(x, 0 + 1, 1)
             t1 == Then(Writing("cat"), t)
             t2 == Then(Writing("substr"), t1)
             t3 == Then(Numeral(1), t2)
             t4 == Then(Numeral(0), t3)
             t5 == Then(Writing("swap"), t4)
             t6 == Then(Writing("substr"), t5)
             t7 == Then(Numeral(2), t6)
             t8 == Then(Numeral(1), t7)
             t9 == Then(Writing("dup"), t8)
  <1>1. IsSequence(x) /\ Len(x) = 2 /\ y \o z = BigEndian(v, 2)
    BY TwoBytes
  <1>2. IsSequence(t) /\ \A s, u : IsSequence(s) => IsSequence(On(s, u))
    BY Sequences, GoesFormed DEF SeqFacts, Run
  <1>3. Goes(c, m, Run(t, On(b, y \o z), a))
    BY <1>1, Zenon
  <1>4. 0 \in Word /\ 1 \in Word /\ 2 \in Word
    BY SmallNumbers
  <1>5. IsSequence(BytesExchanged) /\ BytesExchanged \o t = t9
    BY <1>2, ExchangedCode
  <1> HIDE DEF x, y, z
  <1>6. Goes(c, m, Run(t1, On(On(b, y), z), a))
    BY <1>3, CatGoes
  <1> HIDE DEF t1
  <1>7. Goes(c, m, Run(t2, On(On(On(On(b, y), x), Encode(0)), Encode(1)), a))
    <2>1. Goes(c, m, Run(t1, On(On(b, y), SubSeq(x, 0 + 1, 1)), a))
      BY <1>6, Zenon DEF z
    <2>2. IsSequence(On(b, y)) /\ 0 <= 1 /\ 1 <= Len(x)
      BY <1>1, <1>2
    <2> QED
      BY <1>1, <1>4, <2>1, <2>2, SubstrGoes
  <1> HIDE DEF t2
  <1>8. Goes(c, m, Run(t3, On(On(On(b, y), x), Encode(0)), a))
    BY <1>2, <1>7, NumberGoes
  <1> HIDE DEF t3
  <1>9. Goes(c, m, Run(t4, On(On(b, y), x), a))
    BY <1>2, <1>8, NumberGoes
  <1> HIDE DEF t4
  <1>10. Goes(c, m, Run(t5, On(On(b, x), y), a))
    BY <1>2, <1>9, SwapGoes
  <1> HIDE DEF t5
  <1>11. Goes(c, m, Run(t6, On(On(On(On(b, x), x), Encode(1)), Encode(2)), a))
    <2>1. Goes(c, m, Run(t5, On(On(b, x), SubSeq(x, 1 + 1, 2)), a))
      BY <1>10, Zenon DEF y
    <2>2. IsSequence(On(b, x)) /\ 1 <= 2 /\ 2 <= Len(x)
      BY <1>1, <1>2
    <2> QED
      BY <1>1, <1>4, <2>1, <2>2, SubstrGoes
  <1> HIDE DEF t6
  <1>12. Goes(c, m, Run(t7, On(On(On(b, x), x), Encode(1)), a))
    BY <1>2, <1>11, NumberGoes
  <1> HIDE DEF t7
  <1>13. Goes(c, m, Run(t8, On(On(b, x), x), a))
    BY <1>2, <1>12, NumberGoes
  <1> HIDE DEF t8
  <1>14. Goes(c, m, Run(t9, On(b, x), a))
    BY <1>13, DupGoes
  <1> QED
    BY <1>5, <1>14, Zenon DEF x

\* From the digest to the digest and its checksum.
LEMMA ChecksumGoes ==
    ASSUME NEW c, NEW m, LmsCase(c), NEW q \in Seq(Octet), Len(q) = DigestLen, NEW t,
           NEW b, IsSequence(b), NEW e, IsSequence(e),
           Goes(c, m, Run(t, On(b, CoefficientSource(q, c.p)), e))
    PROVE  /\ IsSequence(EmitChecksumAndV(c.p))
           /\ Goes(c, m, Run(EmitChecksumAndV(c.p) \o t, On(b, q), e))
  <1> DEFINE p == c.p
             s == CoefSum(q, p)
             z == 2 ^ p.ls
             k == Cksm(q, p)
             r == On(b, q)
             t1 == Then(Writing("cat"), t)
             t2 == BytesExchanged \o t1
             t3 == FixedWidth(2) \o t2
             t4 == Then(Writing("mul"), t3)
             t5 == Then(Numeral(z), t4)
             t6 == Then(Writing("fromalt"), t5)
             t7 == Joined(CsumTurns(p)) \o t6
             t8 == Then(Writing("toalt"), t7)
             t9 == Then(Numeral(0), t8)
  <1>1. Consistent(p)
    BY DEF LmsCase
  <1>2. s \in Word /\ z \in Word /\ k = s * z /\ k \in Word /\ k < 32768
    BY <1>1, ChecksumFits
  <1>3. IsSequence(r) /\ IsSequence(t) /\ \A y : IsSequence(On(r, y)) /\ IsSequence(On(e, y))
    BY Sequences, GoesFormed DEF SeqFacts, Run
  <1>4. CoefficientSource(q, p) = q \o BigEndian(k, 2)
    BY DEF CoefficientSource
  <1> HIDE DEF k, s, z
  <1>5. Goes(c, m, Run(t1, On(r, BigEndian(k, 2)), e))
    BY <1>4, CatGoes
  <1> HIDE DEF t1, r
  <1>6. IsSequence(BytesExchanged) /\ Goes(c, m, Run(t2, On(r, LittleEndian(k, 2)), e))
    BY <1>2, <1>3, <1>5, ExchangedGoes
  <1> HIDE DEF t2
  <1>7. IsSequence(FixedWidth(2)) /\ Goes(c, m, Run(t3, On(r, Encode(k)), e))
    <2>1. Len(Encode(k)) <= 2
      BY <1>2, FieldFits
    <2>2. 2 \in 1..8 /\ k \in Word
      BY <1>2
    <2> QED
      BY <1>3, <1>6, <2>1, <2>2, FixedGoes
  <1> HIDE DEF t3
  <1>8. Goes(c, m, Run(t4, On(On(r, Encode(s)), Encode(z)), e))
    <2>1. "mul" \in Binary
      BY DEF Binary
    <2>2. Goes(c, m, Run(t3, On(r, Encode(s * z)), e))
      <3>1. k = s * z
        BY <1>2
      <3> QED
        BY <1>7, <3>1, Zenon
    <2> QED
      BY <1>2, <1>3, <2>1, <2>2, NumbersGo
  <1> HIDE DEF t4
  <1>9. Goes(c, m, Run(t5, On(r, Encode(s)), e))
    BY <1>3, <1>8, NumberGoes
  <1> HIDE DEF t5
  <1>10. Goes(c, m, Run(t6, r, On(e, Encode(s))))
    BY <1>3, <1>9, TakeGoes
  <1> HIDE DEF t6
  <1>11. IsSequence(Joined(CsumTurns(p))) /\ Goes(c, m, Run(t7, r, On(e, Encode(0))))
    BY <1>10, CsumLoopGoes DEF r, s
  <1> HIDE DEF t7
  <1>12. Goes(c, m, Run(t8, On(r, Encode(0)), e))
    BY <1>3, <1>11, StashGoes
  <1> HIDE DEF t8
  <1>13. Goes(c, m, Run(t9, r, e))
    BY <1>3, <1>12, NumberGoes
  <1> HIDE DEF t9
  <1>14. IsSequence(EmitChecksumAndV(p)) /\ EmitChecksumAndV(p) \o t = t9
    BY <1>3, <1>6, <1>7, <1>11, ChecksumCode DEF t9, t8, t7, t6, t5, t4, t3, t2, t1, z
  <1> QED
    BY <1>13, <1>14, Zenon DEF r

-----------------------------------------------------------------------------
(* The tree, from the one-time key to the verdict.                          *)

LEMMA FunctionSequence ==
    ASSUME NEW n \in Nat, NEW g, g = [i \in 1..n |-> g[i]]
    PROVE  IsSequence(g) /\ Len(g) = n
  <1> DEFINE S == {g[i] : i \in 1..n}
  <1>1. g \in [1..n -> S]
    OBVIOUS
  <1>2. g \in Seq(S) /\ Len(g) = n
    <2> HIDE DEF S
    <2> QED
      BY <1>1
  <1> HIDE DEF S
  <1> QED
    BY <1>2, SequenceIs

\* A hash and a prefix are strings of bytes, whatever they are of.
LEMMA HashSequence ==
    ASSUME NEW b
    PROVE  IsSequence(Sha256(b)) /\ Len(Sha256(b)) = DigestLen
  <1> DEFINE g == Sha256(b)
             x(j) == ((Absorbed(b) % (4093 + 2 * j)) * 37) % 256
  <1>1. g = [j \in 1..DigestLen |-> x(j)]
    BY DEF Sha256
  <1>2. DigestLen \in Nat
    BY WidthsAssumption
  <1> HIDE DEF g, x
  <1>3. g = [j \in 1..DigestLen |-> g[j]]
    BY <1>1
  <1>4. IsSequence(g) /\ Len(g) = DigestLen
    BY <1>2, <1>3, FunctionSequence
  <1> QED
    BY <1>4 DEF g

LEMMA PrefixSequence ==
    ASSUME NEW id, IsSequence(id), NEW idx, NEW domain
    PROVE  IsSequence(Prefix(id, idx, domain))
  <1>1. ASSUME NEW v, NEW n \in Nat PROVE IsSequence(BigEndian(v, n))
    <2> DEFINE g == BigEndian(v, n)
               x(i) == IF n - i > 3 THEN 0 ELSE (v \div ByteWeight[n - i + 1]) % 256
    <2>1. g = [i \in 1..n |-> x(i)]
      BY DEF BigEndian
    <2> HIDE DEF g, x
    <2>2. g = [i \in 1..n |-> g[i]]
      BY <2>1
    <2>3. IsSequence(g)
      BY <2>2, FunctionSequence
    <2> QED
      BY <2>3 DEF g
  <1>2. IsSequence(BigEndian(idx, 4)) /\ IsSequence(BigEndian(domain, 2))
    BY <1>1
  <1>3. IsSequence(id \o BigEndian(idx, 4))
    BY <1>2, SequenceConcat
  <1> QED
    BY <1>2, <1>3, SequenceConcat DEF Prefix

\* Sequences with the same items are the same.
LEMMA SameSequence ==
    ASSUME NEW s, NEW t, IsSequence(s), IsSequence(t), Len(s) = Len(t), \A i \in 1..Len(t) : s[i] = t[i]
    PROVE  s = t
  <1> DEFINE X == Range(s) \cup Range(t)
  <1>1. s \in Seq(X) /\ t \in Seq(X)
    BY SeqMonotonic DEF IsSequence
  <1> HIDE DEF X
  <1>2. \A i \in 1..Len(s) : s[i] = t[i]
    OBVIOUS
  <1> QED
    BY <1>1, <1>2, SeqEqual

\* Items laid on a stack from the back, all but the first k of them.
Pile(e, k)     == [i \in 1 .. Len(e) - k |-> e[Len(e) + 1 - i]]
Piled(b, e, k) == b \o Pile(e, k)

LEMMA PileIs ==
    ASSUME NEW e, IsSequence(e)
    PROVE  /\ Len(e) \in Nat /\ Pile(e, Len(e)) = <<>> /\ Pile(e, 0) = Reverse(e)
           /\ \A k \in 0..Len(e) : IsSequence(Pile(e, k)) /\ Len(Pile(e, k)) = Len(e) - k
           /\ \A k \in 1..Len(e) : Pile(e, k - 1) = On(Pile(e, k), e[k])
  <1> DEFINE n == Len(e)
  <1>1. n \in Nat
    BY SequenceLen
  <1>2. ASSUME NEW k \in 0..n PROVE IsSequence(Pile(e, k)) /\ Len(Pile(e, k)) = n - k
    <2> DEFINE g == Pile(e, k)
    <2>1. g = [i \in 1 .. n - k |-> g[i]] /\ n - k \in Nat
      BY <1>1 DEF Pile
    <2> HIDE DEF g
    <2>2. IsSequence(g) /\ Len(g) = n - k
      BY <2>1, FunctionSequence
    <2> QED
      BY <2>2 DEF g
  <1>3. Pile(e, n) = <<>>
    <2>1. Len(Pile(e, n)) = 0 /\ IsSequence(Pile(e, n))
      BY <1>1, <1>2
    <2> QED
      BY <2>1, SequenceLen
  <1>4. Pile(e, 0) = Reverse(e)
    <2>1. \A i \in 1..n : n + 1 - i = (n - i) + 1
      BY <1>1
    <2>2. n - 0 = n
      BY <1>1
    <2> QED
      BY <2>1, <2>2 DEF Pile, Reverse
  <1>5. ASSUME NEW k \in 1..n PROVE Pile(e, k - 1) = On(Pile(e, k), e[k])
    <2> DEFINE g == Pile(e, k)
               h == Pile(e, k - 1)
               w == <<e[k]>>
    <2>1. /\ IsSequence(g) /\ Len(g) = n - k /\ IsSequence(h) /\ Len(h) = n - (k - 1)
          /\ IsSequence(w) /\ Len(w) = 1 /\ w[1] = e[k]
      <3>1. IsSequence(w) /\ Len(w) = 1 /\ w[1] = e[k]
        BY SequenceOne
      <3>2. k \in 0..n /\ k - 1 \in 0..n
        BY <1>1
      <3>3. IsSequence(g) /\ Len(g) = n - k
        BY <1>2, <3>2
      <3>4. IsSequence(h) /\ Len(h) = n - (k - 1)
        BY <1>2, <3>2
      <3> QED
        BY <3>1, <3>3, <3>4
    <2>2. \A i \in 1 .. n - k : g[i] = e[n + 1 - i]
      BY DEF Pile
    <2>3. \A i \in 1 .. n - (k - 1) : h[i] = e[n + 1 - i]
      BY DEF Pile
    <2> HIDE DEF g, h, w, n
    <2>4. /\ IsSequence(g \o w) /\ Len(g \o w) = Len(g) + 1
          /\ \A i \in 1 .. Len(g) + 1 : (g \o w)[i] = IF i <= Len(g) THEN g[i] ELSE w[i - Len(g)]
      BY <2>1, SequenceConcat
    <2>5. Len(g \o w) = Len(h)
      BY <1>1, <2>1, <2>4
    <2>6. ASSUME NEW i \in 1..Len(h) PROVE (g \o w)[i] = h[i]
      <3>1. i \in 1 .. Len(g) + 1 /\ i \in 1 .. n - (k - 1)
        BY <1>1, <2>1
      <3>2. CASE i <= Len(g)
        <4>1. i \in 1 .. n - k
          BY <1>1, <2>1, <3>1, <3>2
        <4> QED
          BY <2>2, <2>3, <2>4, <3>1, <3>2, <4>1
      <3>3. CASE ~(i <= Len(g))
        <4>1. i - Len(g) = 1 /\ n + 1 - i = k
          BY <1>1, <2>1, <3>1, <3>3
        <4> QED
          BY <2>1, <2>3, <2>4, <3>1, <3>3, <4>1
      <3> QED
        BY <3>2, <3>3
    <2>7. g \o w = h
      <3>1. DOMAIN h = 1..Len(h) /\ DOMAIN (g \o w) = 1..Len(h)
        BY <2>1, <2>4, <2>5, SequenceLen
      <3> DEFINE z == g \o w
      <3>3. IsSequence(h) /\ IsSequence(z) /\ Len(z) = Len(h)
        BY <2>1, <2>4, <2>5
      <3>4. \A i \in 1..Len(h) : z[i] = h[i]
        BY <2>6
      <3> HIDE DEF z
      <3>2. z = h
        BY <3>3, <3>4, SameSequence
      <3> QED
        BY <3>2 DEF z
    <2> QED
      BY <2>7 DEF g, h, w, On
  <1> QED
    BY <1>1, <1>2, <1>3, <1>4, <1>5

LEMMA PiledIs ==
    ASSUME NEW e, IsSequence(e), NEW b, IsSequence(b)
    PROVE  /\ Len(e) \in Nat /\ Len(b) \in Nat /\ Piled(b, e, Len(e)) = b /\ Piled(b, e, 0) = b \o Reverse(e)
           /\ \A k \in 0..Len(e) : IsSequence(Piled(b, e, k)) /\ Len(Piled(b, e, k)) = Len(b) + (Len(e) - k)
           /\ \A k \in 1..Len(e) : Piled(b, e, k - 1) = On(Piled(b, e, k), e[k])
  <1>1. /\ Len(e) \in Nat /\ Pile(e, Len(e)) = <<>> /\ Pile(e, 0) = Reverse(e)
        /\ \A k \in 0..Len(e) : IsSequence(Pile(e, k)) /\ Len(Pile(e, k)) = Len(e) - k
        /\ \A k \in 1..Len(e) : Pile(e, k - 1) = On(Pile(e, k), e[k])
    BY PileIs
  <1>2. b \o <<>> = b
    BY ConcatEmptySeq DEF IsSequence
  <1>3. \A k \in 0..Len(e) : IsSequence(Piled(b, e, k)) /\ Len(Piled(b, e, k)) = Len(b) + (Len(e) - k)
    BY <1>1, SequenceConcat DEF Piled
  <1>4. ASSUME NEW k \in 1..Len(e) PROVE Piled(b, e, k - 1) = On(Piled(b, e, k), e[k])
    <2> DEFINE g == Pile(e, k)
               w == <<e[k]>>
    <2>1. IsSequence(g) /\ IsSequence(w)
      BY <1>1, SequenceOne
    <2>2. Pile(e, k - 1) = g \o w
      BY <1>1 DEF On
    <2> HIDE DEF g, w
    <2>5. Regrouped(b, g, w)
      BY <2>1, Regroups
    <2>3. (b \o g) \o w = b \o (g \o w)
      BY <2>5, Zenon DEF Regrouped
    <2>4. Piled(b, e, k - 1) = (b \o g) \o w
      BY <2>2, <2>3, Zenon DEF Piled
    <2> QED
      BY <2>4, Zenon DEF Piled, On, g, w
  <1>5. Len(b) \in Nat
    BY SequenceLen
  <1> QED
    BY <1>1, <1>2, <1>3, <1>4, <1>5 DEF Piled


\* One level up.
LEMMA LevelGoes ==
    ASSUME NEW c, NEW m, NEW key, IsSequence(key.id), NEW r, NEW node, IsSequence(node), NEW sibling, IsSequence(sibling),
           NEW t, NEW b, IsSequence(b), NEW a, Goes(c, m, Run(t, On(b, NodeAbove(key, r, node, sibling)), a))
    PROVE  /\ IsSequence(EmitLevel(key, r))
           /\ Goes(c, m, Run(EmitLevel(key, r) \o t, On(On(b, sibling), node), a))
  <1> DEFINE x == Prefix(key.id, r \div 2, D_INTR)
             t1 == Then(Writing("sha256"), t)
             t2 == ThenNext \o t1
             t3 == Prefixed(x) \o t2
  <1>1. IsSequence(x) /\ IsSequence(t) /\ \A y : IsSequence(On(b, y))
    BY Sequences, GoesFormed, PrefixSequence DEF SeqFacts, Run
  <1> HIDE DEF x
  <1>2. IsSequence(t1) /\ IsSequence(ThenNext) /\ IsSequence(Prefixed(x)) /\ IsSequence(t2)
    <2>1. IsSequence(t1)
      BY <1>1, Sequences DEF SeqFacts
    <2> HIDE DEF t1
    <2>2. IsSequence(ThenNext) /\ IsSequence(Prefixed(x))
      BY <2>1, ThenNextCode, PrefixedCode
    <2> QED
      BY <2>1, <2>2, SequenceConcat
  <1>3. CASE r % 2 = 1
    <2>1. NodeAbove(key, r, node, sibling) = Sha256((x \o sibling) \o node)
      <3>1. NodeAbove(key, r, node, sibling) = Sha256(x \o (sibling \o node))
        BY <1>3, Zenon DEF NodeAbove, x
      <3>3. Regrouped(x, sibling, node)
        BY <1>1, Regroups
      <3>2. (x \o sibling) \o node = x \o (sibling \o node)
        BY <3>3, Zenon DEF Regrouped
      <3> QED
        BY <3>1, <3>2, Zenon
    <2>2. Goes(c, m, Run(t1, On(b, (x \o sibling) \o node), a))
      <3>1. Goes(c, m, Run(t, On(b, Sha256((x \o sibling) \o node)), a))
        BY <2>1, Zenon
      <3> QED
        BY <3>1, ShaGoes
    <2> HIDE DEF t1
    <2>3. Goes(c, m, Run(t2, On(On(b, node), x \o sibling), a))
      BY <2>2, ThenNextGoes
    <2> HIDE DEF t2
    <2>4. Goes(c, m, Run(t3, On(On(b, node), sibling), a))
      BY <1>1, <2>3, PrefixedGoes
    <2> HIDE DEF t3
    <2>5. Goes(c, m, Run(Then(Writing("swap"), t3), On(On(b, sibling), node), a))
      BY <2>4, SwapGoes
    <2>6. /\ IsSequence(Op("swap") \o Prefixed(x) \o ThenNext \o Op("sha256"))
          /\ (Op("swap") \o Prefixed(x) \o ThenNext \o Op("sha256")) \o t = Then(Writing("swap"), t3)
      BY <1>1, <1>2, RightCode DEF t3, t2, t1
    <2>7. EmitLevel(key, r) = Op("swap") \o Prefixed(x) \o ThenNext \o Op("sha256")
      BY <1>3, Zenon DEF EmitLevel, x
    <2> QED
      BY <2>5, <2>6, <2>7, Zenon
  <1>4. CASE r % 2 # 1
    <2>1. NodeAbove(key, r, node, sibling) = Sha256((x \o node) \o sibling)
      <3>1. NodeAbove(key, r, node, sibling) = Sha256(x \o (node \o sibling))
        BY <1>4, Zenon DEF NodeAbove, x
      <3>3. Regrouped(x, node, sibling)
        BY <1>1, Regroups
      <3>2. (x \o node) \o sibling = x \o (node \o sibling)
        BY <3>3, Zenon DEF Regrouped
      <3> QED
        BY <3>1, <3>2, Zenon
    <2>2. Goes(c, m, Run(t1, On(b, (x \o node) \o sibling), a))
      <3>1. Goes(c, m, Run(t, On(b, Sha256((x \o node) \o sibling)), a))
        BY <2>1, Zenon
      <3> QED
        BY <3>1, ShaGoes
    <2> HIDE DEF t1
    <2>3. Goes(c, m, Run(t2, On(On(b, sibling), x \o node), a))
      BY <2>2, ThenNextGoes
    <2> HIDE DEF t2
    <2>4. Goes(c, m, Run(t3, On(On(b, sibling), node), a))
      BY <1>1, <2>3, PrefixedGoes
    <2> HIDE DEF t3
    <2>6. /\ IsSequence(Prefixed(x) \o ThenNext \o Op("sha256"))
          /\ (Prefixed(x) \o ThenNext \o Op("sha256")) \o t = t3
      BY <1>1, <1>2, LeftCode DEF t3, t2, t1
    <2>7. EmitLevel(key, r) = Prefixed(x) \o ThenNext \o Op("sha256")
      BY <1>4, Zenon DEF EmitLevel, x
    <2> QED
      BY <2>4, <2>6, <2>7, Zenon
  <1> QED
    BY <1>3, <1>4

\* The parts of a signature and of a key.
LEMMA CaseParts ==
    ASSUME NEW c, LmsCase(c)
    PROVE  /\ Consistent(c.p) /\ {c.p.h, c.p.p} \subseteq Nat /\ IsSequence(c.pk.id)
           /\ IsSequence(c.sig.path) /\ Len(c.sig.path) = c.p.h
           /\ \A j \in 1..c.p.h : IsSequence(c.sig.path[j])
           /\ IsSequence(c.sig.y) /\ Len(c.sig.y) = c.p.p
           /\ \A j \in 1..c.p.p : IsSequence(c.sig.y[j])
           /\ IsSequence(c.sig.c)
  <1>1. Consistent(c.p) /\ IsSequence(c.pk.id)
    BY SequenceIs DEF LmsCase
  <1>2. {c.p.h, c.p.p} \subseteq Nat
    <2>1. {c.p.u, c.p.v, c.p.h, c.p.p, c.p.ls} \subseteq Nat
      BY <1>1, SetNumbers
    <2> QED
      BY <2>1
  <1>3. \A x \in HashValue : IsSequence(x)
    <2> SUFFICES ASSUME NEW x \in HashValue PROVE IsSequence(x)
      OBVIOUS
    <2>1. DigestLen \in Nat
      BY WidthsAssumption
    <2>2. x = [i \in 1..DigestLen |-> x[i]]
      BY DEF HashValue
    <2> QED
      BY <2>1, <2>2, FunctionSequence
  <1>4. c.sig.c \in HashValue /\ c.sig.y \in [1..c.p.p -> HashValue] /\ c.sig.path \in [1..c.p.h -> HashValue]
    BY DEF LmsCase, LmsSignatures
  <1>5. ASSUME NEW n \in Nat, NEW g \in [1..n -> HashValue]
        PROVE  IsSequence(g) /\ Len(g) = n /\ \A j \in 1..n : IsSequence(g[j])
    <2>1. g = [i \in 1..n |-> g[i]]
      OBVIOUS
    <2>2. IsSequence(g) /\ Len(g) = n
      BY <2>1, FunctionSequence
    <2> QED
      BY <1>3, <2>2
  <1> QED
    BY <1>1, <1>2, <1>3, <1>4, <1>5

\* From the one-time key to the root, the path still on the stack.
LEMMA MerkleGoes ==
    ASSUME NEW c, NEW m, LmsCase(c), NEW u, NEW t, NEW e,
           Goes(c, m, Run(t, On(<<>>, ClimbPath(c.p, c.pk, LeafHash(c.pk, LeafCount(c.p) + c.pk.q, u), c.sig.path)), e))
    PROVE  /\ IsSequence(EmitMerklePath(c.p, c.pk))
           /\ Goes(c, m, Run(EmitMerklePath(c.p, c.pk) \o t, On(Piled(<<>>, c.sig.path, 0), u), e))
  <1> DEFINE p == c.p
             key == c.pk
             n == p.h
             path == c.sig.path
             leaf == LeafHash(key, LeafCount(p) + key.q, u)
             f == LevelTurns(p, key)
             x == Prefix(key.id, LeafCount(p) + key.q, D_LEAF)
             S(k) == Piled(<<>>, path, k)
             R(k) == (LeafCount(p) + key.q) \div 2 ^ (0 + k - 1)
  <1>1. /\ Consistent(p) /\ n \in Nat /\ IsSequence(key.id)
        /\ IsSequence(path) /\ Len(path) = n /\ \A j \in 1..n : IsSequence(path[j])
    BY CaseParts
  <1>2. PICK F : Climbs(F, p, key, leaf, path)
    BY <1>1, ClimbsExist
  <1>3. /\ F[0] = leaf /\ F[n] = ClimbPath(p, key, leaf, path)
        /\ \A j \in 1..n : F[j] = NodeAbove(key, R(j), F[j - 1], path[j])
    <2>1. /\ F[0] = leaf /\ F[n] = ClimbPath(p, key, leaf, path)
          /\ \A j \in 1..n : F[j] = NodeAbove(key, (LeafCount(p) + key.q) \div 2 ^ (j - 1), F[j - 1], path[j])
      BY <1>2, Zenon DEF Climbs
    <2>2. \A j \in 1..n : 0 + j - 1 = j - 1
      BY <1>1
    <2> HIDE DEF n, path, leaf
    <2> QED
      BY <2>1, <2>2, Zenon
  <1>4. \A k \in 0..n : IsSequence(F[k])
    <2>1. IsSequence(leaf)
      BY HashSequence DEF LeafHash
    <2>2. ASSUME NEW k \in 1..n PROVE IsSequence(F[k])
      <3>1. F[k] = NodeAbove(key, R(k), F[k - 1], path[k])
        BY <1>3
      <3> HIDE DEF R
      <3> QED
        BY <3>1, HashSequence, Zenon DEF NodeAbove
    <2>3. \A k \in 0..n : k = 0 \/ k \in 1..n
      BY <1>1
    <2> HIDE DEF n, leaf
    <2> QED
      BY <1>3, <2>1, <2>2, <2>3, Zenon
  <1>5. /\ IsSequence(<<>>) /\ S(n) = <<>>
        /\ \A k \in 0..n : IsSequence(S(k))
        /\ \A k \in 1..n : S(k - 1) = On(S(k), path[k])
    <2>1. IsSequence(<<>>)
      BY Sequences DEF SeqFacts
    <2> HIDE DEF path, n
    <2>2. /\ Piled(<<>>, path, Len(path)) = <<>>
          /\ \A k \in 0..Len(path) : IsSequence(Piled(<<>>, path, k))
          /\ \A k \in 1..Len(path) : Piled(<<>>, path, k - 1) = On(Piled(<<>>, path, k), path[k])
      BY <1>1, <2>1, PiledIs
    <2> QED
      BY <1>1, <2>1, <2>2, Zenon
  <1> DEFINE mains == [k \in 1 .. n + 1 |-> On(S(k - 1), F[k - 1])]
             alts == [k \in 1 .. n + 1 |-> e]
  <1>6. f = [k \in 1..n |-> f[k]] /\ \A k \in 1..n : f[k] = EmitLevel(key, R(k))
    <2>1. p.h - 1 - 0 + 1 = n
      BY <1>1
    <2>2. f = [k \in 1..n |-> EmitLevel(key, R(k))]
      BY <2>1, Zenon DEF LevelTurns
    <2> HIDE DEF f, R, n
    <2> QED
      BY <2>2
  <1>7. /\ \A k \in 1..n : /\ mains[k + 1] = On(S(k), F[k]) /\ alts[k + 1] = e
                           /\ mains[k] = On(S(k - 1), F[k - 1]) /\ alts[k] = e
        /\ mains[n + 1] = On(S(n), F[n]) /\ alts[n + 1] = e
        /\ mains[1] = On(S(0), F[0]) /\ alts[1] = e
    <2>1. /\ \A k \in 1..n : k \in 1 .. n + 1 /\ k + 1 \in 1 .. n + 1 /\ (k + 1) - 1 = k
          /\ n + 1 \in 1 .. n + 1 /\ (n + 1) - 1 = n /\ 1 \in 1 .. n + 1 /\ 1 - 1 = 0
      BY <1>1
    <2> HIDE DEF n, S, f
    <2> QED
      BY <2>1, Zenon
  <1> HIDE DEF f, mains, alts, S, R, n, leaf
  <1>8. ASSUME NEW k \in 1..n, NEW s, Goes(c, m, Run(s, mains[k + 1], alts[k + 1]))
        PROVE  Goes(c, m, Run(f[k] \o s, mains[k], alts[k]))
    <2>1. k - 1 \in 0..n /\ k \in 0..n
      BY <1>1
    <2> DEFINE node == F[k - 1]
               sibling == path[k]
               r == R(k)
               b == S(k)
    <2>2. IsSequence(node) /\ IsSequence(sibling) /\ IsSequence(b) /\ IsSequence(key.id)
      BY <1>1, <1>4, <1>5, <2>1
    <2>3. Goes(c, m, Run(s, On(b, NodeAbove(key, r, node, sibling)), e))
      BY <1>3, <1>7, <1>8, Zenon
    <2> HIDE DEF node, sibling, r, b, key
    <2>4. Goes(c, m, Run(EmitLevel(key, r) \o s, On(On(b, sibling), node), e))
      BY <2>2, <2>3, LevelGoes
    <2> QED
      BY <1>5, <1>6, <1>7, <2>4, Zenon DEF node, sibling, r, b
  <1>9. \A k \in 1..n : IsSequence(f[k])
    <2> SUFFICES ASSUME NEW k \in 1..n PROVE IsSequence(f[k])
      OBVIOUS
    <2> DEFINE r == R(k)
    <2> HIDE DEF r
    <2>1. f[k] = EmitLevel(key, r)
      BY <1>6 DEF r
    <2>2. IsSequence(Prefix(key.id, r \div 2, D_INTR)) /\ IsSequence(<<>>)
      BY <1>1, <1>5, PrefixSequence
    <2>3. IsSequence(Prefixed(Prefix(key.id, r \div 2, D_INTR))) /\ IsSequence(ThenNext)
      BY <2>2, PrefixedCode, ThenNextCode
    <2>4. /\ IsSequence(Op("swap") \o Prefixed(Prefix(key.id, r \div 2, D_INTR)) \o ThenNext \o Op("sha256"))
          /\ IsSequence(Prefixed(Prefix(key.id, r \div 2, D_INTR)) \o ThenNext \o Op("sha256"))
      BY <2>2, <2>3, RightCode, LeftCode
    <2> QED
      BY <2>1, <2>4, Zenon DEF EmitLevel
  <1>10. Goes(c, m, Run(t, mains[n + 1], alts[n + 1]))
    BY <1>3, <1>5, <1>7, Zenon DEF leaf
  <1>11. IsSequence(Joined(f)) /\ Goes(c, m, Run(Joined(f) \o t, mains[1], alts[1]))
    BY <1>1, <1>6, <1>8, <1>9, <1>10, LoopGoes
  <1> DEFINE t1 == Joined(f) \o t
             t2 == Then(Writing("sha256"), t1)
  <1>12. Goes(c, m, Run(t1, On(S(0), leaf), e))
    BY <1>3, <1>7, <1>11, Zenon
  <1>13. leaf = Sha256(x \o u)
    BY Zenon DEF leaf, LeafHash
  <1>14. IsSequence(S(0)) /\ IsSequence(t)
    <2>1. 0 \in 0..n
      BY <1>1
    <2> QED
      BY <1>5, <2>1, GoesFormed DEF Run
  <1> HIDE DEF x
  <1>15. Goes(c, m, Run(t2, On(S(0), x \o u), e))
    <2>1. Goes(c, m, Run(t1, On(S(0), Sha256(x \o u)), e))
      BY <1>12, <1>13, Zenon
    <2> HIDE DEF t1
    <2> QED
      BY <1>14, <2>1, ShaGoes
  <1>16. Goes(c, m, Run(Prefixed(x) \o t2, On(S(0), u), e)) /\ IsSequence(Prefixed(x))
    <2> HIDE DEF t2
    <2>1. IsSequence(t2)
      BY <1>15, GoesFormed DEF Run
    <2> QED
      BY <1>14, <1>15, <2>1, PrefixedGoes, PrefixedCode
  <1>17. IsSequence(EmitMerklePath(p, key)) /\ EmitMerklePath(p, key) \o t = Prefixed(x) \o t2
    <2>1. IsSequence(Joined(LevelTurns(p, key)))
      BY <1>11 DEF f
    <2>2. IsSequence(Prefixed(x)) /\ x = Prefix(key.id, LeafCount(p) + key.q, D_LEAF)
      BY <1>16 DEF x
    <2>4. IsSequence(t)
      BY <1>14
    <2>3. MerkleParts(p, key, x, t)
      BY <2>1, <2>2, <2>4, MerkleCode
    <2> QED
      BY <2>3, Zenon DEF f, MerkleParts
  <1> QED
    BY <1>16, <1>17, Zenon DEF S

\* The root is compared with the key's.
LEMMA RootGoes ==
    ASSUME NEW c, NEW m, NEW e, IsSequence(e)
    PROVE  Goes(c, m, Run(Then(Writes("data", c.pk.root), Then(Writing("equal"), <<>>)),
                          On(<<>>, LmsRoot(c.p, c.pk, c.sig, Source(c, m))), e))
  <1> DEFINE r == LmsRoot(c.p, c.pk, c.sig, Source(c, m))
             v == Verdict(c, m)
             x == Run(<<>>, <<v>>, e)
  <1>1. IsSequence(<<>>) /\ IsSequence(<<v>>) /\ \A y : IsSequence(On(<<>>, y)) /\ On(<<>>, y) = <<y>>
    <2>1. IsSequence(<<>>) /\ IsSequence(<<v>>) /\ \A y : IsSequence(On(<<>>, y))
      BY Sequences, SequenceOne DEF SeqFacts
    <2>2. ASSUME NEW y PROVE On(<<>>, y) = <<y>>
      <3>1. IsSequence(<<y>>)
        BY SequenceOne
      <3> QED
        BY <3>1, ConcatEmptySeq DEF On, IsSequence
    <2> QED
      BY <2>1, <2>2
  <1>2. Formed(x)
    BY <1>1 DEF Formed, Run, Config
  <1>3. Ends(c, m, x)
    BY DEF Ends, Run, Config
  <1>4. Goes(c, m, x)
    BY <1>2, <1>3, GoesEnds
  <1>5. Goes(c, m, Run(<<>>, On(<<>>, Bool(r = c.pk.root)), e))
    <2>1. v = Bool(r = c.pk.root)
      BY Zenon DEF Verdict
    <2>2. On(<<>>, v) = <<v>>
      BY <1>1
    <2> HIDE DEF v, r
    <2>3. Goes(c, m, Run(<<>>, On(<<>>, v), e))
      BY <1>4, <2>2, Zenon
    <2> QED
      BY <2>1, <2>3, Zenon
  <1> HIDE DEF r
  <1>6. Goes(c, m, Run(Then(Writing("equal"), <<>>), On(On(<<>>, r), c.pk.root), e))
    BY <1>1, <1>5, EqualGoes
  <1>7. Goes(c, m, Run(Then(Writes("data", c.pk.root), Then(Writing("equal"), <<>>)), On(<<>>, r), e))
    BY <1>1, <1>6, DataGoes
  <1> QED
    BY <1>7 DEF r

-----------------------------------------------------------------------------
(* The one-time key, from the ends of the chains.                           *)

\* What a loop that appends to a prefix goes through.
Gathers(A, x, f, n) ==
  /\ A[1] = x \o f[1] /\ A[n] = x \o Joined(f)
  /\ \A k \in 1 .. n - 1 : A[k + 1] = A[k] \o f[k + 1]

LEMMA GathersSplit ==
    ASSUME NEW X, NEW n \in Nat, n # 0, NEW f \in [1..n -> Seq(X)], NEW x, IsSequence(x)
    PROVE  \E A : Gathers(A, x, f, n)
  <1>2. PICK P \in PartsOf(f, n, X) : Joined(f) = IF n = 0 THEN <<>> ELSE P[<<1, n>>]
    BY JoinedIs
  <1>3. Joined(f) = P[<<1, n>>]
    BY <1>2
  <1>8. /\ \A l \in 1..n, h \in 1..n : P[<<l, h>>] \in Seq(X)
        /\ \A l \in 1..n : P[<<l, l>>] = f[l]
        /\ \A l \in 1..n, h \in 1..n : l < h =>
             P[<<l, h>>] = P[<<l, (l + h) \div 2>>] \o P[<<(l + h) \div 2 + 1, h>>]
    BY <1>2, PartsAre
  <1>4. \A l \in 1..n, h \in 1..n : P[<<l, h>>] \in Seq(X)
    BY <1>8
  <1>5. \A l \in 1..n : P[<<l, l>>] = f[l]
    BY <1>8
  <1> DEFINE A == [k \in 1..n |-> x \o P[<<1, k>>]]
  <1>6. A[1] = x \o f[1] /\ A[n] = x \o Joined(f)
    <2>1. 1 \in 1..n /\ n \in 1..n
      OBVIOUS
    <2> QED
      BY <1>3, <1>5, <2>1, Zenon
  <1>7. ASSUME NEW k \in 1 .. n - 1 PROVE A[k + 1] = A[k] \o f[k + 1]
    <2>1. k \in 1..n /\ k + 1 \in 1..n /\ 1 \in 1..n /\ k \in 1 .. (k + 1) - 1
      OBVIOUS
    <2>2. P[<<1, k + 1>>] = P[<<1, k>>] \o P[<<k + 1, k + 1>>]
      <3> DEFINE hi == k + 1
                 lo == 1
      <3>1. hi \in 1..n /\ lo \in 1..n /\ k \in lo .. hi - 1
        BY <2>1
      <3> HIDE DEF hi, lo
      <3>2. P[<<lo, hi>>] = P[<<lo, k>>] \o P[<<k + 1, hi>>]
        BY <1>2, <3>1, PartsSplit
      <3> QED
        BY <3>2, Zenon DEF hi, lo
    <2> DEFINE g == P[<<1, k>>]
               w == f[k + 1]
    <2>3. IsSequence(g) /\ IsSequence(w)
      BY <1>4, <2>1, SequenceIs
    <2>4. Regrouped(x, g, w)
      <3> HIDE DEF g, w
      <3> QED
        BY <2>3, Regroups
    <2>5. P[<<1, k + 1>>] = g \o w
      BY <1>5, <2>1, <2>2
    <2>6. A[k + 1] = x \o (g \o w) /\ A[k] = x \o g
      BY <2>1, <2>5, Zenon
    <2> HIDE DEF g
    <2>7. (x \o g) \o w = x \o (g \o w)
      BY <2>4, Zenon DEF Regrouped
    <2> HIDE DEF A, w
    <2>8. A[k + 1] = A[k] \o w
      BY <2>6, <2>7, Zenon
    <2> QED
      BY <2>8 DEF w
  <1> HIDE DEF A
  <1> QED
    BY <1>6, <1>7, Zenon DEF Gathers

LEMMA GathersExist ==
    ASSUME NEW n \in Nat, n # 0, NEW f, f = [i \in 1..n |-> f[i]], \A i \in 1..n : IsSequence(f[i]),
           NEW x, IsSequence(x)
    PROVE  \E A : Gathers(A, x, f, n)
  <1> DEFINE X == UNION {Range(f[i]) : i \in 1..n}
  <1>1. f \in [1..n -> Seq(X)]
    <2> SUFFICES ASSUME NEW i \in 1..n PROVE f[i] \in Seq(X)
      OBVIOUS
    <2>1. f[i] \in Seq(Range(f[i])) /\ Range(f[i]) \subseteq X
      BY DEF IsSequence
    <2> HIDE DEF X
    <2> QED
      BY <2>1, SeqMonotonic
  <1> HIDE DEF X
  <1> QED
    BY <1>1, GathersSplit

\* The first j items of a sequence.
First(f, j) == [i \in 1..j |-> f[i]]

LEMMA FirstIs ==
    ASSUME NEW f, NEW n \in Nat
    PROVE  /\ First(f, 0) = <<>>
           /\ \A j \in 0..n : IsSequence(First(f, j)) /\ Len(First(f, j)) = j
           /\ \A j \in 1..n : First(f, j) = On(First(f, j - 1), f[j])
  <1>1. ASSUME NEW j \in 0..n PROVE IsSequence(First(f, j)) /\ Len(First(f, j)) = j
    <2> DEFINE g == First(f, j)
    <2>1. g = [i \in 1..j |-> g[i]] /\ j \in Nat
      BY DEF First
    <2> HIDE DEF g
    <2>2. IsSequence(g) /\ Len(g) = j
      BY <2>1, FunctionSequence
    <2> QED
      BY <2>2 DEF g
  <1>2. First(f, 0) = <<>>
    <2>1. 0 \in 0..n
      OBVIOUS
    <2>2. IsSequence(First(f, 0)) /\ Len(First(f, 0)) = 0
      BY <1>1, <2>1
    <2> QED
      BY <2>2, SequenceLen
  <1>3. ASSUME NEW j \in 1..n PROVE First(f, j) = On(First(f, j - 1), f[j])
    <2> DEFINE g == First(f, j - 1)
               h == First(f, j)
               w == <<f[j]>>
    <2>1. j \in 0..n /\ j - 1 \in 0..n
      OBVIOUS
    <2>2. IsSequence(g) /\ Len(g) = j - 1 /\ IsSequence(h) /\ Len(h) = j
      BY <1>1, <2>1
    <2>3. IsSequence(w) /\ Len(w) = 1 /\ w[1] = f[j]
      BY SequenceOne
    <2>4. (\A i \in 1 .. j - 1 : g[i] = f[i]) /\ (\A i \in 1..j : h[i] = f[i])
      BY DEF First
    <2> HIDE DEF g, h, w
    <2> DEFINE z == g \o w
    <2>5. /\ IsSequence(z) /\ Len(z) = j - 1 + 1
          /\ \A i \in 1 .. j - 1 + 1 : z[i] = IF i <= j - 1 THEN g[i] ELSE w[i - (j - 1)]
      <3>1. /\ IsSequence(z) /\ Len(z) = Len(g) + Len(w)
            /\ \A i \in 1 .. Len(g) + Len(w) : z[i] = IF i <= Len(g) THEN g[i] ELSE w[i - Len(g)]
        BY <2>2, <2>3, SequenceConcat
      <3> HIDE DEF z
      <3> QED
        BY <2>2, <2>3, <3>1
    <2> HIDE DEF z
    <2>6. Len(z) = Len(h)
      BY <2>2, <2>5
    <2>7. ASSUME NEW i \in 1..Len(h) PROVE z[i] = h[i]
      <3>1. i \in 1..j /\ i \in 1 .. j - 1 + 1
        BY <2>2
      <3>2. CASE i <= j - 1
        BY <2>4, <2>5, <3>1, <3>2
      <3>3. CASE ~(i <= j - 1)
        <4>1. i = j /\ i - (j - 1) = 1
          BY <3>1, <3>3
        <4> QED
          BY <2>3, <2>4, <2>5, <3>1, <3>3, <4>1
      <3> QED
        BY <3>2, <3>3
    <2>8. z = h
      BY <2>2, <2>5, <2>6, <2>7, SameSequence
    <2> QED
      BY <2>8 DEF z, g, h, w, On
  <1> QED
    BY <1>1, <1>2, <1>3

\* The ends come back from the alternative stack.
LEMMA TakeLoopGoes ==
    ASSUME NEW c, NEW m, NEW p, Consistent(p), NEW ends, IsSequence(ends), Len(ends) = p.p,
           NEW b, IsSequence(b), NEW t, Goes(c, m, Run(t, Piled(b, ends, 0), <<>>))
    PROVE  /\ IsSequence(Joined(TakeTurns(p)))
           /\ Goes(c, m, Run(Joined(TakeTurns(p)) \o t, b, First(ends, p.p)))
  <1> DEFINE n == p.p
             f == TakeTurns(p)
             S(k) == Piled(b, ends, k)
             A(k) == First(ends, k)
             mains == [k \in 1 .. n + 1 |-> S(n + 1 - k)]
             alts == [k \in 1 .. n + 1 |-> A(n + 1 - k)]
  <1>1. n \in Nat
    BY SetNumbers
  <1>2. f = [k \in 1..n |-> f[k]] /\ \A k \in 1..n : f[k] = Op("fromalt")
    <2>1. p.p - 1 + 1 = n
      BY <1>1
    <2>2. f = [k \in 1..n |-> Op("fromalt")]
      BY <2>1, Zenon DEF TakeTurns
    <2> HIDE DEF f, n
    <2> QED
      BY <2>2
  <1>3. /\ S(n) = b /\ \A k \in 0..n : IsSequence(S(k))
        /\ \A k \in 1..n : S(k - 1) = On(S(k), ends[k])
    BY <1>1, PiledIs, ZenonT(40)
  <1>4. /\ A(0) = <<>>
        /\ \A k \in 1..n : A(k) = On(A(k - 1), ends[k])
    BY <1>1, FirstIs
  <1> HIDE DEF S, A
  <1>5. /\ \A k \in 1..n : /\ mains[k + 1] = S((n + 1 - k) - 1) /\ alts[k + 1] = A((n + 1 - k) - 1)
                           /\ mains[k] = S(n + 1 - k) /\ alts[k] = A(n + 1 - k)
        /\ mains[n + 1] = S(0) /\ alts[n + 1] = A(0)
        /\ mains[1] = S(n) /\ alts[1] = A(n)
    <2>1. /\ \A k \in 1..n : k \in 1 .. n + 1 /\ k + 1 \in 1 .. n + 1 /\ n + 1 - (k + 1) = (n + 1 - k) - 1
          /\ n + 1 \in 1 .. n + 1 /\ n + 1 - (n + 1) = 0 /\ 1 \in 1 .. n + 1 /\ n + 1 - 1 = n
      BY <1>1
    <2> HIDE DEF n, f
    <2> QED
      BY <2>1, Zenon
  <1> HIDE DEF mains, alts, f
  <1>6. \A k \in 1..n : IsSequence(f[k]) /\ \A s : f[k] \o s = Then(Writing("fromalt"), s)
    <2> SUFFICES ASSUME NEW k \in 1..n PROVE IsSequence(f[k]) /\ \A s : f[k] \o s = Then(Writing("fromalt"), s)
      OBVIOUS
    <2>1. f[k] = Op("fromalt")
      BY <1>2
    <2> QED
      BY <2>1, CodeOne, Zenon DEF CodeFacts
  <1>7. ASSUME NEW k \in 1..n, NEW s, Goes(c, m, Run(s, mains[k + 1], alts[k + 1]))
        PROVE  Goes(c, m, Run(f[k] \o s, mains[k], alts[k]))
    <2> DEFINE j == n + 1 - k
    <2>1. j \in 1..n /\ j \in 0..n
      BY <1>1
    <2>2. Goes(c, m, Run(s, S(j - 1), A(j - 1))) /\ mains[k] = S(j) /\ alts[k] = A(j)
      BY <1>5, <1>7, Zenon
    <2> HIDE DEF j
    <2>3. S(j - 1) = On(S(j), ends[j]) /\ A(j) = On(A(j - 1), ends[j]) /\ IsSequence(S(j))
      BY <1>3, <1>4, <2>1
    <2>4. Goes(c, m, Run(Then(Writing("fromalt"), s), S(j), A(j)))
      <3>1. Goes(c, m, Run(s, On(S(j), ends[j]), A(j - 1)))
        BY <2>2, <2>3, Zenon
      <3>2. Goes(c, m, Run(Then(Writing("fromalt"), s), S(j), On(A(j - 1), ends[j])))
        BY <2>3, <3>1, TakeGoes
      <3> QED
        BY <2>3, <3>2, Zenon
    <2> QED
      BY <1>6, <2>2, <2>4, Zenon
  <1>8. Goes(c, m, Run(t, mains[n + 1], alts[n + 1]))
    BY <1>4, <1>5, Zenon DEF S
  <1>9. IsSequence(Joined(f)) /\ Goes(c, m, Run(Joined(f) \o t, mains[1], alts[1]))
    <2>1. \A k \in 1..n : IsSequence(f[k])
      BY <1>6
    <2> HIDE DEF n
    <2> QED
      BY <1>1, <1>2, <1>7, <1>8, <2>1, LoopGoes
  <1> QED
    BY <1>3, <1>5, <1>9, Zenon DEF f, A

\* The ends are joined to the prefix one by one.
LEMMA NextLoopGoes ==
    ASSUME NEW c, NEW m, NEW p, Consistent(p), p.p # 0, NEW ends, ends = [i \in 1..p.p |-> ends[i]],
           \A i \in 1..p.p : IsSequence(ends[i]), NEW x, IsSequence(x),
           NEW b, IsSequence(b), NEW e, NEW t, Goes(c, m, Run(t, On(b, x \o Joined(ends)), e))
    PROVE  /\ IsSequence(Joined(NextTurns(p)))
           /\ Goes(c, m, Run(Joined(NextTurns(p)) \o t, On(Piled(b, ends, 1), x \o ends[1]), e))
  <1> DEFINE n == p.p - 1
             f == NextTurns(p)
             S(k) == Piled(b, ends, k)
  <1>1. p.p \in Nat /\ n \in Nat /\ n + 1 = p.p
    <2>1. p.p \in Nat
      BY SetNumbers
    <2> QED
      BY <2>1
  <1>2. PICK A : Gathers(A, x, ends, p.p)
    <2>1. p.p \in Nat
      BY <1>1
    <2> QED
      BY <2>1, GathersExist
  <1>3. A[1] = x \o ends[1] /\ A[n + 1] = x \o Joined(ends) /\ \A k \in 1..n : A[k + 1] = A[k] \o ends[k + 1]
    <2>1. A[1] = x \o ends[1] /\ A[p.p] = x \o Joined(ends) /\ \A k \in 1..n : A[k + 1] = A[k] \o ends[k + 1]
      BY <1>2, Zenon DEF Gathers
    <2> QED
      BY <1>1, <2>1, Zenon
  <1>4. /\ S(n + 1) = b /\ \A k \in 0 .. n + 1 : IsSequence(S(k))
        /\ \A k \in 1 .. n + 1 : S(k - 1) = On(S(k), ends[k])
    <2>1. IsSequence(ends) /\ Len(ends) = n + 1
      <3>1. IsSequence(ends) /\ Len(ends) = p.p
        BY <1>1, FunctionSequence
      <3> QED
        BY <1>1, <3>1
    <2> HIDE DEF n
    <2>2. /\ Piled(b, ends, Len(ends)) = b
          /\ \A k \in 0..Len(ends) : IsSequence(Piled(b, ends, k))
          /\ \A k \in 1..Len(ends) : Piled(b, ends, k - 1) = On(Piled(b, ends, k), ends[k])
      BY <2>1, PiledIs
    <2> QED
      BY <2>1, <2>2, Zenon
  <1> DEFINE mains == [k \in 1 .. n + 1 |-> On(S(k), A[k])]
             alts == [k \in 1 .. n + 1 |-> e]
  <1>5. f = [k \in 1..n |-> f[k]] /\ \A k \in 1..n : f[k] = ThenNext
    <2>1. p.p - 1 - 1 + 1 = n
      BY <1>1
    <2>2. f = [k \in 1..n |-> ThenNext]
      BY <2>1, Zenon DEF NextTurns
    <2> HIDE DEF f, n
    <2> QED
      BY <2>2
  <1>6. /\ \A k \in 1..n : /\ mains[k + 1] = On(S(k + 1), A[k + 1]) /\ alts[k + 1] = e
                           /\ mains[k] = On(S(k), A[k]) /\ alts[k] = e
        /\ mains[n + 1] = On(S(n + 1), A[n + 1]) /\ alts[n + 1] = e
        /\ mains[1] = On(S(1), A[1]) /\ alts[1] = e
    <2>1. /\ \A k \in 1..n : k \in 1 .. n + 1 /\ k + 1 \in 1 .. n + 1
          /\ n + 1 \in 1 .. n + 1 /\ 1 \in 1 .. n + 1
      BY <1>1
    <2> HIDE DEF n, S, f
    <2> QED
      BY <2>1, Zenon
  <1> HIDE DEF f, mains, alts, S, n
  <1>7. ASSUME NEW k \in 1..n, NEW s, Goes(c, m, Run(s, mains[k + 1], alts[k + 1]))
        PROVE  Goes(c, m, Run(f[k] \o s, mains[k], alts[k]))
    <2>1. k + 1 \in 1 .. n + 1 /\ k + 1 \in 0 .. n + 1 /\ (k + 1) - 1 = k
      BY <1>1
    <2> DEFINE d == S(k + 1)
               y == ends[k + 1]
               g == A[k]
    <2>2. IsSequence(d) /\ S(k) = On(d, y)
      BY <1>4, <2>1, Zenon
    <2>3. Goes(c, m, Run(s, On(d, g \o y), e))
      BY <1>3, <1>6, <1>7, Zenon
    <2> HIDE DEF d, y, g
    <2>4. Goes(c, m, Run(ThenNext \o s, On(On(d, y), g), e))
      BY <2>2, <2>3, ThenNextGoes
    <2> QED
      BY <1>5, <1>6, <2>2, <2>4, Zenon DEF g
  <1>8. \A k \in 1..n : IsSequence(f[k])
    <2>1. IsSequence(t)
      BY GoesFormed DEF Run
    <2>2. IsSequence(ThenNext)
      BY <2>1, ThenNextCode
    <2> QED
      BY <1>5, <2>2
  <1>9. Goes(c, m, Run(t, mains[n + 1], alts[n + 1]))
    BY <1>3, <1>4, <1>6, Zenon
  <1>10. IsSequence(Joined(f)) /\ Goes(c, m, Run(Joined(f) \o t, mains[1], alts[1]))
    BY <1>1, <1>5, <1>7, <1>8, <1>9, LoopGoes
  <1> QED
    BY <1>3, <1>6, <1>10, Zenon DEF f, S

\* From the string of the digits to the one-time key, the ends waiting.
LEMMA CandidateGoes ==
    ASSUME NEW c, NEW m, NEW p, Consistent(p), p.p # 0, NEW key, IsSequence(key.id),
           NEW ends, ends = [i \in 1..p.p |-> ends[i]], \A i \in 1..p.p : IsSequence(ends[i]),
           NEW b, IsSequence(b), NEW t, Goes(c, m, Run(t, On(b, OtsKey(key, ends)), <<>>)), NEW v
    PROVE  /\ IsSequence(EmitCandidateKey(p, key))
           /\ Goes(c, m, Run(EmitCandidateKey(p, key) \o t, On(b, v), First(ends, p.p)))
  <1> DEFINE x == Prefix(key.id, key.q, D_PBLC)
             t1 == Then(Writing("sha256"), t)
             t2 == Joined(NextTurns(p)) \o t1
             t3 == Prefixed(x) \o t2
             t4 == Joined(TakeTurns(p)) \o t3
             t5 == Then(Writing("drop"), t4)
  <1>1. IsSequence(x) /\ IsSequence(t)
    BY PrefixSequence, GoesFormed DEF Run
  <1>2. OtsKey(key, ends) = Sha256(x \o Joined(ends))
    BY Zenon DEF OtsKey
  <1>3. p.p \in Nat /\ IsSequence(ends) /\ Len(ends) = p.p
    <2>1. p.p \in Nat
      BY SetNumbers
    <2> QED
      BY <2>1, FunctionSequence
  <1>4. IsSequence(Piled(b, ends, 1)) /\ Piled(b, ends, 0) = On(Piled(b, ends, 1), ends[1])
    <2>1. 1 \in 0..Len(ends) /\ 1 \in 1..Len(ends) /\ 1 - 1 = 0
      BY <1>3
    <2>2. /\ \A k \in 0..Len(ends) : IsSequence(Piled(b, ends, k))
          /\ \A k \in 1..Len(ends) : Piled(b, ends, k - 1) = On(Piled(b, ends, k), ends[k])
      BY <1>3, PiledIs
    <2> QED
      BY <2>1, <2>2, Zenon
  <1> HIDE DEF x
  <1>5. Goes(c, m, Run(t1, On(b, x \o Joined(ends)), <<>>))
    <2>1. Goes(c, m, Run(t, On(b, Sha256(x \o Joined(ends))), <<>>))
      BY <1>2, Zenon
    <2> DEFINE y == x \o Joined(ends)
    <2> HIDE DEF y
    <2>2. Goes(c, m, Run(t1, On(b, y), <<>>))
      BY <2>1, ShaGoes DEF y
    <2> QED
      BY <2>2 DEF y
  <1> HIDE DEF t1
  <1>6. IsSequence(Joined(NextTurns(p))) /\ Goes(c, m, Run(t2, On(Piled(b, ends, 1), x \o ends[1]), <<>>))
    BY <1>1, <1>5, NextLoopGoes
  <1> HIDE DEF t2
  <1>7. Goes(c, m, Run(t3, On(Piled(b, ends, 1), ends[1]), <<>>)) /\ IsSequence(Prefixed(x))
    <2>1. IsSequence(t2)
      BY <1>6, GoesFormed DEF Run
    <2> QED
      BY <1>4, <1>6, <2>1, PrefixedGoes, PrefixedCode
  <1> HIDE DEF t3
  <1>8. IsSequence(Joined(TakeTurns(p))) /\ Goes(c, m, Run(t4, b, First(ends, p.p)))
    <2>1. Goes(c, m, Run(t3, Piled(b, ends, 0), <<>>))
      BY <1>4, <1>7, Zenon
    <2> QED
      BY <1>3, <2>1, TakeLoopGoes
  <1> HIDE DEF t4
  <1>9. Goes(c, m, Run(t5, On(b, v), First(ends, p.p)))
    BY <1>8, DropGoes
  <1>10. IsSequence(EmitCandidateKey(p, key)) /\ EmitCandidateKey(p, key) \o t = t5
    <2>1. IsSequence(Prefixed(Prefix(key.id, key.q, D_PBLC)))
      BY <1>7 DEF x
    <2>2. IsSequence(t)
      BY <1>1
    <2> QED
      BY <1>6, <1>8, <2>1, <2>2, CandidateCode DEF t4, t3, t2, t1, x
  <1> QED
    BY <1>9, <1>10, Zenon

-----------------------------------------------------------------------------
(* The chains.                                                              *)

\* A step a chain takes or not, by its digit.
Stepped(key, i, j, d, node) ==
  IF j >= d THEN Sha256(Prefix(key.id, key.q, i) \o <<j>> \o node) ELSE node

\* What is between the branch and its end.
LEMMA BranchGoes ==
    ASSUME NEW c, NEW m, NEW x, NEW node, NEW truth \in BOOLEAN, NEW t, NEW b, IsSequence(b), NEW a,
           Goes(c, m, Run(t, On(b, IF truth THEN Sha256(x \o node) ELSE node), a))
    PROVE  Goes(c, m, Run(Then(Writing("if"), (Prefixed(x) \o Then(Writing("sha256"), Then(Writing("endif"), t)))),
                          On(On(b, node), Bool(truth)), a))
  <1> DEFINE t1 == Then(Writing("endif"), t)
             t2 == Then(Writing("sha256"), t1)
             t3 == Prefixed(x) \o t2
             t4 == Then(Writing("if"), t3)
  <1>1. IsSequence(t) /\ IsSequence(On(b, node))
    BY Sequences, GoesFormed DEF SeqFacts, Run
  <1>2. CASE truth
    <2>1. Goes(c, m, Run(t, On(b, Sha256(x \o node)), a))
      BY <1>2
    <2>2. IsSequence(On(b, Sha256(x \o node)))
      BY Sequences DEF SeqFacts
    <2>3. Goes(c, m, Run(t1, On(b, Sha256(x \o node)), a))
      BY <2>1, <2>2, EndIfGoes
    <2> HIDE DEF t1
    <2>4. Goes(c, m, Run(t2, On(b, x \o node), a))
      BY <2>3, ShaGoes
    <2> HIDE DEF t2
    <2>5. Goes(c, m, Run(t3, On(b, node), a))
      BY <2>4, PrefixedGoes
    <2> HIDE DEF t3
    <2>6. Goes(c, m, Run(t4, On(On(b, node), Bool(TRUE)), a))
      BY <1>1, <2>5, TakenGoes
    <2> QED
      BY <1>2, <2>6 DEF t4, t3, t2, t1
  <1>3. CASE ~truth
    <2>1. Goes(c, m, Run(t, On(b, node), a))
      BY <1>3
    <2> DEFINE t5 == Then(Writing("cat"), t2)
               t6 == Then(Writing("swap"), t5)
               t7 == Then(Writes("data", x), t6)
    <2>2. Goes(c, m, Skip(t1, On(b, node), a))
      BY <1>1, <2>1, EndIfGoes
    <2>3. "sha256" \in Skipped /\ "cat" \in Skipped /\ "swap" \in Skipped /\ "data" \in Skipped
      BY DEF Skipped
    <2> HIDE DEF t1
    <2>4. Goes(c, m, Skip(t2, On(b, node), a))
      BY <1>1, <2>2, <2>3, SkipGoes DEF Writing
    <2>5. IsSequence(t2)
      BY <2>4, GoesFormed DEF Skip
    <2>6. t3 = t7
      BY <2>5, PrefixedCode
    <2> HIDE DEF t2
    <2>7. Goes(c, m, Skip(t5, On(b, node), a))
      BY <1>1, <2>3, <2>4, SkipGoes DEF Writing
    <2> HIDE DEF t5
    <2>8. Goes(c, m, Skip(t6, On(b, node), a))
      BY <1>1, <2>3, <2>7, SkipGoes DEF Writing
    <2> HIDE DEF t6
    <2>9. Goes(c, m, Skip(t7, On(b, node), a))
      BY <1>1, <2>3, <2>8, SkipGoes
    <2> HIDE DEF t3, t7
    <2>10. Goes(c, m, Run(Then(Writing("if"), t7), On(On(b, node), Bool(FALSE)), a))
      BY <1>1, <2>9, NotTakenGoes
    <2>11. truth = FALSE
      BY <1>3
    <2> QED
      BY <2>6, <2>10, <2>11, Zenon DEF t3, t2, t1
  <1> QED
    BY <1>2, <1>3

LEMMA StepGoes ==
    ASSUME NEW c, NEW m, NEW key, IsSequence(key.id), NEW i, NEW j \in Word, NEW d \in Word, NEW node, NEW t,
           NEW b, IsSequence(b), NEW a, IsSequence(a), Goes(c, m, Run(t, On(b, Stepped(key, i, j, d, node)), On(a, Encode(d))))
    PROVE  /\ IsSequence(EmitStep(key, i, j))
           /\ Goes(c, m, Run(EmitStep(key, i, j) \o t, On(b, node), On(a, Encode(d))))
  <1> DEFINE x == Append(Prefix(key.id, key.q, i), j)
             u == Encode(d)
             r == On(b, node)
             t1 == Then(Writing("if"), (Prefixed(x) \o Then(Writing("sha256"), Then(Writing("endif"), t))))
             t2 == Then(Writing("gte"), t1)
             t3 == Then(Writing("swap"), t2)
             t4 == Then(Numeral(j), t3)
             t5 == Then(Writing("toalt"), t4)
             t6 == Then(Writing("dup"), t5)
             t7 == Then(Writing("fromalt"), t6)
  <1>1. IsSequence(t) /\ \A y : IsSequence(On(r, y)) /\ IsSequence(On(a, y)) /\ IsSequence(r)
    BY Sequences, GoesFormed DEF SeqFacts, Run
  <1>2. x = Prefix(key.id, key.q, i) \o <<j>>
    BY AppendIs
  <1> DEFINE truth == j >= d
  <1>3. truth \in BOOLEAN
    OBVIOUS
  <1>4. Stepped(key, i, j, d, node) = IF truth THEN Sha256(x \o node) ELSE node
    BY <1>2, Zenon DEF Stepped
  <1>5. IsSequence(Prefixed(x))
    BY <1>1, PrefixedCode
  <1>6. IsSequence(EmitStep(key, i, j)) /\ EmitStep(key, i, j) \o t = t7
    BY <1>1, <1>5, StepCode
  <1>7. Goes(c, m, Run(t, On(b, IF truth THEN Sha256(x \o node) ELSE node), On(a, u)))
    BY <1>4, Zenon
  <1> HIDE DEF x, truth, u
  <1>8. Goes(c, m, Run(t1, On(r, Bool(truth)), On(a, u)))
    BY <1>3, <1>7, BranchGoes
  <1> HIDE DEF t1, r
  <1>9. Goes(c, m, Run(t2, On(On(r, Encode(j)), Encode(d)), On(a, u)))
    <2>1. "gte" \in Binary
      BY DEF Binary
    <2>2. Goes(c, m, Run(t1, On(r, Bool(j >= d)), On(a, u)))
      BY <1>8 DEF truth
    <2> QED
      BY <1>1, <2>1, <2>2, NumbersGo
  <1> HIDE DEF t2
  <1>10. Goes(c, m, Run(t3, On(On(r, Encode(d)), Encode(j)), On(a, u)))
    BY <1>1, <1>9, SwapGoes
  <1> HIDE DEF t3
  <1>11. Goes(c, m, Run(t4, On(r, u), On(a, u)))
    <2>1. Goes(c, m, Run(t4, On(r, Encode(d)), On(a, u)))
      BY <1>1, <1>10, NumberGoes
    <2> QED
      BY <2>1 DEF u
  <1> HIDE DEF t4
  <1>12. Goes(c, m, Run(t5, On(On(r, u), u), a))
    BY <1>1, <1>11, StashGoes
  <1> HIDE DEF t5
  <1>13. Goes(c, m, Run(t6, On(r, u), a))
    BY <1>1, <1>12, DupGoes
  <1> HIDE DEF t6
  <1>14. Goes(c, m, Run(t7, r, On(a, u)))
    BY <1>1, <1>13, TakeGoes
  <1> QED
    BY <1>6, <1>14, Zenon DEF u, r

\* What the stacks hold at a step of a chain.
LEMMA StepMeets ==
    ASSUME NEW c, NEW m, NEW i \in Nat, NEW h \in Nat, NEW n \in Nat, c.p.h = h, c.p.p = n, NEW t, IsSequence(t),
           NEW e, e.op = "lms_step", e.i = i,
           NEW b, IsSequence(b), Len(b) = h + (n - i) - 1, NEW node,
           NEW a, IsSequence(a), Len(a) = i, NEW d, d = Encode(Coef(Source(c, m), i, c.p.w))
    PROVE  Meets(c, m, Run(Then(e, t), On(On(b, Source(c, m)), node), On(a, d)))
  <1> DEFINE v == Source(c, m)
             x == On(On(b, v), node)
             z == On(a, d)
             y == Run(Then(e, t), x, z)
  <1>1. y.todo = Then(e, t) /\ y.main = x /\ y.alt = z
    BY DEF Run, Config
  <1>2. Then(e, t) # <<>> /\ Head(Then(e, t)) = e
    BY Sequences DEF SeqFacts
  <1>3. /\ IsSequence(On(b, v)) /\ Len(On(b, v)) = Len(b) + 1 /\ Len(b) \in Nat /\ On(b, v)[Len(b) + 1] = v
    BY Stacked1 DEF On
  <1>4. /\ Len(x) = Len(On(b, v)) + 1 /\ \A j \in 1 .. Len(On(b, v)) : x[j] = On(b, v)[j]
    <2> DEFINE r == On(b, v)
    <2>0. IsSequence(r)
      BY <1>3
    <2> HIDE DEF r
    <2>1. IsSequence(<<node>>) /\ Len(<<node>>) = 1
      BY SequenceOne
    <2>2. Len(r) \in Nat /\ Len(r \o <<node>>) = Len(r) + 1 /\ \A j \in 1 .. Len(r) + 1 : (r \o <<node>>)[j] = IF j <= Len(r) THEN r[j] ELSE <<node>>[j - Len(r)]
      BY <2>0, <2>1, SequenceConcat
    <2>3. Len(r \o <<node>>) = Len(r) + 1 /\ \A j \in 1 .. Len(r) : (r \o <<node>>)[j] = r[j]
      BY <2>2
    <2>4. x = r \o <<node>>
      BY Zenon DEF On, r
    <2> QED
      BY <2>3, <2>4, Zenon DEF r
  <1>5. Len(z) = i + 1 /\ z[i + 1] = d
    <2> HIDE DEF y, x
    <2>1. Len(a \o <<d>>) = Len(a) + 1 /\ (a \o <<d>>)[Len(a) + 1] = d
      BY Stacked1
    <2>2. z = a \o <<d>> /\ Len(a) = i
      BY Zenon DEF On
    <2> QED
      BY <2>1, <2>2, Zenon
  <1>6. Last(z) = d
    BY <1>5 DEF Last
  <1> HIDE DEF x, z, v
  <1>7. Len(x) = h + (n - i) + 1 /\ x[Len(x) - 1] = v
    BY <1>3, <1>4
  <1>8. /\ y.main[Len(y.main) - 1] = Source(c, m) /\ Last(y.alt) = Encode(Coef(Source(c, m), i, c.p.w))
        /\ Len(y.alt) = i + 1 /\ Len(y.main) = c.p.h + (c.p.p - i) + 1
    <2> HIDE DEF y
    <2> QED
      BY <1>1, <1>5, <1>6, <1>7 DEF v
  <1>9. Meets(c, m, y)
    <2> HIDE DEF y
    <2> QED
      BY <1>1, <1>2, <1>8, Zenon DEF Meets
  <1> QED
    BY <1>9 DEF x, z, v

\* The node after j steps of a chain, of which it takes those from its digit on.
Reached(F, d, u, j) == IF j <= d THEN u ELSE F[j]

Reaches(F, key, i, d, n, u) ==
  /\ Reached(F, d, u, 0) = u /\ Reached(F, d, u, n) = Walk(key, i, d, n, u)
  /\ \A j \in 0 .. n - 1 : Reached(F, d, u, j + 1) = Stepped(key, i, j, d, Reached(F, d, u, j))

LEMMA ReachedIs ==
    ASSUME NEW key, NEW i, NEW d \in Nat, NEW n \in Nat, d <= n, NEW u, NEW F, Walks(F, key, i, d, n, u)
    PROVE  Reaches(F, key, i, d, n, u)
  <1> DEFINE Step(j, v) == Sha256(Prefix(key.id, key.q, i) \o <<j>> \o v)
  <1>1. /\ F[d] = u /\ F[n] = Walk(key, i, d, n, u)
        /\ \A j \in d + 1 .. n : F[j] = Step(j - 1, F[j - 1])
    BY Zenon DEF Walks
  <1>2. Reached(F, d, u, 0) = u
    BY DEF Reached
  <1>3. Reached(F, d, u, n) = Walk(key, i, d, n, u)
    <2>1. CASE n <= d
      <3>1. n = d
        BY <2>1
      <3> QED
        BY <1>1, <2>1, <3>1, Zenon DEF Reached
    <2>2. CASE ~(n <= d)
      BY <1>1, <2>2, Zenon DEF Reached
    <2> QED
      BY <2>1, <2>2
  <1>4. ASSUME NEW j \in 0 .. n - 1
        PROVE  Reached(F, d, u, j + 1) = Stepped(key, i, j, d, Reached(F, d, u, j))
    <2>1. Stepped(key, i, j, d, Reached(F, d, u, j)) = IF j >= d THEN Step(j, Reached(F, d, u, j)) ELSE Reached(F, d, u, j)
      BY Zenon DEF Stepped
    <2>2. CASE j >= d
      <3>1. j + 1 \in d + 1 .. n /\ (j + 1) - 1 = j /\ ~(j + 1 <= d)
        BY <2>2
      <3>2. F[j + 1] = Step(j, F[j])
        BY <1>1, <3>1, Zenon
      <3>3. Reached(F, d, u, j) = F[j]
        <4>1. CASE j <= d
          <5>1. j = d
            BY <2>2, <4>1
          <5> QED
            BY <1>1, <4>1, <5>1, Zenon DEF Reached
        <4>2. CASE ~(j <= d)
          BY <4>2 DEF Reached
        <4> QED
          BY <4>1, <4>2
      <3>4. Reached(F, d, u, j + 1) = F[j + 1]
        BY <3>1 DEF Reached
      <3> QED
        BY <2>1, <2>2, <3>2, <3>3, <3>4, Zenon
    <2>3. CASE ~(j >= d)
      <3>1. j + 1 <= d /\ j <= d
        BY <2>3
      <3> QED
        BY <2>1, <2>3, <3>1, Zenon DEF Reached
    <2> QED
      BY <2>2, <2>3
  <1> QED
    BY <1>2, <1>3, <1>4, Zenon DEF Reaches

\* One step, as the phase it is.
LEMMA StepTurnGoes ==
    ASSUME NEW c, NEW m, LmsCase(c), NEW i \in Nat, NEW j \in Word, NEW d \in Word, d = Coef(Source(c, m), i, c.p.w),
           NEW b, IsSequence(b), Len(b) = c.p.h + (c.p.p - i) - 1, NEW a, IsSequence(a), Len(a) = i,
           NEW node, NEW s, Goes(c, m, Run(s, On(On(b, Source(c, m)), Stepped(c.pk, i, j, d, node)), On(a, Encode(d)))),
           NEW e, e = [op |-> "lms_step", i |-> i, j |-> j]
    PROVE  Goes(c, m, Run(<<e>> \o s, On(On(b, Source(c, m)), node), On(a, Encode(d))))
  <1> DEFINE v == Source(c, m)
             r == On(b, v)
             o == On(r, node)
             z == On(a, Encode(d))
  <1>1. IsSequence(s) /\ IsSequence(r)
    BY Sequences, GoesFormed DEF SeqFacts, Run
  <1>2. e.op = "lms_step" /\ e.i = i /\ e.j = j
    OBVIOUS
  <1>3. e.op \in LmsPhases /\ LmsBodyOf(c.p, c.pk, e) = EmitStep(c.pk, i, j)
    BY <1>2 DEF LmsPhases, LmsBodyOf
  <1>4. IsSequence(c.pk.id) /\ c.p.h \in Nat /\ c.p.p \in Nat
    BY CaseParts
  <1>5. Meets(c, m, Run(Then(e, s), o, z))
    <2> DEFINE h == c.p.h
               n == c.p.p
               w == Encode(d)
    <2>1. h \in Nat /\ n \in Nat /\ Len(b) = h + (n - i) - 1 /\ w = Encode(Coef(Source(c, m), i, c.p.w))
          /\ c.p.h = h /\ c.p.p = n
      BY <1>4, Zenon
    <2> HIDE DEF h, n, w
    <2>2. Meets(c, m, Run(Then(e, s), On(On(b, Source(c, m)), node), On(a, w)))
      BY <1>1, <1>2, <2>1, StepMeets, ZenonT(40)
    <2> QED
      BY <2>2, Zenon DEF w
  <1>6. Goes(c, m, Run(EmitStep(c.pk, i, j) \o s, o, z))
    <2>1. Goes(c, m, Run(s, On(r, Stepped(c.pk, i, j, d, node)), On(a, Encode(d))))
      OBVIOUS
    <2> DEFINE key == c.pk
    <2>2. IsSequence(key.id)
      BY <1>4
    <2> HIDE DEF r, key
    <2>3. Goes(c, m, Run(s, On(r, Stepped(key, i, j, d, node)), On(a, Encode(d))))
      BY <2>1 DEF key
    <2>4. Goes(c, m, Run(EmitStep(key, i, j) \o s, On(r, node), On(a, Encode(d))))
      BY <1>1, <2>2, <2>3, StepGoes
    <2> QED
      BY <2>4 DEF key
  <1> HIDE DEF o, z
  <1>7. Goes(c, m, Run(Then(e, s), o, z))
    BY <1>1, <1>3, <1>5, <1>6, PhaseGoes
  <1> QED
    BY <1>7, Zenon DEF Then, o, z, r, v

\* All the steps a chain could have.
LEMMA StepLoopGoes ==
    ASSUME NEW c, NEW m, LmsCase(c), NEW i \in Nat, NEW d, d = Coef(Source(c, m), i, c.p.w), d \in 0 .. MaxCoef(c.p),
           NEW b, IsSequence(b), Len(b) = c.p.h + (c.p.p - i) - 1, NEW a, IsSequence(a), Len(a) = i,
           NEW u, NEW t,
           Goes(c, m, Run(t, On(On(b, Source(c, m)), Walk(c.pk, i, d, MaxCoef(c.p), u)), On(a, Encode(d))))
    PROVE  /\ IsSequence(Joined(StepTurns(c.p, i)))
           /\ Goes(c, m, Run(Joined(StepTurns(c.p, i)) \o t, On(On(b, Source(c, m)), u), On(a, Encode(d))))
  <1> DEFINE n == MaxCoef(c.p)
             f == StepTurns(c.p, i)
             v == Source(c, m)
             z == On(a, Encode(d))
             turn(k) == [op |-> "lms_step", i |-> i, j |-> 0 + k - 1]
  <1>1. n \in 1..255 /\ n \in Nat /\ d \in Nat /\ d <= n
    <2>1. Consistent(c.p)
      BY DEF LmsCase
    <2>2. MaxCoef(c.p) \in 1..255
      BY <2>1, DigestShort
    <2>3. n \in 1..255 /\ d \in 0..n
      BY <2>2, Zenon
    <2> HIDE DEF n, f, v, z
    <2> QED
      BY <2>3
  <1>2. PICK F : Walks(F, c.pk, i, d, n, u)
    BY <1>1, WalksExist
  <1> DEFINE Node(j) == Reached(F, d, u, j)
  <1>3. /\ Node(0) = u /\ Node(n) = Walk(c.pk, i, d, n, u)
        /\ \A j \in 0 .. n - 1 : Node(j + 1) = Stepped(c.pk, i, j, d, Node(j))
    <2> DEFINE key == c.pk
    <2>1. Walks(F, key, i, d, n, u)
      BY <1>2, Zenon
    <2> HIDE DEF n, key
    <2>2. Reaches(F, key, i, d, n, u)
      <3>1. n \in Nat /\ d \in Nat /\ d <= n
        BY <1>1
      <3> QED
        BY <2>1, <3>1, ReachedIs
    <2> QED
      BY <2>2, Zenon DEF key, Reaches
  <1> DEFINE mains == [k \in 1 .. n + 1 |-> On(On(b, v), Node(k - 1))]
             alts == [k \in 1 .. n + 1 |-> z]
  <1>4. f = [k \in 1..n |-> f[k]] /\ \A k \in 1..n : f[k] = <<turn(k)>>
    <2>1. MaxCoef(c.p) - 1 - 0 + 1 = n
      BY <1>1
    <2>2. f = [k \in 1..n |-> <<turn(k)>>]
      BY <2>1, Zenon DEF StepTurns
    <2> HIDE DEF f, n, turn
    <2> QED
      BY <2>2
  <1>5. /\ \A k \in 1..n : /\ mains[k + 1] = On(On(b, v), Node(k)) /\ alts[k + 1] = z
                           /\ mains[k] = On(On(b, v), Node(k - 1)) /\ alts[k] = z
        /\ mains[n + 1] = On(On(b, v), Node(n)) /\ alts[n + 1] = z
        /\ mains[1] = On(On(b, v), Node(0)) /\ alts[1] = z
    <2>1. /\ \A k \in 1..n : k \in 1 .. n + 1 /\ k + 1 \in 1 .. n + 1 /\ (k + 1) - 1 = k
          /\ n + 1 \in 1 .. n + 1 /\ (n + 1) - 1 = n /\ 1 \in 1 .. n + 1 /\ 1 - 1 = 0
      BY <1>1
    <2> HIDE DEF n, f, Node, z
    <2> QED
      BY <2>1, Zenon
  <1> HIDE DEF f, mains, alts, Node, n
  <1>6. ASSUME NEW k \in 1..n, NEW s, Goes(c, m, Run(s, mains[k + 1], alts[k + 1]))
        PROVE  Goes(c, m, Run(f[k] \o s, mains[k], alts[k]))
    <2> DEFINE j == 0 + k - 1
    <2>1. j = k - 1 /\ j \in 0 .. n - 1 /\ j + 1 = k /\ j \in Word /\ d \in Word
      BY <1>1 DEF Word
    <2>2. Node(k) = Stepped(c.pk, i, j, d, Node(k - 1))
      BY <1>3, <2>1, Zenon
    <2>3. Goes(c, m, Run(s, On(On(b, v), Stepped(c.pk, i, j, d, Node(k - 1))), z))
      BY <1>5, <1>6, <2>2, Zenon
    <2> DEFINE node == Node(k - 1)
               e == turn(k)
    <2>4. e = [op |-> "lms_step", i |-> i, j |-> j]
      BY Zenon
    <2> HIDE DEF j, e, node
    <2>5. Goes(c, m, Run(<<e>> \o s, On(On(b, v), node), z))
      <3>1. Goes(c, m, Run(s, On(On(b, v), Stepped(c.pk, i, j, d, node)), z))
        BY <2>3, Zenon DEF node
      <3> QED
        BY <2>1, <2>4, <3>1, StepTurnGoes
    <2>6. f[k] = <<e>>
      BY <1>4, Zenon DEF e
    <2> QED
      BY <1>5, <2>5, <2>6, Zenon DEF node
  <1>7. \A k \in 1..n : IsSequence(f[k])
    BY <1>4, SequenceOne
  <1>8. Goes(c, m, Run(t, mains[n + 1], alts[n + 1]))
    BY <1>3, <1>5, Zenon DEF n
  <1>9. IsSequence(Joined(f)) /\ Goes(c, m, Run(Joined(f) \o t, mains[1], alts[1]))
    BY <1>1, <1>4, <1>6, <1>7, <1>8, LoopGoes
  <1> QED
    BY <1>3, <1>5, <1>9, Zenon DEF f

\* The string the digits are read from, and that all of them are there.
LEMMA SourceIs ==
    ASSUME NEW c, LmsCase(c), NEW m \in Seq(Octet)
    PROVE  /\ Source(c, m) = CoefficientSource(QDigest(c, m), c.p)
           /\ Source(c, m) \in Seq(Octet) /\ Len(Source(c, m)) = DigestLen + 2
  <1> DEFINE q == QDigest(c, m)
             e == BigEndian(Cksm(q, c.p), 2)
  <1>1. Source(c, m) = CoefficientSource(q, c.p)
    BY Zenon DEF Source, LmsSource, QDigest
  <1>2. CoefficientSource(q, c.p) = q \o e
    BY Zenon DEF CoefficientSource
  <1>3. q \in Seq(Octet) /\ Len(q) = DigestLen
    BY QDigestIs
  <1>4. Consistent(c.p) /\ DigestLen \in Nat
    BY WidthsAssumption DEF LmsCase
  <1> HIDE DEF q
  <1>5. Cksm(q, c.p) \in Nat
    <2>1. Cksm(q, c.p) \in Word
      BY <1>3, <1>4, ChecksumFits
    <2> QED
      BY <2>1 DEF Word
  <1>6. e \in Seq(Octet) /\ Len(e) = 2
    BY <1>5, BigEndianIs
  <1> HIDE DEF e
  <1>7. q \o e \in Seq(Octet) /\ Len(q \o e) = DigestLen + 2
    <2>1. q \o e \in Seq(Octet) /\ Len(q \o e) = Len(q) + Len(e)
      BY <1>3, <1>6, ConcatProperties
    <2> QED
      BY <1>3, <1>6, <2>1, Zenon
  <1> QED
    BY <1>1, <1>2, <1>7, Zenon DEF q

LEMMA DigitsThere ==
    ASSUME NEW c, LmsCase(c), NEW m \in Seq(Octet), NEW i \in Nat, i < c.p.p
    PROVE  /\ Digits(c.p, i, Source(c, m))
           /\ Coef(Source(c, m), i, c.p.w) \in 0 .. MaxCoef(c.p) /\ Coef(Source(c, m), i, c.p.w) \in Word
  <1> DEFINE p == c.p
             v == Source(c, m)
  <1>1. Consistent(p)
    BY DEF LmsCase
  <1>2. v \in Seq(Octet) /\ Len(v) = DigestLen + 2
    BY SourceIs
  <1>3. i < p.p
    OBVIOUS
  <1> HIDE DEF p, v
  <1>4. ByteOf(p, i) \in Nat /\ ByteOf(p, i) <= DigestLen + 1
    BY <1>1, <1>3, DigitPlace
  <1>5. DigestLen < 32768 /\ DigestLen \in Nat
    BY <1>1, DigestShort, WidthsAssumption
  <1>6. Digits(p, i, v)
    BY <1>2, <1>4, <1>5 DEF Digits
  <1>7. Coef(v, i, p.w) \in 0 .. MaxCoef(p) /\ Coef(v, i, p.w) \in Word
    BY <1>1, <1>6, DigitRange
  <1> QED
    BY <1>6, <1>7, Zenon DEF p, v

\* The end of a chain.
EndOf(c, m, i, u) == Walk(c.pk, i, Coef(Source(c, m), i, c.p.w), MaxCoef(c.p), u)

\* A chain, from the element the signature gives to its end.
LEMMA ChainTurnGoes ==
    ASSUME NEW c, NEW m, LmsCase(c), m \in Seq(Octet), NEW i \in Nat, i < c.p.p,
           NEW b, IsSequence(b), Len(b) = c.p.h + (c.p.p - i) - 1, NEW a, IsSequence(a), Len(a) = i,
           NEW u, NEW t,
           Goes(c, m, Run(t, On(b, Source(c, m)), On(a, EndOf(c, m, i, u))))
    PROVE  /\ IsSequence(EmitLmsChain(c.p, i))
           /\ Goes(c, m, Run(EmitLmsChain(c.p, i) \o t, On(On(b, u), Source(c, m)), a))
  <1> DEFINE p == c.p
             v == Source(c, m)
             d == Coef(v, i, p.w)
             w == EndOf(c, m, i, u)
             t1 == Then(Writing("toalt"), t)
             t2 == Then(Writing("drop"), t1)
             t3 == Then(Writing("fromalt"), t2)
             t4 == Joined(StepTurns(p, i)) \o t3
             t5 == Then(Writing("swap"), t4)
             t6 == Then(Writing("toalt"), t5)
  <1>1. Consistent(p)
    BY DEF LmsCase
  <1>2. Digits(p, i, v) /\ d \in 0 .. MaxCoef(p) /\ d \in Word
    BY DigitsThere
  <1>3. IsSequence(t) /\ \A x, y : IsSequence(On(b, x)) /\ IsSequence(On(a, x)) /\ IsSequence(On(On(b, x), y))
    BY Sequences, GoesFormed DEF SeqFacts, Run
  <1>4. Goes(c, m, Run(t1, On(On(b, v), w), a))
    <2> HIDE DEF w, v
    <2>1. Goes(c, m, Run(t, On(b, v), On(a, w)))
      BY DEF w, v
    <2> QED
      BY <1>3, <2>1, StashGoes
  <1> HIDE DEF t1
  <1>5. Goes(c, m, Run(t2, On(On(On(b, v), w), Encode(d)), a))
    <2> HIDE DEF w, v, d
    <2> QED
      BY <1>3, <1>4, DropGoes
  <1> HIDE DEF t2
  <1>6. Goes(c, m, Run(t3, On(On(b, v), w), On(a, Encode(d))))
    <2> HIDE DEF w, v, d
    <2> QED
      BY <1>3, <1>5, TakeGoes
  <1> HIDE DEF t3
  <1>7. /\ IsSequence(Joined(StepTurns(p, i)))
        /\ Goes(c, m, Run(t4, On(On(b, v), u), On(a, Encode(d))))
    <2>1. Goes(c, m, Run(t3, On(On(b, Source(c, m)), Walk(c.pk, i, d, MaxCoef(c.p), u)), On(a, Encode(d))))
      BY <1>6, Zenon DEF EndOf
    <2>2. d = Coef(Source(c, m), i, c.p.w) /\ d \in 0 .. MaxCoef(c.p)
      BY <1>2, Zenon
    <2> HIDE DEF d
    <2>3. /\ IsSequence(Joined(StepTurns(c.p, i)))
          /\ Goes(c, m, Run(Joined(StepTurns(c.p, i)) \o t3, On(On(b, Source(c, m)), u), On(a, Encode(d))))
      BY <2>1, <2>2, StepLoopGoes
    <2> QED
      BY <2>3, Zenon
  <1> HIDE DEF t4
  <1>8. Goes(c, m, Run(t5, On(On(b, u), v), On(a, Encode(d))))
    <2> HIDE DEF v, d
    <2> QED
      BY <1>7, SwapGoes
  <1> HIDE DEF t5
  <1>9. Goes(c, m, Run(t6, On(On(On(b, u), v), Encode(d)), a))
    <2> HIDE DEF v, d
    <2> QED
      BY <1>3, <1>8, StashGoes
  <1> HIDE DEF t6
  <1>10. IsSequence(EmitCoefficient(p, i)) /\ Goes(c, m, Run(EmitCoefficient(p, i) \o t6, On(On(b, u), v), a))
    <2>1. Goes(c, m, Run(t6, On(On(On(b, u), v), Encode(Coef(v, i, p.w))), a))
      BY <1>9, Zenon
    <2> DEFINE r == On(b, u)
    <2>2. IsSequence(r) /\ Goes(c, m, Run(t6, On(On(r, v), Encode(Coef(v, i, p.w))), a))
      BY <1>3, <2>1, Zenon
    <2> HIDE DEF v, p, r, d
    <2>3. IsSequence(EmitCoefficient(p, i)) /\ Goes(c, m, Run(EmitCoefficient(p, i) \o t6, On(r, v), a))
      BY <1>1, <1>2, <2>2, CoefficientGoes
    <2> QED
      BY <2>3, Zenon DEF r
  <1>11. IsSequence(EmitLmsChain(p, i)) /\ EmitLmsChain(p, i) \o t = EmitCoefficient(p, i) \o t6
    <2>1. IsSequence(Joined(StepTurns(p, i))) /\ IsSequence(EmitCoefficient(p, i))
      BY <1>7, <1>10
    <2> HIDE DEF p
    <2>2. IsSequence(EmitLmsChain(p, i))
      BY <1>3, <2>1, ChainCode
    <2>3. EmitLmsChain(p, i) \o t = EmitCoefficient(p, i) \o Then(Writing("toalt"), Then(Writing("swap"), (Joined(StepTurns(p, i)) \o Then(Writing("fromalt"), Then(Writing("drop"), Then(Writing("toalt"), t))))))
      BY <1>3, <2>1, ChainCode, SMTT(30)
    <2> QED
      BY <2>2, <2>3, Zenon DEF t6, t5, t4, t3, t2, t1
  <1> QED
    BY <1>10, <1>11, Zenon

\* Nothing is claimed at another call than a step.
LEMMA OtherGoes ==
    ASSUME NEW c, NEW m, NEW e, e.op \in LmsPhases, e.op # "lms_step", NEW t, IsSequence(t), NEW n, NEW a,
           Goes(c, m, Run(LmsBodyOf(c.p, c.pk, e) \o t, n, a))
    PROVE  Goes(c, m, Run(Then(e, t), n, a))
  <1>1. Run(Then(e, t), n, a).todo = Then(e, t)
    BY DEF Run, Config
  <1>2. Head(Then(e, t)) = e
    BY Sequences DEF SeqFacts
  <1>3. Meets(c, m, Run(Then(e, t), n, a))
    BY <1>1, <1>2, Zenon DEF Meets
  <1> QED
    BY <1>3, PhaseGoes

LEMMA CallThen ==
    ASSUME NEW phase, NEW i, NEW s
    PROVE  Call(phase, i) \o s = Then([op |-> phase, i |-> i], s)
  <1>1. IsSequence(Call(phase, i)) /\ \A t : Call(phase, i) \o t = Then([op |-> phase, i |-> i], t)
    BY CodeOne, ZenonT(40) DEF CodeFacts
  <1> QED
    BY <1>1

\* A chain, as the phase it is.
LEMMA ChainPhaseGoes ==
    ASSUME NEW c, NEW m, LmsCase(c), m \in Seq(Octet), NEW i \in Nat, i < c.p.p,
           NEW b, IsSequence(b), Len(b) = c.p.h + (c.p.p - i) - 1, NEW a, IsSequence(a), Len(a) = i,
           NEW u, NEW s,
           Goes(c, m, Run(s, On(b, Source(c, m)), On(a, EndOf(c, m, i, u))))
    PROVE  Goes(c, m, Run(Call("lms_chain", i) \o s, On(On(b, u), Source(c, m)), a))
  <1> DEFINE e == [op |-> "lms_chain", i |-> i]
             v == Source(c, m)
             g == EmitLmsChain(c.p, i)
  <1>1. IsSequence(s)
    BY GoesFormed DEF Run
  <1>2. Goes(c, m, Run(g \o s, On(On(b, u), v), a))
    BY ChainTurnGoes
  <1>3. e.op = "lms_chain" /\ e.i = i
    OBVIOUS
  <1>4. Call("lms_chain", i) \o s = Then(e, s)
    BY CallThen, Zenon
  <1> HIDE DEF e
  <1>5. e.op \in LmsPhases /\ LmsBodyOf(c.p, c.pk, e) = g /\ e.op # "lms_step"
    BY <1>3 DEF LmsPhases, LmsBodyOf
  <1> HIDE DEF g, v
  <1>6. Goes(c, m, Run(Then(e, s), On(On(b, u), v), a))
    <2>1. Goes(c, m, Run(LmsBodyOf(c.p, c.pk, e) \o s, On(On(b, u), v), a))
      BY <1>2, <1>5, Zenon
    <2> QED
      BY <1>1, <1>5, <2>1, OtherGoes
  <1> QED
    BY <1>4, <1>6, Zenon DEF v

\* The ends of all chains, and the loop over them.
LmsEnds(c, m) == [k \in 1 .. c.p.p |-> EndOf(c, m, k - 1, c.sig.y[k])]

LEMMA ChainLoopGoes ==
    ASSUME NEW c, NEW m, LmsCase(c), m \in Seq(Octet), NEW b, IsSequence(b), Len(b) = c.p.h, NEW t,
           Goes(c, m, Run(t, On(b, Source(c, m)), First(LmsEnds(c, m), c.p.p)))
    PROVE  /\ IsSequence(Joined(ChainTurns(c.p)))
           /\ Goes(c, m, Run(Joined(ChainTurns(c.p)) \o t, On(Piled(b, c.sig.y, 0), Source(c, m)), <<>>))
  <1> DEFINE n == c.p.p
             h == c.p.h
             f == ChainTurns(c.p)
             v == Source(c, m)
             y == c.sig.y
             ends == LmsEnds(c, m)
             S(k) == Piled(b, y, k)
             A(k) == First(ends, k)
  <1>1. n \in Nat /\ h \in Nat /\ IsSequence(y) /\ Len(y) = n
    BY CaseParts
  <1>2. \A k \in 1..n : ends[k] = EndOf(c, m, k - 1, y[k])
    BY Zenon DEF LmsEnds
  <1>3. /\ A(0) = <<>> /\ \A k \in 0..n : IsSequence(A(k)) /\ Len(A(k)) = k
        /\ \A k \in 1..n : A(k) = On(A(k - 1), ends[k])
    <2> HIDE DEF n, ends
    <2> QED
      BY <1>1, FirstIs, Zenon
  <1>4. /\ S(n) = b /\ S(0) = Piled(b, y, 0)
        /\ \A k \in 0..n : IsSequence(S(k)) /\ Len(S(k)) = h + (n - k)
        /\ \A k \in 1..n : S(k - 1) = On(S(k), y[k])
    <2> HIDE DEF n, y
    <2>1. /\ Piled(b, y, Len(y)) = b
          /\ \A k \in 0..Len(y) : IsSequence(Piled(b, y, k)) /\ Len(Piled(b, y, k)) = Len(b) + (Len(y) - k)
          /\ \A k \in 1..Len(y) : Piled(b, y, k - 1) = On(Piled(b, y, k), y[k])
      BY <1>1, PiledIs
    <2>2. Len(y) = n /\ Len(b) = h
      BY <1>1
    <2> QED
      BY <2>1, <2>2, Zenon
  <1> DEFINE mains == [k \in 1 .. n + 1 |-> On(S(k - 1), v)]
             alts == [k \in 1 .. n + 1 |-> A(k - 1)]
  <1>5. f = [k \in 1..n |-> f[k]] /\ \A k \in 1..n : f[k] = Call("lms_chain", 0 + k - 1)
    <2>1. c.p.p - 1 - 0 + 1 = n
      BY <1>1
    <2>2. f = [k \in 1..n |-> Call("lms_chain", 0 + k - 1)]
      BY <2>1, Zenon DEF ChainTurns
    <2> HIDE DEF f, n
    <2> QED
      BY <2>2
  <1>6. /\ \A k \in 1..n : /\ mains[k + 1] = On(S(k), v) /\ alts[k + 1] = A(k)
                           /\ mains[k] = On(S(k - 1), v) /\ alts[k] = A(k - 1)
        /\ mains[n + 1] = On(S(n), v) /\ alts[n + 1] = A(n)
        /\ mains[1] = On(S(0), v) /\ alts[1] = A(0)
    <2>1. /\ \A k \in 1..n : k \in 1 .. n + 1 /\ k + 1 \in 1 .. n + 1 /\ (k + 1) - 1 = k
          /\ n + 1 \in 1 .. n + 1 /\ (n + 1) - 1 = n /\ 1 \in 1 .. n + 1 /\ 1 - 1 = 0
      BY <1>1
    <2> HIDE DEF n, f, S, A, v
    <2> QED
      BY <2>1, Zenon
  <1> HIDE DEF f, mains, alts, S, A, ends
  <1>7. ASSUME NEW k \in 1..n, NEW s, Goes(c, m, Run(s, mains[k + 1], alts[k + 1]))
        PROVE  Goes(c, m, Run(f[k] \o s, mains[k], alts[k]))
    <2> DEFINE i == 0 + k - 1
               r == S(k)
               z == A(k - 1)
               u == y[k]
    <2>1. i = k - 1 /\ i \in Nat /\ i < c.p.p /\ k \in 0..n /\ k - 1 \in 0..n
      BY <1>1
    <2>2. ends[k] = EndOf(c, m, i, u)
      BY <1>2, <2>1, Zenon
    <2>3. Goes(c, m, Run(s, On(r, Source(c, m)), On(z, EndOf(c, m, i, u))))
      BY <1>3, <1>6, <1>7, <2>2, Zenon
    <2>4. IsSequence(r) /\ Len(r) = h + (n - k) /\ IsSequence(z) /\ Len(z) = k - 1 /\ S(k - 1) = On(r, u)
      BY <1>3, <1>4, <2>1, Zenon
    <2>5. Len(r) = c.p.h + (c.p.p - i) - 1 /\ Len(z) = i
      <3>1. h + (n - k) = h + (n - i) - 1
        BY <1>1, <2>1
      <3> QED
        BY <2>1, <2>4, <3>1, Zenon
    <2> HIDE DEF i, r, z, u
    <2>6. Goes(c, m, Run(Call("lms_chain", i) \o s, On(On(r, u), Source(c, m)), z))
      BY <2>1, <2>3, <2>4, <2>5, ChainPhaseGoes
    <2> QED
      BY <1>5, <1>6, <2>4, <2>6, Zenon DEF i, z
  <1>8. \A k \in 1..n : IsSequence(f[k])
    <2> SUFFICES ASSUME NEW k \in 1..n PROVE IsSequence(f[k])
      OBVIOUS
    <2>1. IsSequence(Call("lms_chain", 0 + k - 1))
      BY CodeOne, Zenon DEF CodeFacts
    <2> QED
      BY <1>5, <2>1, Zenon
  <1>9. Goes(c, m, Run(t, mains[n + 1], alts[n + 1]))
    BY <1>4, <1>6, Zenon DEF A, ends
  <1>10. IsSequence(Joined(f)) /\ Goes(c, m, Run(Joined(f) \o t, mains[1], alts[1]))
    <2> HIDE DEF n
    <2> QED
      BY <1>1, <1>5, <1>7, <1>8, <1>9, LoopGoes
  <1> QED
    BY <1>3, <1>4, <1>6, <1>10, Zenon DEF f

-----------------------------------------------------------------------------
(* The verifier, from the message to the verdict.                           *)

\* The digest the digits are of, from the randomiser and the message.
LEMMA MessageGoes ==
    ASSUME NEW c, NEW m, LmsCase(c), NEW b, IsSequence(b), NEW t, NEW a,
           Goes(c, m, Run(t, On(b, QDigest(c, m)), a))
    PROVE  /\ IsSequence(EmitMessageDigest(c.pk))
           /\ Goes(c, m, Run(EmitMessageDigest(c.pk) \o t, On(On(b, c.sig.c), m), a))
  <1> DEFINE x == Prefix(c.pk.id, c.pk.q, D_MESG)
             u == c.sig.c
             key == c.pk
             t1 == Then(Writing("sha256"), t)
             t2 == ThenNext \o t1
             t3 == Prefixed(x) \o t2
             t4 == Then(Writing("swap"), t3)
  <1>1. IsSequence(t) /\ \A y, z : IsSequence(On(b, y)) /\ IsSequence(On(On(b, y), z))
    BY Sequences, GoesFormed DEF SeqFacts, Run
  <1>2. QDigest(c, m) = Sha256((x \o u) \o m)
    BY Zenon DEF QDigest
  <1>3. IsSequence(ThenNext) /\ IsSequence(Prefixed(x))
    <2> HIDE DEF x
    <2> QED
      BY <1>1, ThenNextCode, PrefixedCode
  <1>4. /\ IsSequence(EmitMessageDigest(key)) /\ EmitMessageDigest(key) \o t = t4
    <2>1. IsSequence(Prefixed(Prefix(key.id, key.q, D_MESG)))
      BY <1>3, Zenon
    <2> HIDE DEF key
    <2>2. /\ IsSequence(EmitMessageDigest(key))
          /\ EmitMessageDigest(key) \o t =
               Then(Writing("swap"), (Prefixed(Prefix(key.id, key.q, D_MESG)) \o (ThenNext \o Then(Writing("sha256"), t))))
      BY <1>1, <1>3, <2>1, DigestSwapCode
    <2> QED
      BY <2>2, Zenon DEF t4, t3, t2, t1, x, key
  <1> HIDE DEF x, u
  <1>5. Goes(c, m, Run(t1, On(b, (x \o u) \o m), a))
    <2>1. Goes(c, m, Run(t, On(b, Sha256((x \o u) \o m)), a))
      BY <1>2, Zenon
    <2> QED
      BY <2>1, ShaGoes
  <1> HIDE DEF t1
  <1>6. Goes(c, m, Run(t2, On(On(b, m), x \o u), a))
    BY <1>5, ThenNextGoes
  <1> HIDE DEF t2
  <1>7. Goes(c, m, Run(t3, On(On(b, m), u), a))
    BY <1>1, <1>6, PrefixedGoes
  <1> HIDE DEF t3
  <1>8. Goes(c, m, Run(t4, On(On(b, u), m), a))
    BY <1>7, SwapGoes
  <1> HIDE DEF t4
  <1> QED
    BY <1>4, <1>8, Zenon DEF u, key

\* The end of a chain is a string of bytes: a hash, or the element itself.
LEMMA EndSequence ==
    ASSUME NEW c, NEW m, LmsCase(c), m \in Seq(Octet), NEW k \in 1 .. c.p.p, NEW u, IsSequence(u)
    PROVE  IsSequence(EndOf(c, m, k - 1, u))
  <1> DEFINE i == k - 1
             d == Coef(Source(c, m), i, c.p.w)
             n == MaxCoef(c.p)
             key == c.pk
  <1>1. i \in Nat /\ i < c.p.p
    BY CaseParts
  <1>2. d \in 0..n
    <2> HIDE DEF i
    <2> QED
      BY <1>1, DigitsThere
  <1>3. n \in Nat
    <2>1. Consistent(c.p)
      BY DEF LmsCase
    <2>2. MaxCoef(c.p) \in 1..255
      BY <2>1, DigestShort
    <2>3. n \in 1..255
      BY <2>2, Zenon
    <2> HIDE DEF n, d, i, key
    <2> QED
      BY <2>3
  <1>4. EndOf(c, m, k - 1, u) = Walk(key, i, d, n, u)
    BY Zenon DEF EndOf
  <1> HIDE DEF i, d, n, key
  <1>5. d \in Nat /\ d <= n
    BY <1>2, <1>3
  <1>6. PICK F : Walks(F, key, i, d, n, u)
    BY <1>3, <1>5, WalksExist
  <1>7. /\ F[d] = u /\ F[n] = Walk(key, i, d, n, u)
        /\ \A j \in d + 1 .. n : F[j] = Sha256(Prefix(key.id, key.q, i) \o <<j - 1>> \o F[j - 1])
    BY <1>6, Zenon DEF Walks
  <1>8. CASE n = d
    BY <1>4, <1>7, <1>8, Zenon
  <1>9. CASE n # d
    <2>1. n \in d + 1 .. n
      BY <1>3, <1>5, <1>9
    <2>2. F[n] = Sha256(Prefix(key.id, key.q, i) \o <<n - 1>> \o F[n - 1])
      BY <1>7, <2>1, Zenon
    <2> QED
      BY <1>4, <1>7, <2>2, HashSequence
  <1> QED
    BY <1>8, <1>9

\* The root the script climbs to is the one the reference computes.
LEMMA RootIs ==
    ASSUME NEW c, NEW m
    PROVE  LmsRoot(c.p, c.pk, c.sig, Source(c, m)) =
             ClimbPath(c.p, c.pk, LeafHash(c.pk, LeafCount(c.p) + c.pk.q, OtsKey(c.pk, LmsEnds(c, m))), c.sig.path)
  BY Zenon DEF LmsRoot, LmsEnds, EndOf

LEMMA VerifyGoes ==
    ASSUME NEW c, NEW m, LmsCase(c), m \in Seq(Octet)
    PROVE  Goes(c, m, Run(Call("lms_verify", 0), On(LmsWitness(c.sig), m), <<>>))
  <1> DEFINE p == c.p
             key == c.pk
             v == Source(c, m)
             y == c.sig.y
             b == Piled(<<>>, c.sig.path, 0)
             d == Piled(b, y, 0)
             ends == LmsEnds(c, m)
             t1 == Then(Writes("data", key.root), Then(Writing("equal"), <<>>))
             t2 == EmitMerklePath(p, key) \o t1
             t3 == EmitCandidateKey(p, key) \o t2
             t4 == Joined(ChainTurns(p)) \o t3
             t5 == EmitChecksumAndV(p) \o t4
             t6 == EmitMessageDigest(key) \o t5
  <1>1. /\ Consistent(p) /\ p.h \in Nat /\ p.p \in Nat /\ IsSequence(key.id) /\ IsSequence(<<>>)
        /\ IsSequence(c.sig.path) /\ Len(c.sig.path) = p.h /\ IsSequence(y) /\ Len(y) = p.p
    BY CaseParts, Sequences DEF SeqFacts
  <1>2. /\ IsSequence(b) /\ Len(b) = p.h /\ b = <<>> \o Reverse(c.sig.path)
        /\ IsSequence(d) /\ d = b \o Reverse(y)
    <2> DEFINE path == c.sig.path
    <2>1. IsSequence(path) /\ Len(path) = p.h
      BY <1>1
    <2> HIDE DEF path, p, y
    <2>2. /\ Piled(<<>>, path, 0) = <<>> \o Reverse(path)
          /\ \A k \in 0..Len(path) : IsSequence(Piled(<<>>, path, k)) /\ Len(Piled(<<>>, path, k)) = Len(<<>>) + (Len(path) - k)
      BY <1>1, <2>1, PiledIs
    <2>3. 0 \in 0..Len(path) /\ Len(<<>>) + (Len(path) - 0) = p.h
      BY <1>1, <2>1
    <2>4. IsSequence(b) /\ Len(b) = p.h /\ b = <<>> \o Reverse(path)
      BY <2>2, <2>3, Zenon DEF path
    <2> HIDE DEF b
    <2>5. /\ Piled(b, y, 0) = b \o Reverse(y)
          /\ \A k \in 0..Len(y) : IsSequence(Piled(b, y, k))
      BY <1>1, <2>4, PiledIs
    <2>6. 0 \in 0..Len(y)
      BY <1>1
    <2> QED
      BY <2>4, <2>5, <2>6, Zenon DEF path
  <1>3. LmsWitness(c.sig) = On(d, c.sig.c)
    <2>1. <<>> \o Reverse(c.sig.path) = Reverse(c.sig.path)
      <3>1. \A s : IsSequence(s) => <<>> \o s = s
        BY ConcatEmptySeq DEF IsSequence
      <3>2. IsSequence(Reverse(c.sig.path))
        <4> DEFINE path == c.sig.path
        <4>1. IsSequence(path) /\ Len(path) = p.h
          BY <1>1
        <4> HIDE DEF path, p
        <4>2. Pile(path, 0) = Reverse(path) /\ \A k \in 0..Len(path) : IsSequence(Pile(path, k))
          BY <4>1, PileIs
        <4>3. 0 \in 0..Len(path)
          BY <1>1, <4>1
        <4> QED
          BY <4>2, <4>3, Zenon DEF path
      <3> QED
        BY <3>1, <3>2
    <2>2. LmsWitness(c.sig) = (Reverse(c.sig.path) \o Reverse(c.sig.y)) \o <<c.sig.c>>
      BY Zenon DEF LmsWitness
    <2> QED
      BY <1>2, <2>1, <2>2, Zenon DEF On
  <1>4. p.p # 0
    <2>1. {p.u, p.v} \subseteq Nat /\ p.p = p.u + p.v /\ p.u * p.w = 8 * DigestLen /\ DigestLen \in Nat \ {0}
      BY <1>1, SetNumbers
    <2>2. p.w \in {1, 2, 4, 8}
      BY <1>1, PowerOfWidth
    <2> HIDE DEF p
    <2>3. p.u # 0
      BY <2>1, <2>2
    <2> QED
      BY <2>1, <2>3
  <1>5. Goes(c, m, Run(t1, On(<<>>, LmsRoot(p, key, c.sig, v)), <<>>))
    BY <1>1, RootGoes
  <1> HIDE DEF t1
  <1>6. IsSequence(EmitMerklePath(p, key)) /\ Goes(c, m, Run(t2, On(b, OtsKey(key, ends)), <<>>))
    <2> DEFINE u == OtsKey(c.pk, ends)
    <2>1. Goes(c, m, Run(t1, On(<<>>, ClimbPath(c.p, c.pk, LeafHash(c.pk, LeafCount(c.p) + c.pk.q, u), c.sig.path)), <<>>))
      BY <1>5, RootIs, Zenon
    <2> HIDE DEF u
    <2>2. /\ IsSequence(EmitMerklePath(c.p, c.pk))
          /\ Goes(c, m, Run(EmitMerklePath(c.p, c.pk) \o t1, On(Piled(<<>>, c.sig.path, 0), u), <<>>))
      BY <2>1, MerkleGoes
    <2> QED
      BY <2>2, Zenon DEF u
  <1> HIDE DEF t2
  <1>7. IsSequence(EmitCandidateKey(p, key)) /\ Goes(c, m, Run(t3, On(b, v), First(ends, p.p)))
    <2>1. ends = [k \in 1..p.p |-> ends[k]] /\ \A k \in 1..p.p : IsSequence(ends[k])
      <3>1. ends = [k \in 1..p.p |-> EndOf(c, m, k - 1, y[k])]
        BY Zenon DEF LmsEnds
      <3> HIDE DEF ends, p, y
      <3> SUFFICES ASSUME NEW k \in 1..p.p PROVE IsSequence(EndOf(c, m, k - 1, y[k]))
        BY <3>1
      <3>2. IsSequence(y[k])
        BY <1>1, CaseParts DEF y, p
      <3> QED
        BY <3>2, EndSequence DEF p
    <2> HIDE DEF ends, b, p, key, v
    <2> QED
      BY <1>1, <1>2, <1>4, <1>6, <2>1, CandidateGoes
  <1> HIDE DEF t3
  <1>8. IsSequence(Joined(ChainTurns(p))) /\ Goes(c, m, Run(t4, On(d, v), <<>>))
    <2>1. Goes(c, m, Run(t3, On(b, Source(c, m)), First(LmsEnds(c, m), c.p.p)))
      BY <1>7, Zenon
    <2>2. IsSequence(b) /\ Len(b) = c.p.h
      BY <1>2, Zenon
    <2> HIDE DEF b
    <2>3. /\ IsSequence(Joined(ChainTurns(c.p)))
          /\ Goes(c, m, Run(Joined(ChainTurns(c.p)) \o t3, On(Piled(b, c.sig.y, 0), Source(c, m)), <<>>))
      BY <2>1, <2>2, ChainLoopGoes
    <2> QED
      BY <2>3, Zenon
  <1> HIDE DEF t4, d, b
  <1>9. IsSequence(EmitChecksumAndV(p)) /\ Goes(c, m, Run(t5, On(d, QDigest(c, m)), <<>>))
    <2> DEFINE q == QDigest(c, m)
    <2>1. q \in Seq(Octet) /\ Len(q) = DigestLen
      BY QDigestIs
    <2>2. Goes(c, m, Run(t4, On(d, CoefficientSource(q, c.p)), <<>>))
      BY <1>8, SourceIs, Zenon
    <2> HIDE DEF q
    <2>3. /\ IsSequence(EmitChecksumAndV(c.p))
          /\ Goes(c, m, Run(EmitChecksumAndV(c.p) \o t4, On(d, q), <<>>))
      BY <1>1, <1>2, <2>1, <2>2, ChecksumGoes
    <2> QED
      BY <2>3, Zenon DEF q
  <1> HIDE DEF t5
  <1>10. IsSequence(EmitMessageDigest(key)) /\ Goes(c, m, Run(t6, On(On(d, c.sig.c), m), <<>>))
    BY <1>2, <1>9, MessageGoes
  <1>11. IsSequence(EmitLmsVerify(p, key)) /\ EmitLmsVerify(p, key) \o <<>> = t6
    <2> HIDE DEF p, key
    <2>1. /\ IsSequence(EmitLmsVerify(p, key))
          /\ EmitLmsVerify(p, key) \o <<>> =
               EmitMessageDigest(key) \o (EmitChecksumAndV(p) \o (Joined(ChainTurns(p)) \o (EmitCandidateKey(p, key) \o (EmitMerklePath(p, key) \o Then(Writes("data", key.root), Then(Writing("equal"), <<>>))))))
      <3>1. /\ IsSequence(EmitMessageDigest(key)) /\ IsSequence(EmitChecksumAndV(p)) /\ IsSequence(Joined(ChainTurns(p)))
            /\ IsSequence(EmitCandidateKey(p, key)) /\ IsSequence(EmitMerklePath(p, key)) /\ IsSequence(<<>>)
        BY <1>1, <1>6, <1>7, <1>8, <1>9, <1>10
      <3> DEFINE z == <<>>
      <3>2. IsSequence(z)
        BY <3>1, Zenon
      <3> HIDE DEF z
      <3>3. VerifyParts(p, key, z)
        BY <3>1, <3>2, VerifyCode
      <3> QED
        BY <3>3, Zenon DEF z, VerifyParts
    <2> QED
      BY <2>1, Zenon DEF t6, t5, t4, t3, t2, t1
  <1> HIDE DEF t6
  <1> DEFINE e == [op |-> "lms_verify", i |-> 0]
  <1>12. e.op = "lms_verify"
    OBVIOUS
  <1>13. Call("lms_verify", 0) = Then(e, <<>>)
    <2>1. Call("lms_verify", 0) = <<e>>
      BY Zenon DEF Call
    <2>2. <<e>> \o <<>> = <<e>>
      BY SequenceOne, ConcatEmptySeq DEF IsSequence
    <2> QED
      BY <2>1, <2>2, Zenon DEF Then
  <1> HIDE DEF e
  <1>14. e.op \in LmsPhases /\ LmsBodyOf(c.p, c.pk, e) = EmitLmsVerify(p, key) /\ e.op # "lms_step"
    BY <1>12 DEF LmsPhases, LmsBodyOf
  <1>15. Goes(c, m, Run(LmsBodyOf(c.p, c.pk, e) \o <<>>, On(LmsWitness(c.sig), m), <<>>))
    BY <1>3, <1>10, <1>11, <1>14, Zenon
  <1>16. Goes(c, m, Run(Then(e, <<>>), On(LmsWitness(c.sig), m), <<>>))
    BY <1>1, <1>14, <1>15, OtherGoes
  <1> QED
    BY <1>13, <1>16, Zenon

-----------------------------------------------------------------------------
(* The digest of a transaction a wallet signs.                              *)

HeaderBytes(tx) ==
  ((LittleEndian(tx.version, 2) \o tx.txid) \o LittleEndian(tx.index, 4)) \o LittleEndian(Len(tx.outputs), 1)
OutputAppended(before, out) ==
  ((before \o LittleEndian(out.amount, 8)) \o LittleEndian(Len(NodeSpk(out)), 2)) \o NodeSpk(out)

\* The header, part by part.
HeaderParts(t) ==
  HeaderCode \o t =
    Op("txversion") \o (FixedWidth(2)
      \o (Op("inputindex") \o (Op("outpointtxid") \o (Op("cat")
      \o (Op("inputindex") \o (Op("outpointindex") \o (FixedWidth(4) \o (Op("cat")
      \o (Op("outputcount") \o (FixedWidth(1) \o (Op("cat") \o t)))))))))))

LEMMA FixedSequence ==
    ASSUME NEW n
    PROVE  IsSequence(FixedWidth(n))
  <1>1. IsSequence(Number(n)) /\ IsSequence(Op("num2bin"))
    <2>1. IsSequence(Number(n)) /\ \A t : Number(n) \o t = Then(Numeral(n), t)
      BY CodeOne, Zenon DEF CodeFacts
    <2>2. IsSequence(Op("num2bin")) /\ \A t : Op("num2bin") \o t = Then(Writing("num2bin"), t)
      BY CodeOne, Zenon DEF CodeFacts
    <2> QED
      BY <2>1, <2>2
  <1> QED
    BY <1>1, SequenceConcat DEF FixedWidth

LEMMA OpSequence ==
    ASSUME NEW code
    PROVE  IsSequence(Op(code)) /\ \A t : Op(code) \o t = Then(Writing(code), t)
  BY CodeOne, Zenon DEF CodeFacts

LEMMA HeaderInParts ==
    ASSUME NEW t, IsSequence(t)
    PROVE  HeaderParts(t)
  <1> DEFINE a == Op("txversion")
             b == FixedWidth(2)
             c == Op("inputindex")
             d == Op("outpointtxid")
             e == Op("cat")
             f == Op("outpointindex")
             g == FixedWidth(4)
             h == Op("outputcount")
             i == FixedWidth(1)
             u == ((((a \o b) \o c) \o d) \o e)
             v == c \o (f \o (g \o (e \o (h \o (i \o (e \o t))))))
  <1>1. /\ IsSequence(a) /\ IsSequence(b) /\ IsSequence(c) /\ IsSequence(d) /\ IsSequence(e)
        /\ IsSequence(f) /\ IsSequence(g) /\ IsSequence(h) /\ IsSequence(i)
    BY OpSequence, FixedSequence
  <1>2. HeaderCode = (((((((u \o c) \o f) \o g) \o e) \o h) \o i) \o e)
    BY HeaderIs, Zenon
  <1> HIDE DEF a, b, c, d, e, f, g, h, i
  <1>3. IsSequence(u)
    BY <1>1, SequenceConcat
  <1>4. Flat8(u, c, f, g, e, h, i, e, t)
    <2> HIDE DEF u
    <2> QED
      BY <1>1, <1>3, Flattened8
  <1>5. HeaderCode \o t = u \o v
    <2> HIDE DEF u
    <2> QED
      BY <1>2, <1>4, Zenon DEF Flat8
  <1>6. IsSequence(v)
    BY <1>1, SequenceConcat
  <1> HIDE DEF v
  <1>7. Flat5(a, b, c, d, e, v)
    BY <1>1, <1>6, Flattened5
  <1>8. u \o v = a \o (b \o (c \o (d \o (e \o v))))
    BY <1>7, Zenon DEF Flat5
  <1> QED
    BY <1>5, <1>8, Zenon DEF HeaderParts, a, b, c, d, e, f, g, h, i, v

\* An output, part by part.
OutputParts(o, t) ==
  OutputCode(o) \o t =
    Number(o - 1) \o (Op("outputamount") \o (FixedWidth(8) \o (Op("cat")
      \o (Number(o - 1) \o (Op("outputspklen") \o (FixedWidth(2) \o (Op("cat")
      \o (Number(o - 1) \o (Op("outputspk") \o (Op("cat") \o t))))))))))

LEMMA OutputInParts ==
    ASSUME NEW o, NEW t, IsSequence(t)
    PROVE  OutputParts(o, t)
  <1> DEFINE a == Number(o - 1)
             b == Op("outputamount")
             c == FixedWidth(8)
             d == Op("cat")
             e == Op("outputspklen")
             f == FixedWidth(2)
             g == Op("outputspk")
             u == ((a \o b) \o c) \o d
             v == a \o (e \o (f \o (d \o (a \o (g \o (d \o t))))))
  <1>1. /\ IsSequence(a) /\ IsSequence(b) /\ IsSequence(c) /\ IsSequence(d) /\ IsSequence(e)
        /\ IsSequence(f) /\ IsSequence(g)
    <2>1. IsSequence(a) /\ \A s : a \o s = Then(Numeral(o - 1), s)
      BY CodeOne, Zenon DEF CodeFacts
    <2> QED
      BY <2>1, OpSequence, FixedSequence
  <1>2. OutputCode(o) = (((((((u \o a) \o e) \o f) \o d) \o a) \o g) \o d)
    <2>1. EmitOutput(o - 1) = (((((((u \o a) \o e) \o f) \o d) \o a) \o g) \o d)
      BY Zenon DEF EmitOutput
    <2> QED
      BY <2>1, OutputIs
  <1> HIDE DEF a, b, c, d, e, f, g
  <1>3. IsSequence(u)
    BY <1>1, SequenceConcat
  <1>4. Flat8(u, a, e, f, d, a, g, d, t)
    <2> HIDE DEF u
    <2> QED
      BY <1>1, <1>3, Flattened8
  <1>5. OutputCode(o) \o t = u \o v
    <2> HIDE DEF u
    <2> QED
      BY <1>2, <1>4, Zenon DEF Flat8
  <1>6. IsSequence(v)
    BY <1>1, SequenceConcat
  <1> HIDE DEF v
  <1>7. Flat4(a, b, c, d, v)
    BY <1>1, <1>6, Flattened4
  <1>8. u \o v = a \o (b \o (c \o (d \o v)))
    BY <1>7, Zenon DEF Flat4
  <1> QED
    BY <1>5, <1>8, Zenon DEF OutputParts, a, b, c, d, e, f, g, v

\* Before the outputs.
LEMMA HeaderGoes ==
    ASSUME NEW c, NEW m, NEW b, IsSequence(b), NEW t, NEW a,
           NEW x, x = c.tx, x.version \in Word, Len(Encode(x.version)) <= 2, x.index \in Word,
           NEW n \in Word, n = Len(x.outputs), Len(Encode(n)) <= 1,
           Goes(c, m, Run(t, On(b, HeaderBytes(x)), a))
    PROVE  Goes(c, m, Run(HeaderCode \o t, b, a))
  <1> DEFINE x1 == LittleEndian(x.version, 2)
             x2 == x1 \o x.txid
             x3 == x2 \o LittleEndian(x.index, 4)
             version == x.version
             index == x.index
             t1 == Then(Writing("cat"), t)
             t2 == FixedWidth(1) \o t1
             t3 == Then(Writing("outputcount"), t2)
             t4 == Then(Writing("cat"), t3)
             t5 == FixedWidth(4) \o t4
             t6 == Then(Writing("outpointindex"), t5)
             t7 == Then(Writing("inputindex"), t6)
             t8 == Then(Writing("cat"), t7)
             t9 == Then(Writing("outpointtxid"), t8)
             t10 == Then(Writing("inputindex"), t9)
             t11 == FixedWidth(2) \o t10
             t12 == Then(Writing("txversion"), t11)
  <1>1. IsSequence(t) /\ \A y, z : IsSequence(On(b, y)) /\ IsSequence(On(On(b, y), z))
    BY Sequences, GoesFormed DEF SeqFacts, Run
  <1>2. /\ Global(c.tx, "txversion") = Encode(version) /\ Global(c.tx, "inputindex") = Encode(0)
        /\ Global(c.tx, "outputcount") = Encode(n)
        /\ OfInput(c.tx, "outpointtxid")[1] = x.txid
        /\ OfInput(c.tx, "outpointindex")[1] = Encode(index)
    BY DEF Global, OfInput
  <1>3. /\ "txversion" \in Globals /\ "inputindex" \in Globals /\ "outputcount" \in Globals
        /\ "outpointtxid" \in OfOneInput /\ "outpointindex" \in OfOneInput
    BY DEF Globals, OfOneInput
  <1>4. version \in Word /\ Len(Encode(version)) <= 2 /\ index \in Word /\ Len(Encode(index)) <= 4
        /\ 1 \in 1..8 /\ 2 \in 1..8 /\ 4 \in 1..8
    BY FieldFits
  <1>5. HeaderCode \o t = t12
    <2>1. HeaderParts(t)
      BY <1>1, HeaderInParts
    <2>2. /\ Op("cat") \o t = t1 /\ Op("outputcount") \o t2 = t3 /\ Op("cat") \o t3 = t4
          /\ Op("outpointindex") \o t5 = t6 /\ Op("inputindex") \o t6 = t7 /\ Op("cat") \o t7 = t8
          /\ Op("outpointtxid") \o t8 = t9 /\ Op("inputindex") \o t9 = t10 /\ Op("txversion") \o t11 = t12
      <3>1. Op("cat") \o t = t1 /\ Op("outputcount") \o t2 = t3
        <4> HIDE DEF t2
        <4> QED
          BY OpSequence
      <3>2. Op("cat") \o t3 = t4 /\ Op("outpointindex") \o t5 = t6
        <4> HIDE DEF t3, t5
        <4> QED
          BY OpSequence
      <3>3. Op("inputindex") \o t6 = t7 /\ Op("outpointtxid") \o t8 = t9
        <4> HIDE DEF t6, t8
        <4> QED
          BY OpSequence
      <3>4. Op("cat") \o t7 = t8 /\ Op("inputindex") \o t9 = t10 /\ Op("txversion") \o t11 = t12
        <4> HIDE DEF t7, t9, t11
        <4> QED
          BY OpSequence
      <3> QED
        BY <3>1, <3>2, <3>3, <3>4, Zenon
    <2>3. FixedWidth(1) \o t1 = t2 /\ FixedWidth(4) \o t4 = t5 /\ FixedWidth(2) \o t10 = t11
      BY Zenon
    <2> HIDE DEF t1, t2, t3, t4, t5, t6, t7, t8, t9, t10, t11, t12
    <2> QED
      BY <2>1, <2>2, <2>3, Zenon DEF HeaderParts
  <1>6. HeaderBytes(x) = x3 \o LittleEndian(n, 1)
    BY Zenon DEF HeaderBytes
  <1>7. x1 = LittleEndian(version, 2) /\ x2 = x1 \o x.txid /\ x3 = x2 \o LittleEndian(index, 4)
    BY Zenon
  <1> HIDE DEF x1, x2, x3, version, index
  <1>8. Goes(c, m, Run(t1, On(On(b, x3), LittleEndian(n, 1)), a))
    BY <1>6, CatGoes
  <1> HIDE DEF t1
  <1>9. Goes(c, m, Run(t2, On(On(b, x3), Encode(n)), a))
    BY <1>1, <1>4, <1>8, FixedGoes
  <1> HIDE DEF t2
  <1>10. Goes(c, m, Run(t3, On(b, x3), a))
    BY <1>1, <1>2, <1>3, <1>9, GlobalGoes
  <1> HIDE DEF t3
  <1>11. Goes(c, m, Run(t4, On(On(b, x2), LittleEndian(index, 4)), a))
    BY <1>7, <1>10, CatGoes
  <1> HIDE DEF t4
  <1>12. Goes(c, m, Run(t5, On(On(b, x2), Encode(index)), a))
    BY <1>1, <1>4, <1>11, FixedGoes
  <1> HIDE DEF t5
  <1>13. Goes(c, m, Run(t6, On(On(b, x2), Encode(0)), a))
    BY <1>1, <1>2, <1>3, <1>12, InputGoes
  <1> HIDE DEF t6
  <1>14. Goes(c, m, Run(t7, On(b, x2), a))
    BY <1>1, <1>2, <1>3, <1>13, GlobalGoes
  <1> HIDE DEF t7
  <1>15. Goes(c, m, Run(t8, On(On(b, x1), x.txid), a))
    BY <1>7, <1>14, CatGoes
  <1> HIDE DEF t8
  <1>16. Goes(c, m, Run(t9, On(On(b, x1), Encode(0)), a))
    BY <1>1, <1>2, <1>3, <1>15, InputGoes
  <1> HIDE DEF t9
  <1>17. Goes(c, m, Run(t10, On(b, x1), a))
    BY <1>1, <1>2, <1>3, <1>16, GlobalGoes
  <1> HIDE DEF t10
  <1>18. Goes(c, m, Run(t11, On(b, Encode(version)), a))
    <2>1. Goes(c, m, Run(t10, On(b, LittleEndian(version, 2)), a))
      BY <1>7, <1>17, Zenon
    <2> QED
      BY <1>1, <1>4, <2>1, FixedGoes
  <1> HIDE DEF t11
  <1>19. Goes(c, m, Run(t12, b, a))
    BY <1>2, <1>3, <1>18, GlobalGoes
  <1> QED
    BY <1>5, <1>19, Zenon

\* One output more.
LEMMA OutputGone ==
    ASSUME NEW c, NEW m, NEW b, IsSequence(b), NEW t, NEW a, NEW o \in 1..2, NEW x, x = c.tx,
           o \in DOMAIN x.outputs, DOMAIN x.outputs = 1 .. Len(x.outputs), NEW out, out = x.outputs[o],
           out.amount \in Word, NEW n \in Word, n = Len(NodeSpk(out)), Len(Encode(n)) <= 2,
           NEW before, Goes(c, m, Run(t, On(b, OutputAppended(before, out)), a))
    PROVE  Goes(c, m, Run(OutputCode(o) \o t, On(b, before), a))
  <1> DEFINE amount == out.amount
             spk == NodeSpk(out)
             x1 == before \o LittleEndian(amount, 8)
             x2 == x1 \o LittleEndian(n, 2)
             i == o - 1
             t1 == Then(Writing("cat"), t)
             t2 == Then(Writing("outputspk"), t1)
             t3 == Then(Numeral(i), t2)
             t4 == Then(Writing("cat"), t3)
             t5 == FixedWidth(2) \o t4
             t6 == Then(Writing("outputspklen"), t5)
             t7 == Then(Numeral(i), t6)
             t8 == Then(Writing("cat"), t7)
             t9 == FixedWidth(8) \o t8
             t10 == Then(Writing("outputamount"), t9)
             t11 == Then(Numeral(i), t10)
  <1>1. IsSequence(t) /\ \A y, z : IsSequence(On(b, y)) /\ IsSequence(On(On(b, y), z))
    BY Sequences, GoesFormed DEF SeqFacts, Run
  <1>2. i \in Word /\ i + 1 = o /\ i + 1 \in 1 .. Len(c.tx.outputs)
    BY SmallNumbers
  <1>3. /\ OfOutput(c.tx, "outputamount")[i + 1] = Encode(amount)
        /\ OfOutput(c.tx, "outputspklen")[i + 1] = Encode(n)
        /\ OfOutput(c.tx, "outputspk")[i + 1] = spk
    <2>1. /\ OfOutput(c.tx, "outputamount")[o] = Encode(amount)
          /\ OfOutput(c.tx, "outputspklen")[o] = Encode(n)
          /\ OfOutput(c.tx, "outputspk")[o] = spk
      BY DEF OfOutput
    <2> QED
      BY <1>2, <2>1, Zenon
  <1>4. /\ "outputamount" \in OfOneOutput /\ "outputspklen" \in OfOneOutput /\ "outputspk" \in OfOneOutput
    BY DEF OfOneOutput
  <1>5. amount \in Word /\ Len(Encode(amount)) <= 8 /\ 2 \in 1..8 /\ 8 \in 1..8
    <2>1. Len(Encode(amount)) <= 4 /\ Len(Encode(amount)) \in Nat
      BY FieldFits, NumberRead
    <2> QED
      BY <2>1
  <1>6. OutputCode(o) \o t = t11
    <2>1. OutputParts(o, t)
      BY <1>1, OutputInParts
    <2>2. IsSequence(Number(i)) /\ \A s : Number(i) \o s = Then(Numeral(i), s)
      BY CodeOne, Zenon DEF CodeFacts
    <2>3. Number(i) \o t2 = t3 /\ Number(i) \o t6 = t7 /\ Number(i) \o t10 = t11
      BY <2>2, Zenon
    <2>4. /\ Op("cat") \o t = t1 /\ Op("outputspk") \o t1 = t2 /\ Op("cat") \o t3 = t4
          /\ Op("outputspklen") \o t5 = t6 /\ Op("cat") \o t7 = t8 /\ Op("outputamount") \o t9 = t10
      <3> HIDE DEF t3, t5, t7, t9
      <3> QED
        BY OpSequence
    <2>5. FixedWidth(2) \o t4 = t5 /\ FixedWidth(8) \o t8 = t9
      BY Zenon
    <2> HIDE DEF t1, t2, t3, t4, t5, t6, t7, t8, t9, t10, t11
    <2> QED
      BY <2>1, <2>3, <2>4, <2>5, Zenon DEF OutputParts
  <1>7. OutputAppended(before, out) = x2 \o spk
    BY Zenon DEF OutputAppended
  <1>8. x1 = before \o LittleEndian(amount, 8) /\ x2 = x1 \o LittleEndian(n, 2)
    BY Zenon
  <1> HIDE DEF x1, x2, amount, spk, i
  <1>9. Goes(c, m, Run(t1, On(On(b, x2), spk), a))
    BY <1>7, CatGoes
  <1> HIDE DEF t1
  <1>10. Goes(c, m, Run(t2, On(On(b, x2), Encode(i)), a))
    BY <1>1, <1>2, <1>3, <1>4, <1>9, OutputGoes
  <1> HIDE DEF t2
  <1>11. Goes(c, m, Run(t3, On(b, x2), a))
    BY <1>1, <1>10, NumberGoes
  <1> HIDE DEF t3
  <1>12. Goes(c, m, Run(t4, On(On(b, x1), LittleEndian(n, 2)), a))
    BY <1>8, <1>11, CatGoes
  <1> HIDE DEF t4
  <1>13. Goes(c, m, Run(t5, On(On(b, x1), Encode(n)), a))
    BY <1>1, <1>5, <1>12, FixedGoes
  <1> HIDE DEF t5
  <1>14. Goes(c, m, Run(t6, On(On(b, x1), Encode(i)), a))
    BY <1>1, <1>2, <1>3, <1>4, <1>13, OutputGoes
  <1> HIDE DEF t6
  <1>15. Goes(c, m, Run(t7, On(b, x1), a))
    BY <1>1, <1>14, NumberGoes
  <1> HIDE DEF t7
  <1>16. Goes(c, m, Run(t8, On(On(b, before), LittleEndian(amount, 8)), a))
    BY <1>8, <1>15, CatGoes
  <1> HIDE DEF t8
  <1>17. Goes(c, m, Run(t9, On(On(b, before), Encode(amount)), a))
    BY <1>1, <1>5, <1>16, FixedGoes
  <1> HIDE DEF t9
  <1>18. Goes(c, m, Run(t10, On(On(b, before), Encode(i)), a))
    BY <1>1, <1>2, <1>3, <1>4, <1>17, OutputGoes
  <1> HIDE DEF t10
  <1>19. Goes(c, m, Run(t11, On(b, before), a))
    BY <1>1, <1>18, NumberGoes
  <1> QED
    BY <1>6, <1>19, Zenon

\* What the code asks of a transaction it signs, field by field.
SmallFields ==
  /\ Tx.version \in Word /\ Len(Encode(Tx.version)) <= 2 /\ Tx.index \in Word /\ Tx.txid \in Seq(Octet)
  /\ Len(Tx.outputs) = 2 /\ DOMAIN Tx.outputs = 1 .. Len(Tx.outputs)
  /\ \A o \in 1..2 :
       /\ Tx.outputs[o].amount \in Word /\ Spk(o) \in Seq(Octet)
       /\ Len(Spk(o)) \in Word /\ Len(Encode(Len(Spk(o)))) <= 2

LEMMA SignableFields ==
    ASSUME given \in ToSet(Cases), Signable(given.tx)
    PROVE  SmallFields
  <1>1. Tx = given.tx /\ Tx \in SpendView
    BY GivenTypes DEF Tx
  <1>2. /\ Tx.version \in Word /\ Tx.txid \in Seq(Octet) /\ Tx.index \in Word
        /\ DOMAIN Tx.outputs = 1 .. Len(Tx.outputs)
    BY <1>1, TxFields
  <1>3. ~Refused(Tx) /\ Len(Tx.outputs) = 2
    BY <1>1 DEF Signable, CANONICAL_OUTPUT_COUNT
  <1>4. Len(Encode(Tx.version)) <= 2
    <2> DEFINE v == Tx.version
    <2>1. ~(v > MAX_TX_VERSION)
      BY <1>3 DEF Refused
    <2>2. v \in Word
      BY <1>2
    <2> HIDE DEF v
    <2>3. v < 32768
      BY <2>1, <2>2, SMT DEF Word, MAX_TX_VERSION
    <2>4. Len(Encode(v)) <= 2
      BY <2>2, <2>3, FieldFits
    <2> QED
      BY <2>4 DEF v
  <1>5. ASSUME NEW o \in 1..2
        PROVE  /\ Tx.outputs[o].amount \in Word /\ Spk(o) \in Seq(Octet)
               /\ Len(Spk(o)) \in Word /\ Len(Encode(Len(Spk(o)))) <= 2
    <2>1. o \in 1 .. Len(Tx.outputs) /\ o \in DOMAIN Tx.outputs
      BY <1>2, <1>3
    <2>2. /\ Tx.outputs[o].amount \in Word /\ Spk(o) \in Seq(Octet)
          /\ Len(Spk(o)) \in Word /\ Spk(o) = SpkWireBytes(Tx.outputs[o])
      BY <1>1, <2>1, WireForm
    <2>3. ~(Len(SpkWireBytes(Tx.outputs[o])) > MAX_SPK_LEN)
      BY <1>3, <2>1 DEF Refused
    <2> DEFINE v == Len(Spk(o))
    <2>4. v \in Word /\ ~(v > MAX_SPK_LEN)
      BY <2>2, <2>3
    <2> HIDE DEF v
    <2>5. v < 32768
      BY <2>4, SMT DEF Word, MAX_SPK_LEN
    <2>6. Len(Encode(v)) <= 2
      BY <2>4, <2>5, FieldFits
    <2> QED
      BY <2>2, <2>6, Zenon DEF v
  <1> QED
    BY <1>2, <1>3, <1>4, <1>5 DEF SmallFields

\* The bytes the script digests, as it appends them.
LEMMA PreimageIs ==
    ASSUME given \in ToSet(Cases), SmallFields
    PROVE  /\ OutputAppended(OutputAppended(HeaderBytes(Tx), Tx.outputs[1]), Tx.outputs[2]) = BindingPreimage(Tx)
           /\ BindingPreimage(Tx) \in Seq(Octet)
  <1> DEFINE g == OutputAppended(OutputAppended(HeaderBytes(Tx), Tx.outputs[1]), Tx.outputs[2])
  <1>1. g = Gathered
    <2>1. HeaderBytes(Tx) = AfterCount
      BY Zenon DEF HeaderBytes, AfterCount, AfterIndex, AfterTxid, AfterVersion
    <2>2. \A b, o : OutputAppended(b, Tx.outputs[o]) = AfterSpk(b, o)
      BY Zenon DEF OutputAppended, AfterSpk, AfterLen, AfterAmount, Spk
    <2>3. Gathered = AfterSpk(AfterSpk(AfterCount, 1), 2)
      <3>1. 2 # 1
        OBVIOUS
      <3> QED
        BY <3>1, Zenon DEF Gathered, Before
    <2> QED
      BY <2>1, <2>2, <2>3, Zenon
  <1>2. Len(Tx.outputs) = 2
    BY DEF SmallFields
  <1>3. g = BindingPreimage(Tx)
    BY <1>1, <1>2, GatheredIs
  <1>4. \A a, b : a \in Seq(Octet) /\ b \in Seq(Octet) => a \o b \in Seq(Octet)
    BY ConcatProperties
  <1>5. \A v \in Word : LittleEndian(v, 1) \in Seq(Octet) /\ LittleEndian(v, 2) \in Seq(Octet)
                        /\ LittleEndian(v, 4) \in Seq(Octet) /\ LittleEndian(v, 8) \in Seq(Octet)
    <2>1. 1 \in Nat /\ 2 \in Nat /\ 4 \in Nat /\ 8 \in Nat
      OBVIOUS
    <2> QED
      BY <2>1, LittleEndianIs
  <1>6. HeaderBytes(Tx) \in Seq(Octet)
    <2>1. Len(Tx.outputs) \in Word
      BY <1>2, SmallNumbers DEF Word
    <2>2. LittleEndian(Tx.version, 2) \in Seq(Octet) /\ LittleEndian(Tx.index, 4) \in Seq(Octet)
          /\ LittleEndian(Len(Tx.outputs), 1) \in Seq(Octet) /\ Tx.txid \in Seq(Octet)
      BY <1>5, <2>1 DEF SmallFields
    <2> QED
      BY <1>4, <2>2, Zenon DEF HeaderBytes
  <1>7. ASSUME NEW b \in Seq(Octet), NEW o \in 1..2
        PROVE  OutputAppended(b, Tx.outputs[o]) \in Seq(Octet)
    <2>1. Tx.outputs[o].amount \in Word /\ Spk(o) \in Seq(Octet) /\ Len(Spk(o)) \in Word
      BY DEF SmallFields
    <2>2. LittleEndian(Tx.outputs[o].amount, 8) \in Seq(Octet) /\ LittleEndian(Len(Spk(o)), 2) \in Seq(Octet)
      BY <1>5, <2>1
    <2> QED
      BY <1>4, <2>1, <2>2, Zenon DEF OutputAppended, Spk
  <1>8. g \in Seq(Octet)
    <2>1. 1 \in 1..2 /\ 2 \in 1..2
      OBVIOUS
    <2> QED
      BY <1>6, <1>7, <2>1
  <1> QED
    BY <1>3, <1>8

\* The whole script, from the first call to the verdict.
ScriptCode == HeaderCode \o (OutputCode(1) \o (OutputCode(2) \o (Op("sha256") \o Call("lms_verify", 0))))

LEMMA ScriptGoes ==
    ASSUME NEW c, given = c, given \in ToSet(Cases), ~IsSlh, Signable(given.tx)
    PROVE  Goes(c, BindingDigest(c.tx), Run(ScriptCode, LmsWitness(c.sig), <<>>))
  <1> DEFINE x == c.tx
             m == BindingDigest(c.tx)
             w == LmsWitness(c.sig)
             h == HeaderBytes(x)
             o1 == x.outputs[1]
             o2 == x.outputs[2]
             b1 == OutputAppended(h, o1)
             b2 == OutputAppended(b1, o2)
             z == <<>>
             t0 == Call("lms_verify", 0)
             t1 == Op("sha256") \o t0
             t2 == OutputCode(2) \o t1
             t3 == OutputCode(1) \o t2
  <1>1. SmallFields /\ Tx = x
    BY SignableFields DEF Tx
  <1>2. b2 = BindingPreimage(x) /\ b2 \in Seq(Octet) /\ m = Sha256(b2)
    BY <1>1, PreimageIs DEF BindingDigest
  <1>3. LmsCase(c)
    BY GivenTypes DEF LmsCase
  <1>4. m \in Seq(Octet)
    <2> HIDE DEF b2
    <2> QED
      BY <1>2, HashIs
  <1>5. IsSequence(w)
    BY WitnessIs DEF Witness
  <1>6. Goes(c, m, Run(t0, On(w, m), z))
    <2>1. Goes(c, m, Run(Call("lms_verify", 0), On(LmsWitness(c.sig), m), <<>>))
      <3> HIDE DEF m
      <3> QED
        BY <1>3, <1>4, VerifyGoes
    <2> QED
      BY <2>1, Zenon
  <1> HIDE DEF m, t0, w, z
  <1>7. Goes(c, m, Run(t1, On(w, b2), z))
    <2> HIDE DEF b2
    <2>1. IsSequence(t0)
      BY <1>6, GoesFormed DEF Run
    <2>2. t1 = Then(Writing("sha256"), t0)
      BY OpSequence
    <2>3. Goes(c, m, Run(t0, On(w, Sha256(b2)), z))
      BY <1>2, <1>6
    <2> HIDE DEF t1
    <2> QED
      BY <1>5, <2>2, <2>3, ShaGoes
  <1>8. /\ o1.amount \in Word /\ Len(NodeSpk(o1)) \in Word /\ Len(Encode(Len(NodeSpk(o1)))) <= 2
        /\ o2.amount \in Word /\ Len(NodeSpk(o2)) \in Word /\ Len(Encode(Len(NodeSpk(o2)))) <= 2
        /\ 1 \in DOMAIN x.outputs /\ 2 \in DOMAIN x.outputs /\ DOMAIN x.outputs = 1 .. Len(x.outputs)
        /\ Len(x.outputs) = 2
    <2>1. 1 \in 1..2 /\ 2 \in 1..2
      OBVIOUS
    <2> QED
      BY <1>1, <2>1 DEF SmallFields, Spk
  <1>9. Goes(c, m, Run(t2, On(w, b1), z))
    <2> HIDE DEF b1, t1
    <2>1. 2 \in 1..2
      OBVIOUS
    <2> DEFINE n == Len(NodeSpk(o2))
    <2>2. n \in Word /\ n = Len(NodeSpk(o2)) /\ Len(Encode(n)) <= 2
      BY <1>8
    <2> HIDE DEF n
    <2>3. Goes(c, m, Run(OutputCode(2) \o t1, On(w, b1), z))
      BY <1>5, <1>7, <1>8, <2>1, <2>2, OutputGone
    <2> QED
      BY <2>3, Zenon
  <1>10. Goes(c, m, Run(t3, On(w, h), z))
    <2> HIDE DEF h, t2
    <2>1. 1 \in 1..2
      OBVIOUS
    <2> DEFINE n == Len(NodeSpk(o1))
    <2>2. n \in Word /\ n = Len(NodeSpk(o1)) /\ Len(Encode(n)) <= 2
      BY <1>8
    <2> HIDE DEF n
    <2>3. Goes(c, m, Run(OutputCode(1) \o t2, On(w, h), z))
      BY <1>5, <1>8, <1>9, <2>1, <2>2, OutputGone
    <2> QED
      BY <2>3, Zenon
  <1> HIDE DEF t3
  <1>11. Goes(c, m, Run(HeaderCode \o t3, w, z))
    <2> DEFINE n == Len(x.outputs)
    <2>1. n \in Word /\ Len(Encode(n)) <= 1 /\ n = Len(x.outputs)
      <3>1. n = 2
        BY <1>8
      <3> HIDE DEF n
      <3>2. n \in Word /\ n < 128
        BY <3>1, SMT DEF Word
      <3>3. Len(Encode(n)) <= 1
        BY <3>2, FieldFits
      <3> QED
        BY <3>2, <3>3 DEF n
    <2>2. x.version \in Word /\ Len(Encode(x.version)) <= 2 /\ x.index \in Word
      BY <1>1 DEF SmallFields
    <2> HIDE DEF n
    <2> QED
      BY <1>5, <1>10, <2>1, <2>2, HeaderGoes
  <1> QED
    BY <1>11, Zenon DEF ScriptCode, t3, t2, t1, t0, m, w, z

-----------------------------------------------------------------------------
(* What the script decides. *)

LEMMA TraceStays ==
    ASSUME Next
    PROVE  trace' = trace
  <1>1. \A calls : Expand(calls) => trace' = trace
    BY DEF Expand
  <1>2. Advance => trace' = trace
    BY <1>1 DEF Advance
  <1>3. CASE EnterPhase
    BY <1>1, <1>3, Zenon DEF EnterPhase
  <1>4. CASE WriteOpcode \/ PushItem \/ Calculate \/ CopyTop \/ SwapTop \/ DropTop \/ NipTop
    BY <1>2, <1>4, Zenon DEF WriteOpcode, PushItem, Calculate, CopyTop, SwapTop, DropTop, NipTop
  <1>5. CASE PickSlot \/ RollSlot \/ NameTop \/ Branch \/ EndBranch \/ FetchElement
    BY <1>2, <1>5, Zenon DEF PickSlot, RollSlot, NameTop, Branch, EndBranch, FetchElement
  <1>6. CASE TakeBlob \/ Stash \/ QueueBlob \/ StartFrame \/ ExpectSpent
    BY <1>2, <1>6, Zenon DEF TakeBlob, Stash, QueueBlob, StartFrame, ExpectSpent
  <1>7. CASE ResolveSlot
    BY <1>1, <1>7, Zenon DEF ResolveSlot
  <1>8. CASE SliceNextBlob
    BY <1>1, <1>8, Zenon DEF SliceNextBlob
  <1>9. CASE Finished
    BY <1>9 DEF Finished, vars
  <1> QED
    BY <1>3, <1>4, <1>5, <1>6, <1>7, <1>8, <1>9 DEF Next

\* Of a transaction a wallet signs the script goes on to the verdict; of any
\* other of its shape it never gets past the digest.
LmsInv ==
  ~IsSlh =>
    /\ trace = TraceFor(given, BindingDigest(given.tx))
    /\ Signable(given.tx) => ~failed /\ Goes(given, BindingDigest(given.tx), Now)
    /\ Len(given.tx.outputs) = CANONICAL_OUTPUT_COUNT /\ ~Signable(given.tx) => Stopped \/ Digesting

LEMMA LmsInvInit ==
    ASSUME Init
    PROVE  LmsInv
  <1> SUFFICES ASSUME ~IsSlh PROVE LmsInv
    BY DEF LmsInv
  <1>1. given \in ToSet(Cases) /\ Digesting
    BY PrologueFirst
  <1>2. /\ trace = TraceFor(given, BindingDigest(given.tx)) /\ todo = RedeemScript
        /\ main = LmsWitness(given.sig) /\ alt = <<>> /\ skip = FALSE /\ failed = FALSE
    BY Zenon DEF Init, Witness
  <1>3. ASSUME Signable(given.tx)
        PROVE  Goes(given, BindingDigest(given.tx), Now)
    <2>1. todo = ScriptCode
      <3> DEFINE v == Call("lms_verify", 0)
      <3>1. IsSequence(v)
        BY SequenceOne DEF Call
      <3>2. RedeemScript = EmitBindingDigest(CANONICAL_OUTPUT_COUNT) \o v
        BY Zenon DEF RedeemScript, EmitLmsVaultScript
      <3> HIDE DEF v
      <3>3. EmitBindingDigest(CANONICAL_OUTPUT_COUNT) \o v =
              HeaderCode \o (OutputCode(1) \o (OutputCode(2) \o (Op("sha256") \o v)))
        BY <3>1, DigestCode
      <3> QED
        BY <1>2, <3>2, <3>3, Zenon DEF ScriptCode, v
    <2>2. Now = Run(ScriptCode, LmsWitness(given.sig), <<>>)
      BY <1>2, <2>1, Zenon DEF Now, Run
    <2>3. \A c : given = c => Goes(c, BindingDigest(c.tx), Run(ScriptCode, LmsWitness(c.sig), <<>>))
      BY <1>1, <1>3, ScriptGoes
    <2> QED
      BY <2>2, <2>3, Zenon
  <1> QED
    BY <1>1, <1>2, <1>3 DEF LmsInv

LEMMA LmsInvStep ==
    ASSUME ScriptInv, LmsInv, [Next]_vars
    PROVE  LmsInv'
  <1>1. given' = given /\ trace' = trace /\ IsSlh' = IsSlh
    <2>1. CASE Next
      BY <2>1, GivenStays, TraceStays, Kept
    <2>2. CASE UNCHANGED vars
      <3>1. given' = given /\ trace' = trace
        BY <2>2 DEF vars
      <3> QED
        BY <3>1, Kept
    <2> QED
      BY <2>1, <2>2
  <1> SUFFICES ASSUME ~IsSlh PROVE LmsInv'
    BY <1>1 DEF LmsInv
  <1>2. trace = TraceFor(given, BindingDigest(given.tx))
    BY DEF LmsInv
  <1>3. ASSUME Signable(given.tx)
        PROVE  ~failed' /\ Goes(given, BindingDigest(given.tx), Now')
    <2>1. \A c, m : given = c /\ Goes(c, m, Now) => Goes(c, m, Now') /\ ~failed'
      <3>1. ~failed
        BY <1>3 DEF LmsInv
      <3> QED
        BY <3>1, GoesStep
    <2>2. Goes(given, BindingDigest(given.tx), Now)
      BY <1>3 DEF LmsInv
    <2> QED
      BY <2>1, <2>2
  <1>4. ASSUME Len(given.tx.outputs) = CANONICAL_OUTPUT_COUNT, ~Signable(given.tx)
        PROVE  Stopped' \/ Digesting'
    <2>0. given \in ToSet(Cases)
      BY DEF ScriptInv
    <2>1. CASE UNCHANGED vars
      <3>1. failed' = failed /\ todo' = todo
        BY <2>1 DEF vars, emitter, machine
      <3>2. ~Queueing'
        BY <1>1 DEF Queueing
      <3>3. Digesting => Queueing' \/ Digesting'
        BY <2>1, PrologueStill
      <3>4. Stopped => Stopped'
        BY <3>1 DEF Stopped
      <3> QED
        BY <1>4, <3>2, <3>3, <3>4 DEF LmsInv
    <2>2. CASE Next /\ Stopped
      <3>1. UNCHANGED vars
        BY <2>2, Halted DEF Stopped
      <3> QED
        BY <2>1, <3>1
    <2>3. CASE Next /\ Digesting
      <3>1. Fresh /\ alt = Queue
        BY <2>3 DEF Digesting
      <3>2. CASE \E k \in 1..15 : AtHeader(k)
        BY <2>0, <2>3, <3>1, <3>2, HeaderStep
      <3>3. CASE \E o \in 1..2, k \in 1..13 : AtOutput(o, k)
        BY <2>0, <2>3, <3>1, <3>3, OutputStep
      <3>4. CASE AtDigest
        BY <2>0, <2>3, <3>1, <3>4, DigestStep
      <3>5. CASE AtVerify
        <4>1. Emits("lms_verify")
          <5>1. todo = Verify /\ ~failed
            BY <3>1, <3>5 DEF AtVerify, Fresh
          <5>2. Verify # <<>> /\ Head(Verify) = [op |-> "lms_verify", i |-> 0]
            BY <2>0, VerifyIs
          <5> QED
            BY <5>1, <5>2 DEF Emits, Emitted, Current
        <4>2. Signable(given.tx)
          BY <1>4, <4>1, DigestFromInv DEF DigestIsTheWallets
        <4> QED
          BY <1>4, <4>2
      <3> QED
        BY <2>3, <3>2, <3>3, <3>4, <3>5 DEF Digesting
    <2> QED
      BY <1>4, <2>1, <2>2, <2>3 DEF LmsInv
  <1>5. trace' = TraceFor(given', BindingDigest((given').tx))
    BY <1>1, <1>2, Zenon
  <1>6. Signable((given').tx) => ~failed' /\ Goes(given', BindingDigest((given').tx), Now')
    BY <1>1, <1>3, Zenon
  <1>7. Len((given').tx.outputs) = CANONICAL_OUTPUT_COUNT /\ ~Signable((given').tx) => Stopped' \/ Digesting'
    BY <1>1, <1>4, Zenon
  <1>8. LmsInv' <=> (IsSlh' \/ (
          /\ trace' = TraceFor(given', BindingDigest((given').tx))
          /\ Signable((given').tx) => ~failed' /\ Goes(given', BindingDigest((given').tx), Now')
          /\ Len((given').tx.outputs) = CANONICAL_OUTPUT_COUNT /\ ~Signable((given').tx) => Stopped' \/ Digesting'))
    BY DEF LmsInv
  <1> QED
    BY <1>5, <1>6, <1>7, <1>8, Zenon

\* No call of the SLH-DSA script is a step of an LMS chain.
LEMMA NoChainSteps ==
    ASSUME ScriptInv, IsSlh
    PROVE  ~Emits("lms_step")
  <1> SUFFICES ASSUME Emits("lms_step") PROVE FALSE
    OBVIOUS
  <1>0. given \in ToSet(Cases)
    BY DEF ScriptInv
  <1>1. ~failed /\ todo # <<>> /\ Current.op = "lms_step"
    BY DEF Emits, Emitted
  <1>2. ~Queueing
    BY <1>0, <1>1, QueueingCall
  <1>3. ~Digesting
    BY <1>0, <1>1, DigestingCall
  <1>4. ~Reading
    <2> SUFFICES ASSUME Reading PROVE FALSE
      OBVIOUS
    <2>1. Current.op \in Simple \cup SlhPhases \cup {"if"}
      BY <1>1, ReadyStep DEF Reading, Current
    <2> QED
      BY <1>1, <2>1 DEF Simple, Branchable, SlhPhases
  <1>5. ~Branched
    BY <1>1, BranchedCall DEF Branchable
  <1>6. ~Opening
    BY <1>0, <1>1, OpeningCall
  <1>7. ~Taking
    BY <1>1, TakingCall
  <1> QED
    BY <1>1, <1>2, <1>3, <1>4, <1>5, <1>6, <1>7 DEF ScriptInv, WitnessModes, Broken

LEMMA ChainsFromInv ==
    ASSUME ScriptInv, LmsInv
    PROVE  ChainsMeetTheirDigits
  <1> SUFFICES ASSUME Emits("lms_step"), Signable(given.tx)
               PROVE  /\ main[Depth - 1] = trace.source
                      /\ Last(alt) = Encode(Coef(trace.source, Current.i, given.p.w))
                      /\ Len(alt) = Current.i + 1
                      /\ Depth = given.p.h + (given.p.p - Current.i) + 1
    BY DEF ChainsMeetTheirDigits
  <1> DEFINE m == BindingDigest(given.tx)
  <1>1. ~IsSlh
    BY NoChainSteps
  <1>2. trace = TraceFor(given, m) /\ Goes(given, m, Now)
    BY <1>1 DEF LmsInv
  <1>3. trace.source = Source(given, m)
    BY <1>1, <1>2 DEF TraceFor, TraceLms, Source, IsSlh
  <1> HIDE DEF m
  <1>4. Meets(given, m, Now)
    BY <1>2, GoesOn
  <1>5. todo # <<>> /\ Head(todo).op = "lms_step" /\ Current = Head(todo)
    BY DEF Emits, Emitted, Current
  <1>6. Now.todo = todo /\ Now.main = main /\ Now.alt = alt
    BY DEF Now, Config
  <1> QED
    BY <1>3, <1>4, <1>5, <1>6, Zenon DEF Meets, Depth

LEMMA NeverFailsFromInv ==
    ASSUME LmsInv
    PROVE  ~IsSlh => ScriptNeverFails
  BY DEF LmsInv, ScriptNeverFails

LEMMA DecisionFromInv ==
    ASSUME ScriptInv, LmsInv, ~IsSlh, Emitted \/ failed, Len(given.tx.outputs) = CANONICAL_OUTPUT_COUNT
    PROVE  Succeeds <=> Signable(given.tx) /\ Last(trace.nodes) = given.pk.root
  <1> DEFINE m == BindingDigest(given.tx)
             root == LmsRoot(given.p, given.pk, given.sig, Source(given, m))
  <1>1. Last(trace.nodes) = root
    <2>1. trace = TraceLms(given, LmsSource(given.p, given.pk, given.sig, m))
      BY Zenon DEF LmsInv, TraceFor, IsSlh
    <2>2. trace.nodes = <<root>>
      <3> HIDE DEF m
      <3> QED
        BY <2>1 DEF TraceLms, Source
    <2> HIDE DEF root
    <2> QED
      BY <2>2 DEF Last
  <1>2. CASE Signable(given.tx)
    <2>1. ~failed /\ Goes(given, m, Now)
      BY <1>2 DEF LmsInv
    <2>2. todo = <<>>
      BY <2>1 DEF Emitted
    <2> HIDE DEF m
    <2>3. Ends(given, m, Now) \/ \E y : Leads(given, Now, y)
      BY <2>1, GoesOn
    <2>4. Now.todo = todo /\ Now.main = main
      BY DEF Now, Config
    <2>5. ~\E y : Leads(given, Now, y)
      <3>1. \A e, t : IsSequence(t) => Then(e, t) # <<>>
        BY Sequences DEF SeqFacts
      <3> QED
        BY <2>2, <2>4, <3>1, Zenon DEF Leads
    <2>6. main = <<Bool(root = given.pk.root)>>
      BY <2>3, <2>4, <2>5, Zenon DEF Ends, Verdict
    <2> HIDE DEF root
    <2>7. <<Bool(root = given.pk.root)>> = <<Bool(TRUE)>> <=> root = given.pk.root
      <3>1. Bool(TRUE) = <<1>> /\ Bool(FALSE) = <<>>
        BY DEF Bool
      <3>2. <<Bool(FALSE)>> # <<Bool(TRUE)>>
        <4> DEFINE x == Bool(FALSE)
                   y == Bool(TRUE)
        <4>1. Len(x) = 0 /\ Len(y) = 1
          BY <3>1
        <4> HIDE DEF x, y
        <4>0. Len(x) # Len(y)
          BY <4>1
        <4>2. x # y
          BY <4>0, Zenon
        <4>3. <<x>>[1] = x /\ <<y>>[1] = y
          OBVIOUS
        <4>4. <<x>> # <<y>>
          BY <4>2, <4>3, Zenon
        <4> QED
          BY <4>4 DEF x, y
      <3>3. CASE root = given.pk.root
        BY <3>3, Zenon DEF Bool
      <3>4. CASE root # given.pk.root
        <4>1. Bool(root = given.pk.root) = Bool(FALSE)
          BY <3>4, Zenon DEF Bool
        <4> QED
          BY <3>2, <3>4, <4>1, Zenon
      <3> QED
        BY <3>3, <3>4
    <2> QED
      BY <1>1, <1>2, <2>1, <2>6, <2>7 DEF Succeeds
  <1>3. CASE ~Signable(given.tx)
    <2>1. Stopped \/ Digesting
      BY <1>3 DEF LmsInv
    <2>2. given \in ToSet(Cases)
      BY DEF ScriptInv
    <2>3. Digesting => todo # <<>> /\ ~failed
      BY <2>2, DigestingCall DEF Digesting, Fresh
    <2>4. failed
      BY <2>1, <2>3 DEF Stopped, Emitted
    <2> QED
      BY <1>3, <2>4 DEF Succeeds
  <1> QED
    BY <1>2, <1>3

LEMMA LmsInvAlways == Spec => [](ScriptInv /\ LmsInv)
  <1>1. Init => ScriptInv /\ LmsInv
    BY ScriptInvInit, LmsInvInit
  <1>2. ScriptInv /\ LmsInv /\ [Next]_vars => (ScriptInv /\ LmsInv)'
    BY ScriptInvStep, LmsInvStep
  <1> QED
    BY <1>1, <1>2, PTL DEF Spec

\* For every parameter set, key and signature: before each step of each chain
\* the script holds the string the digits are read from, its own digit, and as
\* many chains done and to come as there should be.
\* (emit_coefficient, emit_checksum_and_v, emit_chains)
THEOREM EveryChainMeetsItsDigit == Spec => []ChainsMeetTheirDigits
  <1>1. ScriptInv /\ LmsInv => ChainsMeetTheirDigits
    BY ChainsFromInv
  <1> QED
    BY <1>1, LmsInvAlways, PTL

\* An LMS script refuses no signature for the shape of its bytes: of a
\* transaction the wallet signs no opcode ever fails, whatever the key, the
\* randomizer, the chain values and the path are.
\* (emit_lms_verify and everything it calls, witness_pushes)
THEOREM LmsScriptNeverFails == Spec => [](~IsSlh => ScriptNeverFails)
  <1>1. LmsInv => (~IsSlh => ScriptNeverFails)
    BY NeverFailsFromInv
  <1> QED
    BY <1>1, LmsInvAlways, PTL

\* The verdict of an LMS script on a transaction of the vault's shape.
LmsDecides ==
  ~IsSlh /\ (Emitted \/ failed) /\ Len(given.tx.outputs) = CANONICAL_OUTPUT_COUNT =>
    (Succeeds <=> Signable(given.tx) /\ Last(trace.nodes) = given.pk.root)

\* An LMS script decides as the reference does: of the transactions of the
\* vault's shape it accepts those within the fields whose signature leads to the
\* root it pins, and no other.  (emit_lms_verify, verify, binding_preimage)
THEOREM LmsScriptDecidesAsReference == Spec => []LmsDecides
  <1>1. ScriptInv /\ LmsInv => LmsDecides
    BY DecisionFromInv DEF LmsDecides
  <1> QED
    BY <1>1, LmsInvAlways, PTL
=============================================================================

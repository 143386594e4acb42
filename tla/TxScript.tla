------------------------------ MODULE TxScript ------------------------------
(***************************************************************************)
(* The script engine of the node software, which is not part of this       *)
(* repository: the opcodes the emitters use, as their tests and comments   *)
(* use them.  Stack items are byte strings; a number is its shortest       *)
(* little-endian sign-magnitude string.                                    *)
(***************************************************************************)
EXTENDS SlhHash, SequencesExt

VARIABLES
  main,    \* the data stack, bottom first
  alt,     \* the alternative stack, bottom first
  skip,    \* inside the branch of an OpIf that was not taken
  failed,  \* an opcode refused its operands
  high     \* the most items the two stacks held together

machine == <<main, alt, skip, failed, high>>

\* The longest operand of an arithmetic opcode: 8 bytes in the engine, 4 here.
MaxNumLen == 4

\* The most items the two stacks may hold.
MAX_STACK_SIZE == 244

\* The fewest little-endian bytes a magnitude fits in, and what they stand for.
ByteCount(v) == Cardinality({i \in DOMAIN ByteWeight : v >= ByteWeight[i]})
Magnitude(v) == [i \in 1..ByteCount(v) |-> (v \div ByteWeight[i]) % 256]

Unsigned(b) ==
  LET Part(i) == IF i \in DOMAIN b THEN b[i] * ByteWeight[i] ELSE 0
  IN  Part(1) + Part(2) + Part(3) + Part(4)

Abs(v) == IF v < 0 THEN -v ELSE v

\* Division rounds towards zero, and the remainder has the sign of the dividend.
Quotient(x, y)  == (IF (x < 0) = (y < 0) THEN 1 ELSE -1) * (Abs(x) \div Abs(y))
Remainder(x, y) == x - y * Quotient(x, y)

SignBit(v) == IF v < 0 THEN 128 ELSE 0

\* The sign sits in the top bit of the last byte; a byte is added when the
\* magnitude needs that bit.
Encode(v) ==
  LET b == Magnitude(Abs(v))
  IN  IF b = <<>> THEN <<>>
      ELSE IF Last(b) >= 128 THEN Append(b, SignBit(v))
      ELSE Append(Front(b), Last(b) + SignBit(v))

Decode(b) ==
  IF b = <<>> THEN 0
  ELSE IF Last(b) >= 128 THEN -Unsigned(Append(Front(b), Last(b) - 128))
  ELSE Unsigned(b)

IsNumber(b) == Len(b) <= MaxNumLen /\ Encode(Decode(b)) = b

\* A magnitude and its sign, spread over `width` bytes.
Widened(v, width) ==
  LET b == Magnitude(Abs(v)) \o [i \in 1..width |-> 0]
  IN  [i \in 1..width |-> IF i = width THEN b[i] + SignBit(v) ELSE b[i]]

Bool(holds) == IF holds THEN <<1>> ELSE <<>>

(***************************************************************************)
(* Opcodes that replace their operands by one value: what they accept and  *)
(* what they return.  Operands come deepest first.                         *)
(***************************************************************************)
Accepts(fn, x) ==
  CASE fn \in {"cat", "sha256", "equal"}    -> TRUE
    [] fn = "bin2num"                       -> Len(x[1]) <= MaxNumLen
    [] fn \in {"add", "sub", "mul", "lte", "gte"} -> IsNumber(x[1]) /\ IsNumber(x[2])
    [] fn \in {"div", "mod"} -> IsNumber(x[1]) /\ IsNumber(x[2]) /\ Decode(x[2]) # 0
    [] fn = "num2bin" ->
         /\ IsNumber(x[1]) /\ IsNumber(x[2])
         /\ Decode(x[2]) \in 0..8
         /\ Len(x[1]) <= Decode(x[2])
    [] fn = "substr" ->
         /\ IsNumber(x[2]) /\ IsNumber(x[3])
         /\ 0 <= Decode(x[2]) /\ Decode(x[2]) <= Decode(x[3]) /\ Decode(x[3]) <= Len(x[1])

Result(fn, x) ==
  CASE fn = "cat"     -> x[1] \o x[2]
    [] fn = "sha256"  -> Sha256(x[1])
    [] fn = "equal"   -> Bool(x[1] = x[2])
    [] fn = "substr"  -> SubSeq(x[1], Decode(x[2]) + 1, Decode(x[3]))
    [] fn = "bin2num" -> Encode(Decode(x[1]))
    [] fn = "num2bin" -> Widened(Decode(x[1]), Decode(x[2]))
    [] fn = "add"     -> Encode(Decode(x[1]) + Decode(x[2]))
    [] fn = "sub"     -> Encode(Decode(x[1]) - Decode(x[2]))
    [] fn = "mul"     -> Encode(Decode(x[1]) * Decode(x[2]))
    [] fn = "div"     -> Encode(Quotient(Decode(x[1]), Decode(x[2])))
    [] fn = "mod"     -> Encode(Remainder(Decode(x[1]), Decode(x[2])))
    [] fn = "lte"     -> Bool(Decode(x[1]) <= Decode(x[2]))
    [] fn = "gte"     -> Bool(Decode(x[1]) >= Decode(x[2]))

(***************************************************************************)
(* Running one opcode.  In a branch not taken nothing happens; an opcode   *)
(* that refuses its operands ends the script.                              *)
(***************************************************************************)
Depth == Len(main)
Top == main[Depth]
Below(n) == SubSeq(main, 1, Depth - n)

Execute(accepts, newMain, newAlt) ==
  LET runs == ~skip /\ accepts
  IN  /\ main' = IF runs THEN newMain ELSE main
      /\ alt'  = IF runs THEN newAlt ELSE alt
      /\ high' = Max({high, Len(main') + Len(alt')})
      /\ failed' = (~skip /\ ~accepts)
      /\ UNCHANGED skip

OpPush(bytes) == Execute(TRUE, Append(main, bytes), alt)

OpCalc(fn, n) ==
  LET x == SubSeq(main, Depth - n + 1, Depth)
  IN  Execute(n <= Depth /\ Accepts(fn, x), Append(Below(n), Result(fn, x)), alt)

OpDup  == Execute(Depth >= 1, Append(main, Top), alt)
OpOver == Execute(Depth >= 2, Append(main, main[Depth - 1]), alt)
OpDrop == Execute(Depth >= 1, Below(1), alt)
OpSwap == Execute(Depth >= 2, Below(2) \o <<Top, main[Depth - 1]>>, alt)
OpNip  == Execute(Depth >= 2, Append(Below(2), Top), alt)

\* The depth is counted from the item below the depth itself.
NamesItem == Depth >= 2 /\ IsNumber(Top) /\ Decode(Top) \in 0 .. Depth - 2
Named == Depth - 1 - Decode(Top)
OpPick == Execute(NamesItem, Append(Below(1), main[Named]), alt)
OpRoll == Execute(NamesItem, Append(RemoveAt(Below(1), Named), main[Named]), alt)

OpToAltStack   == Execute(Depth >= 1, Below(1), Append(alt, Top))
OpFromAltStack == Execute(alt # <<>>, Append(main, Last(alt)), Front(alt))

\* The emitters nest no branches.
OpIf ==
  LET accepts == Depth >= 1 /\ Top \in {Bool(TRUE), Bool(FALSE)}
  IN  /\ ~skip
      /\ main' = IF accepts THEN Below(1) ELSE main
      /\ skip' = (accepts /\ Top = Bool(FALSE))
      /\ failed' = ~accepts
      /\ UNCHANGED <<alt, high>>

OpEndIf == skip' = FALSE /\ UNCHANGED <<main, alt, failed, high>>

(***************************************************************************)
(* Introspection: what a script can see of the transaction that spends its *)
(* output, by the fields of that transaction.  It has one input.  An       *)
(* opcode about an input or an output takes its index off the stack.       *)
(***************************************************************************)
Globals     == {"txversion", "inputindex", "outputcount"}
OfOneInput  == {"outpointtxid", "outpointindex"}
OfOneOutput == {"outputamount", "outputspklen", "outputspk"}

Global(tx, code) ==
  Encode(CASE code = "txversion"   -> tx.version
           [] code = "inputindex"  -> 0
           [] code = "outputcount" -> Len(tx.outputs))

OfInput(tx, code) == [i \in {1} |-> IF code = "outpointtxid" THEN tx.txid ELSE Encode(tx.index)]

\* The wire form of an output's script: the version, big-endian, and the script.
NodeSpk(out) == <<out.version \div 256, out.version % 256>> \o out.script
OfOutput(tx, code) ==
  [i \in DOMAIN tx.outputs |->
     CASE code = "outputamount" -> Encode(tx.outputs[i].amount)
       [] code = "outputspklen" -> Encode(Len(NodeSpk(tx.outputs[i])))
       [] code = "outputspk"    -> NodeSpk(tx.outputs[i])]

OpTxField(count, fields) ==
  Execute(Depth >= 1 /\ IsNumber(Top) /\ Decode(Top) \in 0 .. count - 1,
          Append(Below(1), fields[Decode(Top) + 1]), alt)

\* A script succeeds when one item is left, and it is true.
Succeeds == ~failed /\ main = <<Bool(TRUE)>>
=============================================================================

------------------------------ MODULE SlhEmit ------------------------------
(***************************************************************************)
(* The verifier the emitter writes (crates/slh-script/src/emit.rs): every  *)
(* phase as the sequence of its calls, to the primitive wrappers and to    *)
(* the phases it is made of.  What a primitive emits and does to the frame *)
(* is in module VaultScript.                                               *)
(***************************************************************************)
EXTENDS Binding

\* One primitive each.
Push(bytes)    == <<[op |-> "data", bytes |-> bytes]>>
Num(v)         == <<[op |-> "num", value |-> v]>>
Calc(fn, n)    == <<[op |-> "calc", fn |-> fn, n |-> n]>>
Pick(slot)     == <<[op |-> "pick", slot |-> slot]>>
Roll(slot)     == <<[op |-> "roll", slot |-> slot]>>
RolledFrom(depth) == <<[op |-> "oproll", depth |-> depth]>>
PickedFrom(depth) == <<[op |-> "oppick", depth |-> depth]>>
Rename(slot)   == <<[op |-> "rename", slot |-> slot]>>
Fetch(slot)    == <<[op |-> "fetch", slot |-> slot]>>
Plain(op)      == <<[op |-> op]>>

Dup    == Plain("dup")
Over   == Plain("over")
Swap   == Plain("swap")
Drop   == Plain("drop")
Nip    == Plain("nip")
If     == Plain("if")
EndIf  == Plain("endif")
ToAlt  == Plain("toalt")
Cat    == Calc("cat", 2)
Sha    == Calc("sha256", 1)

RollDepth(depth)   == Num(depth) \o RolledFrom(depth)
Substr(start, end) == Num(start) \o Num(end) \o Calc("substr", 3)
Cut                == Substr(0, N)
Discard(slot)      == Roll(slot) \o Drop
Append2(bytes)     == Push(bytes) \o Cat

\* A number divided by 2^bits, and a number modulo 2^bits.
ShiftRight(bits) == IF bits > 0 THEN Num(2 ^ bits) \o Calc("div", 2) ELSE <<>>
LowBits(bits)    == Num(2 ^ bits) \o Calc("mod", 2)

\* A lone byte as a number; the appended zero keeps its top bit from being
\* taken for a sign.
ByteToNum_NoPad == Calc("bin2num", 1)
ByteToNum == Append2(<<0>>) \o Calc("bin2num", 1)

\* The number on top as `width` big-endian bytes: the opcode writes them little-
\* endian, so they are taken off the back one by one.
EmitBeBytes(width) ==
  LET Next(i) == LET k == width - 1 - i IN
        Swap \o Dup \o Substr(k, k + 1) \o RollDepth(2) \o Swap \o Cat
  IN  Num(width) \o Calc("num2bin", 2)
        \o IF width = 1 THEN <<>>
           ELSE Dup \o Substr(width - 1, width) \o For(1, width - 1, Next) \o Nip

\* len bytes of a slot, from start on, as a big-endian number.
EmitBeIntFrom(slot, start, len) ==
  LET Byte(i) == Num(256) \o Calc("mul", 2) \o Pick(slot) \o Substr(i, i + 1)
                   \o ByteToNum \o Calc("add", 2)
  IN  Num(0) \o For(start, start + len - 1, Byte)

\* The i-th digit of a slot, the most significant of each byte first.
EmitDigitOf(p, slot, i) ==
  LET perByte == 8 \div p.lgw
      byte    == i \div perByte
      pos     == i % perByte
  IN  Pick(slot) \o Substr(byte, byte + 1) \o ByteToNum
        \o ShiftRight(8 - p.lgw * (pos + 1))
        \o IF pos > 0 THEN LowBits(p.lgw) ELSE <<>>

EmitTreeBytes(p, slot) ==
  IF IdxTreeBits(p) = 0 THEN Push(Zeros(8)) ELSE Pick(slot) \o EmitBeBytes(8)

(***************************************************************************)
(* The witness: a signature is pushed as blobs of a few elements, which    *)
(* wait on the alternative stack and are cut up when they are needed.      *)
(***************************************************************************)
BLOB_ELEMS_One == 1
BLOB_ELEMS == 4

BlobPlan_OneMore(p) ==
  [b \in 1 .. SigElements(p) \div (BLOB_ELEMS + 1) + 1 |-> BLOB_ELEMS + 1]
\* BlobPlan::new: the number of elements of every blob.
BlobPlan(p) ==
  LET rest == SigElements(p) % BLOB_ELEMS
  IN  [b \in 1 .. SigElements(p) \div BLOB_ELEMS |-> BLOB_ELEMS]
        \o (IF rest = 0 THEN <<>> ELSE <<rest>>)

\* The blob an element (counted from 0) is in.
Locate(index) == index \div BLOB_ELEMS + 1

SlhWitness(p, sig) ==
  [b \in DOMAIN BlobPlan(p) |->
     FlattenSeq(SubSeq(sig, (b - 1) * BLOB_ELEMS + 1, (b - 1) * BLOB_ELEMS + BlobPlan(p)[b]))]

\* The most items on both stacks, given the largest frame of the emitter.
PeakStackEstimate_OneBlob(plan, slots) == BLOB_ELEMS + slots
PeakStackEstimate(plan, slots) ==
  Len(plan) - 1 + Max({plan[b] : b \in DOMAIN plan}) + slots

\* Elements are peeled off the back, so that the first ends up on top.
SliceBlob_FromFront(count) ==
  LET Peel(i) == LET k == count - i IN
        Dup \o Substr(0, N) \o ToAlt \o Substr(N, (k + 1) * N)
  IN  Plain("takeblob") \o For(1, count - 1, Peel) \o ToAlt
SliceBlob(count) ==
  LET Peel(i) == LET k == count - i IN
        Dup \o Substr(k * N, (k + 1) * N) \o ToAlt \o Substr(0, k * N)
  IN  Plain("takeblob") \o For(1, count - 1, Peel) \o ToAlt

(***************************************************************************)
(* Phases.                                                                 *)
(***************************************************************************)
\* The hash of a message below its prefix.
FinishHash == Swap \o Cat \o Sha \o Cut

EmitHMsg(p, pk) ==
  Fetch("r") \o Dup
    \o Append2(pk.seed \o pk.root \o <<0, 0>>) \o Roll("d") \o Cat \o Sha
    \o Swap \o Append2(pk.seed) \o Swap \o Cat \o Append2(Zeros(4)) \o Sha
    \o Substr(0, p.m) \o Rename("digest")

EmitIndices(p) ==
  (IF IdxTreeBits(p) = 0 THEN Num(0)
   ELSE EmitBeIntFrom("digest", MdLen(p), IdxTreeLen(p)) \o LowBits(IdxTreeBits(p)))
    \o Rename("tree")
    \o EmitBeIntFrom("digest", MdLen(p) + IdxTreeLen(p), IdxLeafLen(p)) \o LowBits(p.hp)
    \o Rename("leaf")

\* The head shared by the hashes of one context: pad, layer, tree, type, key pair.
EmitHashContext(p, pk, layer, ty, trailingZeroWords) ==
  Push(HashPad(pk.seed) \o <<layer>>) \o EmitTreeBytes(p, "tree") \o Cat \o Append2(<<ty>>)
    \o Pick("leaf") \o EmitBeBytes(4) \o Cat
    \o For(1, trailingZeroWords, LAMBDA i : Append2(Zeros(4)))

\* The prefix of the node above: a context, the height, and the index in
\* `width` bytes, which is on the stack.
EmitNodePrefix(context, height, width) ==
  Pick(context) \o Append2(BigEndian(height, 4) \o Zeros(4 - width)) \o Swap \o Cat

\* From [node, sibling, prefix] to the node above, ordered by a bit of a slot.
EmitMerkleStep_SwapsAlways(slot, bit) ==
  Rename("pfx") \o Roll("node") \o Roll("auth")
    \o Pick(slot) \o ShiftRight(bit) \o LowBits(1)
    \o Drop \o Swap \o Cat \o Cat \o Sha \o Cut \o Rename("node")
EmitMerkleStep(slot, bit) ==
  Rename("pfx") \o Roll("node") \o Roll("auth")
    \o Pick(slot) \o ShiftRight(bit) \o LowBits(1)
    \o If \o Swap \o EndIf
    \o Cat \o Cat \o Sha \o Cut \o Rename("node")

\* The i-th a-bit field of the digest, and the leaf of all k trees it opens.  The
\* emitter also makes sure that the field ends within the digest; here a field
\* that does not would fail as the opcode that takes it.
EmitForsIndex(p, i) ==
  LET bit   == i * p.a
      byte0 == bit \div 8
      bytes == Max({3, CeilDiv(p.a + (bit % 8), 8)})
  IN  EmitBeIntFrom("digest", byte0, bytes)
        \o ShiftRight(bytes * 8 - p.a - (bit % 8)) \o LowBits(p.a) \o Rename("idx")
        \o Pick("idx") \o Num(i * 2 ^ p.a) \o Calc("add", 2) \o Rename("lx")

\* The node `height` levels up: its number is written into the prefix.
EmitNodeAbove(context, number, height, width, bits) ==
  Fetch("auth") \o Pick(number) \o ShiftRight(height) \o EmitBeBytes(width)
    \o EmitNodePrefix(context, height, width) \o EmitMerkleStep(bits, height - 1)

EmitForsTree(p, i) ==
  LET width == ForsIndexWidth(p)
  IN  EmitForsIndex(p, i)
        \o Fetch("sk") \o Pick("hcf") \o Append2(Zeros(8 - width))
        \o Pick("lx") \o EmitBeBytes(width) \o Cat \o FinishHash \o Rename("node")
        \o For(1, p.a, LAMBDA height : Call("fors_node", height))
        \o Roll("racc") \o Swap \o Cat \o Rename("racc") \o Discard("lx") \o Discard("idx")

EmitFors(p, pk) ==
  EmitHashContext(p, pk, 0, FORS_TREE, 0) \o Rename("hcf")
    \o EmitHashContext(p, pk, 0, FORS_ROOTS, 2) \o Rename("racc")
    \o For(0, p.k - 1, LAMBDA i : Call("fors_tree", i))
    \o Roll("racc") \o Sha \o Cut \o Rename("node") \o Discard("hcf") \o Discard("digest")

\* The digit of a chain, of the message or of the checksum.
EmitChainDigit(p, i) ==
  IF i < Len1(p) THEN EmitDigitOf(p, "node", i)
  ELSE LET j == i - Len1(p)
       IN  Pick("csum") \o ShiftRight(CsumBits(p) - p.lgw * (j + 1))
             \o IF j > 0 THEN LowBits(p.lgw) ELSE <<>>

\* One chain: every step it could have is emitted, and gated by the digit.
EmitChainStep(s) ==
  Over \o Num(s) \o Calc("lte", 2) \o If
    \o Pick("hcwi") \o Append2(<<s>>) \o FinishHash \o Rename("x") \o EndIf

EmitChain(p, i) ==
  EmitChainDigit(p, i) \o Rename("d")
    \o Pick("hcw") \o Append2(BigEndian(i, 4) \o Zeros(3)) \o Rename("hcwi") \o Roll("d")
    \o Fetch("x") \o For(0, W(p) - 2, LAMBDA s : Call("chain_step", s))
    \o Discard("d") \o Discard("hcwi") \o Roll("acc") \o Swap \o Cat \o Rename("acc")

EmitCsumTerm(p, i) ==
  EmitDigitOf(p, "node", i) \o Num(W(p) - 1) \o Swap
    \o Calc("sub", 2) \o Calc("add", 2) \o Rename("csum")

EmitWots(p) ==
  Num(0) \o Rename("csum") \o For(0, Len1(p) - 1, LAMBDA i : Call("csum_term", i))
    \o Pick("hcp") \o Rename("acc") \o For(0, WotsLen(p) - 1, LAMBDA i : Call("chain", i))
    \o Roll("acc") \o Sha \o Cut \o Rename("wpk")
    \o Discard("node") \o Discard("csum") \o Discard("hcw") \o Discard("hcp")
    \o Rename("node")

EmitLayerAddress_SameShift(p, layer) ==
  Pick("tree") \o ShiftRight(p.hp * layer) \o Rename("ltree")
    \o (IF layer = 0 THEN Pick("leaf") ELSE Pick("tree") \o ShiftRight(p.hp * layer) \o LowBits(p.hp))
    \o Rename("lleaf")
\* The tree and the leaf of a layer, both out of the tree index.
EmitLayerAddress(p, layer) ==
  IF layer = 0 THEN Pick("tree") \o Rename("ltree") \o Pick("leaf") \o Rename("lleaf")
  ELSE Pick("tree") \o ShiftRight(p.hp * layer) \o Rename("ltree")
         \o Pick("tree") \o Num(2 ^ (p.hp * (layer - 1))) \o Calc("div", 2)
         \o LowBits(p.hp) \o Rename("lleaf")

\* The three hash contexts of a layer, over one base.
EmitLayerContexts(p, pk, layer) ==
  LET Context(ty) == Pick("hcb") \o Append2(<<ty>>)
  IN  Push(HashPad(pk.seed) \o <<layer>>) \o EmitTreeBytes(p, "ltree") \o Cat \o Rename("hcb")
        \o Pick("lleaf") \o EmitBeBytes(4) \o Rename("kp4")
        \o Context(WOTS_HASH) \o Pick("kp4") \o Cat \o Rename("hcw")
        \o Context(WOTS_PK) \o Pick("kp4") \o Cat \o Append2(Zeros(8)) \o Rename("hcp")
        \o Context(TREE) \o Append2(Zeros(4)) \o Rename("hct")
        \o Discard("hcb") \o Discard("kp4")

EmitLayer(p, pk, layer) ==
  EmitLayerAddress(p, layer) \o EmitLayerContexts(p, pk, layer) \o EmitWots(p)
    \o For(1, p.hp, LAMBDA height : Call("layer_node", height))
    \o Discard("hct") \o Discard("ltree") \o Discard("lleaf")

EmitBody(p, pk) ==
  EmitHMsg(p, pk) \o EmitIndices(p) \o EmitFors(p, pk)
    \o For(0, p.d - 1, LAMBDA layer : Call("layer", layer))
    \o Discard("tree") \o Discard("leaf")
    \o Plain("expectspent") \o Push(pk.root) \o Calc("equal", 2)

\* The prologue turns the blobs into a queue, the digest becomes the message,
\* and with it the frame starts.
EmitSlhVaultScript(p, pk, outputCount) ==
  For(1, Len(BlobPlan(p)), LAMBDA b : Plain("queue"))
    \o EmitBindingDigest(outputCount) \o Plain("message") \o EmitBody(p, pk)

\* What a call of a phase stands for.
SlhPhases == {"fors_tree", "fors_node", "layer", "layer_node", "csum_term", "chain", "chain_step"}
SlhBodyOf(p, pk, call) ==
  CASE call.op = "fors_tree"  -> EmitForsTree(p, call.i)
    [] call.op = "fors_node"  -> EmitNodeAbove("hcf", "lx", call.i, ForsIndexWidth(p), "idx")
    [] call.op = "layer"      -> EmitLayer(p, pk, call.i)
    [] call.op = "layer_node" -> EmitNodeAbove("hct", "lleaf", call.i, XmssIndexWidth(p), "lleaf")
    [] call.op = "csum_term"  -> EmitCsumTerm(p, call.i)
    [] call.op = "chain"      -> EmitChain(p, call.i)
    [] call.op = "chain_step" -> EmitChainStep(call.i)
=============================================================================

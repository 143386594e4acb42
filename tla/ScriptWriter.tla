---------------------------- MODULE ScriptWriter ----------------------------
(***************************************************************************)
(* The script writer (crates/vault-core/src/builder.rs): what is appended  *)
(* to a script, one opcode at a time.  A script is a sequence of calls, of *)
(* the writer or of the emitters above it; a phase of an emitter, or the   *)
(* body of one of its loops, is a call too.                                *)
(***************************************************************************)
EXTENDS TxScript

Write(code, bytes) == <<[op |-> "write", code |-> code, bytes |-> bytes]>>

Op(code)    == Write(code, <<>>)
Data(bytes) == Write("data", bytes)
Number(v)   == Data(Encode(v))

Call(phase, i) == <<[op |-> phase, i |-> i]>>

\* The code of a loop: Body(i) for i from first to last.
For(first, last, Body(_)) ==
  Joined([i \in 1 .. last - first + 1 |-> Body(first + i - 1)])

\* Opcodes with no other effect than to replace their operands by a value.
Arity ==
  [cat |-> 2, sha256 |-> 1, equal |-> 2, substr |-> 3, bin2num |-> 1, num2bin |-> 2,
   add |-> 2, sub |-> 2, mul |-> 2, div |-> 2, mod |-> 2, gte |-> 2]

\* One opcode of a script that spends with transaction tx.
RunOpcode(tx, call) ==
  \/ call.code = "data"    /\ OpPush(call.bytes)
  \/ call.code = "dup"     /\ OpDup
  \/ call.code = "swap"    /\ OpSwap
  \/ call.code = "drop"    /\ OpDrop
  \/ call.code = "toalt"   /\ OpToAltStack
  \/ call.code = "fromalt" /\ OpFromAltStack
  \/ call.code = "if"      /\ OpIf
  \/ call.code = "endif"   /\ OpEndIf
  \/ call.code \in DOMAIN Arity /\ OpCalc(call.code, Arity[call.code])
  \/ call.code \in Globals    /\ OpPush(Global(tx, call.code))
  \/ call.code \in OfOneInput /\ OpTxField(1, OfInput(tx, call.code))
  \/ call.code \in OfOneOutput /\ OpTxField(Len(tx.outputs), OfOutput(tx, call.code))
=============================================================================

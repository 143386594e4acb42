------------------------------ MODULE LmsEmit -------------------------------
(***************************************************************************)
(* The LMS verifier as the emitter writes it (crates/lms-script/src/       *)
(* {ots,verify}.rs).  The leaf is pinned into the script, so which side a  *)
(* sibling is on is known when the script is written.  There is no         *)
(* bookkeeping of the stack: the comments of the code are all there is.    *)
(***************************************************************************)
EXTENDS Binding, LmsScheme

\* Seeded fault: a byte is read as the engine reads it, with a sign.
EmitCoefficient_NoPad(p, i) ==
  LET byte  == (i * p.w) \div 8
      shift == 8 - p.w - ((i * p.w) % 8)
  IN  Op("dup") \o Number(byte) \o Number(byte + 1) \o Op("substr") \o Op("bin2num")
        \o (IF shift > 0 THEN Number(2 ^ shift) \o Op("div") ELSE <<>>)
        \o Number(2 ^ p.w) \o Op("mod")

\* From [V] to [V, a_i].  The appended zero keeps the top bit of the byte from
\* being taken for a sign.
EmitCoefficient(p, i) ==
  LET byte  == (i * p.w) \div 8
      shift == 8 - p.w - ((i * p.w) % 8)
  IN  Op("dup") \o Number(byte) \o Number(byte + 1) \o Op("substr")
        \o Data(<<0>>) \o Op("cat") \o Op("bin2num")
        \o (IF shift > 0 THEN Number(2 ^ shift) \o Op("div") ELSE <<>>)
        \o Number(2 ^ p.w) \o Op("mod")

\* Two items in the order prefix, first, second.
Prefixed(prefix) == Data(prefix) \o Op("swap") \o Op("cat")
ThenNext         == Op("swap") \o Op("cat")

EmitMessageDigest(key) ==
  Op("swap") \o Prefixed(Prefix(key.id, key.q, D_MESG)) \o ThenNext \o Op("sha256")

EmitCsumSum(p, i) ==
  EmitCoefficient(p, i) \o Number(MaxCoef(p)) \o Op("swap") \o Op("sub")
    \o Op("fromalt") \o Op("add") \o Op("toalt")

\* Seeded fault: the checksum is left as the opcode writes it.
BytesExchanged_Not == <<>>
\* The two bytes of a number, which the opcode writes low byte first.
BytesExchanged ==
  Op("dup") \o Number(1) \o Number(2) \o Op("substr")
    \o Op("swap") \o Number(0) \o Number(1) \o Op("substr") \o Op("cat")

\* The sum gathers on the alternative stack, and is shifted.
EmitChecksumAndV(p) ==
  Number(0) \o Op("toalt") \o For(0, p.u - 1, LAMBDA i : Call("lms_csum_sum", i))
    \o Op("fromalt") \o Number(2 ^ p.ls) \o Op("mul") \o FixedWidth(2)
    \o BytesExchanged \o Op("cat")

\* Every step a chain could have, each taken from the digit on.
EmitStep(key, i, j) ==
  Op("fromalt") \o Op("dup") \o Op("toalt") \o Number(j) \o Op("swap") \o Op("gte")
    \o Op("if") \o Prefixed(Append(Prefix(key.id, key.q, i), j)) \o Op("sha256") \o Op("endif")

\* The digit waits on the alternative stack while its chain is walked; the end
\* of the chain takes its place.
EmitLmsChain(p, i) ==
  EmitCoefficient(p, i) \o Op("toalt") \o Op("swap")
    \o For(0, MaxCoef(p) - 1, LAMBDA j : <<[op |-> "lms_step", i |-> i, j |-> j]>>)
    \o Op("fromalt") \o Op("drop") \o Op("toalt")

\* All ends come back in reverse, so the first is on top.
EmitCandidateKey(p, key) ==
  Op("drop") \o For(1, p.p, LAMBDA i : Op("fromalt"))
    \o Prefixed(Prefix(key.id, key.q, D_PBLC)) \o For(1, p.p - 1, LAMBDA i : ThenNext)
    \o Op("sha256")

\* One level up from node r.
EmitLevel(key, r) ==
  IF r % 2 = 1
  THEN Op("swap") \o Prefixed(Prefix(key.id, r \div 2, D_INTR)) \o ThenNext \o Op("sha256")
  ELSE Prefixed(Prefix(key.id, r \div 2, D_INTR)) \o ThenNext \o Op("sha256")

EmitMerklePath(p, key) ==
  Prefixed(Prefix(key.id, LeafCount(p) + key.q, D_LEAF)) \o Op("sha256")
    \o For(0, p.h - 1, LAMBDA height : EmitLevel(key, (LeafCount(p) + key.q) \div 2 ^ height))

EmitLmsVerify(p, key) ==
  EmitMessageDigest(key) \o EmitChecksumAndV(p)
    \o For(0, p.p - 1, LAMBDA i : Call("lms_chain", i))
    \o EmitCandidateKey(p, key) \o EmitMerklePath(p, key)
    \o Data(key.root) \o Op("equal")

EmitLmsVaultScript(outputCount) == EmitBindingDigest(outputCount) \o Call("lms_verify", 0)

\* What a call of a phase stands for.
LmsPhases == {"lms_verify", "lms_csum_sum", "lms_chain", "lms_step"}
LmsBodyOf(p, key, call) ==
  CASE call.op = "lms_verify"   -> EmitLmsVerify(p, key)
    [] call.op = "lms_csum_sum" -> EmitCsumSum(p, call.i)
    [] call.op = "lms_chain"    -> EmitLmsChain(p, call.i)
    [] call.op = "lms_step"     -> EmitStep(key, call.i, call.j)

\* witness_pushes: the path and the chains from the back, and the randomiser.
LmsWitness(sig) == Reverse(sig.path) \o Reverse(sig.y) \o <<sig.c>>
=============================================================================

------------------------------ MODULE Binding -------------------------------
(***************************************************************************)
(* The binding digest (crates/vault-core/src/binding.rs): what a vault's   *)
(* signature covers.  The wallet serialises the transaction it builds, the *)
(* script assembles the same bytes from the transaction that spends, and   *)
(* an output can be spent only where the two agree.                        *)
(*                                                                         *)
(* A transaction is a SpendView: version, outpoint, and the amount, script *)
(* version and script of every output.  Amounts and outpoint indices stay  *)
(* below 2^31, the model's integers, so their upper bounds are not reached *)
(* here.                                                                   *)
(***************************************************************************)
EXTENDS ScriptWriter

\* A number of n bytes has a sign, so its field ends one bit early.
MAX_SPK_LEN      == 32767
MAX_TX_VERSION   == 32767
MAX_OUTPUT_COUNT == 127

\* The fields of a transaction, in the widths they have in the code, where the
\* model's integers reach so far.
Short == {v \in Nat : v <= 65535}
Word  == {v \in Nat : v <= 2147483647}
SpendView ==
  [version : Short, txid : Seq(Octet), index : Word,
   outputs : {o \in Seq([amount : Word, version : Short,
                         script : {s \in Seq(Octet) : Len(s) + 2 \in Word}]) : Len(o) \in Word}]

LittleEndian(v, n) == Reverse(BigEndian(v, n))

\* Seeded fault: the version is written as every other field is.
SpkWireBytes_LittleEndian(out) == LittleEndian(out.version, 2) \o out.script
\* spk_wire_bytes: the one big-endian field.
SpkWireBytes(out) == BigEndian(out.version, 2) \o out.script

\* What binding_preimage refuses to serialise.
Refused(view) ==
  \/ Len(view.outputs) \notin 1..MAX_OUTPUT_COUNT
  \/ view.version > MAX_TX_VERSION
  \/ \E i \in DOMAIN view.outputs : Len(SpkWireBytes(view.outputs[i])) > MAX_SPK_LEN

OutputBytes(amount, spk) == LittleEndian(amount, 8) \o LittleEndian(Len(spk), 2) \o spk

BindingPreimage(view) ==
  LittleEndian(view.version, 2) \o view.txid \o LittleEndian(view.index, 4)
    \o <<Len(view.outputs)>>
    \o FlattenSeq([i \in DOMAIN view.outputs |->
                     OutputBytes(view.outputs[i].amount, SpkWireBytes(view.outputs[i]))])

BindingDigest(view) == Sha256(BindingPreimage(view))

-----------------------------------------------------------------------------
\* Seeded fault: one byte is left for the sign.
FixedWidth_OneShort(width) == Number(width - 1) \o Op("num2bin")
\* The number on top in `width` bytes, appended to what is below it.
FixedWidth(width) == Number(width) \o Op("num2bin")

EmitOutput(i) ==
  Number(i) \o Op("outputamount") \o FixedWidth(8) \o Op("cat")
    \o Number(i) \o Op("outputspklen") \o FixedWidth(2) \o Op("cat")
    \o Number(i) \o Op("outputspk") \o Op("cat")

EmitBindingDigest(outputCount) ==
  Op("txversion") \o FixedWidth(2)
    \o Op("inputindex") \o Op("outpointtxid") \o Op("cat")
    \o Op("inputindex") \o Op("outpointindex") \o FixedWidth(4) \o Op("cat")
    \o Op("outputcount") \o FixedWidth(1) \o Op("cat")
    \o For(0, outputCount - 1, EmitOutput)
    \o Op("sha256")
=============================================================================

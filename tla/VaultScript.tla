---------------------------- MODULE VaultScript -----------------------------
(***************************************************************************)
(* A vault's redeem script, of either scheme, while it is written and run: *)
(* each action is one call of an emitter.  A call of the script writer is  *)
(* one opcode, run by the engine on one witness in one transaction.  The   *)
(* SLH-DSA emitter wraps it and updates its frame, what it believes of the *)
(* stack (crates/slh-script/src/frame.rs); the LMS emitter and the binding *)
(* digest write without one.  In the code the whole script is emitted      *)
(* first; nothing an emitter does depends on a witness or a transaction,   *)
(* so emitting each opcode just before it runs is the same.                *)
(***************************************************************************)
EXTENDS SlhEmit, SlhReference, LmsEmit

CONSTANT Cases   \* a sequence of what is verified: scheme, set, key, signature,
                 \* the transaction, and whether the key made this signature of it

VARIABLES
  given,    \* the case this behaviour runs; chosen at the start, never changed
  trace,    \* what the reference computes for it
  todo,     \* the calls the emitter has still to make
  frame,    \* Emitter.f: the names of the stack's slots, bottom first
  pending,  \* Emitter.pending
  next,     \* Emitter.next_element
  peak      \* Emitter.peak_frame

emitter == <<todo, frame, pending, next, peak>>
vars == <<given, trace, emitter, machine>>

\* Outputs of a spend: destination and change, in both wallets.
CANONICAL_OUTPUT_COUNT == 2

\* A parsed signature has all its elements, each of its length; what the key
\* made of it does not matter.
ASSUME CasesAssumption ==
  \A c \in ToSet(Cases) :
    /\ c.tx \in SpendView
    /\ \/ /\ c.scheme = "slh" /\ WellFormed(c.p)
          /\ c.sig \in [1 .. SigElements(c.p) -> [1..N -> Octet]]
          /\ {c.pk.seed, c.pk.root} \subseteq [1..N -> Octet]
       \/ /\ c.scheme = "lms" /\ Consistent(c.p)
          /\ c.sig \in LmsSignatures(c.p)
          /\ c.pk.id \in Seq(Octet) /\ c.pk.q \in 0 .. LeafCount(c.p) - 1

IsSlh == given.scheme = "slh"

\* The pushes of the signature script, and the script they are given to.
Witness == IF IsSlh THEN SlhWitness(given.p, given.sig) ELSE LmsWitness(given.sig)
RedeemScript ==
  IF IsSlh THEN EmitSlhVaultScript(given.p, given.pk, CANONICAL_OUTPUT_COUNT)
  ELSE EmitLmsVaultScript(CANONICAL_OUTPUT_COUNT)

\* What the wallet computes for the transaction and the scheme for its digest.
TraceLms(c, source) == [source |-> source, nodes |-> <<LmsRoot(c.p, c.pk, c.sig, source)>>]
TraceFor(c, digest) ==
  IF c.scheme = "slh" THEN VerifyTraced(c.p, c.pk, c.sig, digest)
  ELSE TraceLms(c, LmsSource(c.p, c.pk, c.sig, digest))

Init ==
  /\ given \in ToSet(Cases)
  /\ trace = TraceFor(given, BindingDigest(given.tx))
  /\ todo = RedeemScript
  /\ frame = <<>> /\ pending = 0 /\ next = 0 /\ peak = 0
  /\ main = Witness
  /\ alt = <<>> /\ skip = FALSE /\ failed = FALSE
  /\ high = Len(main)

-----------------------------------------------------------------------------
(***************************************************************************)
(* The frame.  An emitter that asks for a slot it does not have fails, and *)
(* no script is written.                                                   *)
(***************************************************************************)
TRANSIENT == "_"

\* Frame::depth: of the topmost slot of that name, counted from the top.
SlotDepth(slot) == Len(frame) - Max({i \in DOMAIN frame : frame[i] = slot})
HasSlot(slot)   == \E i \in DOMAIN frame : frame[i] = slot

FrameBelow(n) == SubSeq(frame, 1, Len(frame) - n)
FramePush(slot) == frame' = Append(frame, slot)
FramePop        == frame # <<>> /\ frame' = Front(frame)
FrameReplace(n, slot) == Len(frame) >= n /\ frame' = Append(FrameBelow(n), slot)
Rolled(f, depth) == Append(RemoveAt(f, Len(f) - depth), f[Len(f) - depth])
NotePeak == peak' = Max({peak, Len(frame')})

-----------------------------------------------------------------------------
Emitted == todo = <<>>
Current == Head(todo)
Emits(op) == ~failed /\ ~Emitted /\ Current.op = op

\* The current call is made, or gives way to those it stands for.
Expand(calls) == todo' = calls \o Tail(todo) /\ UNCHANGED <<given, trace>>
Advance == Expand(<<>>)

\* A phase is a call for the calls in its body.
EnterPhase ==
  /\ \/ /\ \E phase \in SlhPhases : Emits(phase)
        /\ Expand(SlhBodyOf(given.p, given.pk, Current))
     \/ /\ \E phase \in LmsPhases : Emits(phase)
        /\ Expand(LmsBodyOf(given.p, given.pk, Current))
  /\ UNCHANGED <<frame, pending, next, peak, machine>>

\* The script writer, without the SLH-DSA emitter around it.
WriteOpcode ==
  /\ Emits("write") /\ RunOpcode(given.tx, Current)
  /\ Advance /\ UNCHANGED <<frame, pending, next, peak>>

\* data and num.
PushItem ==
  /\ \/ Emits("data") /\ OpPush(Current.bytes)
     \/ Emits("num") /\ OpPush(Encode(Current.value))
  /\ FramePush(TRANSIENT) /\ NotePeak
  /\ Advance /\ UNCHANGED <<pending, next>>

\* An opcode followed by f.replace(n, "_").
Calculate ==
  /\ Emits("calc") /\ OpCalc(Current.fn, Current.n)
  /\ FrameReplace(Current.n, TRANSIENT)
  /\ Advance /\ UNCHANGED <<pending, next, peak>>

CopyTop ==
  /\ \/ Emits("dup") /\ OpDup
     \/ Emits("over") /\ OpOver
  /\ FramePush(TRANSIENT) /\ NotePeak
  /\ Advance /\ UNCHANGED <<pending, next>>

SwapTop ==
  /\ Emits("swap") /\ OpSwap
  /\ Len(frame) >= 2 /\ frame' = Rolled(frame, 1)
  /\ Advance /\ UNCHANGED <<pending, next, peak>>

DropTop ==
  /\ Emits("drop") /\ OpDrop
  /\ FramePop
  /\ Advance /\ UNCHANGED <<pending, next, peak>>

NipTop ==
  /\ Emits("nip") /\ OpNip
  /\ FrameReplace(2, Last(frame))
  /\ Advance /\ UNCHANGED <<pending, next, peak>>

\* pick and roll: the name becomes a depth, pushed as a number.
ResolveSlot ==
  /\ Emits("pick") \/ Emits("roll")
  /\ HasSlot(Current.slot)
  /\ LET depth == SlotDepth(Current.slot)
     IN  Expand(Num(depth) \o (IF Current.op = "pick" THEN PickedFrom(depth) ELSE RolledFrom(depth)))
  /\ UNCHANGED <<frame, pending, next, peak, machine>>

\* f.pop for the depth, f.push for the copy.
PickSlot ==
  /\ Emits("oppick") /\ OpPick
  /\ FrameReplace(1, TRANSIENT) /\ NotePeak
  /\ Advance /\ UNCHANGED <<pending, next>>

\* f.pop for the depth, then the frame rolls as the stack does.
RollSlot ==
  /\ Emits("oproll") /\ OpRoll
  /\ Len(frame) - 1 > Current.depth /\ frame' = Rolled(Front(frame), Current.depth)
  /\ Advance /\ UNCHANGED <<pending, next, peak>>

NameTop ==
  /\ Emits("rename")
  /\ FrameReplace(1, Current.slot)
  /\ Advance /\ UNCHANGED <<pending, next, peak, machine>>

Branch ==
  /\ Emits("if") /\ OpIf
  /\ FramePop
  /\ Advance /\ UNCHANGED <<pending, next, peak>>

EndBranch ==
  /\ Emits("endif") /\ OpEndIf
  /\ Advance /\ UNCHANGED <<frame, pending, next, peak>>

\* fetch with nothing sliced: the next blob is cut up first.  locate panics past
\* the last element.
SliceNextBlob ==
  LET count == BlobPlan(given.p)[Locate(next)]
  IN  /\ Emits("fetch") /\ pending = 0 /\ next < SigElements(given.p)
      /\ next % BLOB_ELEMS = 0
      /\ Expand(SliceBlob(count) \o <<Current>>)
      /\ pending' = count
      /\ UNCHANGED <<frame, next, peak, machine>>

FetchElement ==
  /\ Emits("fetch") /\ pending > 0 /\ OpFromAltStack
  /\ FramePush(Current.slot) /\ NotePeak
  /\ pending' = pending - 1 /\ next' = next + 1
  /\ Advance

TakeBlob ==
  /\ Emits("takeblob") /\ OpFromAltStack
  /\ FramePush(TRANSIENT) /\ NotePeak
  /\ Advance /\ UNCHANGED <<pending, next>>

Stash ==
  /\ Emits("toalt") /\ OpToAltStack
  /\ FramePop
  /\ Advance /\ UNCHANGED <<pending, next, peak>>

\* The prologue, and f.push("d"): the frame starts with the message.
QueueBlob ==
  /\ Emits("queue") /\ OpToAltStack
  /\ Advance /\ UNCHANGED <<frame, pending, next, peak>>

StartFrame ==
  /\ Emits("message") /\ FramePush("d")
  /\ Advance /\ UNCHANGED <<pending, next, peak, machine>>

\* What the emitter insists on before it compares the root.
ExpectSpent ==
  /\ Emits("expectspent")
  /\ next = SigElements(given.p) /\ pending = 0 /\ frame = <<"node">>
  /\ Advance /\ UNCHANGED <<frame, pending, next, peak, machine>>

Finished == (Emitted \/ failed) /\ UNCHANGED vars

Next ==
  \/ EnterPhase \/ WriteOpcode \/ PushItem \/ Calculate \/ CopyTop \/ SwapTop \/ DropTop \/ NipTop
  \/ ResolveSlot \/ PickSlot \/ RollSlot \/ NameTop \/ Branch \/ EndBranch
  \/ SliceNextBlob \/ FetchElement \/ TakeBlob \/ Stash
  \/ QueueBlob \/ StartFrame \/ ExpectSpent \/ Finished

Spec == Init /\ [][Next]_vars

-----------------------------------------------------------------------------
(***************************************************************************)
(* Properties.                                                             *)
(***************************************************************************)
\* The emitter's bookkeeping and the machine's stacks keep their types: no
\* more elements are pending than a blob holds, and no item but a hash's
\* preimage outgrows a blob.
TypeOK ==
  /\ \A i \in DOMAIN frame : frame[i] \in STRING
  /\ pending \in 0..BLOB_ELEMS /\ next \in Nat /\ peak \in Nat
  /\ {skip, failed} \subseteq BOOLEAN
  /\ \A i \in DOMAIN alt :
       Len(alt[i]) \in IF IsSlh THEN N .. N * BLOB_ELEMS ELSE (0..MaxNumLen) \cup {DigestLen}

\* A transaction a wallet signs: of the vault's shape, and within the fields.
\* (build_spend, binding_preimage)
Signable(view) == ~Refused(view) /\ Len(view.outputs) = CANONICAL_OUTPUT_COUNT

\* No opcode refuses its operands, whatever the witness holds, in a transaction
\* a wallet signs: neither a byte with its top bit set, nor a number with its
\* sign bit in use, nor an empty field makes one fail.  (emit_be_bytes,
\* emit_be_int_from, emit_digit_of, emit_coefficient, emit_checksum_and_v)
ScriptNeverFails == failed => ~Signable(given.tx)

\* The script's digest of a transaction is the wallet's, byte for byte, and
\* what the wallet refuses to serialise the script can not digest either: no
\* signature is made that the script would hold against another message.
\* (binding_preimage, emit_binding_digest)
DigestIsTheWallets ==
  (Emits("message") \/ Emits("lms_verify")) /\ Len(given.tx.outputs) = CANONICAL_OUTPUT_COUNT =>
    /\ Signable(given.tx)
    /\ Top = BindingDigest(given.tx)

\* What the emitter believes of the stack is so: every slot of its frame is an
\* item, and for a transaction a wallet signs the slots that hold parts of the
\* digest hold what the reference computed.  In a branch not taken the two drift
\* apart; they agree again at its end.  (Frame, every primitive wrapper of Emitter)
FrameDescribesStack ==
  LET known == [digest |-> trace.digest, tree |-> Encode(trace.start.tree),
                leaf |-> Encode(trace.start.leaf)]
  IN  frame # <<>> /\ ~skip /\ ~failed =>
        /\ Len(frame) = Len(main)
        /\ Signable(given.tx) =>
             \A i \in DOMAIN frame : frame[i] \in DOMAIN known => main[i] = known[frame[i]]

AtFetch == Emits("fetch")
Slot(slot) == main[Len(main) - SlotDepth(slot)]

\* When an element is fetched, in a transaction a wallet signs, the script is
\* where the reference is when it uses that element: a FORS secret meets the
\* index it opens and the roots of the groups before it, a chain meets the node
\* it signs, its digit of it and the tree and leaf of its layer.
\* (fetch, emit_fors, emit_wots, emit_layer)
FetchAgreesWithReference ==
  LET forsEnd == 1 + given.p.k * (1 + given.p.a)
      group   == (next - 1) \div (1 + given.p.a)
      perLayer == WotsLen(given.p) + given.p.hp
      layer   == (next - forsEnd) \div perLayer
      chain   == (next - forsEnd) % perLayer
      opened  == Joined(SubSeq(trace.fors.roots, 1, group))
  IN  AtFetch /\ Signable(given.tx) =>
        /\ next \in 1 .. forsEnd - 1 /\ (next - 1) % (1 + given.p.a) = 0 =>
             /\ Slot("idx") = Encode(trace.fors.indices[group + 1])
             /\ Slot("lx") = Encode(group * 2 ^ given.p.a + trace.fors.indices[group + 1])
             /\ IsSuffix(opened, Slot("racc"))
        /\ next >= forsEnd /\ chain < WotsLen(given.p) =>
             /\ Slot("node") = trace.nodes[layer + 1]
             /\ Slot("d") = Encode(trace.messages[layer + 1][chain + 1])
             /\ Slot("ltree") = Encode(trace.at[layer + 1].tree)
             /\ Slot("lleaf") = Encode(trace.at[layer + 1].leaf)

\* Before every step of an LMS chain, in a transaction a wallet signs, the
\* script holds the string the digits are read from, checksum included, its own
\* digit of this chain, and as many chains finished and still to come as there
\* should be.  (emit_coefficient, emit_checksum_and_v, emit_chains)
ChainsMeetTheirDigits ==
  Emits("lms_step") /\ Signable(given.tx) =>
    /\ main[Depth - 1] = trace.source
    /\ Last(alt) = Encode(Coef(trace.source, Current.i, given.p.w))
    /\ Len(alt) = Current.i + 1
    /\ Depth = given.p.h + (given.p.p - Current.i) + 1

\* The elements not yet fetched are on the alternative stack in the order of
\* the signature, the next one on top: moving the blobs over and cutting them
\* up from the back each reverse once.  (prologue, slice_blob, fetch)
WitnessInOrder ==
  LET queued == Len(alt) - pending
  IN  IsSlh /\ (AtFetch \/ Emitted) =>
        /\ queued = Len(BlobPlan(given.p)) - CeilDiv(next + pending, BLOB_ELEMS)
        /\ \A b \in 1..queued : alt[b] = Witness[Len(Witness) + 1 - b]
        /\ \A j \in 1..pending : alt[Len(alt) + 1 - j] = given.sig[next + j]

\* The script accepts what the reference accepts, and that is exactly the
\* signatures the key, and for LMS its pinned leaf, made of this transaction:
\* for any other outpoint, amount, output script or version they are worthless.
\* (emit_vault_script, verify, sign, witness_pushes)
DecidesAsReference ==
  Emitted \/ failed =>
    /\ Succeeds <=> Signable(given.tx) /\ Last(trace.nodes) = given.pk.root
    /\ Succeeds <=> given.own

\* The two stacks never hold more than the plan's estimate for the largest
\* frame so far, which is what keeps a script under the engine's limit.
\* (peak_stack_estimate, note_peak)
StackWithinEstimate == IsSlh => high <= PeakStackEstimate(BlobPlan(given.p), peak)

\* Nor do they reach the engine's own limit, for the sets in use, blobs of
\* BLOB_ELEMS and all the chains of an LMS signature.  (for_params, the sets of
\* both params.rs)
StackWithinEngine == high < MAX_STACK_SIZE
=============================================================================

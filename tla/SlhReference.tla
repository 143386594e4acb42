---------------------------- MODULE SlhReference ----------------------------
(***************************************************************************)
(* The host-side verifier (crates/slh-script/src/reference.rs), the oracle *)
(* the emitted script is held against.  A signature is the sequence of its *)
(* N-byte elements, in the order of the wire format.                       *)
(***************************************************************************)
EXTENDS SlhHash, SequencesExt

ContextPrefixed(message) == <<0, 0>> \o message

HMsg(p, r, pk, message) ==
  LET digest1 == Sha256(r \o pk.seed \o pk.root \o message)
  IN  SubSeq(Sha256(r \o pk.seed \o digest1 \o Zeros(4)), 1, p.m)

ToInt(x) ==
  LET Value[i \in 0..Len(x)] == IF i = 0 THEN 0 ELSE 256 * Value[i - 1] + x[i]
  IN  Value[Len(x)]

\* The outLen b-bit fields of x, the most significant first.
Base2b(x, b, outLen) ==
  [j \in 1..outLen |->
     LET first == ((j - 1) * b) \div 8
         last  == CeilDiv(j * b, 8)
     IN  (ToInt(SubSeq(x, first + 1, last)) \div 2 ^ (8 * last - j * b)) % 2 ^ b]

\* The digits of m, then those of the checksum, which is shifted to end on a
\* byte boundary before it is cut.
Checksum(p, digits) ==
  LET Sum[i \in 0..Len(digits)] == IF i = 0 THEN 0 ELSE Sum[i - 1] + (W(p) - 1 - digits[i])
  IN  Sum[Len(digits)]
CsumShift(p) == (8 - (CsumBits(p) % 8)) % 8
WithChecksum(p, digits) ==
  digits \o Base2b(BigEndian(Checksum(p, digits) * 2 ^ CsumShift(p),
                             (CsumBits(p) + CsumShift(p)) \div 8), p.lgw, Len2(p))
WotsMessage(p, m) == WithChecksum(p, Base2b(m, p.lgw, Len1(p)))

\* s steps from step i on.
Chain(seed, adrs, x, i, s) ==
  LET At[j \in i .. i + s] ==
        IF j = i THEN x ELSE Hash(seed, [adrs EXCEPT !.w3 = j - 1], At[j - 1])
  IN  At[i + s]

\* The hash of the ends of all chains.
WotsPk(seed, adrs, ends) ==
  Hash(seed, [SetTypeAndClear(adrs, WOTS_PK) EXCEPT !.w1 = adrs.w1], Joined(ends))

ChainEnds(p, seed, adrs, sig, digits) ==
  [i \in 1..WotsLen(p) |->
     Chain(seed, [adrs EXCEPT !.w2 = i - 1], sig[i], digits[i], W(p) - 1 - digits[i])]

WotsPkFromSig(p, seed, adrs, sig, m) ==
  WotsPk(seed, adrs, ChainEnds(p, seed, adrs, sig, WotsMessage(p, m)))

\* The node `height` levels above leaf `number`, of a node below it and the
\* sibling beside that: bit height - 1 of `bits` says on which side the sibling is.
HashAbove(seed, adrs, number, bits, height, node, sibling) ==
  Hash(seed, [adrs EXCEPT !.w2 = height, !.w3 = number \div 2 ^ height],
       IF (bits \div 2 ^ (height - 1)) % 2 = 0 THEN node \o sibling ELSE sibling \o node)

\* From a leaf to the root, along the siblings in auth.
ClimbFrom(seed, adrs, number, bits, leaf, auth) ==
  LET Node[height \in 0..Len(auth)] ==
        IF height = 0 THEN leaf
        ELSE HashAbove(seed, adrs, number, bits, height, Node[height - 1], auth[height])
  IN  Node[Len(auth)]

XmssPkFromSig(p, seed, adrs, idx, wotsSig, auth, m) ==
  ClimbFrom(seed, SetTypeAndClear(adrs, TREE), idx, idx,
            WotsPkFromSig(p, seed, [SetTypeAndClear(adrs, WOTS_HASH) EXCEPT !.w1 = idx], wotsSig, m),
            auth)

SplitDigest(p, digest) ==
  [md   |-> SubSeq(digest, 1, MdLen(p)),
   tree |-> ToInt(SubSeq(digest, MdLen(p) + 1, MdLen(p) + IdxTreeLen(p))) % 2 ^ IdxTreeBits(p),
   leaf |-> ToInt(SubSeq(digest, MdLen(p) + IdxTreeLen(p) + 1, p.m)) % 2 ^ p.hp]

\* A group opens leaf `index` of its tree, number `number` of the leaves of all.
ForsGroup(p, fors, i) == SubSeq(fors, (i - 1) * (1 + p.a) + 1, i * (1 + p.a))
ForsRoot(seed, adrs, number, index, group) ==
  ClimbFrom(seed, adrs, number, index,
            Hash(seed, [adrs EXCEPT !.w3 = number], Head(group)), Tail(group))

ForsPk(seed, adrs, indices, roots) ==
  [indices |-> indices, roots |-> roots,
   pk |-> Hash(seed, [SetTypeAndClear(adrs, FORS_ROOTS) EXCEPT !.w1 = adrs.w1], Joined(roots))]

ForsFromIndices(p, seed, adrs, fors, indices) ==
  ForsPk(seed, adrs, indices,
         [i \in 1..p.k |->
            ForsRoot(seed, adrs, (i - 1) * 2 ^ p.a + indices[i], indices[i],
                     ForsGroup(p, fors, i))])

ForsPkFromSig(p, seed, adrs, fors, md) ==
  ForsFromIndices(p, seed, adrs, fors, Base2b(md, p.a, p.k))

\* The hypertree: where a layer sits, and the layer above it.
LayerAdrs(layer, at) == Adrs(layer, at.tree, 0, 0)
Above(p, at) == [tree |-> at.tree \div 2 ^ p.hp, leaf |-> at.tree % 2 ^ p.hp]

\* The elements of a signature: the randomness, k groups of 1 + a, then d
\* layers of WotsLen chains and h' siblings.
ForsPart(p, sig)     == SubSeq(sig, 2, 1 + p.k * (1 + p.a))
LayerStart(p, layer) == 1 + p.k * (1 + p.a) + layer * (WotsLen(p) + p.hp)
WotsPart(p, sig, layer) == SubSeq(sig, LayerStart(p, layer) + 1, LayerStart(p, layer) + WotsLen(p))
AuthPart(p, sig, layer) ==
  SubSeq(sig, LayerStart(p, layer) + WotsLen(p) + 1, LayerStart(p, layer + 1))

\* One layer more: the root below it is what its one-time key signs.
WalkLayer(p, pk, sig, trace, layer) ==
  LET at   == IF layer = 0 THEN trace.start ELSE Above(p, Last(trace.at))
      node == Last(trace.nodes)
  IN  [trace EXCEPT
         !.at = Append(@, at),
         !.messages = Append(@, WotsMessage(p, node)),
         !.nodes = Append(@, XmssPkFromSig(p, pk.seed, LayerAdrs(layer, at), at.leaf,
                               WotsPart(p, sig, layer), AuthPart(p, sig, layer), node))]
WalkLayers(p, pk, sig, start) ==
  LET Upto[layers \in 0..p.d] ==
        IF layers = 0 THEN start ELSE WalkLayer(p, pk, sig, Upto[layers - 1], layers - 1)
  IN  Upto[p.d]

\* The trace before the first layer: the digest, the leaf it selects and PK_FORS.
TraceOf(digest, split, fors) ==
  [digest |-> digest, start |-> [tree |-> split.tree, leaf |-> split.leaf],
   fors |-> fors, at |-> <<>>, nodes |-> <<fors.pk>>, messages |-> <<>>]

ForsTrace(p, pk, sig, digest, split) ==
  TraceOf(digest, split,
          ForsPkFromSig(p, pk.seed, Adrs(0, split.tree, FORS_TREE, split.leaf),
                        ForsPart(p, sig), split.md))

\* Everything the verifier computes, whatever it decides.  The last node is the
\* root it compares with the key's.
VerifyTraced(p, pk, sig, message) ==
  LET digest == HMsg(p, sig[1], pk, ContextPrefixed(message))
  IN  WalkLayers(p, pk, sig, ForsTrace(p, pk, sig, digest, SplitDigest(p, digest)))
=============================================================================

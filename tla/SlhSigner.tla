----------------------------- MODULE SlhSigner -----------------------------
(***************************************************************************)
(* Key generation and signing (crates/slh-script/src/signer.rs).  The      *)
(* signer shares with the verifier the hash, the digits and the walk along *)
(* a chain; its trees are built from the leaves up.  Its worker threads,   *)
(* which return what a serial map would, are in module ParallelMap.        *)
(***************************************************************************)
EXTENDS SlhReference, Bitwise, TLC

\* A key: the parameter set, three secrets and the public key.
WotsSk(key, layer, tree, kp, i) ==
  Hash(key.pk.seed, [Adrs(layer, tree, WOTS_PRF, kp) EXCEPT !.w2 = i], key.skSeed)

\* A chain of the key from its secret, `steps` up.
WotsChain(key, layer, tree, kp, i, steps) ==
  Chain(key.pk.seed, [Adrs(layer, tree, WOTS_HASH, kp) EXCEPT !.w2 = i],
        WotsSk(key, layer, tree, kp, i), 0, steps)

WotsPkGen(key, layer, tree, kp) ==
  WotsPk(key.pk.seed, Adrs(layer, tree, WOTS_HASH, kp),
         [i \in 1..WotsLen(key.p) |-> WotsChain(key, layer, tree, kp, i - 1, W(key.p) - 1)])

WotsSign(key, digits, layer, tree, kp) ==
  [i \in 1..WotsLen(key.p) |-> WotsChain(key, layer, tree, kp, i - 1, digits[i])]

(***************************************************************************)
(* treehash_auth: leaves are taken from left to right against a stack of   *)
(* pending nodes, and the siblings of the target's ancestors are kept as   *)
(* they go by.  `first` is the tree's number among the trees that share    *)
(* one index space: 0, but for FORS.                                       *)
(***************************************************************************)
Sibling(index) == IF index % 2 = 0 THEN index + 1 ELSE index - 1

\* The path with a node that has just been finished.
Kept(auth, z, target, n) ==
  IF n.height < z /\ n.index = Sibling(target \div 2 ^ n.height)
  THEN auth @@ (n.height :> n.value) ELSE auth

\* Two finished siblings make the node above them.
Parent_LevelOff(seed, adrs, first, z, left, right) ==
  [height |-> left.height + 1, index |-> right.index \div 2,
   value  |-> Hash(seed, [adrs EXCEPT !.w2 = left.height + 1,
                            !.w3 = first * 2 ^ (z - left.height) + right.index \div 2],
                   left.value \o right.value)]
Parent(seed, adrs, first, z, left, right) ==
  [height |-> left.height + 1, index |-> right.index \div 2,
   value  |-> Hash(seed, [adrs EXCEPT !.w2 = left.height + 1,
                            !.w3 = first * 2 ^ (z - left.height - 1) + right.index \div 2],
                   left.value \o right.value)]

RECURSIVE Merge(_, _, _, _, _, _, _)
Merge(seed, adrs, first, z, target, st, n) ==
  IF st.stack # <<>> /\ Last(st.stack).height = n.height
  THEN Merge(seed, adrs, first, z, target,
             [stack |-> Front(st.stack), auth |-> Kept(st.auth, z, target, n)],
             Parent(seed, adrs, first, z, Last(st.stack), n))
  ELSE [stack |-> Append(st.stack, n), auth |-> Kept(st.auth, z, target, n)]

TreehashAuth(seed, adrs, first, z, target, leaves) ==
  LET Built[i \in 0 .. 2 ^ z] ==
        IF i = 0 THEN [stack |-> <<>>, auth |-> <<>>]
        ELSE Merge(seed, adrs, first, z, target, Built[i - 1],
                   [height |-> 0, index |-> i - 1, value |-> leaves[i - 1]])
      built == Built[2 ^ z]
  IN  [root |-> Head(built.stack).value, auth |-> [j \in 1..z |-> built.auth[j - 1]]]

ForsSk(key, adrs, index) ==
  Hash(key.pk.seed, [SetTypeAndClear(adrs, FORS_PRF) EXCEPT !.w1 = adrs.w1, !.w3 = index],
       key.skSeed)

ForsLeaf(key, adrs, index) ==
  Hash(key.pk.seed, [adrs EXCEPT !.w3 = index], ForsSk(key, adrs, index))

ForsTreehash(key, adrs, i, idx) ==
  TreehashAuth(key.pk.seed, adrs, i, key.p.a, idx,
    [local \in 0 .. 2 ^ key.p.a - 1 |-> ForsLeaf(key, adrs, i * 2 ^ key.p.a + local)])

ForsTree(key, adrs, i, idx) ==
  <<ForsSk(key, adrs, i * 2 ^ key.p.a + idx)>> \o ForsTreehash(key, adrs, i, idx).auth

ForsSign(key, adrs, md) ==
  LET indices == Base2b(md, key.p.a, key.p.k)
  IN  FlattenSeq([i \in 1..key.p.k |-> ForsTree(key, adrs, i - 1, indices[i])])

XmssTree(key, layer, tree, target) ==
  TreehashAuth(key.pk.seed, Adrs(layer, tree, TREE, 0), 0, key.p.hp, target,
               [i \in 0 .. 2 ^ key.p.hp - 1 |-> WotsPkGen(key, layer, tree, i)])

\* generate: the root of the one tree of the top layer is the public key.
Generate(p, seeds) ==
  LET key == [p |-> p, skSeed |-> seeds.skSeed, skPrf |-> seeds.skPrf,
              pk |-> [seed |-> seeds.pkSeed, root |-> Zeros(N)]]
  IN  [key EXCEPT !.pk.root = XmssTree(key, p.d - 1, 0, 0).root]

\* The keyed hash: an inner and an outer one under differently padded keys.
\* A key is never longer than a block.
HmacSha256(key, message) ==
  LET Pad(byte) == [i \in 1..Block |-> IF i <= Len(key) THEN key[i] ^^ byte ELSE byte]
  IN  Sha256(Pad(92) \o Sha256(Pad(54) \o message))

\* Every layer signs the root of the one below it.
SignedLayer(key, layer, at, node, tree) ==
  [node |-> tree.root,
   out  |-> WotsSign(key, WotsMessage(key.p, node), layer, at.tree, at.leaf) \o tree.auth]

RECURSIVE SignLayers(_, _, _, _)
SignLayers(key, layer, at, signed) ==
  IF layer = key.p.d THEN signed.out
  ELSE LET layerSig == SignedLayer(key, layer, at, signed.node,
                               XmssTree(key, layer, at.tree, at.leaf))
       IN  SignLayers(key, layer + 1, Above(key.p, at),
                      [layerSig EXCEPT !.out = signed.out \o @])

SignFors(key, r, adrs, md, fors) ==
  SignLayers(key, 0, [tree |-> adrs.tree, leaf |-> adrs.w1],
             [node |-> ForsPkFromSig(key.p, key.pk.seed, adrs, fors, md).pk, out |-> <<r>> \o fors])

SignDigest(key, r, adrs, md) == SignFors(key, r, adrs, md, ForsSign(key, adrs, md))

SignSplit(key, r, split) ==
  SignDigest(key, r, Adrs(0, split.tree, FORS_TREE, split.leaf), split.md)

\* The signature is deterministic: its randomness is a keyed hash of the message.
Randomness(key, prefix) == Trunc(HmacSha256(key.skPrf, key.pk.seed \o prefix))

SignPrefixed(key, r, prefix) ==
  SignSplit(key, r, SplitDigest(key.p, HMsg(key.p, r, key.pk, prefix)))

Sign(key, message) ==
  LET prefix == ContextPrefixed(message)
  IN  SignPrefixed(key, Randomness(key, prefix), prefix)
=============================================================================

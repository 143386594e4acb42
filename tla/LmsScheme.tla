----------------------------- MODULE LmsScheme ------------------------------
(***************************************************************************)
(* LMS signatures (RFC 8554): the parameters and the digits as in          *)
(* crates/lms-script/src/{params,ots}.rs, and what the signature library,  *)
(* which is not part of this repository, makes of them.  A hash value has  *)
(* DigestLen bytes, all that the hash function returns.                    *)
(*                                                                         *)
(* A set is a record: digits of w bits, a tree of height h, p = u + v      *)
(* chains, u for the digest and v for the checksum, which is shifted left  *)
(* by ls.                                                                  *)
(***************************************************************************)
EXTENDS SlhHash, SequencesExt

SHA256_H15_W2 == [w |-> 2, h |-> 15, p |-> 133, u |-> 128, v |-> 5, ls |-> 6]
SHA256_H5_W4  == [w |-> 4, h |->  5, p |->  67, u |->  64, v |-> 3, ls |-> 4]

MaxCoef(p)   == 2 ^ p.w - 1
LeafCount(p) == 2 ^ p.h

\* What the sets' own tests demand of them; that no digit straddles two bytes,
\* which the digits' shift relies on; and that the checksum leaves the sign bit
\* of its two bytes clear, which the emitter relies on.
Consistent(p) ==
  /\ {p.h, p.u, p.v, p.ls} \subseteq Nat /\ p.w \in {1, 2, 4, 8}
  /\ p.u = CeilDiv(8 * DigestLen, p.w) /\ p.p = p.u + p.v
  /\ p.ls = 16 - p.v * p.w
  /\ p.u * MaxCoef(p) * 2 ^ p.ls < 2 ^ 15

D_PBLC == 32896
D_MESG == 33153
D_LEAF == 33410
D_INTR == 33667

Prefix(id, idx, domain) == id \o BigEndian(idx, 4) \o BigEndian(domain, 2)

\* The i-th w-bit field of s, the most significant of each byte first.
Coef(s, i, w) == (s[(i * w) \div 8 + 1] \div 2 ^ (8 - w - ((i * w) % 8))) % 2 ^ w

\* The sum of what the digits lack of their maximum.
CoefSum(q, p) ==
  LET Sum[i \in 0..p.u] ==
        IF i = 0 THEN 0 ELSE Sum[i - 1] + (MaxCoef(p) - Coef(q, i - 1, p.w))
  IN  Sum[p.u]
Cksm(q, p) == (CoefSum(q, p) * 2 ^ p.ls) % 2 ^ 16

\* V, the string the digits of all chains are read from.
CoefficientSource(q, p) == q \o BigEndian(Cksm(q, p), 2)

\* What a parsed signature holds, all of them hash values: the randomiser, an
\* element of every chain, and a sibling for every level.
HashValue == [1..DigestLen -> Octet]
LmsSignatures(p) == [c : HashValue, y : [1..p.p -> HashValue], path : [1..p.h -> HashValue]]

-----------------------------------------------------------------------------
(***************************************************************************)
(* The library.  A key is its identifier, the root of its tree and the     *)
(* leaf in use; a signature is the randomiser, the chains and the path.    *)
(***************************************************************************)
LmsSource(p, key, sig, message) ==
  CoefficientSource(Sha256(Prefix(key.id, key.q, D_MESG) \o sig.c \o message), p)

\* Chain i from step `from` up to step `to`.
Walk(key, i, from, to, y) ==
  LET At[j \in from..to] ==
        IF j = from THEN y
        ELSE Sha256(Prefix(key.id, key.q, i) \o <<j - 1>> \o At[j - 1])
  IN  At[to]

OtsKey(key, ends) == Sha256(Prefix(key.id, key.q, D_PBLC) \o Joined(ends))

\* The node above number r, of a node and the sibling beside it.
NodeAbove(key, r, node, sibling) ==
  Sha256(Prefix(key.id, r \div 2, D_INTR)
           \o IF r % 2 = 1 THEN sibling \o node ELSE node \o sibling)

\* The ancestors of a leaf, the path holding the sibling of each.
ClimbPath(p, key, leaf, path) ==
  LET Node[height \in 0..p.h] ==
        IF height = 0 THEN leaf
        ELSE NodeAbove(key, (LeafCount(p) + key.q) \div 2 ^ (height - 1),
                       Node[height - 1], path[height])
  IN  Node[p.h]

LeafHash(key, r, ots) == Sha256(Prefix(key.id, r, D_LEAF) \o ots)

\* The root a verifier computes from the digits of a message.
LmsRoot(p, key, sig, source) ==
  ClimbPath(p, key,
            LeafHash(key, LeafCount(p) + key.q,
                     OtsKey(key, [i \in 1..p.p |->
                       Walk(key, i - 1, Coef(source, i - 1, p.w), MaxCoef(p), sig.y[i])])),
            sig.path)

\* The private start of a chain, and the nodes of the tree of all one-time keys.
Start(key, i) == Sha256(key.seed \o BigEndian(key.q, 4) \o BigEndian(i, 2))
At(key, q) == [key EXCEPT !.q = q]
LmsLeaf(p, key) ==
  LeafHash(key, LeafCount(p) + key.q,
           OtsKey(key, [i \in 1..p.p |-> Walk(key, i - 1, 0, MaxCoef(p), Start(key, i - 1))]))
LmsTree(p, key) ==
  LET T[r \in 1 .. 2 * LeafCount(p) - 1] ==
        IF r >= LeafCount(p) THEN LmsLeaf(p, At(key, r - LeafCount(p)))
        ELSE Sha256(Prefix(key.id, r, D_INTR) \o T[2 * r] \o T[2 * r + 1])
  IN  T

Beside(r) == IF r % 2 = 0 THEN r + 1 ELSE r - 1
LmsSignFrom(p, key, tree, c, source) ==
  [c    |-> c,
   y    |-> [i \in 1..p.p |-> Walk(key, i - 1, 0, Coef(source, i - 1, p.w), Start(key, i - 1))],
   path |-> [i \in 1..p.h |-> tree[Beside((LeafCount(p) + key.q) \div 2 ^ (i - 1))]]]

LmsSign(p, key, tree, c, message) ==
  LmsSignFrom(p, key, tree, c, LmsSource(p, key, [c |-> c], message))
=============================================================================

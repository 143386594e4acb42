----------------------------- MODULE SlhParams -----------------------------
(***************************************************************************)
(* SLH-DSA parameter sets (crates/slh-script/src/params.rs): a set is a    *)
(* record of its independent parameters, everything else is derived.       *)
(*                                                                         *)
(* N, Block and DigestLen are 16, 64 and 32 bytes in the code.  The runs   *)
(* that sign shrink them, so that whole trees of keys can be computed; the *)
(* runs over the real sets keep them.                                      *)
(***************************************************************************)
EXTENDS Integers, FiniteSets

CONSTANTS
  N,          \* bytes of a hash value, PK.seed and PK.root
  Block,      \* bytes of one block of the hash function
  DigestLen   \* bytes of the hash function's output

ASSUME WidthsAssumption ==
  N \in 1..16 /\ Block \in Nat /\ DigestLen \in Nat /\ N <= Block /\ N <= DigestLen

PAD_LEN == Block - N

\* The type byte of an address.
WOTS_HASH  == 0
WOTS_PK    == 1
TREE       == 2
FORS_TREE  == 3
FORS_ROOTS == 4
WOTS_PRF   == 5
FORS_PRF   == 6

\* The sets in use.  The first is beyond TLC's integers and no run takes it.
SHA2_128S      == [h |-> 63, d |-> 7, hp |->  9, a |-> 12, k |-> 14, lgw |-> 4, m |-> 30]
SHA2_128_24    == [h |-> 22, d |-> 1, hp |-> 22, a |-> 24, k |->  6, lgw |-> 2, m |-> 21]
SHA2_128_24_D2 == [h |-> 24, d |-> 2, hp |-> 12, a |-> 14, k |-> 15, lgw |-> 2, m |-> 31]

CeilDiv(x, y) == (x + y - 1) \div y

\* ilog2, for a positive value.
Log2(v) == Cardinality({e \in 1..30 : 2 ^ e <= v})

W(p)       == 2 ^ p.lgw
Len1(p)    == CeilDiv(8 * N, p.lgw)
Len2(p)    == Log2(Len1(p) * (W(p) - 1)) \div p.lgw + 1
WotsLen(p) == Len1(p) + Len2(p)
CsumBits(p) == Len2(p) * p.lgw

MdLen(p)       == CeilDiv(p.k * p.a, 8)
IdxTreeBits(p) == p.h - p.h \div p.d
IdxTreeLen(p)  == CeilDiv(IdxTreeBits(p), 8)
IdxLeafLen(p)  == CeilDiv(p.h, 8 * p.d)

SigElements(p) == 1 + p.k * (1 + p.a) + p.h + p.d * WotsLen(p)

\* Bytes that hold every value up to max with the sign bit clear.
WordWidthFor_SpendsSignBit(max) == IF max = 0 THEN 1 ELSE Log2(max) \div 8 + 1
WordWidthFor(max) == IF max = 0 THEN 1 ELSE (Log2(max) + 1) \div 8 + 1
ForsIndexWidth_OneTree(p) == WordWidthFor(2 ^ p.a)
ForsIndexWidth(p) == WordWidthFor(p.k * 2 ^ p.a)
XmssIndexWidth(p) == WordWidthFor(2 ^ p.hp - 1)

\* What every supported set satisfies, the sets of the small runs included:
\* the digest is used up by its three fields and fits one block of output.
WellFormed(p) ==
  /\ {p.h, p.d, p.hp, p.a, p.k} \subseteq Nat \ {0} /\ p.lgw \in 1..8
  /\ p.h = p.d * p.hp
  /\ p.m = MdLen(p) + IdxTreeLen(p) + IdxLeafLen(p)
  /\ p.m <= DigestLen
=============================================================================

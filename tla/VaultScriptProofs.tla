------------------------- MODULE VaultScriptProofs --------------------------
(***************************************************************************)
(* What a redeem script digests is what the wallet signed, the elements of *)
(* a signature come in their order, and the stacks stay within the plan's  *)
(* estimate: for any transaction, any signature and any set.               *)
(*                                                                         *)
(* In this order: induction over numbers and over the halves a list is     *)
(* joined by; numbers and their bytes; scripts as sequences of calls, and  *)
(* what the emitters' phases stand for; the stack and the opcodes the      *)
(* digest is made with, and the steps up to it; the calls of the SLH-DSA   *)
(* verifier and its branches; the plan of the blobs, and the steps that    *)
(* queue them, cut them up and fetch from them; the stacks' height; and    *)
(* the invariant, with the three theorems.                                 *)
(***************************************************************************)
EXTENDS VaultScript, SequenceTheorems, FiniteSetTheorems, WellFoundedInduction, TLAPS

-----------------------------------------------------------------------------
(* Induction: what holds of 0, and of n + 1 with n, holds of every number. *)

LEMMA NatOrder == IsWellFoundedOn({q \in Nat \X Nat : q[1] < q[2]}, Nat)
  BY NatLessThanWellFounded, Zenon DEF OpToRel

LEMMA LeastNat ==
    ASSUME NEW S \in SUBSET Nat, S # {}
    PROVE  \E m \in S : \A k \in S : m <= k
  <1>1. PICK m \in S : \A k \in S : <<k, m>> \notin {q \in Nat \X Nat : q[1] < q[2]}
    BY NatOrder, WFMin, Zenon
  <1>2. ASSUME NEW k \in S PROVE m <= k
    <2>1. <<k, m>> \in Nat \X Nat
      OBVIOUS
    <2> QED
      BY <1>1, <2>1
  <1> QED
    BY <1>2

LEMMA InductionOn ==
    ASSUME NEW S, 0 \in S, \A n \in Nat : n \in S => n + 1 \in S
    PROVE  Nat \subseteq S
  <1> SUFFICES ASSUME NEW x \in Nat, x \notin S PROVE FALSE
    OBVIOUS
  <1> DEFINE B == {n \in Nat : n \notin S}
  <1>1. PICK m \in B : \A k \in B : m <= k
    BY LeastNat
  <1>2. m \in Nat /\ m # 0 /\ m \notin S
    OBVIOUS
  <1>3. m - 1 \in Nat /\ m - 1 \notin B
    BY <1>1, <1>2
  <1>4. (m - 1) + 1 = m
    BY <1>2
  <1> QED
    BY <1>2, <1>3, <1>4

-----------------------------------------------------------------------------
(* Sequences joined by halves. *)

\* What the recursion of Joined says of the spans of a list, each split in the
\* middle.
PartsOf(f, n, X) ==
  {Part \in [(1..n) \X (1..n) -> Seq(X)] :
     \A lo \in 1..n, hi \in 1..n :
       Part[<<lo, hi>>] = IF lo >= hi THEN f[lo]
                          ELSE Part[<<lo, (lo + hi) \div 2>>] \o Part[<<(lo + hi) \div 2 + 1, hi>>]}

LEMMA PartsExist ==
    ASSUME NEW X, NEW n \in Nat, NEW f \in [1..n -> Seq(X)]
    PROVE  \E Part \in PartsOf(f, n, X) : TRUE
  <1> DEFINE Pairs == (1..n) \X (1..n)
             S == {m \in Nat : \E G \in [Pairs -> Seq(X)] :
                     \A lo \in 1..n, hi \in 1..n : hi - lo <= m =>
                       G[<<lo, hi>>] = IF lo >= hi THEN f[lo]
                                   ELSE G[<<lo, (lo + hi) \div 2>>] \o G[<<(lo + hi) \div 2 + 1, hi>>]}
  <1>1. 0 \in S
    <2> DEFINE G == [q \in Pairs |-> f[q[1]]]
    <2>1. G \in [Pairs -> Seq(X)]
      OBVIOUS
    <2>2. \A lo \in 1..n, hi \in 1..n : G[<<lo, hi>>] = f[lo]
      OBVIOUS
    <2> HIDE DEF G
    <2>3. \A lo \in 1..n, hi \in 1..n : hi - lo <= 0 => lo >= hi
      OBVIOUS
    <2> QED
      BY <2>1, <2>2, <2>3
  <1>2. ASSUME NEW m \in Nat, m \in S PROVE m + 1 \in S
    <2>1. PICK G \in [Pairs -> Seq(X)] :
            \A lo \in 1..n, hi \in 1..n : hi - lo <= m =>
              G[<<lo, hi>>] = IF lo >= hi THEN f[lo]
                          ELSE G[<<lo, (lo + hi) \div 2>>] \o G[<<(lo + hi) \div 2 + 1, hi>>]
      BY <1>2
    <2> DEFINE H == [q \in Pairs |->
                       IF q[1] >= q[2] THEN f[q[1]]
                       ELSE G[<<q[1], (q[1] + q[2]) \div 2>>] \o G[<<(q[1] + q[2]) \div 2 + 1, q[2]>>]]
    <2>2. \A lo \in 1..n, hi \in 1..n : lo < hi =>
            /\ (lo + hi) \div 2 \in 1..n /\ (lo + hi) \div 2 + 1 \in 1..n
            /\ (lo + hi) \div 2 - lo < hi - lo
            /\ hi - ((lo + hi) \div 2 + 1) < hi - lo
      OBVIOUS
    <2>3. H \in [Pairs -> Seq(X)]
      <3>1. ASSUME NEW q \in Pairs PROVE H[q] \in Seq(X)
        <4>1. CASE q[1] >= q[2]
          BY <4>1
        <4>2. CASE q[1] < q[2]
          <5>1. /\ G[<<q[1], (q[1] + q[2]) \div 2>>] \in Seq(X)
                /\ G[<<(q[1] + q[2]) \div 2 + 1, q[2]>>] \in Seq(X)
            BY <2>2, <4>2
          <5> QED
            BY <4>2, <5>1
        <4> QED
          BY <4>1, <4>2
      <3> QED
        BY <3>1
    <2>4. \A lo \in 1..n, hi \in 1..n :
            H[<<lo, hi>>] = IF lo >= hi THEN f[lo]
                        ELSE G[<<lo, (lo + hi) \div 2>>] \o G[<<(lo + hi) \div 2 + 1, hi>>]
      OBVIOUS
    <2> HIDE DEF H
    <2>5. \A lo \in 1..n, hi \in 1..n : hi - lo <= m => H[<<lo, hi>>] = G[<<lo, hi>>]
      BY <2>1, <2>4, ZenonT(30)
    <2>6. ASSUME NEW lo \in 1..n, NEW hi \in 1..n, hi - lo <= m + 1
          PROVE  H[<<lo, hi>>] = IF lo >= hi THEN f[lo]
                             ELSE H[<<lo, (lo + hi) \div 2>>] \o H[<<(lo + hi) \div 2 + 1, hi>>]
      <3>1. CASE lo >= hi
        BY <2>4, <3>1
      <3>2. CASE lo < hi
        <4> DEFINE middle == (lo + hi) \div 2
        <4>1. /\ middle \in 1..n /\ middle + 1 \in 1..n
              /\ middle - lo <= m /\ hi - (middle + 1) <= m
          BY <2>2, <2>6, <3>2
        <4>2. H[<<lo, hi>>] = G[<<lo, middle>>] \o G[<<middle + 1, hi>>]
          <5>1. ~(lo >= hi)
            BY <3>2
          <5> QED
            BY <2>4, <5>1, Zenon
        <4> HIDE DEF middle
        <4>3. H[<<lo, middle>>] = G[<<lo, middle>>] /\ H[<<middle + 1, hi>>] = G[<<middle + 1, hi>>]
          BY <2>5, <4>1
        <4>4. H[<<lo, hi>>] = H[<<lo, middle>>] \o H[<<middle + 1, hi>>]
          BY <4>2, <4>3, Zenon
        <4>5. ~(lo >= hi)
          BY <3>2
        <4> QED
          BY <4>4, <4>5, Zenon DEF middle
      <3> QED
        BY <3>1, <3>2
    <2>7. \E F \in [Pairs -> Seq(X)] :
            \A lo \in 1..n, hi \in 1..n : hi - lo <= m + 1 =>
              F[<<lo, hi>>] = IF lo >= hi THEN f[lo]
                              ELSE F[<<lo, (lo + hi) \div 2>>] \o F[<<(lo + hi) \div 2 + 1, hi>>]
      BY <2>3, <2>6
    <2>8. m + 1 \in Nat
      OBVIOUS
    <2> QED
      BY <2>7, <2>8, Zenon
  <1>3. n \in S
    <2> HIDE DEF S
    <2> QED
      BY <1>1, <1>2, InductionOn
  <1>4. PICK G \in [Pairs -> Seq(X)] :
          \A lo \in 1..n, hi \in 1..n : hi - lo <= n =>
            G[<<lo, hi>>] = IF lo >= hi THEN f[lo]
                            ELSE G[<<lo, (lo + hi) \div 2>>] \o G[<<(lo + hi) \div 2 + 1, hi>>]
    BY <1>3
  <1>5. \A lo \in 1..n, hi \in 1..n : hi - lo <= n
    OBVIOUS
  <1>6. \A lo \in 1..n, hi \in 1..n :
          G[<<lo, hi>>] = IF lo >= hi THEN f[lo]
                          ELSE G[<<lo, (lo + hi) \div 2>>] \o G[<<(lo + hi) \div 2 + 1, hi>>]
    BY <1>4, <1>5, Zenon
  <1>7. G \in PartsOf(f, n, X)
    BY <1>4, <1>6, Zenon DEF PartsOf
  <1> QED
    BY <1>7

-----------------------------------------------------------------------------
(* Numbers, and the bytes they are written in. *)

LEMMA Weights ==
    /\ DOMAIN ByteWeight = 1..4
    /\ ByteWeight[1] = 1 /\ ByteWeight[2] = 256
    /\ ByteWeight[3] = 65536 /\ ByteWeight[4] = 16777216
  BY DEF ByteWeight

\* A number needs a byte for every weight it reaches.
LEMMA ByteCountIs ==
    ASSUME NEW v \in Nat, NEW c \in 0..4,
           \A i \in 1..4 : v >= ByteWeight[i] <=> i <= c
    PROVE  ByteCount(v) = c
  <1>1. {i \in DOMAIN ByteWeight : v >= ByteWeight[i]} = 1..c
    BY Weights
  <1>2. Cardinality(1..c) = c
    <2>1. c \in Int /\ 1 \in Int
      OBVIOUS
    <2>2. Cardinality(1..c) = IF 1 > c THEN 0 ELSE c - 1 + 1
      BY <2>1, FS_Interval, Zenon
    <2> QED
      BY <2>2
  <1> QED
    BY <1>1, <1>2 DEF ByteCount

\* The cases a number's bytes are counted by.
LEMMA ByteCounts ==
    ASSUME NEW v \in Word
    PROVE  \/ v = 0 /\ ByteCount(v) = 0
           \/ v \in 1..255 /\ ByteCount(v) = 1
           \/ v >= 256 /\ v < ByteWeight[3] /\ ByteCount(v) = 2
           \/ v >= ByteWeight[3] /\ v < ByteWeight[4] /\ ByteCount(v) = 3
           \/ v >= ByteWeight[4] /\ ByteCount(v) = 4
  <1>0. v \in Nat
    BY DEF Word
  <1>1. CASE v = 0
    <2>1. \A i \in 1..4 : v >= ByteWeight[i] <=> i <= 0
      BY <1>0, <1>1, Weights, SMT
    <2> QED
      BY <1>0, <1>1, <2>1, ByteCountIs, SMT
  <1>2. CASE v \in 1..255
    <2>1. \A i \in 1..4 : v >= ByteWeight[i] <=> i <= 1
      BY <1>0, <1>2, Weights, SMT
    <2> QED
      BY <1>0, <1>2, <2>1, ByteCountIs, SMT
  <1>3. CASE v >= 256 /\ v < ByteWeight[3]
    <2>1. \A i \in 1..4 : v >= ByteWeight[i] <=> i <= 2
      BY <1>0, <1>3, Weights, SMT
    <2> QED
      BY <1>0, <1>3, <2>1, ByteCountIs, SMT
  <1>4. CASE v >= ByteWeight[3] /\ v < ByteWeight[4]
    <2>1. \A i \in 1..4 : v >= ByteWeight[i] <=> i <= 3
      BY <1>0, <1>4, Weights, SMT
    <2> QED
      BY <1>0, <1>4, <2>1, ByteCountIs, SMT
  <1>5. CASE v >= ByteWeight[4]
    <2>1. \A i \in 1..4 : v >= ByteWeight[i] <=> i <= 4
      BY <1>0, <1>5, Weights, SMT
    <2> QED
      BY <1>0, <1>5, <2>1, ByteCountIs, SMT
  <1> QED
    BY <1>0, <1>1, <1>2, <1>3, <1>4, <1>5, Weights, SMT

LEMMA FrontAndLast ==
    ASSUME NEW S, NEW s \in Seq(S), s # <<>>
    PROVE  Front(s) \in Seq(S) /\ Last(s) \in S /\ Last(s) = s[Len(s)] /\ Append(Front(s), Last(s)) = s
  <1>1. Len(s) \in Nat /\ Len(s) >= 1 /\ DOMAIN s = 1..Len(s) /\ \A i \in 1..Len(s) : s[i] \in S
    BY EmptySeq, LenProperties
  <1>2. Front(s) = SubSeq(s, 1, Len(s) - 1)
    BY DEF Front
  <1>3. /\ Front(s) \in Seq(S) /\ Len(Front(s)) = Len(s) - 1
        /\ \A i \in 1 .. Len(s) - 1 : Front(s)[i] = s[i]
    BY <1>1, <1>2, SubSeqProperties
  <1>4. Last(s) = s[Len(s)] /\ Last(s) \in S
    BY <1>1 DEF Last
  <1>5. /\ Append(Front(s), Last(s)) \in Seq(S) /\ Len(Append(Front(s), Last(s))) = Len(s)
        /\ \A i \in 1..Len(s) : Append(Front(s), Last(s))[i] = s[i]
    <2>1. /\ Append(Front(s), Last(s)) \in Seq(S) /\ Len(Append(Front(s), Last(s))) = Len(s)
          /\ Append(Front(s), Last(s))[Len(s)] = Last(s)
          /\ \A i \in 1 .. Len(s) - 1 : Append(Front(s), Last(s))[i] = Front(s)[i]
      <3> DEFINE f == Front(s)
                 x == Last(s)
      <3>1. f \in Seq(S) /\ x \in S /\ Len(f) = Len(s) - 1 /\ Len(s) \in Nat
        BY <1>1, <1>3, <1>4
      <3> HIDE DEF f, x
      <3>2. /\ Append(f, x) \in Seq(S) /\ Len(Append(f, x)) = Len(f) + 1
            /\ Append(f, x)[Len(f) + 1] = x
            /\ \A i \in 1..Len(f) : Append(f, x)[i] = f[i]
        BY <3>1, AppendProperties
      <3>3. /\ Append(f, x) \in Seq(S) /\ Len(Append(f, x)) = Len(s)
            /\ Append(f, x)[Len(s)] = x
            /\ \A i \in 1 .. Len(s) - 1 : Append(f, x)[i] = f[i]
        BY <3>1, <3>2
      <3> QED
        BY <3>3 DEF f, x
    <2> QED
      BY <1>1, <1>3, <1>4, <2>1
  <1>6. Append(Front(s), Last(s)) = s
    BY <1>5, SeqEqual, LenProperties
  <1> QED
    BY <1>3, <1>4, <1>6

LEMMA FrontOfAppend ==
    ASSUME NEW S, NEW s \in Seq(S), NEW x \in S
    PROVE  Append(s, x) # <<>> /\ Front(Append(s, x)) = s /\ Last(Append(s, x)) = x
  <1>1. /\ Append(s, x) \in Seq(S) /\ Len(Append(s, x)) = Len(s) + 1 /\ Len(s) \in Nat
        /\ Append(s, x)[Len(s) + 1] = x
        /\ \A i \in 1..Len(s) : Append(s, x)[i] = s[i]
    BY AppendProperties, LenProperties
  <1>2. /\ Front(Append(s, x)) \in Seq(S) /\ Len(Front(Append(s, x))) = Len(s)
        /\ \A i \in 1..Len(s) : Front(Append(s, x))[i] = s[i]
    BY <1>1, SubSeqProperties DEF Front
  <1>3. Front(Append(s, x)) = s
    BY <1>1, <1>2, SeqEqual
  <1>4. Append(s, x) # <<>>
    BY AppendProperties
  <1> QED
    BY <1>1, <1>3, <1>4 DEF Last

LEMMA MagnitudeIs ==
    ASSUME NEW v \in Word
    PROVE  /\ Magnitude(v) \in Seq(Octet) /\ Len(Magnitude(v)) = ByteCount(v)
           /\ ByteCount(v) \in 0..4
           /\ \A i \in 1..ByteCount(v) : Magnitude(v)[i] = (v \div ByteWeight[i]) % 256
  <1>1. ByteCount(v) \in 0..4
    BY ByteCounts
  <1>2. \A i \in 1..ByteCount(v) : (v \div ByteWeight[i]) % 256 \in Octet
    BY <1>1, Weights, SMT DEF Octet, Word
  <1>3. Magnitude(v) = [i \in 1..ByteCount(v) |-> (v \div ByteWeight[i]) % 256]
    BY Zenon DEF Magnitude
  <1>4. Magnitude(v) \in Seq(Octet) /\ Len(Magnitude(v)) = ByteCount(v)
    BY <1>1, <1>2, <1>3, SMT
  <1> QED
    BY <1>1, <1>3, <1>4, SMT

\* A number is made of its bytes.
LEMMA OfItsBytes ==
    ASSUME NEW v \in Word
    PROVE  /\ v < 256 => v = (v % 256)
           /\ v < ByteWeight[3] => v = (v % 256) + ((v \div 256) % 256) * 256
           /\ v < ByteWeight[4] =>
                v = (v % 256) + ((v \div 256) % 256) * 256
                      + ((v \div ByteWeight[3]) % 256) * ByteWeight[3]
           /\ v = (v % 256) + ((v \div 256) % 256) * 256
                    + ((v \div ByteWeight[3]) % 256) * ByteWeight[3]
                    + ((v \div ByteWeight[4]) % 256) * ByteWeight[4]
           /\ v \div ByteWeight[4] < 128
  <1> DEFINE b == v \div 256
             c == v \div 65536
             d == v \div 16777216
  <1>0. v \in Nat
    BY DEF Word
  <1>1. v = 256 * b + (v % 256) /\ b \in Nat /\ (v % 256) \in Nat
    BY <1>0, SMT
  <1>2. b = 256 * c + (b % 256) /\ c \in Nat /\ b % 256 \in Nat
    <2>1. c = b \div 256 /\ b \in Nat
      BY <1>0, SMT
    <2> HIDE DEF b, c
    <2> QED
      BY <2>1, SMT
  <1>3. c = 256 * d + (c % 256) /\ d \in Nat /\ (c % 256) \in Nat
    <2>1. d = c \div 256 /\ c \in Nat
      BY <1>0, SMT
    <2> HIDE DEF c, d
    <2> QED
      BY <2>1, SMT
  <1>4. /\ v < 256 => b = 0
        /\ v < 65536 => c = 0
        /\ v < 16777216 => d = 0
        /\ d < 128
    BY <1>0, SMT DEF Word
  <1> HIDE DEF b, c, d
  <1>5. d % 256 = d
    BY <1>3, <1>4, SMT
  <1>6. v < 256 => v = (v % 256)
    BY <1>1, <1>4, SMT
  <1>7. v < 65536 => v = (v % 256) + (b % 256) * 256
    BY <1>1, <1>2, <1>4, SMT
  <1>8. v < 16777216 => v = (v % 256) + (b % 256) * 256 + (c % 256) * 65536
    BY <1>1, <1>2, <1>3, <1>4, SMT
  <1>9. v = (v % 256) + (b % 256) * 256 + (c % 256) * 65536 + (d % 256) * 16777216
    BY <1>1, <1>2, <1>3, <1>5, SMT
  <1> QED
    BY <1>4, <1>6, <1>7, <1>8, <1>9, Weights, SMT DEF b, c, d

LEMMA NumberBytes ==
    ASSUME NEW v \in Word, v # 0
    PROVE  /\ Magnitude(v) # <<>>
           /\ Last(Magnitude(v)) = (v \div ByteWeight[ByteCount(v)]) % 256
           /\ Encode(v) = IF Last(Magnitude(v)) >= 128 THEN Append(Magnitude(v), 0) ELSE Magnitude(v)
           /\ ByteCount(v) = 4 => Last(Magnitude(v)) < 128
  <1> DEFINE b == Magnitude(v)
  <1>1. v \in Nat
    BY DEF Word
  <1>2. ByteCount(v) \in 1..4 /\ b \in Seq(Octet) /\ Len(b) = ByteCount(v)
    BY ByteCounts, MagnitudeIs
  <1>3. b # <<>>
    BY <1>2, EmptySeq
  <1>4. Last(b) = (v \div ByteWeight[ByteCount(v)]) % 256
    <2>1. Last(b) = b[Len(b)]
      BY <1>2, <1>3, FrontAndLast
    <2> QED
      BY <1>2, <2>1, MagnitudeIs
  <1>5. v \div ByteWeight[4] < 128 /\ v \div ByteWeight[4] \in Nat
    BY <1>1, OfItsBytes, Weights, SMT
  <1>6. ByteCount(v) = 4 => Last(b) < 128
    BY <1>4, <1>5
  <1>7. Abs(v) = v /\ SignBit(v) = 0
    BY <1>1 DEF Abs, SignBit
  <1>8. Append(Front(b), Last(b) + 0) = b
    <2>1. Last(b) \in Octet /\ Append(Front(b), Last(b)) = b
      BY <1>2, <1>3, FrontAndLast
    <2>2. \A x \in Octet : x + 0 = x
      BY DEF Octet
    <2> QED
      BY <2>1, <2>2
  <1>9. Encode(v) = IF Last(b) >= 128 THEN Append(b, 0) ELSE b
    BY <1>3, <1>7, <1>8, Zenon DEF Encode
  <1> QED
    BY <1>3, <1>4, <1>6, <1>9

\* The magnitude of a number is the number, whatever zeros follow it.
LEMMA UnsignedMagnitude ==
    ASSUME NEW v \in Word
    PROVE  Unsigned(Magnitude(v)) = v /\ Unsigned(Append(Magnitude(v), 0)) = v
  <1> DEFINE b == Magnitude(v)
             z == Append(b, 0)
  <1>1. v \in Nat /\ 0 \in Octet
    BY DEF Word, Octet
  <1>2. /\ b \in Seq(Octet) /\ Len(b) = ByteCount(v) /\ ByteCount(v) \in 0..4
        /\ \A i \in 1..ByteCount(v) : b[i] = (v \div ByteWeight[i]) % 256
    BY MagnitudeIs
  <1>3. /\ z \in Seq(Octet) /\ Len(z) = ByteCount(v) + 1
        /\ \A i \in 1..ByteCount(v) : z[i] = (v \div ByteWeight[i]) % 256
        /\ z[ByteCount(v) + 1] = 0
    BY <1>1, <1>2, AppendProperties
  <1>4. DOMAIN b = 1..ByteCount(v) /\ DOMAIN z = 1 .. ByteCount(v) + 1
    BY <1>2, <1>3, LenProperties
  <1> DEFINE Place(i) == IF i <= ByteCount(v) THEN ((v \div ByteWeight[i]) % 256) * ByteWeight[i] ELSE 0
  <1>5. Unsigned(b) = Place(1) + Place(2) + Place(3) + Place(4)
    <2>1. \A i \in 1..4 : (IF i \in DOMAIN b THEN b[i] * ByteWeight[i] ELSE 0) = Place(i)
      BY <1>2, <1>4
    <2> HIDE DEF Place, b
    <2> QED
      BY <2>1 DEF Unsigned
  <1>6. Unsigned(z) = Place(1) + Place(2) + Place(3) + Place(4)
    <2>1. ASSUME NEW i \in 1..4
          PROVE  (IF i \in DOMAIN z THEN z[i] * ByteWeight[i] ELSE 0) = Place(i)
      <3>1. CASE i <= ByteCount(v)
        BY <1>2, <1>3, <1>4, <3>1
      <3>2. CASE i = ByteCount(v) + 1
        BY <1>2, <1>3, <1>4, <3>2, Weights, SMT
      <3>3. CASE i > ByteCount(v) + 1
        BY <1>2, <1>4, <3>3
      <3> QED
        BY <1>2, <3>1, <3>2, <3>3
    <2> HIDE DEF Place, z
    <2> QED
      BY <2>1 DEF Unsigned
  <1>7. Place(1) + Place(2) + Place(3) + Place(4) = v
    <2> DEFINE P(i) == ((v \div ByteWeight[i]) % 256) * ByteWeight[i]
    <2>1. P(1) = v % 256 /\ P(2) = ((v \div 256) % 256) * 256
      BY <1>1, Weights, SMT
    <2>2. /\ P(1) \in Int /\ P(2) \in Int /\ P(3) \in Int /\ P(4) \in Int
      BY <1>1, Weights, SMT
    <2>3. /\ v < 256 => v = P(1)
          /\ v < ByteWeight[3] => v = P(1) + P(2)
          /\ v < ByteWeight[4] => v = P(1) + P(2) + P(3)
          /\ v = P(1) + P(2) + P(3) + P(4)
      BY <2>1, OfItsBytes
    <2>4. \A i \in 1..4 : Place(i) = IF i <= ByteCount(v) THEN P(i) ELSE 0
      OBVIOUS
    <2> HIDE DEF P, Place
    <2>5. /\ P(1) = 0 \/ ByteCount(v) >= 1
          /\ ByteCount(v) = 1 => v = P(1)
          /\ ByteCount(v) = 2 => v = P(1) + P(2)
          /\ ByteCount(v) = 3 => v = P(1) + P(2) + P(3)
          /\ ByteCount(v) = 0 => v = 0
      <3>1. v = 0 => P(1) = 0
        BY <2>1
      <3> QED
        BY <1>1, <2>3, <3>1, ByteCounts
    <2> QED
      BY <1>1, <1>2, <2>2, <2>3, <2>4, <2>5, SMTT(20)
  <1> QED
    BY <1>5, <1>6, <1>7

LEMMA NumberRead ==
    ASSUME NEW v \in Word
    PROVE  /\ Encode(v) \in Seq(Octet) /\ Decode(Encode(v)) = v /\ IsNumber(Encode(v))
           /\ Len(Encode(v)) >= ByteCount(v)
           /\ Len(Encode(v)) <= 2 => v <= 32767
           /\ Len(Encode(v)) <= 1 => v <= 127
  <1>0. v \in Nat /\ 0 \in Octet
    BY DEF Word, Octet
  <1>1. CASE v = 0
    <2>1. Magnitude(Abs(v)) = <<>>
      <3>1. Abs(v) = v
        BY <1>0 DEF Abs
      <3>2. Magnitude(v) \in Seq(Octet) /\ Len(Magnitude(v)) = 0
        BY <1>0, <1>1, ByteCounts, MagnitudeIs, Weights, SMT
      <3> QED
        BY <3>1, <3>2, EmptySeq
    <2>2. Encode(v) = <<>>
      BY <2>1 DEF Encode
    <2>3. Decode(<<>>) = 0
      BY DEF Decode
    <2>4. <<>> \in Seq(Octet) /\ Len(<<>>) = 0
      OBVIOUS
    <2>5. ByteCount(v) = 0
      BY <1>1, ByteCounts, Weights, SMT
    <2>6. /\ Encode(v) \in Seq(Octet) /\ Len(Encode(v)) = 0
          /\ Decode(Encode(v)) = v /\ Encode(Decode(Encode(v))) = Encode(v)
      BY <1>1, <2>2, <2>3, <2>4
    <2> QED
      BY <1>1, <2>5, <2>6, SMT DEF IsNumber, MaxNumLen
  <1>2. CASE v # 0
    <2> DEFINE b == Magnitude(v)
               c == ByteCount(v)
    <2>1. b \in Seq(Octet) /\ Len(b) = c /\ c \in 1..4
      BY <1>2, MagnitudeIs, ByteCounts
    <2>2. b # <<>> /\ Last(b) = (v \div ByteWeight[c]) % 256 /\ Last(b) \in Octet
      BY <1>2, <2>1, NumberBytes, FrontAndLast
    <2>3. Encode(v) = IF Last(b) >= 128 THEN Append(b, 0) ELSE b
      BY <1>2, NumberBytes
    <2>4. c = 4 => Last(b) < 128
      BY <1>2, NumberBytes
    <2>5. Unsigned(b) = v /\ Unsigned(Append(b, 0)) = v
      BY UnsignedMagnitude
    <2>6. c = 1 => v < 256 /\ Last(b) = v
      BY <1>0, <1>2, <2>2, ByteCounts, Weights, SMT
    <2>7. c = 2 => v < 65536 /\ Last(b) = v \div 256
      BY <1>0, <1>2, <2>2, ByteCounts, Weights, SMT
    <2> HIDE DEF b, c
    <2>8. CASE Last(b) >= 128
      <3>1. /\ Append(b, 0) \in Seq(Octet) /\ Len(Append(b, 0)) = c + 1 /\ Append(b, 0) # <<>>
            /\ Last(Append(b, 0)) = 0 /\ Front(Append(b, 0)) = b
        BY <1>0, <2>1, FrontOfAppend, AppendProperties
      <3>2. Encode(v) = Append(b, 0)
        BY <2>3, <2>8
      <3>3. Decode(Append(b, 0)) = v
        BY <2>5, <3>1 DEF Decode
      <3>4. Len(Encode(v)) <= 4
        <4>1. \A x \in Octet : ~(x < 128 /\ x >= 128)
          BY DEF Octet
        <4>2. c # 4
          BY <2>2, <2>4, <2>8, <4>1, Zenon
        <4>3. Len(Encode(v)) = c + 1
          BY <3>1, <3>2, Zenon
        <4> QED
          BY <2>1, <4>2, <4>3
      <3>5. Len(Encode(v)) <= 2 => v <= 32767
        BY <1>0, <2>1, <2>6, <3>1, <3>2, SMT
      <3>6. Len(Encode(v)) <= 1 => v <= 127
        BY <2>1, <3>1, <3>2
      <3>7. /\ Encode(v) \in Seq(Octet) /\ Len(Encode(v)) >= c
            /\ Decode(Encode(v)) = v /\ Encode(Decode(Encode(v))) = Encode(v)
        BY <2>1, <3>1, <3>2, <3>3
      <3> QED
        BY <3>4, <3>5, <3>6, <3>7 DEF IsNumber, MaxNumLen, c
    <2>9. CASE ~(Last(b) >= 128)
      <3>1. Encode(v) = b
        BY <2>3, <2>9
      <3>2. Decode(b) = v
        BY <2>2, <2>5, <2>9 DEF Decode
      <3>3. c = 2 => v <= 32767
        BY <1>0, <2>2, <2>7, <2>9, SMT DEF Octet
      <3>4. c = 1 => v <= 127
        BY <1>0, <2>2, <2>6, <2>9, SMT DEF Octet
      <3>5. /\ Encode(v) \in Seq(Octet) /\ Len(Encode(v)) >= c /\ Len(Encode(v)) <= 4
            /\ Len(Encode(v)) <= 2 => v <= 32767
            /\ Len(Encode(v)) <= 1 => v <= 127
            /\ Decode(Encode(v)) = v /\ Encode(Decode(Encode(v))) = Encode(v)
        <4>1. Len(Encode(v)) = c
          BY <2>1, <3>1, Zenon
        <4>2. /\ Encode(v) \in Seq(Octet) /\ Decode(Encode(v)) = v
              /\ Encode(Decode(Encode(v))) = Encode(v)
          BY <2>1, <3>1, <3>2, Zenon
        <4>3. c >= c /\ c <= 4 /\ (c <= 2 => c = 1 \/ c = 2) /\ (c <= 1 => c = 1)
          BY <2>1
        <4>4. v <= 127 => v <= 32767
          BY <1>0, SMT
        <4>5. Len(Encode(v)) <= 1 => v <= 127
          BY <3>4, <4>1, <4>3, SMT
        <4>6. Len(Encode(v)) <= 2 => v <= 32767
          BY <3>3, <3>4, <4>1, <4>3, <4>4, SMT
        <4>7. Len(Encode(v)) >= c /\ Len(Encode(v)) <= 4
          BY <4>1, <4>3, SMT
        <4> QED
          BY <4>2, <4>5, <4>6, <4>7, SMT
      <3> QED
        BY <3>5 DEF IsNumber, MaxNumLen, c
    <2> QED
      BY <2>8, <2>9
  <1> QED
    BY <1>1, <1>2

LEMMA LittleEndianIs ==
    ASSUME NEW v \in Word, NEW n \in Nat
    PROVE  /\ LittleEndian(v, n) \in Seq(Octet)
           /\ LittleEndian(v, n) = [i \in 1..n |-> IF i > 4 THEN 0 ELSE (v \div ByteWeight[i]) % 256]
           /\ BigEndian(v, n) \in Seq(Octet) /\ Len(BigEndian(v, n)) = n
  <1> DEFINE b == BigEndian(v, n)
             Byte(i) == IF i > 4 THEN 0 ELSE (v \div ByteWeight[i]) % 256
  <1>1. \A i \in 1..n : Byte(i) \in Octet
    BY Weights, SMT DEF Octet, Word
  <1>2. b = [i \in 1..n |-> Byte(n - i + 1)]
    <2>1. \A i \in 1..n : (n - i > 3) <=> (n - i + 1 > 4)
      OBVIOUS
    <2> QED
      BY <2>1 DEF BigEndian
  <1>3. \A i \in 1..n : n - i + 1 \in 1..n /\ n - (n - i + 1) + 1 = i
    OBVIOUS
  <1> HIDE DEF Byte
  <1>4. b \in Seq(Octet) /\ Len(b) = n
    BY <1>1, <1>2, <1>3
  <1>5. LittleEndian(v, n) = [i \in 1..n |-> b[(n - i) + 1]]
    BY <1>4 DEF LittleEndian, Reverse
  <1>6. \A i \in 1..n : b[(n - i) + 1] = Byte(i)
    BY <1>2, <1>3
  <1>7. LittleEndian(v, n) = [i \in 1..n |-> Byte(i)]
    BY <1>5, <1>6
  <1>8. [i \in 1..n |-> Byte(i)] \in Seq(Octet)
    BY <1>1
  <1> QED
    BY <1>4, <1>7, <1>8 DEF Byte

\* What the engine writes a number as, in a given width, is how the wallet
\* writes it.
LEMMA WidenedIs ==
    ASSUME NEW v \in Word, NEW n \in 1..8
    PROVE  Widened(v, n) = LittleEndian(v, n) /\ LittleEndian(v, n) \in Seq(Octet)
  <1> DEFINE m == Magnitude(v)
             z == [i \in 1..n |-> 0]
             b == m \o z
             Byte(i) == IF i > 4 THEN 0 ELSE (v \div ByteWeight[i]) % 256
  <1>0. v \in Nat /\ 0 \in Octet /\ n \in Nat
    BY DEF Word, Octet
  <1>1. /\ m \in Seq(Octet) /\ Len(m) = ByteCount(v) /\ ByteCount(v) \in 0..4
        /\ \A i \in 1..ByteCount(v) : m[i] = (v \div ByteWeight[i]) % 256
    BY MagnitudeIs
  <1>2. z \in Seq(Octet) /\ Len(z) = n /\ \A i \in 1..n : z[i] = 0
    BY <1>0
  <1>3. \A i \in 1..4 : i > ByteCount(v) => v \div ByteWeight[i] = 0
    <2>1. \A i \in 1..4 : i > ByteCount(v) => v < ByteWeight[i]
      BY <1>0, ByteCounts, Weights, SMT
    <2>2. \A i \in 1..4 : v < ByteWeight[i] => v \div ByteWeight[i] = 0
      BY <1>0, Weights, SMT
    <2> QED
      BY <2>1, <2>2
  <1>4. ASSUME NEW i \in 1..n PROVE b[i] = Byte(i) /\ b[i] \in Octet
    <2>1. CASE i <= ByteCount(v)
      <3>1. b[i] = m[i]
        BY <1>1, <1>2, <2>1, ConcatProperties
      <3>2. m[i] \in Octet
        BY <1>1, <2>1
      <3> QED
        BY <1>1, <2>1, <3>1, <3>2
    <2>2. CASE i > ByteCount(v)
      <3>1. i - Len(m) \in 1..Len(z) /\ i \in Len(m) + 1 .. Len(m) + Len(z)
        BY <1>1, <1>2, <2>2
      <3>2. b[i] = z[i - Len(m)]
        BY <1>1, <1>2, <3>1, ConcatProperties
      <3>3. b[i] = 0
        BY <1>2, <3>1, <3>2
      <3>4. Byte(i) = 0
        BY <1>3, <2>2
      <3> QED
        BY <1>0, <3>3, <3>4
    <2> QED
      BY <1>1, <2>1, <2>2
  <1>5. Abs(v) = v /\ SignBit(v) = 0
    BY <1>0 DEF Abs, SignBit
  <1>6. Widened(v, n) = [i \in 1..n |-> IF i = n THEN b[i] + 0 ELSE b[i]]
    BY <1>5 DEF Widened
  <1> HIDE DEF b, Byte
  <1>7. \A x \in Octet : x + 0 = x
    BY DEF Octet
  <1>8. Widened(v, n) = [i \in 1..n |-> Byte(i)]
    BY <1>4, <1>6, <1>7
  <1> QED
    BY <1>0, <1>8, LittleEndianIs DEF Byte

\* Joined is the whole span of that function.
LEMMA JoinedIs ==
    ASSUME NEW X, NEW n \in Nat, NEW f \in [1..n -> Seq(X)]
    PROVE  \E Part \in PartsOf(f, n, X) : Joined(f) = IF n = 0 THEN <<>> ELSE Part[<<1, n>>]
  <1>0. PICK G \in PartsOf(f, n, X) : TRUE
    BY PartsExist
  <1>1. /\ G \in [(1..n) \X (1..n) -> Seq(X)]
        /\ \A lo \in 1..n, hi \in 1..n :
             G[<<lo, hi>>] = IF lo >= hi THEN f[lo]
                             ELSE G[<<lo, (lo + hi) \div 2>>] \o G[<<(lo + hi) \div 2 + 1, hi>>]
    BY DEF PartsOf
  <1> DEFINE Half(P, q) == LET lo == q[1] hi == q[2] middle == (lo + hi) \div 2
                           IN  IF lo >= hi THEN f[lo]
                               ELSE P[<<lo, middle>>] \o P[<<middle + 1, hi>>]
             Solves(P) == P = [q \in (DOMAIN f) \X (DOMAIN f) |-> Half(P, q)]
             P == CHOOSE Q : Solves(Q)
  <1>2. DOMAIN f = 1..n /\ Len(f) = n /\ (f = <<>> <=> n = 0)
    <2>1. f \in Seq(Seq(X)) /\ Len(f) = n
      OBVIOUS
    <2> QED
      BY <2>1, EmptySeq
  <1>3. Joined(f) = IF f = <<>> THEN <<>> ELSE P[<<1, Len(f)>>]
    BY Zenon DEF Joined
  <1>4. Solves(G)
    <2>1. ASSUME NEW q \in (1..n) \X (1..n) PROVE G[q] = Half(G, q)
      <3>1. PICK lo \in 1..n, hi \in 1..n : q = <<lo, hi>>
        OBVIOUS
      <3> QED
        BY <1>1, <3>1
    <2> QED
      BY <1>1, <1>2, <2>1
  <1>5. Solves(P)
    BY <1>4, Zenon
  <1> HIDE DEF P
  <1>6. ASSUME NEW lo \in 1..n, NEW hi \in 1..n
        PROVE  P[<<lo, hi>>] = IF lo >= hi THEN f[lo]
                               ELSE P[<<lo, (lo + hi) \div 2>>] \o P[<<(lo + hi) \div 2 + 1, hi>>]
    <2>1. <<lo, hi>> \in (DOMAIN f) \X (DOMAIN f) /\ <<lo, hi>>[1] = lo /\ <<lo, hi>>[2] = hi
      BY <1>2
    <2>2. P[<<lo, hi>>] = Half(P, <<lo, hi>>)
      BY <1>5, <2>1
    <2> QED
      BY <2>1, <2>2, Zenon
  <1>7. ASSUME NEW lo \in 1..n, NEW hi \in 1..n PROVE P[<<lo, hi>>] = G[<<lo, hi>>]
    <2> DEFINE S == {m \in Nat : \A l \in 1..n : \A h \in 1..n : h - l <= m => P[<<l, h>>] = G[<<l, h>>]}
    <2>1. 0 \in S
      <3>1. \A l \in 1..n : \A h \in 1..n : h - l <= 0 => l >= h
        OBVIOUS
      <3>2. ASSUME NEW l \in 1..n, NEW h \in 1..n, h - l <= 0 PROVE P[<<l, h>>] = G[<<l, h>>]
        BY <1>1, <1>6, <3>1, <3>2, Zenon
      <3> QED
        BY <3>2
    <2>2. ASSUME NEW m \in Nat, m \in S PROVE m + 1 \in S
      <3>1. ASSUME NEW l \in 1..n, NEW h \in 1..n, h - l <= m + 1 PROVE P[<<l, h>>] = G[<<l, h>>]
        <4>1. CASE l >= h
          BY <1>1, <1>6, <4>1, Zenon
        <4>2. CASE l < h
          <5> DEFINE middle == (l + h) \div 2
          <5>1. /\ middle \in 1..n /\ middle + 1 \in 1..n
                /\ middle - l <= m /\ h - (middle + 1) <= m
            BY <3>1, <4>2
          <5>2. ~(l >= h)
            BY <4>2
          <5>3. /\ P[<<l, h>>] = P[<<l, middle>>] \o P[<<middle + 1, h>>]
                /\ G[<<l, h>>] = G[<<l, middle>>] \o G[<<middle + 1, h>>]
            BY <1>1, <1>6, <5>2, Zenon
          <5> HIDE DEF middle
          <5>4. P[<<l, middle>>] = G[<<l, middle>>] /\ P[<<middle + 1, h>>] = G[<<middle + 1, h>>]
            BY <2>2, <5>1
          <5> QED
            BY <5>3, <5>4, Zenon
        <4> QED
          BY <4>1, <4>2
      <3>2. m + 1 \in Nat
        OBVIOUS
      <3> QED
        BY <3>1, <3>2, Zenon
    <2>3. hi - lo <= n /\ n \in S
      <3>1. hi - lo <= n
        OBVIOUS
      <3> HIDE DEF S
      <3> QED
        BY <2>1, <2>2, <3>1, InductionOn
    <2> QED
      BY <2>3
  <1>8. Joined(f) = IF n = 0 THEN <<>> ELSE G[<<1, n>>]
    <2>1. n # 0 => 1 \in 1..n /\ n \in 1..n
      OBVIOUS
    <2> QED
      BY <1>2, <1>3, <1>7, <2>1, Zenon
  <1> QED
    BY <1>8

-----------------------------------------------------------------------------
(* Scripts: sequences of calls, and the operations they consist of. *)

IsSequence(s) == s \in Seq(Range(s))

\* The numbers in a call, where what it does depends on their being numbers.
Proper(c) ==
  /\ c.op = "fors_tree" => c.i \in Int
  /\ c.op = "calc" => c.n \in 1..3
  /\ c.op = "oproll" => c.depth \in Nat

\* A script of these operations.
Calls(s, ops) ==
  /\ IsSequence(s)
  /\ \A i \in 1..Len(s) : s[i].op \in ops /\ Proper(s[i])

LEMMA SequenceIs ==
    ASSUME NEW S, NEW s \in Seq(S)
    PROVE  IsSequence(s) /\ Range(s) \subseteq S
  BY RangeOfSeq, SeqOfRange DEF IsSequence

LEMMA SequenceLen ==
    ASSUME NEW s, IsSequence(s)
    PROVE  Len(s) \in Nat /\ DOMAIN s = 1..Len(s) /\ (s = <<>> <=> Len(s) = 0)
  BY LenProperties, EmptySeq DEF IsSequence

LEMMA SequenceConcat ==
    ASSUME NEW s, NEW t, IsSequence(s), IsSequence(t)
    PROVE  /\ IsSequence(s \o t) /\ Len(s \o t) = Len(s) + Len(t)
           /\ Len(s) \in Nat /\ Len(t) \in Nat
           /\ \A i \in 1 .. Len(s) + Len(t) : (s \o t)[i] = IF i <= Len(s) THEN s[i] ELSE t[i - Len(s)]
  <1> DEFINE X == Range(s) \cup Range(t)
  <1>1. s \in Seq(X) /\ t \in Seq(X)
    BY SeqMonotonic DEF IsSequence
  <1> HIDE DEF X
  <1>2. /\ s \o t \in Seq(X) /\ Len(s \o t) = Len(s) + Len(t)
        /\ \A i \in 1 .. Len(s) + Len(t) : (s \o t)[i] = IF i <= Len(s) THEN s[i] ELSE t[i - Len(s)]
    BY <1>1, ConcatProperties
  <1>3. IsSequence(s \o t) /\ Len(s) \in Nat /\ Len(t) \in Nat
    BY <1>1, <1>2, SequenceIs, LenProperties
  <1> QED
    BY <1>2, <1>3

LEMMA SequenceTail ==
    ASSUME NEW s, IsSequence(s), s # <<>>
    PROVE  /\ IsSequence(Tail(s)) /\ Len(Tail(s)) = Len(s) - 1 /\ Len(s) \in Nat \ {0}
           /\ Head(s) = s[1]
           /\ \A i \in 1 .. Len(s) - 1 : Tail(s)[i] = s[i + 1]
  <1>1. /\ Tail(s) \in Seq(Range(s)) /\ Len(Tail(s)) = Len(s) - 1
        /\ \A i \in 1 .. Len(s) - 1 : Tail(s)[i] = s[i + 1]
    BY HeadTailProperties, LenProperties DEF IsSequence
  <1>2. IsSequence(Tail(s))
    BY <1>1, SequenceIs
  <1>3. Len(s) \in Nat \ {0}
    BY SequenceLen
  <1>4. Head(s) = s[1]
    OBVIOUS
  <1> QED
    BY <1>1, <1>2, <1>3, <1>4

LEMMA SequenceOne ==
    ASSUME NEW c
    PROVE  IsSequence(<<c>>) /\ Len(<<c>>) = 1 /\ <<c>>[1] = c
  <1>1. <<c>> \in Seq({c})
    OBVIOUS
  <1> QED
    BY <1>1, SequenceIs

LEMMA SequenceAssoc ==
    ASSUME NEW s, NEW t, NEW u, IsSequence(s), IsSequence(t), IsSequence(u)
    PROVE  (s \o t) \o u = s \o (t \o u)
  <1> DEFINE X == (Range(s) \cup Range(t)) \cup Range(u)
  <1>1. s \in Seq(X) /\ t \in Seq(X) /\ u \in Seq(X)
    BY SeqMonotonic DEF IsSequence
  <1> QED
    BY <1>1, ConcatAssociative

LEMMA CallsNone ==
    ASSUME NEW ops
    PROVE  Calls(<<>>, ops)
  <1>1. <<>> \in Seq({})
    OBVIOUS
  <1>2. IsSequence(<<>>) /\ Len(<<>>) = 0
    BY <1>1, SequenceIs
  <1> QED
    BY <1>2 DEF Calls

LEMMA CallsOne ==
    ASSUME NEW ops, NEW c, c.op \in ops, Proper(c)
    PROVE  Calls(<<c>>, ops)
  BY SequenceOne DEF Calls

LEMMA CallsConcat ==
    ASSUME NEW ops, NEW s, NEW t, Calls(s, ops), Calls(t, ops)
    PROVE  Calls(s \o t, ops)
  <1>1. IsSequence(s) /\ IsSequence(t)
    BY DEF Calls
  <1>2. /\ IsSequence(s \o t) /\ Len(s \o t) = Len(s) + Len(t)
        /\ Len(s) \in Nat /\ Len(t) \in Nat
        /\ \A i \in 1 .. Len(s) + Len(t) : (s \o t)[i] = IF i <= Len(s) THEN s[i] ELSE t[i - Len(s)]
    BY <1>1, SequenceConcat
  <1>3. ASSUME NEW i \in 1 .. Len(s) + Len(t)
        PROVE  \/ \E j \in 1..Len(s) : (s \o t)[i] = s[j]
               \/ \E j \in 1..Len(t) : (s \o t)[i] = t[j]
    <2>1. CASE i <= Len(s)
      BY <1>2, <2>1
    <2>2. CASE i > Len(s)
      <3>1. i - Len(s) \in 1..Len(t) /\ (s \o t)[i] = t[i - Len(s)]
        BY <1>2, <2>2
      <3> QED
        BY <3>1
    <2> QED
      BY <1>2, <2>1, <2>2
  <1>4. /\ \A j \in 1..Len(s) : s[j].op \in ops /\ Proper(s[j])
        /\ \A j \in 1..Len(t) : t[j].op \in ops /\ Proper(t[j])
    BY DEF Calls
  <1>5. \A i \in 1 .. Len(s \o t) :
          (s \o t)[i].op \in ops /\ Proper((s \o t)[i])
    BY <1>2, <1>3, <1>4
  <1> QED
    BY <1>2, <1>5 DEF Calls

LEMMA CallsTail ==
    ASSUME NEW ops, NEW s, Calls(s, ops), s # <<>>
    PROVE  /\ Calls(Tail(s), ops)
           /\ Head(s).op \in ops /\ Proper(Head(s))
  <1>1. IsSequence(s)
    BY DEF Calls
  <1>2. \A i \in 1 .. Len(s) - 1 : i + 1 \in 1..Len(s)
    BY <1>1, SequenceTail
  <1> QED
    BY <1>1, <1>2, SequenceTail DEF Calls

LEMMA CallsMore ==
    ASSUME NEW ops, NEW more, ops \subseteq more, NEW s, Calls(s, ops)
    PROVE  Calls(s, more)
  BY DEF Calls

LEMMA CallsJoined ==
    ASSUME NEW ops, NEW n \in Nat, NEW f, f = [i \in 1..n |-> f[i]],
           \A i \in 1..n : Calls(f[i], ops)
    PROVE  Calls(Joined(f), ops)
  <1> DEFINE X == UNION {Range(f[i]) : i \in 1..n}
  <1>1. f \in [1..n -> Seq(X)]
    <2>1. ASSUME NEW i \in 1..n PROVE f[i] \in Seq(X)
      <3>1. f[i] \in Seq(Range(f[i]))
        BY DEF Calls, IsSequence
      <3>2. Range(f[i]) \subseteq X
        OBVIOUS
      <3> QED
        BY <3>1, <3>2, SeqMonotonic
    <2> QED
      BY <2>1
  <1> HIDE DEF X
  <1>2. PICK P \in PartsOf(f, n, X) : Joined(f) = IF n = 0 THEN <<>> ELSE P[<<1, n>>]
    BY <1>1, JoinedIs
  <1>3. \A lo \in 1..n, hi \in 1..n :
          P[<<lo, hi>>] = IF lo >= hi THEN f[lo]
                          ELSE P[<<lo, (lo + hi) \div 2>>] \o P[<<(lo + hi) \div 2 + 1, hi>>]
    BY DEF PartsOf
  <1> DEFINE S == {m \in Nat : \A l \in 1..n : \A h \in 1..n : h - l <= m => Calls(P[<<l, h>>], ops)}
  <1>4. 0 \in S
    <2>1. \A l \in 1..n : \A h \in 1..n : h - l <= 0 => l >= h
      OBVIOUS
    <2>2. ASSUME NEW l \in 1..n, NEW h \in 1..n, h - l <= 0 PROVE Calls(P[<<l, h>>], ops)
      BY <1>3, <2>1, <2>2, Zenon
    <2> QED
      BY <2>2
  <1>5. ASSUME NEW m \in Nat, m \in S PROVE m + 1 \in S
    <2>1. ASSUME NEW l \in 1..n, NEW h \in 1..n, h - l <= m + 1 PROVE Calls(P[<<l, h>>], ops)
      <3>1. CASE l >= h
        BY <1>3, <3>1, Zenon
      <3>2. CASE l < h
        <4> DEFINE middle == (l + h) \div 2
        <4>1. /\ middle \in 1..n /\ middle + 1 \in 1..n
              /\ middle - l <= m /\ h - (middle + 1) <= m
          BY <2>1, <3>2
        <4>2. ~(l >= h)
          BY <3>2
        <4>3. P[<<l, h>>] = P[<<l, middle>>] \o P[<<middle + 1, h>>]
          BY <1>3, <4>2, Zenon
        <4> HIDE DEF middle
        <4>4. Calls(P[<<l, middle>>], ops) /\ Calls(P[<<middle + 1, h>>], ops)
          BY <1>5, <4>1
        <4> QED
          BY <4>3, <4>4, CallsConcat, Zenon
      <3> QED
        BY <3>1, <3>2
    <2>2. m + 1 \in Nat
      OBVIOUS
    <2> QED
      BY <2>1, <2>2, Zenon
  <1>6. n \in S
    <2> HIDE DEF S
    <2> QED
      BY <1>4, <1>5, InductionOn
  <1>7. CASE n = 0
    BY <1>2, <1>7, CallsNone
  <1>8. CASE n # 0
    <2>1. 1 \in 1..n /\ n \in 1..n /\ n - 1 <= n
      BY <1>8
    <2>2. Calls(P[<<1, n>>], ops)
      BY <1>6, <2>1
    <2> QED
      BY <1>2, <1>8, <2>2
  <1> QED
    BY <1>7, <1>8

\* The same for the body of a loop, which may be empty.
LEMMA CallsLoop ==
    ASSUME NEW ops, NEW n \in Int, NEW f, f = [i \in 1..n |-> f[i]],
           \A i \in 1..n : Calls(f[i], ops)
    PROVE  Calls(Joined(f), ops)
  <1> DEFINE m == IF n < 0 THEN 0 ELSE n
  <1>1. m \in Nat /\ 1..m = 1..n
    OBVIOUS
  <1> HIDE DEF m
  <1>2. f = [i \in 1..m |-> f[i]] /\ \A i \in 1..m : Calls(f[i], ops)
    BY <1>1
  <1> QED
    BY <1>1, <1>2, CallsJoined

-----------------------------------------------------------------------------
(* The SLH-DSA emitter, phase by phase.  Only the step of a chain and a node *)
(* of a tree branch.                                                         *)

\* What may stand in a branch, what one opcode or element stands for, and that
\* together with the phases.
Branchable ==
  {"data", "num", "calc", "dup", "over", "swap", "drop", "nip", "pick", "roll", "oppick", "oproll", "rename"}
Simple   == Branchable \cup {"fetch", "expectspent"}
Straight == Simple \cup SlhPhases

LEMMA SimplePrimitives ==
    /\ \A bytes : Calls(Push(bytes), Simple)
    /\ \A v : Calls(Num(v), Simple)
    /\ \A fn : \A n \in 1..3 : Calls(Calc(fn, n), Simple)
    /\ \A slot : Calls(Pick(slot), Simple) /\ Calls(Roll(slot), Simple)
    /\ \A slot : Calls(Rename(slot), Simple) /\ Calls(Fetch(slot), Simple)
    /\ \A depth \in Nat : Calls(RolledFrom(depth), Simple)
    /\ Calls(Dup, Simple) /\ Calls(Over, Simple) /\ Calls(Swap, Simple)
    /\ Calls(Drop, Simple) /\ Calls(Nip, Simple) /\ Calls(Plain("expectspent"), Simple)
  <1>1. ASSUME NEW bytes PROVE Calls(Push(bytes), Simple)
    BY CallsOne DEF Push, Simple, Branchable, Proper
  <1>2. ASSUME NEW v PROVE Calls(Num(v), Simple)
    BY CallsOne DEF Num, Simple, Branchable, Proper
  <1>3. ASSUME NEW fn, NEW n \in 1..3 PROVE Calls(Calc(fn, n), Simple)
    BY CallsOne DEF Calc, Simple, Branchable, Proper
  <1>4. ASSUME NEW slot PROVE Calls(Pick(slot), Simple) /\ Calls(Roll(slot), Simple)
    BY CallsOne DEF Pick, Roll, Simple, Branchable, Proper
  <1>5. ASSUME NEW slot PROVE Calls(Rename(slot), Simple) /\ Calls(Fetch(slot), Simple)
    BY CallsOne DEF Rename, Fetch, Simple, Branchable, Proper
  <1>6. ASSUME NEW depth \in Nat PROVE Calls(RolledFrom(depth), Simple)
    BY CallsOne DEF RolledFrom, Simple, Branchable, Proper
  <1>7. /\ Calls(Dup, Simple) /\ Calls(Over, Simple) /\ Calls(Swap, Simple)
        /\ Calls(Drop, Simple) /\ Calls(Nip, Simple) /\ Calls(Plain("expectspent"), Simple)
    BY CallsOne DEF Plain, Dup, Over, Swap, Drop, Nip, Simple, Branchable, Proper
  <1> QED
    BY <1>1, <1>2, <1>3, <1>4, <1>5, <1>6, <1>7

\* Simple scripts, one after the other.
LEMMA SimpleComposed ==
    /\ Calls(<<>>, Simple)
    /\ \A s, t : Calls(s, Simple) /\ Calls(t, Simple) => Calls(s \o t, Simple)
  BY CallsNone, CallsConcat

LEMMA SimpleSmallParts ==
    /\ Calls(Cat, Simple) /\ Calls(Sha, Simple) /\ Calls(Cut, Simple)
    /\ \A depth \in Nat : Calls(RollDepth(depth), Simple)
    /\ \A start, end : Calls(Substr(start, end), Simple)
    /\ \A slot : Calls(Discard(slot), Simple)
    /\ \A bytes : Calls(Append2(bytes), Simple)
    /\ \A bits : Calls(ShiftRight(bits), Simple) /\ Calls(LowBits(bits), Simple)
    /\ Calls(ByteToNum, Simple) /\ Calls(FinishHash, Simple)
  <1>0. \A fn : Calls(Calc(fn, 1), Simple) /\ Calls(Calc(fn, 2), Simple) /\ Calls(Calc(fn, 3), Simple)
    <2>1. 1 \in 1..3 /\ 2 \in 1..3 /\ 3 \in 1..3
      OBVIOUS
    <2> QED
      BY <2>1, SimplePrimitives
  <1>1. Calls(Cat, Simple) /\ Calls(Sha, Simple)
    BY <1>0 DEF Cat, Sha
  <1>2. \A depth \in Nat : Calls(RollDepth(depth), Simple)
    BY SimplePrimitives, SimpleComposed DEF RollDepth
  <1>3. \A start, end : Calls(Substr(start, end), Simple)
    BY <1>0, SimplePrimitives, SimpleComposed DEF Substr
  <1>4. \A slot : Calls(Discard(slot), Simple)
    BY SimplePrimitives, SimpleComposed DEF Discard
  <1>5. \A bytes : Calls(Append2(bytes), Simple)
    BY <1>1, SimplePrimitives, SimpleComposed DEF Append2
  <1>6. \A bits : Calls(ShiftRight(bits), Simple) /\ Calls(LowBits(bits), Simple)
    BY <1>0, SimplePrimitives, SimpleComposed DEF ShiftRight, LowBits
  <1>7. Calls(Cut, Simple) /\ Calls(ByteToNum, Simple)
    BY <1>0, <1>3, <1>5, SimplePrimitives, SimpleComposed DEF Cut, ByteToNum
  <1>8. Calls(FinishHash, Simple)
    BY <1>1, <1>7, SimplePrimitives, SimpleComposed DEF FinishHash
  <1> QED
    BY <1>1, <1>2, <1>3, <1>4, <1>5, <1>6, <1>7, <1>8

LEMMA BeBytesSimple ==
    ASSUME NEW width \in Int
    PROVE  Calls(EmitBeBytes(width), Simple)
  <1> DEFINE ByteOff(i) == LET k == width - 1 - i IN
               Swap \o Dup \o Substr(k, k + 1) \o RollDepth(2) \o Swap \o Cat
             n == (width - 1) - 1 + 1
             f == [i \in 1..n |-> ByteOff(1 + i - 1)]
  <1>0. Calls(RollDepth(2), Simple) /\ Calls(Calc("num2bin", 2), Simple)
    <2>1. 2 \in Nat /\ 2 \in 1..3
      OBVIOUS
    <2> QED
      BY <2>1, SimplePrimitives, SimpleSmallParts
  <1>1. \A i : Calls(ByteOff(i), Simple)
    BY <1>0, SimplePrimitives, SimpleSmallParts, SimpleComposed
  <1>2. Calls(Joined(f), Simple)
    <2> HIDE DEF ByteOff
    <2>1. \A i \in 1..n : Calls(f[i], Simple)
      BY <1>1
    <2>2. n \in Int /\ f = [i \in 1..n |-> f[i]]
      OBVIOUS
    <2> HIDE DEF f, n
    <2> QED
      BY <2>1, <2>2, CallsLoop
  <1>3. Calls(For(1, width - 1, ByteOff), Simple)
    BY <1>2, Zenon DEF For
  <1> HIDE DEF ByteOff
  <1>4. EmitBeBytes(width) =
          Num(width) \o Calc("num2bin", 2)
            \o IF width = 1 THEN <<>>
               ELSE Dup \o Substr(width - 1, width) \o For(1, width - 1, ByteOff) \o Nip
    BY Zenon DEF EmitBeBytes, ByteOff
  <1> QED
    BY <1>0, <1>3, <1>4, SimplePrimitives, SimpleSmallParts, SimpleComposed

\* All of that, and the phases, as straight scripts.
LEMMA Lifted == \A s : Calls(s, Simple) => Calls(s, Straight)
  BY CallsMore DEF Straight

LEMMA Primitives ==
    /\ \A bytes : Calls(Push(bytes), Straight)
    /\ \A v : Calls(Num(v), Straight)
    /\ \A fn : Calls(Calc(fn, 2), Straight)
    /\ \A slot : Calls(Pick(slot), Straight) /\ Calls(Roll(slot), Straight)
    /\ \A slot : Calls(Rename(slot), Straight) /\ Calls(Fetch(slot), Straight)
    /\ Calls(Swap, Straight) /\ Calls(Dup, Straight) /\ Calls(Plain("expectspent"), Straight)
    /\ \A phase \in SlhPhases : \A i \in Int : Calls(Call(phase, i), Straight)
  <1>1. \A fn : Calls(Calc(fn, 2), Straight)
    <2>1. 2 \in 1..3
      OBVIOUS
    <2> QED
      BY <2>1, SimplePrimitives, Lifted
  <1>2. ASSUME NEW phase \in SlhPhases, NEW i \in Int PROVE Calls(Call(phase, i), Straight)
    BY CallsOne DEF Call, Straight, SlhPhases, Proper
  <1> QED
    BY <1>1, <1>2, SimplePrimitives, Lifted

\* Straight scripts, one after the other.
LEMMA Composed ==
    /\ Calls(<<>>, Straight)
    /\ \A s, t : Calls(s, Straight) /\ Calls(t, Straight) => Calls(s \o t, Straight)
  BY CallsNone, CallsConcat

LEMMA SmallParts ==
    /\ Calls(Cat, Straight) /\ Calls(Sha, Straight) /\ Calls(Cut, Straight)
    /\ \A start, end : Calls(Substr(start, end), Straight)
    /\ \A slot : Calls(Discard(slot), Straight)
    /\ \A bytes : Calls(Append2(bytes), Straight)
    /\ \A bits : Calls(ShiftRight(bits), Straight) /\ Calls(LowBits(bits), Straight)
    /\ Calls(ByteToNum, Straight) /\ Calls(FinishHash, Straight)
  BY SimpleSmallParts, Lifted

LEMMA BeBytesStraight ==
    ASSUME NEW width \in Int
    PROVE  Calls(EmitBeBytes(width), Straight)
  BY BeBytesSimple, Lifted

LEMMA BeIntStraight ==
    ASSUME NEW slot, NEW start \in Int, NEW len \in Int
    PROVE  Calls(EmitBeIntFrom(slot, start, len), Straight)
  <1> DEFINE Byte(i) == Num(256) \o Calc("mul", 2) \o Pick(slot) \o Substr(i, i + 1)
                          \o ByteToNum \o Calc("add", 2)
             n == (start + len - 1) - start + 1
             f == [i \in 1..n |-> Byte(start + i - 1)]
  <1>1. \A i : Calls(Byte(i), Straight)
    BY Primitives, SmallParts, Composed
  <1>2. Calls(Joined(f), Straight)
    <2> HIDE DEF Byte
    <2>1. \A i \in 1..n : Calls(f[i], Straight)
      BY <1>1
    <2>2. n \in Int /\ f = [i \in 1..n |-> f[i]]
      OBVIOUS
    <2> HIDE DEF f, n
    <2> QED
      BY <2>1, <2>2, CallsLoop
  <1>3. Calls(For(start, start + len - 1, Byte), Straight)
    BY <1>2, Zenon DEF For
  <1> HIDE DEF Byte
  <1>4. EmitBeIntFrom(slot, start, len) = Num(0) \o For(start, start + len - 1, Byte)
    BY Zenon DEF EmitBeIntFrom, Byte
  <1> QED
    BY <1>3, <1>4, Primitives, Composed

\* The derived parameters of a set are numbers.
LEMMA Log2Type ==
    ASSUME NEW v
    PROVE  Log2(v) \in Nat
  <1>1. IsFiniteSet(1..30) /\ {e \in 1..30 : 2 ^ e <= v} \subseteq 1..30
    <2>1. 1 \in Int /\ 30 \in Int
      OBVIOUS
    <2>2. IsFiniteSet(1..30)
      BY <2>1, FS_Interval, Zenon
    <2> QED
      BY <2>2
  <1>2. IsFiniteSet({e \in 1..30 : 2 ^ e <= v})
    BY <1>1, FS_Subset
  <1> QED
    BY <1>2, FS_CardinalityType DEF Log2

LEMMA SetTypes ==
    ASSUME NEW p, WellFormed(p)
    PROVE  /\ {p.h, p.d, p.hp, p.a, p.k} \subseteq Nat \ {0} /\ p.lgw \in 1..8
           /\ W(p) \in 2..256
           /\ Len1(p) \in Int /\ Len2(p) \in Int /\ WotsLen(p) \in Int
           /\ MdLen(p) \in Int /\ IdxTreeBits(p) \in Int
           /\ IdxTreeLen(p) \in Int /\ IdxLeafLen(p) \in Int
           /\ ForsIndexWidth(p) \in Int /\ XmssIndexWidth(p) \in Int
  <1>1. {p.h, p.d, p.hp, p.a, p.k} \subseteq Nat \ {0} /\ p.lgw \in 1..8
    BY DEF WellFormed
  <1>2. W(p) \in 2..256
    <2>1. W(p) \in {2 ^ 1, 2 ^ 2, 2 ^ 3, 2 ^ 4, 2 ^ 5, 2 ^ 6, 2 ^ 7, 2 ^ 8}
      <3>1. p.lgw \in {1, 2, 3, 4, 5, 6, 7, 8}
        BY <1>1
      <3> QED
        BY <3>1, Zenon DEF W
    <2>2. {2 ^ 1, 2 ^ 2, 2 ^ 3, 2 ^ 4, 2 ^ 5, 2 ^ 6, 2 ^ 7, 2 ^ 8} \subseteq 2..256
      OBVIOUS
    <2> QED
      BY <2>1, <2>2
  <1>3. Len1(p) \in Int
    BY <1>1, WidthsAssumption DEF Len1, CeilDiv
  <1>4. Len2(p) \in Int
    <2>1. Log2(Len1(p) * (W(p) - 1)) \in Nat
      BY Log2Type
    <2> QED
      BY <1>1, <2>1 DEF Len2
  <1>5. WotsLen(p) \in Int
    BY <1>3, <1>4 DEF WotsLen
  <1>6. MdLen(p) \in Int
    BY <1>1 DEF MdLen, CeilDiv
  <1>7. IdxTreeBits(p) \in Int
    BY <1>1 DEF IdxTreeBits
  <1>8. IdxTreeLen(p) \in Int /\ IdxLeafLen(p) \in Int
    BY <1>1, <1>7 DEF IdxTreeLen, IdxLeafLen, CeilDiv
  <1>9. \A max : WordWidthFor(max) \in Int
    <2> SUFFICES ASSUME NEW max PROVE WordWidthFor(max) \in Int
      OBVIOUS
    <2>1. Log2(max) \in Nat
      BY Log2Type
    <2> QED
      BY <2>1 DEF WordWidthFor
  <1> QED
    BY <1>1, <1>2, <1>3, <1>4, <1>5, <1>6, <1>7, <1>8, <1>9 DEF ForsIndexWidth, XmssIndexWidth

LEMMA DigitsStraight ==
    ASSUME NEW p, NEW i
    PROVE  /\ \A slot : Calls(EmitDigitOf(p, slot, i), Straight)
           /\ Calls(EmitChainDigit(p, i), Straight) /\ Calls(EmitCsumTerm(p, i), Straight)
  <1>1. ASSUME NEW slot PROVE Calls(EmitDigitOf(p, slot, i), Straight)
    BY Primitives, SmallParts, Composed DEF EmitDigitOf
  <1>2. Calls(EmitChainDigit(p, i), Straight)
    BY <1>1, Primitives, SmallParts, Composed DEF EmitChainDigit
  <1>3. Calls(EmitCsumTerm(p, i), Straight)
    BY <1>1, Primitives, SmallParts, Composed DEF EmitCsumTerm
  <1> QED
    BY <1>1, <1>2, <1>3

LEMMA HashContextStraight ==
    ASSUME NEW p, NEW pk, NEW layer, NEW ty, NEW words \in Int
    PROVE  /\ \A slot : Calls(EmitTreeBytes(p, slot), Straight)
           /\ Calls(EmitHashContext(p, pk, layer, ty, words), Straight)
  <1>1. \A slot : Calls(EmitTreeBytes(p, slot), Straight)
    BY BeBytesStraight, Primitives, Composed DEF EmitTreeBytes
  <1> DEFINE n == words - 1 + 1
             f == [i \in 1..n |-> Append2(Zeros(4))]
  <1>2. Calls(Joined(f), Straight)
    <2>1. \A i \in 1..n : Calls(f[i], Straight)
      BY SmallParts
    <2>2. n \in Int /\ f = [i \in 1..n |-> f[i]]
      OBVIOUS
    <2> HIDE DEF f, n
    <2> QED
      BY <2>1, <2>2, CallsLoop
  <1>3. Calls(For(1, words, LAMBDA i : Append2(Zeros(4))), Straight)
    BY <1>2, Zenon DEF For
  <1>4. Calls(EmitBeBytes(4), Straight)
    BY BeBytesStraight
  <1>5. EmitHashContext(p, pk, layer, ty, words) =
          Push(HashPad(pk.seed) \o <<layer>>) \o EmitTreeBytes(p, "tree") \o Cat \o Append2(<<ty>>)
            \o Pick("leaf") \o EmitBeBytes(4) \o Cat
            \o For(1, words, LAMBDA i : Append2(Zeros(4)))
    BY Zenon DEF EmitHashContext
  <1> QED
    BY <1>1, <1>3, <1>4, <1>5, Primitives, SmallParts, Composed

LEMMA PhaseLoop ==
    ASSUME NEW phase \in SlhPhases, NEW first \in Int, NEW last \in Int
    PROVE  Calls(Joined([i \in 1 .. last - first + 1 |-> Call(phase, first + i - 1)]), Straight)
  <1> DEFINE n == last - first + 1
             f == [i \in 1..n |-> Call(phase, first + i - 1)]
  <1>1. n \in Int /\ f = [i \in 1..n |-> f[i]]
    OBVIOUS
  <1>2. \A i \in 1..n : Calls(f[i], Straight)
    BY Primitives
  <1>3. Calls(Joined(f), Straight)
    <2> HIDE DEF f, n
    <2> QED
      BY <1>1, <1>2, CallsLoop
  <1> QED
    BY <1>3

LEMMA GreaterOf ==
    ASSUME NEW x \in Int, NEW y \in Int
    PROVE  Max({x, y}) = IF x >= y THEN x ELSE y
  <1> DEFINE greater == IF x >= y THEN x ELSE y
  <1>1. greater \in {x, y} /\ \A z \in {x, y} : greater >= z
    OBVIOUS
  <1>2. \A u \in {x, y} : (\A z \in {x, y} : u >= z) => u = greater
    OBVIOUS
  <1> HIDE DEF greater
  <1>3. (CHOOSE u \in {x, y} : \A z \in {x, y} : u >= z) = greater
    BY <1>1, <1>2
  <1> QED
    BY <1>3, Zenon DEF Max, greater

LEMMA MessageStraight ==
    ASSUME NEW p, NEW pk, WellFormed(p)
    PROVE  Calls(EmitHMsg(p, pk), Straight) /\ Calls(EmitIndices(p), Straight)
  <1>1. Calls(EmitHMsg(p, pk), Straight)
    BY Primitives, SmallParts, Composed DEF EmitHMsg
  <1>2. /\ Calls(EmitBeIntFrom("digest", MdLen(p), IdxTreeLen(p)), Straight)
        /\ Calls(EmitBeIntFrom("digest", MdLen(p) + IdxTreeLen(p), IdxLeafLen(p)), Straight)
    <2>1. /\ MdLen(p) \in Int /\ IdxTreeLen(p) \in Int /\ IdxLeafLen(p) \in Int
          /\ MdLen(p) + IdxTreeLen(p) \in Int
      BY SetTypes
    <2> QED
      BY <2>1, BeIntStraight
  <1>3. Calls(EmitIndices(p), Straight)
    BY <1>2, Primitives, SmallParts, Composed DEF EmitIndices
  <1> QED
    BY <1>1, <1>3

LEMMA ForsTreeStraight ==
    ASSUME NEW p, NEW i \in Int, WellFormed(p)
    PROVE  Calls(EmitForsTree(p, i), Straight)
  <1>1. Calls(EmitForsIndex(p, i), Straight)
    <2> DEFINE bit   == i * p.a
               byte0 == bit \div 8
               bytes == Max({3, CeilDiv(p.a + (bit % 8), 8)})
    <2>1. byte0 \in Int /\ bytes \in Int
      <3>1. p.a \in Nat
        BY SetTypes
      <3>2. bit \in Int
        BY <3>1
      <3> HIDE DEF bit
      <3>3. CeilDiv(p.a + (bit % 8), 8) \in Int
        BY <3>1, <3>2 DEF CeilDiv
      <3> QED
        BY <3>2, <3>3, GreaterOf
    <2>2. Calls(EmitBeIntFrom("digest", byte0, bytes), Straight)
      <3> HIDE DEF byte0, bytes
      <3> QED
        BY <2>1, BeIntStraight
    <2>3. EmitForsIndex(p, i) =
            EmitBeIntFrom("digest", byte0, bytes)
              \o ShiftRight(bytes * 8 - p.a - (bit % 8)) \o LowBits(p.a) \o Rename("idx")
              \o Pick("idx") \o Num(i * 2 ^ p.a) \o Calc("add", 2) \o Rename("lx")
      BY Zenon DEF EmitForsIndex
    <2> HIDE DEF byte0, bytes, bit
    <2> QED
      BY <2>2, <2>3, Primitives, SmallParts, Composed
  <1>2. Calls(For(1, p.a, LAMBDA height : Call("fors_node", height)), Straight)
    <2>1. 1 \in Int /\ p.a \in Int /\ "fors_node" \in SlhPhases
      BY SetTypes DEF SlhPhases
    <2> QED
      BY <2>1, PhaseLoop, Zenon DEF For
  <1> DEFINE width == ForsIndexWidth(p)
  <1>3. Calls(EmitBeBytes(width), Straight)
    BY SetTypes, BeBytesStraight
  <1>4. EmitForsTree(p, i) =
          EmitForsIndex(p, i)
            \o Fetch("sk") \o Pick("hcf") \o Append2(Zeros(8 - width))
            \o Pick("lx") \o EmitBeBytes(width) \o Cat \o FinishHash \o Rename("node")
            \o For(1, p.a, LAMBDA height : Call("fors_node", height))
            \o Roll("racc") \o Swap \o Cat \o Rename("racc") \o Discard("lx") \o Discard("idx")
    BY Zenon DEF EmitForsTree
  <1> HIDE DEF width
  <1> QED
    BY <1>1, <1>2, <1>3, <1>4, Primitives, SmallParts, Composed

LEMMA ForsStraight ==
    ASSUME NEW p, NEW pk, WellFormed(p)
    PROVE  Calls(EmitFors(p, pk), Straight)
  <1>1. Calls(For(0, p.k - 1, LAMBDA i : Call("fors_tree", i)), Straight)
    <2>1. 0 \in Int /\ p.k - 1 \in Int /\ "fors_tree" \in SlhPhases
      BY SetTypes DEF SlhPhases
    <2> QED
      BY <2>1, PhaseLoop, Zenon DEF For
  <1>2. /\ Calls(EmitHashContext(p, pk, 0, FORS_TREE, 0), Straight)
        /\ Calls(EmitHashContext(p, pk, 0, FORS_ROOTS, 2), Straight)
    BY HashContextStraight
  <1> QED
    BY <1>1, <1>2, Primitives, SmallParts, Composed DEF EmitFors

LEMMA ChainStraight ==
    ASSUME NEW p, NEW i, WellFormed(p)
    PROVE  Calls(EmitChain(p, i), Straight)
  <1>1. Calls(For(0, W(p) - 2, LAMBDA s : Call("chain_step", s)), Straight)
    <2>1. 0 \in Int /\ W(p) - 2 \in Int /\ "chain_step" \in SlhPhases
      BY SetTypes DEF SlhPhases
    <2> QED
      BY <2>1, PhaseLoop, Zenon DEF For
  <1> QED
    BY <1>1, DigitsStraight, Primitives, SmallParts, Composed DEF EmitChain

LEMMA WotsStraight ==
    ASSUME NEW p, WellFormed(p)
    PROVE  Calls(EmitWots(p), Straight)
  <1>1. Calls(For(0, Len1(p) - 1, LAMBDA i : Call("csum_term", i)), Straight)
    <2>1. 0 \in Int /\ Len1(p) - 1 \in Int /\ "csum_term" \in SlhPhases
      BY SetTypes DEF SlhPhases
    <2> QED
      BY <2>1, PhaseLoop, Zenon DEF For
  <1>2. Calls(For(0, WotsLen(p) - 1, LAMBDA i : Call("chain", i)), Straight)
    <2>1. 0 \in Int /\ WotsLen(p) - 1 \in Int /\ "chain" \in SlhPhases
      BY SetTypes DEF SlhPhases
    <2> QED
      BY <2>1, PhaseLoop, Zenon DEF For
  <1> QED
    BY <1>1, <1>2, Primitives, SmallParts, Composed DEF EmitWots

LEMMA LayerStraight ==
    ASSUME NEW p, NEW pk, NEW layer, WellFormed(p)
    PROVE  Calls(EmitLayer(p, pk, layer), Straight)
  <1>1. Calls(EmitLayerAddress(p, layer), Straight)
    BY Primitives, SmallParts, Composed DEF EmitLayerAddress
  <1>2. Calls(EmitLayerContexts(p, pk, layer), Straight)
    <2>1. Calls(EmitTreeBytes(p, "ltree"), Straight) /\ Calls(EmitBeBytes(4), Straight)
      BY HashContextStraight, BeBytesStraight
    <2> QED
      BY <2>1, Primitives, SmallParts, Composed DEF EmitLayerContexts
  <1>3. Calls(For(1, p.hp, LAMBDA height : Call("layer_node", height)), Straight)
    <2>1. 1 \in Int /\ p.hp \in Int /\ "layer_node" \in SlhPhases
      BY SetTypes DEF SlhPhases
    <2> QED
      BY <2>1, PhaseLoop, Zenon DEF For
  <1> QED
    BY <1>1, <1>2, <1>3, WotsStraight, SmallParts, Composed DEF EmitLayer

LEMMA BodyStraight ==
    ASSUME NEW p, NEW pk, WellFormed(p)
    PROVE  Calls(EmitBody(p, pk), Straight)
  <1>1. Calls(For(0, p.d - 1, LAMBDA layer : Call("layer", layer)), Straight)
    <2>1. 0 \in Int /\ p.d - 1 \in Int /\ "layer" \in SlhPhases
      BY SetTypes DEF SlhPhases
    <2> QED
      BY <2>1, PhaseLoop, Zenon DEF For
  <1> QED
    BY <1>1, MessageStraight, ForsStraight, Primitives, SmallParts, Composed DEF EmitBody

-----------------------------------------------------------------------------
(* The script up to the digest: what is left of it, and what it holds.       *)

\* What the binding digest is written for.
Tx == given.tx
Spk(o) == NodeSpk(Tx.outputs[o])

Verify == IF IsSlh THEN Plain("message") \o EmitBody(given.p, given.pk) ELSE Call("lms_verify", 0)

\* The stack below the digest, and the blobs once they are queued, the first
\* k of them or all.
Below0 == IF IsSlh THEN <<>> ELSE Witness
Queued(k) == [b \in 1..k |-> Witness[Len(Witness) + 1 - b]]
Queue == IF IsSlh THEN Queued(Len(Witness)) ELSE <<>>
Moves(k) == [b \in 1..k |-> [op |-> "queue"]]

\* The bytes gathered so far.
AfterVersion == LittleEndian(Tx.version, 2)
AfterTxid    == AfterVersion \o Tx.txid
AfterIndex   == AfterTxid \o LittleEndian(Tx.index, 4)
AfterCount   == AfterIndex \o LittleEndian(Len(Tx.outputs), 1)
AfterAmount(before, o) == before \o LittleEndian(Tx.outputs[o].amount, 8)
AfterLen(before, o)    == AfterAmount(before, o) \o LittleEndian(Len(Spk(o)), 2)
AfterSpk(before, o)    == AfterLen(before, o) \o Spk(o)
Before(o) == IF o = 1 THEN AfterCount ELSE AfterSpk(AfterCount, 1)
Gathered  == AfterSpk(Before(2), 2)

\* The calls before the outputs, and the items before each of them.
Writes(code, bytes) == [op |-> "write", code |-> code, bytes |-> bytes]
Writing(code)       == Writes(code, <<>>)
HeaderCode ==
  << Writing("txversion"), Writes("data", Encode(2)), Writing("num2bin"),
     Writing("inputindex"), Writing("outpointtxid"), Writing("cat"),
     Writing("inputindex"), Writing("outpointindex"),
     Writes("data", Encode(4)), Writing("num2bin"), Writing("cat"),
     Writing("outputcount"), Writes("data", Encode(1)), Writing("num2bin"), Writing("cat") >>
HeaderItems ==
  << <<>>, <<Encode(Tx.version)>>, <<Encode(Tx.version), Encode(2)>>,
     <<AfterVersion>>, <<AfterVersion, Encode(0)>>, <<AfterVersion, Tx.txid>>,
     <<AfterTxid>>, <<AfterTxid, Encode(0)>>, <<AfterTxid, Encode(Tx.index)>>,
     <<AfterTxid, Encode(Tx.index), Encode(4)>>, <<AfterTxid, LittleEndian(Tx.index, 4)>>,
     <<AfterIndex>>, <<AfterIndex, Encode(Len(Tx.outputs))>>,
     <<AfterIndex, Encode(Len(Tx.outputs)), Encode(1)>>,
     <<AfterIndex, LittleEndian(Len(Tx.outputs), 1)>> >>

\* The same for output o.
OutputCode(o) ==
  << Writes("data", Encode(o - 1)), Writing("outputamount"),
     Writes("data", Encode(8)), Writing("num2bin"), Writing("cat"),
     Writes("data", Encode(o - 1)), Writing("outputspklen"),
     Writes("data", Encode(2)), Writing("num2bin"), Writing("cat"),
     Writes("data", Encode(o - 1)), Writing("outputspk"), Writing("cat") >>
OutputItems(o) ==
  LET before == Before(o)  amount == Tx.outputs[o].amount
  IN  << <<before>>, <<before, Encode(o - 1)>>, <<before, Encode(amount)>>,
         <<before, Encode(amount), Encode(8)>>, <<before, LittleEndian(amount, 8)>>,
         <<AfterAmount(before, o)>>, <<AfterAmount(before, o), Encode(o - 1)>>,
         <<AfterAmount(before, o), Encode(Len(Spk(o)))>>,
         <<AfterAmount(before, o), Encode(Len(Spk(o))), Encode(2)>>,
         <<AfterAmount(before, o), LittleEndian(Len(Spk(o)), 2)>>,
         <<AfterLen(before, o)>>, <<AfterLen(before, o), Encode(o - 1)>>,
         <<AfterLen(before, o), Spk(o)>> >>

AfterOutput(o) == IF o = 1 THEN OutputCode(2) \o (Op("sha256") \o Verify) ELSE Op("sha256") \o Verify
AfterHeader == OutputCode(1) \o AfterOutput(1)

\* Nothing has been verified yet.
Fresh == frame = <<>> /\ pending = 0 /\ next = 0 /\ peak = 0 /\ ~skip /\ ~failed

\* The rest of a piece of code, before its k-th call, and what follows.
Left(code, k, after) == SubSeq(code, k, Len(code)) \o after

\* What the fields written so far are known to fit.
HeaderFits(k) == (k >= 4 => Tx.version <= MAX_TX_VERSION) /\ (k >= 15 => Len(Tx.outputs) <= MAX_OUTPUT_COUNT)
OutputFits(o) == o <= Len(Tx.outputs) /\ Len(Spk(o)) <= MAX_SPK_LEN
OutputFitsAt(o, k) == (k >= 3 => o <= Len(Tx.outputs)) /\ (k >= 10 => OutputFits(o))

AtHeader(k) ==
  todo = Left(HeaderCode, k, AfterHeader) /\ main = Below0 \o HeaderItems[k] /\ HeaderFits(k)
AtOutput(o, k) ==
  /\ todo = Left(OutputCode(o), k, AfterOutput(o)) /\ main = Below0 \o OutputItems(o)[k]
  /\ HeaderFits(15) /\ (o = 2 => OutputFits(1)) /\ OutputFitsAt(o, k)
AtDigest ==
  /\ todo = AfterOutput(2) /\ main = Below0 \o <<Gathered>>
  /\ HeaderFits(15) /\ OutputFits(1) /\ OutputFits(2)
AtVerify ==
  /\ todo = Verify /\ main = Below0 \o <<Sha256(Gathered)>>
  /\ HeaderFits(15) /\ OutputFits(1) /\ OutputFits(2)

Queueing ==
  /\ IsSlh /\ Fresh
  /\ \E k \in 0 .. Len(Witness) - 1 :
       /\ todo = Moves(Len(Witness) - k) \o (HeaderCode \o AfterHeader)
       /\ main = SubSeq(Witness, 1, Len(Witness) - k) /\ alt = Queued(k)

Digesting ==
  /\ Fresh /\ alt = Queue
  /\ \/ \E k \in 1..15 : AtHeader(k)
     \/ \E o \in 1..2, k \in 1..13 : AtOutput(o, k)
     \/ AtDigest \/ AtVerify

\* The LMS emitter, once the digest is made.
LmsOps == {"write", "lms_csum_sum", "lms_chain", "lms_step"}
Verifying == ~IsSlh /\ Calls(todo, LmsOps)

Stopped == failed /\ todo # <<>>

-----------------------------------------------------------------------------
(* The top of a stack. *)

\* What was put on top comes off again.
LEMMA TakenApart ==
    ASSUME NEW b, NEW t, IsSequence(b), IsSequence(t)
    PROVE  /\ SubSeq(b \o t, 1, Len(b)) = b
           /\ SubSeq(b \o t, Len(b) + 1, Len(b) + Len(t)) = t
  <1> DEFINE X == Range(b) \cup Range(t)
             m == b \o t
  <1>1. b \in Seq(X) /\ t \in Seq(X)
    BY SeqMonotonic DEF IsSequence
  <1> HIDE DEF X
  <1>2. /\ Len(b) \in Nat /\ Len(t) \in Nat
        /\ m \in Seq(X) /\ Len(m) = Len(b) + Len(t)
        /\ \A i \in 1 .. Len(b) + Len(t) : m[i] = IF i <= Len(b) THEN b[i] ELSE t[i - Len(b)]
    BY <1>1, ConcatProperties, LenProperties
  <1> HIDE DEF m
  <1>3. \A i \in 1..Len(m) : m[i] \in X
    BY <1>2, ElementOfSeq
  <1>4. SubSeq(m, 1, Len(b)) = b
    <2>1. \A i \in 1..Len(b) : m[i] \in X /\ m[i] = b[i]
      BY <1>2, <1>3
    <2>2. /\ SubSeq(m, 1, Len(b)) \in Seq(X) /\ Len(SubSeq(m, 1, Len(b))) = Len(b)
          /\ \A i \in 1..Len(b) : SubSeq(m, 1, Len(b))[i] = m[i]
      BY <1>2, <2>1, SubSeqProperties
    <2> QED
      BY <1>1, <2>1, <2>2, SeqEqual
  <1>5. SubSeq(m, Len(b) + 1, Len(b) + Len(t)) = t
    <2> DEFINE u == SubSeq(m, Len(b) + 1, Len(b) + Len(t))
    <2>1. \A i \in Len(b) + 1 .. Len(b) + Len(t) : m[i] \in X
      BY <1>2, <1>3
    <2>2. \A i \in 1..Len(t) :
            Len(b) + i \in 1 .. Len(b) + Len(t) /\ ~(Len(b) + i <= Len(b)) /\ (Len(b) + i) - Len(b) = i
      BY <1>2
    <2>3. \A i \in 1..Len(t) : m[Len(b) + i] = t[i]
      BY <1>2, <2>2
    <2>4. CASE Len(t) = 0
      <3>1. Len(b) + 1 > Len(b) + Len(t)
        BY <1>2, <2>4
      <3>2. u = <<>>
        BY <1>2, <3>1, SubSeqEmpty
      <3> QED
        BY <1>1, <2>4, <3>2, EmptySeq
    <2>5. CASE Len(t) # 0
      <3>1. /\ u \in Seq(X)
            /\ Len(u) = (Len(b) + Len(t)) - (Len(b) + 1) + 1
            /\ \A i \in 1 .. (Len(b) + Len(t)) - (Len(b) + 1) + 1 : u[i] = m[Len(b) + 1 + i - 1]
        <4>1. Len(b) + 1 \in Nat /\ Len(b) + Len(t) \in Nat /\ Len(b) + 1 <= Len(b) + Len(t) + 1
          BY <1>2
        <4> QED
          BY <1>2, <2>1, <4>1, SubSeqProperties
      <3>2. (Len(b) + Len(t)) - (Len(b) + 1) + 1 = Len(t)
        BY <1>2
      <3> HIDE DEF u
      <3>3. \A i \in 1..Len(t) : u[i] = m[Len(b) + i]
        <4>1. \A i \in 1..Len(t) : Len(b) + 1 + i - 1 = Len(b) + i
          BY <1>2
        <4> QED
          BY <3>1, <3>2, <4>1
      <3>4. Len(u) = Len(t)
        BY <3>1, <3>2
      <3>5. \A i \in 1..Len(t) : u[i] = t[i]
        BY <2>3, <3>3
      <3>6. u \in Seq(X)
        BY <3>1
      <3>7. u = t
        BY <1>1, <3>4, <3>5, <3>6, SeqEqual
      <3> QED
        BY <3>7 DEF u
    <2> QED
      BY <2>4, <2>5
  <1> QED
    BY <1>4, <1>5 DEF m

LEMMA Pairs ==
    ASSUME NEW x, NEW y
    PROVE  IsSequence(<<x, y>>) /\ Len(<<x, y>>) = 2 /\ <<x>> \o <<y>> = <<x, y>>
  <1>1. <<x, y>> \in Seq({x, y}) /\ <<x>> \in Seq({x, y}) /\ <<y>> \in Seq({x, y})
    OBVIOUS
  <1>2. Len(<<x, y>>) = 2 /\ Len(<<x>>) = 1 /\ Len(<<y>>) = 1
    OBVIOUS
  <1>3. <<x, y>>[1] = x /\ <<x, y>>[2] = y /\ <<x>>[1] = x /\ <<y>>[1] = y
    OBVIOUS
  <1> DEFINE c == <<x>> \o <<y>>
  <1>4. /\ c \in Seq({x, y}) /\ Len(c) = 1 + 1
        /\ \A i \in 1 .. 1 + 1 : c[i] = IF i <= 1 THEN <<x>>[i] ELSE <<y>>[i - 1]
    BY <1>1, <1>2, ConcatProperties
  <1> HIDE DEF c
  <1>5. c[1] = x /\ c[2] = y /\ Len(c) = 2
    <2>1. 1 \in 1 .. 1 + 1 /\ 2 \in 1 .. 1 + 1 /\ 1 <= 1 /\ ~(2 <= 1) /\ 2 - 1 = 1 /\ 1 + 1 = 2
      OBVIOUS
    <2> QED
      BY <1>3, <1>4, <2>1
  <1>6. \A i \in 1..2 : c[i] = <<x, y>>[i]
    <2>1. \A i \in 1..2 : i = 1 \/ i = 2
      OBVIOUS
    <2> QED
      BY <1>3, <1>5, <2>1
  <1>7. c = <<x, y>>
    BY <1>1, <1>2, <1>4, <1>5, <1>6, SeqEqual
  <1> QED
    BY <1>1, <1>2, <1>7, SequenceIs DEF c

LEMMA Stacked1 ==
    ASSUME NEW b, IsSequence(b), NEW x
    PROVE  /\ IsSequence(b \o <<x>>) /\ Len(b \o <<x>>) = Len(b) + 1 /\ Len(b) \in Nat
           /\ (b \o <<x>>)[Len(b) + 1] = x /\ Append(b, x) = b \o <<x>>
           /\ SubSeq(b \o <<x>>, 1, Len(b)) = b
           /\ SubSeq(b \o <<x>>, Len(b) + 1, Len(b) + 1) = <<x>>
           /\ b \o <<>> = b
  <1> DEFINE T == Range(b) \cup {x}
             m == b \o <<x>>
  <1>1. b \in Seq(T) /\ x \in T
    BY SeqMonotonic DEF IsSequence
  <1>2. IsSequence(<<x>>) /\ Len(<<x>>) = 1 /\ <<x>>[1] = x
    BY SequenceOne
  <1>3. <<x>> \in Seq(T)
    OBVIOUS
  <1> HIDE DEF T
  <1>4. Len(b) \in Nat /\ m \in Seq(T) /\ IsSequence(m) /\ Len(m) = Len(b) + 1
    BY <1>1, <1>2, <1>3, SequenceConcat, ConcatProperties
  <1>5. m[Len(b) + 1] = x /\ \A i \in 1..Len(b) : m[i] = b[i]
    <2>1. \A i \in 1 .. Len(b) + 1 : m[i] = IF i <= Len(b) THEN b[i] ELSE <<x>>[i - Len(b)]
      BY <1>2, SequenceConcat
    <2>2. Len(b) + 1 \in 1 .. Len(b) + 1 /\ ~(Len(b) + 1 <= Len(b)) /\ (Len(b) + 1) - Len(b) = 1
      BY <1>4
    <2> QED
      BY <1>2, <1>4, <2>1, <2>2
  <1>6. /\ SubSeq(m, 1, Len(b)) = b
        /\ SubSeq(m, Len(b) + 1, Len(b) + 1) = <<x>>
    BY <1>2, TakenApart
  <1> HIDE DEF m
  <1>7. Append(b, x) = m
    <2>1. /\ Append(b, x) \in Seq(T) /\ Len(Append(b, x)) = Len(b) + 1
          /\ Append(b, x)[Len(b) + 1] = x /\ \A i \in 1..Len(b) : Append(b, x)[i] = b[i]
      BY <1>1, AppendProperties
    <2>2. \A i \in 1 .. Len(b) + 1 : Append(b, x)[i] = m[i]
      BY <1>4, <1>5, <2>1
    <2> QED
      BY <1>4, <2>1, <2>2, SeqEqual
  <1>8. b \o <<>> = b
    BY <1>1, ConcatEmptySeq
  <1> QED
    BY <1>4, <1>5, <1>6, <1>7, <1>8 DEF m

\* Two items are one on top of the other.
OneOnOther(b, x, y) == b \o <<x, y>> = (b \o <<x>>) \o <<y>>

LEMMA Stacked2 ==
    ASSUME NEW b, IsSequence(b), NEW x, NEW y
    PROVE  OneOnOther(b, x, y)
  <1>1. (b \o <<x>>) \o <<y>> = b \o (<<x>> \o <<y>>)
    BY SequenceOne, SequenceAssoc
  <1>2. <<x>> \o <<y>> = <<x, y>>
    BY Pairs
  <1> QED
    BY <1>1, <1>2, Zenon DEF OneOnOther

\* Three items are two with one on top.
LEMMA Stacked3 ==
    ASSUME NEW b, IsSequence(b), NEW x, NEW y, NEW z
    PROVE  b \o <<x, y, z>> = (b \o <<x>>) \o <<y, z>>
  <1>1. <<x, y, z>> = <<x>> \o <<y, z>>
    <2>1. <<x, y, z>> \in Seq({x, y, z}) /\ <<x>> \in Seq({x, y, z}) /\ <<y, z>> \in Seq({x, y, z})
      OBVIOUS
    <2>2. Len(<<x, y, z>>) = 3 /\ Len(<<x>>) = 1 /\ Len(<<y, z>>) = 2
      OBVIOUS
    <2>3. /\ <<x, y, z>>[1] = x /\ <<x, y, z>>[2] = y /\ <<x, y, z>>[3] = z
          /\ <<x>>[1] = x /\ <<y, z>>[1] = y /\ <<y, z>>[2] = z
      OBVIOUS
    <2> DEFINE c == <<x>> \o <<y, z>>
    <2>4. /\ c \in Seq({x, y, z}) /\ Len(c) = 1 + 2
          /\ \A i \in 1 .. 1 + 2 : c[i] = IF i <= 1 THEN <<x>>[i] ELSE <<y, z>>[i - 1]
      BY <2>1, <2>2, ConcatProperties
    <2> HIDE DEF c
    <2>5. c[1] = x /\ c[2] = y /\ c[3] = z /\ Len(c) = 3
      <3>1. /\ 1 \in 1 .. 1 + 2 /\ 2 \in 1 .. 1 + 2 /\ 3 \in 1 .. 1 + 2 /\ 1 <= 1 /\ ~(2 <= 1)
            /\ ~(3 <= 1) /\ 2 - 1 = 1 /\ 3 - 1 = 2 /\ 1 + 2 = 3
        OBVIOUS
      <3> QED
        BY <2>3, <2>4, <3>1
    <2>6. \A i \in 1..3 : c[i] = <<x, y, z>>[i]
      <3>1. \A i \in 1..3 : i = 1 \/ i = 2 \/ i = 3
        OBVIOUS
      <3> QED
        BY <2>3, <2>5, <3>1
    <2>7. c = <<x, y, z>>
      BY <2>1, <2>2, <2>4, <2>5, <2>6, SeqEqual
    <2> QED
      BY <2>7 DEF c
  <1>2. (b \o <<x>>) \o <<y, z>> = b \o (<<x>> \o <<y, z>>)
    BY SequenceOne, Pairs, SequenceAssoc
  <1> QED
    BY <1>1, <1>2, Zenon

-----------------------------------------------------------------------------
(* One opcode, on a stack whose top is known. *)

Ran(stack) == main' = stack /\ alt' = alt /\ ~failed' /\ ~skip'

LEMMA Executed ==
    ASSUME NEW accepts, NEW stack, Execute(accepts, stack, alt), ~skip
    PROVE  (accepts => Ran(stack)) /\ (~accepts => failed')
  BY Zenon DEF Execute, Ran

\* Which opcode it is decides what runs.
LEMMA CodeDecides ==
    ASSUME NEW tx, NEW c, RunOpcode(tx, c)
    PROVE  /\ c.code = "data" => OpPush(c.bytes)
           /\ c.code = "cat" => OpCalc("cat", 2)
           /\ c.code = "sha256" => OpCalc("sha256", 1)
           /\ c.code = "num2bin" => OpCalc("num2bin", 2)
           /\ c.code \in Globals => OpPush(Global(tx, c.code))
           /\ c.code \in OfOneInput => OpTxField(1, OfInput(tx, c.code))
           /\ c.code \in OfOneOutput => OpTxField(Len(tx.outputs), OfOutput(tx, c.code))
  <1>1. DOMAIN Arity =
          {"cat", "sha256", "equal", "substr", "bin2num", "num2bin", "add", "sub", "mul", "div", "mod", "gte"}
    BY DEF Arity
  <1>2. Arity["cat"] = 2 /\ Arity["sha256"] = 1 /\ Arity["num2bin"] = 2
    BY DEF Arity
  <1>3. c.code = "data" => OpPush(c.bytes)
    BY <1>1 DEF RunOpcode, Globals, OfOneInput, OfOneOutput
  <1>4. c.code = "cat" => OpCalc("cat", 2)
    BY <1>1, <1>2 DEF RunOpcode, Globals, OfOneInput, OfOneOutput
  <1>5. c.code = "sha256" => OpCalc("sha256", 1)
    BY <1>1, <1>2 DEF RunOpcode, Globals, OfOneInput, OfOneOutput
  <1>6. c.code = "num2bin" => OpCalc("num2bin", 2)
    BY <1>1, <1>2 DEF RunOpcode, Globals, OfOneInput, OfOneOutput
  <1>7. c.code \in Globals => OpPush(Global(tx, c.code))
    BY <1>1 DEF RunOpcode, Globals, OfOneInput, OfOneOutput
  <1>8. c.code \in OfOneInput => OpTxField(1, OfInput(tx, c.code))
    BY <1>1 DEF RunOpcode, Globals, OfOneInput, OfOneOutput
  <1>9. c.code \in OfOneOutput => OpTxField(Len(tx.outputs), OfOutput(tx, c.code))
    BY <1>1 DEF RunOpcode, Globals, OfOneInput, OfOneOutput
  <1> QED
    BY <1>3, <1>4, <1>5, <1>6, <1>7, <1>8, <1>9

LEMMA Pushes ==
    ASSUME NEW bytes, OpPush(bytes), ~skip, IsSequence(main)
    PROVE  Ran(main \o <<bytes>>)
  <1>1. Ran(Append(main, bytes))
    BY Executed DEF OpPush
  <1> QED
    BY <1>1, Stacked1

LEMMA TopTwo ==
    ASSUME NEW b, IsSequence(b), NEW t, IsSequence(t), Len(t) = 2, main = b \o t
    PROVE  /\ SubSeq(main, Depth - 2 + 1, Depth) = t /\ Below(2) = b
           /\ Depth = Len(b) + 2 /\ Len(b) \in Nat /\ 2 <= Depth
  <1>1. SubSeq(main, 1, Len(b)) = b /\ SubSeq(main, Len(b) + 1, Len(b) + Len(t)) = t
    BY TakenApart
  <1>2. Depth = Len(b) + 2 /\ Len(b) \in Nat
    BY SequenceConcat DEF Depth
  <1>3. Len(b) + Len(t) = Depth /\ Len(b) + 1 = Depth - 2 + 1 /\ Len(b) = Depth - 2
    BY <1>2
  <1>4. SubSeq(main, Depth - 2 + 1, Depth) = t
    BY <1>1, <1>3, Zenon
  <1>5. SubSeq(main, 1, Depth - 2) = b
    BY <1>1, <1>3, Zenon
  <1>6. 2 <= Depth
    BY <1>2
  <1> QED
    BY <1>2, <1>4, <1>5, <1>6, Zenon DEF Below

LEMMA CatRuns ==
    ASSUME NEW b, NEW x, NEW y, IsSequence(b), main = b \o <<x, y>>, OpCalc("cat", 2), ~skip
    PROVE  Ran(b \o <<x \o y>>)
  <1> DEFINE t == <<x, y>>
  <1>1. IsSequence(t) /\ Len(t) = 2 /\ main = b \o t
    BY Pairs
  <1>2. Accepts("cat", t) /\ Result("cat", t) = x \o y
    BY DEF Accepts, Result
  <1> HIDE DEF t
  <1>3. SubSeq(main, Depth - 2 + 1, Depth) = t /\ Below(2) = b /\ 2 <= Depth
    BY <1>1, TopTwo
  <1>4. Execute(2 <= Depth /\ Accepts("cat", t), Append(b, Result("cat", t)), alt)
    BY <1>3, Zenon DEF OpCalc
  <1>5. Ran(Append(b, x \o y))
    BY <1>2, <1>3, <1>4, Executed
  <1> QED
    BY <1>5, Stacked1

LEMMA ShaRuns ==
    ASSUME NEW b, NEW x, IsSequence(b), main = b \o <<x>>, OpCalc("sha256", 1), ~skip
    PROVE  Ran(b \o <<Sha256(x)>>)
  <1>1. /\ Depth = Len(b) + 1 /\ Len(b) \in Nat /\ SubSeq(main, 1, Len(b)) = b
        /\ SubSeq(main, Len(b) + 1, Len(b) + 1) = <<x>>
    BY Stacked1 DEF Depth
  <1>2. Depth - 1 + 1 = Len(b) + 1 /\ Depth - 1 = Len(b) /\ 1 <= Depth
    BY <1>1
  <1>3. SubSeq(main, Depth - 1 + 1, Depth) = <<x>> /\ Below(1) = b
    BY <1>1, <1>2 DEF Below
  <1>4. Accepts("sha256", <<x>>) /\ Result("sha256", <<x>>) = Sha256(x)
    BY DEF Accepts, Result
  <1>5. Execute(1 <= Depth /\ Accepts("sha256", <<x>>), Append(b, Result("sha256", <<x>>)), alt)
    BY <1>3, Zenon DEF OpCalc
  <1>6. Ran(Append(b, Sha256(x)))
    BY <1>2, <1>4, <1>5, Executed
  <1> QED
    BY <1>6, Stacked1

\* A number is spread over a field it fits, and no other.
LEMMA SpreadRuns ==
    ASSUME NEW b, NEW v \in Word, NEW n \in 1..8, IsSequence(b),
           main = b \o <<Encode(v), Encode(n)>>, OpCalc("num2bin", 2), ~skip
    PROVE  \/ failed'
           \/ Len(Encode(v)) <= n /\ Ran(b \o <<LittleEndian(v, n)>>)
  <1> DEFINE x == <<Encode(v), Encode(n)>>
  <1>1. IsSequence(x) /\ Len(x) = 2 /\ main = b \o x /\ x[1] = Encode(v) /\ x[2] = Encode(n)
    BY Pairs
  <1> HIDE DEF x
  <1>2. SubSeq(main, Depth - 2 + 1, Depth) = x /\ Below(2) = b /\ 2 <= Depth
    BY <1>1, TopTwo
  <1>3. n \in Word
    BY SMT DEF Word
  <1>4. Decode(Encode(v)) = v
    BY NumberRead
  <1>5. Decode(Encode(n)) = n
    BY <1>3, NumberRead
  <1>6. Widened(v, n) = LittleEndian(v, n)
    BY WidenedIs
  <1>7. Accepts("num2bin", x) => Len(Encode(v)) <= n
    BY <1>1, <1>5 DEF Accepts
  <1>8. Result("num2bin", x) = LittleEndian(v, n)
    BY <1>1, <1>4, <1>5, <1>6 DEF Result
  <1>9. Execute(2 <= Depth /\ Accepts("num2bin", x), Append(b, Result("num2bin", x)), alt)
    BY <1>2, Zenon DEF OpCalc
  <1>10. \/ ~Accepts("num2bin", x) /\ failed'
         \/ Accepts("num2bin", x) /\ Ran(Append(b, LittleEndian(v, n)))
    BY <1>2, <1>8, <1>9, Executed
  <1> QED
    BY <1>7, <1>10, Stacked1

\* A field of an input or an output, by an index on the stack.
LEMMA FieldRuns ==
    ASSUME NEW b, NEW i \in Word, NEW count, NEW fields, IsSequence(b),
           main = b \o <<Encode(i)>>, OpTxField(count, fields), ~skip
    PROVE  IF i \in 0 .. count - 1 THEN Ran(b \o <<fields[i + 1]>>) ELSE failed'
  <1>1. /\ Depth = Len(b) + 1 /\ Len(b) \in Nat /\ SubSeq(main, 1, Len(b)) = b
        /\ main[Len(b) + 1] = Encode(i)
    BY Stacked1 DEF Depth
  <1>2. Depth - 1 = Len(b) /\ Depth >= 1
    BY <1>1
  <1>3. Top = Encode(i) /\ Below(1) = b
    BY <1>1, <1>2 DEF Below, Top
  <1>4. IsNumber(Top) /\ Decode(Top) = i
    BY <1>3, NumberRead
  <1>5. Execute(Depth >= 1 /\ IsNumber(Top) /\ i \in 0 .. count - 1, Append(b, fields[i + 1]), alt)
    BY <1>3, <1>4, Zenon DEF OpTxField
  <1>6. IF i \in 0 .. count - 1 THEN Ran(Append(b, fields[i + 1])) ELSE failed'
    BY <1>2, <1>4, <1>5, Executed
  <1> QED
    BY <1>6, Stacked1

-----------------------------------------------------------------------------
(* The same with the stack below the items named. *)

LEMMA ItemsPushed ==
    ASSUME NEW b, IsSequence(b), NEW x, OpPush(x), ~skip
    PROVE  /\ main = b \o <<>> => Ran(b \o <<x>>)
           /\ \A u : main = b \o <<u>> => Ran(b \o <<u, x>>)
           /\ \A u, v : main = b \o <<u, v>> => Ran(b \o <<u, v, x>>)
  <1>1. ASSUME main = b \o <<>> PROVE Ran(b \o <<x>>)
    <2>1. main = b
      BY <1>1, Stacked1
    <2> QED
      BY <2>1, Pushes
  <1>2. ASSUME NEW u, main = b \o <<u>> PROVE Ran(b \o <<u, x>>)
    <2>1. IsSequence(main)
      BY <1>2, Stacked1
    <2>2. Ran(main \o <<x>>)
      BY <2>1, Pushes
    <2>3. OneOnOther(b, u, x)
      BY Stacked2
    <2> QED
      BY <1>2, <2>2, <2>3, Zenon DEF OneOnOther
  <1>3. ASSUME NEW u, NEW v, main = b \o <<u, v>> PROVE Ran(b \o <<u, v, x>>)
    <2>1. IsSequence(b \o <<u>>) /\ b \o <<u, v>> = (b \o <<u>>) \o <<v>>
      <3>1. IsSequence(b \o <<u>>)
        BY Stacked1
      <3>2. OneOnOther(b, u, v)
        BY Stacked2
      <3> QED
        BY <3>1, <3>2, Zenon DEF OneOnOther
    <2>2. IsSequence(main)
      BY <1>3, <2>1, Stacked1
    <2>3. Ran(main \o <<x>>)
      BY <2>2, Pushes
    <2>4. OneOnOther(b \o <<u>>, v, x)
      BY <2>1, Stacked2
    <2>5. b \o <<u, v, x>> = (b \o <<u>>) \o <<v, x>>
      BY Stacked3
    <2> QED
      BY <1>3, <2>1, <2>3, <2>4, <2>5, Zenon DEF OneOnOther
  <1> QED
    BY <1>1, <1>2, <1>3

LEMMA ItemsSpread ==
    ASSUME NEW b, IsSequence(b), NEW v \in Word, NEW n \in 1..8, OpCalc("num2bin", 2), ~skip
    PROVE  /\ main = b \o <<Encode(v), Encode(n)>> =>
                \/ failed'
                \/ Len(Encode(v)) <= n /\ Ran(b \o <<LittleEndian(v, n)>>)
           /\ \A u : main = b \o <<u, Encode(v), Encode(n)>> =>
                \/ failed'
                \/ Len(Encode(v)) <= n /\ Ran(b \o <<u, LittleEndian(v, n)>>)
  <1>1. ASSUME NEW u, main = b \o <<u, Encode(v), Encode(n)>>
        PROVE  \/ failed'
               \/ Len(Encode(v)) <= n /\ Ran(b \o <<u, LittleEndian(v, n)>>)
    <2>1. IsSequence(b \o <<u>>)
      BY Stacked1
    <2>2. b \o <<u, Encode(v), Encode(n)>> = (b \o <<u>>) \o <<Encode(v), Encode(n)>>
      BY Stacked3
    <2>3. main = (b \o <<u>>) \o <<Encode(v), Encode(n)>>
      BY <1>1, <2>2, Zenon
    <2>4. \/ failed'
          \/ Len(Encode(v)) <= n /\ Ran((b \o <<u>>) \o <<LittleEndian(v, n)>>)
      BY <2>1, <2>3, SpreadRuns
    <2>5. OneOnOther(b, u, LittleEndian(v, n))
      BY Stacked2
    <2> QED
      BY <2>4, <2>5, Zenon DEF OneOnOther
  <1>2. main = b \o <<Encode(v), Encode(n)>> =>
                \/ failed'
                \/ Len(Encode(v)) <= n /\ Ran(b \o <<LittleEndian(v, n)>>)
    BY SpreadRuns
  <1> QED
    BY <1>1, <1>2

LEMMA ItemsRead ==
    ASSUME NEW b, IsSequence(b), NEW i \in Word, NEW count, NEW fields, NEW u,
           main = b \o <<u, Encode(i)>>, OpTxField(count, fields), ~skip
    PROVE  IF i \in 0 .. count - 1 THEN Ran(b \o <<u, fields[i + 1]>>) ELSE failed'
  <1>1. IsSequence(b \o <<u>>)
    BY Stacked1
  <1>2. OneOnOther(b, u, Encode(i))
    BY Stacked2
  <1>3. main = (b \o <<u>>) \o <<Encode(i)>>
    BY <1>2, Zenon DEF OneOnOther
  <1>4. IF i \in 0 .. count - 1 THEN Ran((b \o <<u>>) \o <<fields[i + 1]>>) ELSE failed'
    BY <1>1, <1>3, FieldRuns
  <1>5. OneOnOther(b, u, fields[i + 1])
    BY Stacked2
  <1> QED
    BY <1>4, <1>5, Zenon DEF OneOnOther

-----------------------------------------------------------------------------
(* One call of the script writer. *)

LEMMA CallMade ==
    ASSUME NEW calls, Expand(calls), calls = <<>>, IsSequence(todo), todo # <<>>
    PROVE  todo' = Tail(todo) /\ given' = given
  <1>1. Tail(todo) \in Seq(Range(todo))
    BY HeadTailProperties DEF IsSequence
  <1>2. <<>> \o Tail(todo) = Tail(todo)
    BY <1>1, ConcatEmptySeq
  <1> QED
    BY <1>2, Zenon DEF Expand

\* The call decides which action is taken.
LEMMA ActionOf ==
    ASSUME Next, ~failed, todo # <<>>
    PROVE  /\ Current.op \in {"data", "num"} => PushItem
           /\ Current.op = "calc" => Calculate
           /\ Current.op \in {"dup", "over"} => CopyTop
           /\ Current.op = "swap" => SwapTop
           /\ Current.op = "drop" => DropTop
           /\ Current.op = "nip" => NipTop
           /\ Current.op \in {"pick", "roll"} => ResolveSlot
           /\ Current.op = "oppick" => PickSlot
           /\ Current.op = "oproll" => RollSlot
           /\ Current.op = "rename" => NameTop
           /\ Current.op = "if" => Branch
           /\ Current.op = "endif" => EndBranch
           /\ Current.op = "fetch" => SliceNextBlob \/ FetchElement
           /\ Current.op = "takeblob" => TakeBlob
           /\ Current.op = "toalt" => Stash
           /\ Current.op = "message" => StartFrame
           /\ Current.op = "expectspent" => ExpectSpent
           /\ Current.op \in SlhPhases \cup LmsPhases => EnterPhase
           /\ Current.op = "write" => WriteOpcode
           /\ Current.op = "queue" => QueueBlob
  <1>1. \A op : Emits(op) => Current.op = op
    BY DEF Emits
  <1>2. EnterPhase => Current.op \in SlhPhases \/ Current.op \in LmsPhases
    BY <1>1 DEF EnterPhase
  <1>3. /\ WriteOpcode => Current.op = "write"
        /\ PushItem => Current.op \in {"data", "num"}
        /\ Calculate => Current.op = "calc"
        /\ CopyTop => Current.op \in {"dup", "over"}
        /\ SwapTop => Current.op = "swap"
        /\ DropTop => Current.op = "drop"
        /\ NipTop => Current.op = "nip"
    BY <1>1 DEF WriteOpcode, PushItem, Calculate, CopyTop, SwapTop, DropTop, NipTop
  <1>4. /\ ResolveSlot => Current.op \in {"pick", "roll"}
        /\ PickSlot => Current.op = "oppick"
        /\ RollSlot => Current.op = "oproll"
        /\ NameTop => Current.op = "rename"
        /\ Branch => Current.op = "if"
        /\ EndBranch => Current.op = "endif"
    BY <1>1 DEF ResolveSlot, PickSlot, RollSlot, NameTop, Branch, EndBranch
  <1>5. /\ SliceNextBlob => Current.op = "fetch"
        /\ FetchElement => Current.op = "fetch"
        /\ TakeBlob => Current.op = "takeblob"
        /\ Stash => Current.op = "toalt"
        /\ QueueBlob => Current.op = "queue"
        /\ StartFrame => Current.op = "message"
        /\ ExpectSpent => Current.op = "expectspent"
    BY <1>1 DEF SliceNextBlob, FetchElement, TakeBlob, Stash, QueueBlob, StartFrame, ExpectSpent
  <1>6. ~Finished
    BY DEF Finished, Emitted
  <1> QED
    BY <1>2, <1>3, <1>4, <1>5, <1>6 DEF Next, SlhPhases, LmsPhases

LEMMA WriteNext ==
    ASSUME Next, ~failed, IsSequence(todo), todo # <<>>, Head(todo).op = "write"
    PROVE  /\ RunOpcode(given.tx, Head(todo)) /\ todo' = Tail(todo) /\ given' = given
           /\ UNCHANGED <<frame, pending, next, peak>>
  <1>1. WriteOpcode
    BY ActionOf DEF Current
  <1>2. Expand(<<>>) /\ RunOpcode(given.tx, Head(todo)) /\ UNCHANGED <<frame, pending, next, peak>>
    BY <1>1 DEF WriteOpcode, Advance, Current
  <1> QED
    BY <1>2, CallMade

LEMMA Halted ==
    ASSUME Next, failed \/ todo = <<>>
    PROVE  UNCHANGED vars
  <1>1. \A op : ~Emits(op)
    BY DEF Emits, Emitted
  <1>2. ~EnterPhase
    BY <1>1 DEF EnterPhase
  <1>3. ~WriteOpcode /\ ~PushItem /\ ~Calculate /\ ~CopyTop /\ ~SwapTop /\ ~DropTop /\ ~NipTop
    BY <1>1 DEF WriteOpcode, PushItem, Calculate, CopyTop, SwapTop, DropTop, NipTop
  <1>4. ~ResolveSlot /\ ~PickSlot /\ ~RollSlot /\ ~NameTop /\ ~Branch /\ ~EndBranch
    BY <1>1 DEF ResolveSlot, PickSlot, RollSlot, NameTop, Branch, EndBranch
  <1>5. ~SliceNextBlob /\ ~FetchElement /\ ~TakeBlob /\ ~Stash /\ ~QueueBlob /\ ~StartFrame /\ ~ExpectSpent
    BY <1>1 DEF SliceNextBlob, FetchElement, TakeBlob, Stash, QueueBlob, StartFrame, ExpectSpent
  <1> QED
    BY <1>2, <1>3, <1>4, <1>5 DEF Next, Finished

\* A call gives way to what it stands for.
\* What is left of a piece of code, and what follows it.
FirstThen(s, c, t) == IsSequence(s) /\ s # <<>> /\ Head(s) = c /\ Tail(s) = t

LEMMA LeftNext ==
    ASSUME NEW code, NEW after, IsSequence(code), IsSequence(after), NEW k \in 1..Len(code)
    PROVE  /\ IsSequence(Left(code, k, after)) /\ Left(code, k, after) # <<>>
           /\ FirstThen(Left(code, k, after), code[k], Left(code, k + 1, after))
           /\ Left(code, Len(code) + 1, after) = after
           /\ Left(code, 1, after) = code \o after
  <1>1. Len(code) \in Nat /\ \A i \in 1..Len(code) : code[i] \in Range(code)
    BY LenProperties, ElementOfSeq DEF IsSequence
  <1> DEFINE n == Len(code)
             s == SubSeq(code, k, n)
             t == SubSeq(code, k + 1, n)
             m == s \o after
             r == t \o after
  <1>2. /\ s \in Seq(Range(code)) /\ Len(s) = n - k + 1
        /\ \A i \in 1 .. n - k + 1 : s[i] = code[k + i - 1]
    BY <1>1, SubSeqProperties
  <1>3. /\ t \in Seq(Range(code)) /\ Len(t) = n - k
        /\ \A i \in 1 .. n - k : t[i] = code[k + i]
    <2>1. CASE k = n
      <3>1. t = <<>>
        BY <1>1, <2>1, SubSeqEmpty
      <3> QED
        BY <1>1, <2>1, <3>1
    <2>2. CASE k # n
      <3>1. \A i \in k + 1 .. n : code[i] \in Range(code)
        BY <1>1
      <3>2. k + 1 \in Nat /\ n \in Nat /\ k + 1 <= n + 1
        BY <1>1
      <3>3. /\ t \in Seq(Range(code)) /\ Len(t) = n - (k + 1) + 1
            /\ \A i \in 1 .. n - (k + 1) + 1 : t[i] = code[(k + 1) + i - 1]
        BY <3>1, <3>2, SubSeqProperties
      <3>4. n - (k + 1) + 1 = n - k /\ \A i \in 1 .. n - k : (k + 1) + i - 1 = k + i
        BY <1>1
      <3> HIDE DEF t, n
      <3> QED
        BY <3>3, <3>4
    <2> QED
      BY <2>1, <2>2
  <1>4. IsSequence(s) /\ IsSequence(t)
    BY <1>2, <1>3, SequenceIs
  <1>5. s[1] = code[k] /\ \A i \in 1 .. n - k : s[i + 1] = t[i]
    <2>1. /\ 1 \in 1 .. n - k + 1 /\ k + 1 - 1 = k
          /\ \A i \in 1 .. n - k : i + 1 \in 1 .. n - k + 1 /\ k + (i + 1) - 1 = k + i
      BY <1>1
    <2> HIDE DEF s, t, n
    <2> QED
      BY <1>2, <1>3, <2>1
  <1> HIDE DEF s, t
  <1>6. /\ IsSequence(m) /\ Len(m) = (n - k + 1) + Len(after) /\ Len(after) \in Nat
        /\ \A i \in 1 .. (n - k + 1) + Len(after) : m[i] = IF i <= n - k + 1 THEN s[i] ELSE after[i - (n - k + 1)]
    <2>1. /\ IsSequence(s \o after) /\ Len(s \o after) = Len(s) + Len(after) /\ Len(after) \in Nat
          /\ \A i \in 1 .. Len(s) + Len(after) :
               (s \o after)[i] = IF i <= Len(s) THEN s[i] ELSE after[i - Len(s)]
      BY <1>4, SequenceConcat
    <2>2. Len(s) = n - k + 1
      BY <1>2
    <2> QED
      BY <2>1, <2>2, Zenon
  <1>7. /\ IsSequence(r) /\ Len(r) = (n - k) + Len(after)
        /\ \A i \in 1 .. (n - k) + Len(after) : r[i] = IF i <= n - k THEN t[i] ELSE after[i - (n - k)]
    <2>1. /\ IsSequence(t \o after) /\ Len(t \o after) = Len(t) + Len(after) /\ Len(after) \in Nat
          /\ \A i \in 1 .. Len(t) + Len(after) :
               (t \o after)[i] = IF i <= Len(t) THEN t[i] ELSE after[i - Len(t)]
      BY <1>4, SequenceConcat
    <2>2. Len(t) = n - k
      BY <1>3
    <2> QED
      BY <2>1, <2>2, Zenon
  <1> HIDE DEF m, r
  <1>8. n - k \in Nat
    BY <1>1
  <1>9. m # <<>> /\ m[1] = code[k]
    <2>1. 1 \in 1 .. (n - k + 1) + Len(after) /\ 1 <= n - k + 1 /\ Len(m) > 0
      BY <1>6, <1>8
    <2> QED
      BY <1>5, <1>6, <2>1, SequenceLen
  <1>10. Tail(m) = r
    <2>1. /\ IsSequence(Tail(m)) /\ Len(Tail(m)) = Len(m) - 1
          /\ \A i \in 1 .. Len(m) - 1 : Tail(m)[i] = m[i + 1]
      BY <1>6, <1>9, SequenceTail
    <2>2. Len(m) - 1 = Len(r) /\ Len(r) = (n - k) + Len(after)
      BY <1>6, <1>7, <1>8
    <2>3. ASSUME NEW i \in 1..Len(r) PROVE Tail(m)[i] = r[i]
      <3>1. Tail(m)[i] = m[i + 1]
        BY <2>1, <2>2, <2>3
      <3>2. CASE i <= n - k
        <4>1. i \in 1 .. n - k /\ i + 1 \in 1 .. (n - k + 1) + Len(after) /\ i + 1 <= n - k + 1
              /\ i \in 1 .. (n - k) + Len(after)
          BY <1>6, <1>8, <2>2, <3>2
        <4>2. m[i + 1] = s[i + 1] /\ r[i] = t[i]
          BY <1>6, <1>7, <3>2, <4>1
        <4> QED
          BY <1>5, <3>1, <4>1, <4>2
      <3>3. CASE ~(i <= n - k)
        <4>1. /\ i + 1 \in 1 .. (n - k + 1) + Len(after) /\ ~(i + 1 <= n - k + 1)
              /\ i \in 1 .. (n - k) + Len(after) /\ (i + 1) - (n - k + 1) = i - (n - k)
          BY <1>6, <1>8, <2>2, <3>3
        <4> QED
          BY <1>6, <1>7, <3>1, <3>3, <4>1
      <3> QED
        BY <3>2, <3>3
    <2>4. Tail(m) \in Seq(Range(Tail(m)) \cup Range(r)) /\ r \in Seq(Range(Tail(m)) \cup Range(r))
      BY <1>7, <2>1, SeqMonotonic DEF IsSequence
    <2> QED
      BY <2>1, <2>2, <2>3, <2>4, SeqEqual
  <1>11. Left(code, n + 1, after) = after
    <2>1. SubSeq(code, n + 1, n) = <<>>
      BY <1>1, SubSeqEmpty
    <2>2. <<>> \o after = after
      BY ConcatEmptySeq DEF IsSequence
    <2> QED
      BY <2>1, <2>2, Zenon DEF Left
  <1>12. Left(code, 1, after) = code \o after
    <2>1. SubSeq(code, 1, n) = code
      BY SubSeqFull DEF IsSequence
    <2> QED
      BY <2>1, Zenon DEF Left
  <1>13. Left(code, k, after) = m /\ Left(code, k + 1, after) = r
    BY Zenon DEF Left, m, r, s, t
  <1>14. Head(m) = m[1]
    OBVIOUS
  <1>15. FirstThen(m, code[k], r)
    BY <1>6, <1>9, <1>10, <1>14 DEF FirstThen
  <1> QED
    BY <1>6, <1>9, <1>11, <1>12, <1>13, <1>15

-----------------------------------------------------------------------------
(* The digest's code, call by call. *)

Starts(s, code, n) == IsSequence(s) /\ Len(s) = n /\ n \in Nat /\ \A i \in 1..n : s[i] = code[i]

LEMMA StartsOne ==
    ASSUME NEW s, NEW code, NEW n, Starts(s, code, n), NEW c, code[n + 1] = c
    PROVE  Starts(s \o <<c>>, code, n + 1)
  <1>1. IsSequence(s) /\ Len(s) = n /\ n \in Nat /\ \A i \in 1..n : s[i] = code[i]
    BY DEF Starts
  <1>2. IsSequence(<<c>>) /\ Len(<<c>>) = 1 /\ <<c>>[1] = c
    BY SequenceOne
  <1>3. /\ IsSequence(s \o <<c>>) /\ Len(s \o <<c>>) = n + 1
        /\ \A i \in 1 .. n + 1 : (s \o <<c>>)[i] = IF i <= n THEN s[i] ELSE <<c>>[i - n]
    BY <1>1, <1>2, SequenceConcat
  <1>4. ASSUME NEW i \in 1 .. n + 1 PROVE (s \o <<c>>)[i] = code[i]
    <2>1. CASE i <= n
      BY <1>1, <1>3, <2>1
    <2>2. CASE ~(i <= n)
      <3>1. i = n + 1 /\ i - n = 1
        BY <1>1, <2>2
      <3> QED
        BY <1>2, <1>3, <2>2, <3>1
    <2> QED
      BY <2>1, <2>2
  <1>5. n + 1 \in Nat
    BY <1>1
  <1> QED
    BY <1>3, <1>4, <1>5 DEF Starts

LEMMA StartsTwo ==
    ASSUME NEW s, NEW code, NEW n, Starts(s, code, n), NEW c, NEW d,
           code[n + 1] = c, code[n + 2] = d
    PROVE  Starts(s \o (<<c>> \o <<d>>), code, n + 2)
  <1>1. n \in Nat /\ IsSequence(s)
    BY DEF Starts
  <1>2. Starts(s \o <<c>>, code, n + 1)
    BY StartsOne
  <1>3. (n + 1) + 1 = n + 2
    BY <1>1
  <1>4. code[(n + 1) + 1] = d
    BY <1>3
  <1> DEFINE u == s \o <<c>>
  <1>5. Starts(u \o <<d>>, code, (n + 1) + 1)
    <2> HIDE DEF u
    <2>1. Starts(u, code, n + 1)
      BY <1>2 DEF u
    <2> QED
      BY <1>4, <2>1, StartsOne
  <1>6. u \o <<d>> = s \o (<<c>> \o <<d>>)
    BY <1>1, SequenceOne, SequenceAssoc
  <1> QED
    BY <1>3, <1>5, <1>6, Zenon

\* All of it.
LEMMA StartsAll ==
    ASSUME NEW s, NEW code, IsSequence(code), Starts(s, code, Len(code))
    PROVE  s = code
  <1> DEFINE X == Range(s) \cup Range(code)
  <1>1. s \in Seq(X) /\ code \in Seq(X)
    BY SeqMonotonic DEF IsSequence, Starts
  <1> HIDE DEF X
  <1> QED
    BY <1>1, SeqEqual DEF Starts

LEMMA OneCall ==
    /\ \A code, bytes : Write(code, bytes) = <<Writes(code, bytes)>>
    /\ \A code : Op(code) = <<Writing(code)>>
    /\ \A v : Number(v) = <<Writes("data", Encode(v))>>
    /\ \A n : FixedWidth(n) = <<Writes("data", Encode(n))>> \o <<Writing("num2bin")>>
  BY Zenon DEF Write, Op, Number, Data, FixedWidth, Writes, Writing

LEMMA HeaderIs ==
    /\ IsSequence(HeaderCode) /\ Len(HeaderCode) = 15
    /\   Op("txversion") \o FixedWidth(2)
           \o Op("inputindex") \o Op("outpointtxid") \o Op("cat")
           \o Op("inputindex") \o Op("outpointindex") \o FixedWidth(4) \o Op("cat")
           \o Op("outputcount") \o FixedWidth(1) \o Op("cat")
       = HeaderCode
  <1>1. HeaderCode \in Seq({HeaderCode[i] : i \in 1..15}) /\ Len(HeaderCode) = 15
    BY DEF HeaderCode
  <1>2. IsSequence(HeaderCode)
    BY <1>1, SequenceIs
  <1>3. /\ HeaderCode[1] = Writing("txversion") /\ HeaderCode[2] = Writes("data", Encode(2))
        /\ HeaderCode[3] = Writing("num2bin") /\ HeaderCode[4] = Writing("inputindex")
        /\ HeaderCode[5] = Writing("outpointtxid") /\ HeaderCode[6] = Writing("cat")
        /\ HeaderCode[7] = Writing("inputindex") /\ HeaderCode[8] = Writing("outpointindex")
        /\ HeaderCode[9] = Writes("data", Encode(4)) /\ HeaderCode[10] = Writing("num2bin")
        /\ HeaderCode[11] = Writing("cat") /\ HeaderCode[12] = Writing("outputcount")
        /\ HeaderCode[13] = Writes("data", Encode(1)) /\ HeaderCode[14] = Writing("num2bin")
        /\ HeaderCode[15] = Writing("cat")
    BY DEF HeaderCode
  <1> DEFINE s1 == Op("txversion")
             s3 == s1 \o FixedWidth(2)
             s4 == s3 \o Op("inputindex")
             s5 == s4 \o Op("outpointtxid")
             s6 == s5 \o Op("cat")
             s7 == s6 \o Op("inputindex")
             s8 == s7 \o Op("outpointindex")
             s10 == s8 \o FixedWidth(4)
             s11 == s10 \o Op("cat")
             s12 == s11 \o Op("outputcount")
             s14 == s12 \o FixedWidth(1)
             s15 == s14 \o Op("cat")
  <1>4. Starts(s1, HeaderCode, 1)
    <2>1. Op("txversion") = <<HeaderCode[1]>>
      BY <1>3, OneCall
    <2>2. /\ IsSequence(<<HeaderCode[1]>>) /\ Len(<<HeaderCode[1]>>) = 1
          /\ <<HeaderCode[1]>>[1] = HeaderCode[1]
      BY SequenceOne
    <2>3. \A i \in 1..1 : i = 1
      OBVIOUS
    <2> QED
      BY <2>1, <2>2, <2>3 DEF Starts
  <1> HIDE DEF s1
  <1>5. Starts(s3, HeaderCode, 3)
    <2>1. Starts(s1 \o (<<Writes("data", Encode(2))>> \o <<Writing("num2bin")>>), HeaderCode, 1 + 2)
      BY <1>3, <1>4, StartsTwo
    <2>2. FixedWidth(2) = <<Writes("data", Encode(2))>> \o <<Writing("num2bin")>>
      BY OneCall, Zenon
    <2>3. 1 + 2 = 3
      OBVIOUS
    <2> QED
      BY <2>1, <2>2, <2>3, Zenon
  <1> HIDE DEF s3
  <1>6. Starts(s4, HeaderCode, 4)
    <2>1. Starts(s3 \o <<Writing("inputindex")>>, HeaderCode, 3 + 1)
      BY <1>3, <1>5, StartsOne
    <2> QED
      BY <2>1, OneCall
  <1> HIDE DEF s4
  <1>7. Starts(s5, HeaderCode, 5)
    <2>1. Starts(s4 \o <<Writing("outpointtxid")>>, HeaderCode, 4 + 1)
      BY <1>3, <1>6, StartsOne
    <2> QED
      BY <2>1, OneCall
  <1> HIDE DEF s5
  <1>8. Starts(s6, HeaderCode, 6)
    <2>1. Starts(s5 \o <<Writing("cat")>>, HeaderCode, 5 + 1)
      BY <1>3, <1>7, StartsOne
    <2> QED
      BY <2>1, OneCall
  <1> HIDE DEF s6
  <1>9. Starts(s7, HeaderCode, 7)
    <2>1. Starts(s6 \o <<Writing("inputindex")>>, HeaderCode, 6 + 1)
      BY <1>3, <1>8, StartsOne
    <2> QED
      BY <2>1, OneCall
  <1> HIDE DEF s7
  <1>10. Starts(s8, HeaderCode, 8)
    <2>1. Starts(s7 \o <<Writing("outpointindex")>>, HeaderCode, 7 + 1)
      BY <1>3, <1>9, StartsOne
    <2> QED
      BY <2>1, OneCall
  <1> HIDE DEF s8
  <1>11. Starts(s10, HeaderCode, 10)
    <2>1. Starts(s8 \o (<<Writes("data", Encode(4))>> \o <<Writing("num2bin")>>), HeaderCode, 8 + 2)
      BY <1>3, <1>10, StartsTwo
    <2>2. FixedWidth(4) = <<Writes("data", Encode(4))>> \o <<Writing("num2bin")>>
      BY OneCall, Zenon
    <2>3. 8 + 2 = 10
      OBVIOUS
    <2> QED
      BY <2>1, <2>2, <2>3, Zenon
  <1> HIDE DEF s10
  <1>12. Starts(s11, HeaderCode, 11)
    <2>1. Starts(s10 \o <<Writing("cat")>>, HeaderCode, 10 + 1)
      BY <1>3, <1>11, StartsOne
    <2> QED
      BY <2>1, OneCall
  <1> HIDE DEF s11
  <1>13. Starts(s12, HeaderCode, 12)
    <2>1. Starts(s11 \o <<Writing("outputcount")>>, HeaderCode, 11 + 1)
      BY <1>3, <1>12, StartsOne
    <2> QED
      BY <2>1, OneCall
  <1> HIDE DEF s12
  <1>14. Starts(s14, HeaderCode, 14)
    <2>1. Starts(s12 \o (<<Writes("data", Encode(1))>> \o <<Writing("num2bin")>>), HeaderCode, 12 + 2)
      BY <1>3, <1>13, StartsTwo
    <2>2. FixedWidth(1) = <<Writes("data", Encode(1))>> \o <<Writing("num2bin")>>
      BY OneCall, Zenon
    <2>3. 12 + 2 = 14
      OBVIOUS
    <2> QED
      BY <2>1, <2>2, <2>3, Zenon
  <1> HIDE DEF s14
  <1>15. Starts(s15, HeaderCode, 15)
    <2>1. Starts(s14 \o <<Writing("cat")>>, HeaderCode, 14 + 1)
      BY <1>3, <1>14, StartsOne
    <2> QED
      BY <2>1, OneCall
  <1> HIDE DEF s15
  <1>16. s15 = HeaderCode
    BY <1>1, <1>2, <1>15, StartsAll
  <1> QED
    BY <1>1, <1>2, <1>16 DEF s15, s14, s12, s11, s10, s8, s7, s6, s5, s4, s3, s1

-----------------------------------------------------------------------------
(* The code of one output. *)

LEMMA OutputIs ==
    ASSUME NEW o
    PROVE  /\ IsSequence(OutputCode(o)) /\ Len(OutputCode(o)) = 13
           /\ EmitOutput(o - 1) = OutputCode(o)
  <1> DEFINE code == OutputCode(o)
  <1>1. code \in Seq({code[i] : i \in 1..13}) /\ Len(code) = 13
    BY DEF OutputCode
  <1>2. IsSequence(code)
    BY <1>1, SequenceIs
  <1>3. /\ code[1] = Writes("data", Encode(o - 1)) /\ code[2] = Writing("outputamount")
        /\ code[3] = Writes("data", Encode(8)) /\ code[4] = Writing("num2bin")
        /\ code[5] = Writing("cat") /\ code[6] = Writes("data", Encode(o - 1))
        /\ code[7] = Writing("outputspklen") /\ code[8] = Writes("data", Encode(2))
        /\ code[9] = Writing("num2bin") /\ code[10] = Writing("cat")
        /\ code[11] = Writes("data", Encode(o - 1)) /\ code[12] = Writing("outputspk")
        /\ code[13] = Writing("cat")
    BY DEF OutputCode
  <1> DEFINE s1 == Number(o - 1)
             s2 == s1 \o Op("outputamount")
             s4 == s2 \o FixedWidth(8)
             s5 == s4 \o Op("cat")
             s6 == s5 \o Number(o - 1)
             s7 == s6 \o Op("outputspklen")
             s9 == s7 \o FixedWidth(2)
             s10 == s9 \o Op("cat")
             s11 == s10 \o Number(o - 1)
             s12 == s11 \o Op("outputspk")
             s13 == s12 \o Op("cat")
  <1> HIDE DEF code
  <1>4. Starts(s1, code, 1)
    <2>1. Number(o - 1) = <<code[1]>>
      BY <1>3, OneCall
    <2>2. IsSequence(<<code[1]>>) /\ Len(<<code[1]>>) = 1 /\ <<code[1]>>[1] = code[1]
      BY SequenceOne
    <2>3. \A i \in 1..1 : i = 1
      OBVIOUS
    <2> QED
      BY <2>1, <2>2, <2>3 DEF Starts
  <1> HIDE DEF s1
  <1>5. Starts(s2, code, 2)
    <2>1. Starts(s1 \o <<Writing("outputamount")>>, code, 1 + 1)
      BY <1>3, <1>4, StartsOne
    <2> QED
      BY <2>1, OneCall
  <1> HIDE DEF s2
  <1>6. Starts(s4, code, 4)
    <2>1. Starts(s2 \o (<<Writes("data", Encode(8))>> \o <<Writing("num2bin")>>), code, 2 + 2)
      BY <1>3, <1>5, StartsTwo
    <2>2. FixedWidth(8) = <<Writes("data", Encode(8))>> \o <<Writing("num2bin")>>
      BY OneCall, Zenon
    <2>3. 2 + 2 = 4
      OBVIOUS
    <2> QED
      BY <2>1, <2>2, <2>3, Zenon
  <1> HIDE DEF s4
  <1>7. Starts(s5, code, 5)
    <2>1. Starts(s4 \o <<Writing("cat")>>, code, 4 + 1)
      BY <1>3, <1>6, StartsOne
    <2> QED
      BY <2>1, OneCall
  <1> HIDE DEF s5
  <1>8. Starts(s6, code, 6)
    <2>1. Starts(s5 \o <<Writes("data", Encode(o - 1))>>, code, 5 + 1)
      BY <1>3, <1>7, StartsOne
    <2> QED
      BY <2>1, OneCall
  <1> HIDE DEF s6
  <1>9. Starts(s7, code, 7)
    <2>1. Starts(s6 \o <<Writing("outputspklen")>>, code, 6 + 1)
      BY <1>3, <1>8, StartsOne
    <2> QED
      BY <2>1, OneCall
  <1> HIDE DEF s7
  <1>10. Starts(s9, code, 9)
    <2>1. Starts(s7 \o (<<Writes("data", Encode(2))>> \o <<Writing("num2bin")>>), code, 7 + 2)
      BY <1>3, <1>9, StartsTwo
    <2>2. FixedWidth(2) = <<Writes("data", Encode(2))>> \o <<Writing("num2bin")>>
      BY OneCall, Zenon
    <2>3. 7 + 2 = 9
      OBVIOUS
    <2> QED
      BY <2>1, <2>2, <2>3, Zenon
  <1> HIDE DEF s9
  <1>11. Starts(s10, code, 10)
    <2>1. Starts(s9 \o <<Writing("cat")>>, code, 9 + 1)
      BY <1>3, <1>10, StartsOne
    <2> QED
      BY <2>1, OneCall
  <1> HIDE DEF s10
  <1>12. Starts(s11, code, 11)
    <2>1. Starts(s10 \o <<Writes("data", Encode(o - 1))>>, code, 10 + 1)
      BY <1>3, <1>11, StartsOne
    <2> QED
      BY <2>1, OneCall
  <1> HIDE DEF s11
  <1>13. Starts(s12, code, 12)
    <2>1. Starts(s11 \o <<Writing("outputspk")>>, code, 11 + 1)
      BY <1>3, <1>12, StartsOne
    <2> QED
      BY <2>1, OneCall
  <1> HIDE DEF s12
  <1>14. Starts(s13, code, 13)
    <2>1. Starts(s12 \o <<Writing("cat")>>, code, 12 + 1)
      BY <1>3, <1>13, StartsOne
    <2> QED
      BY <2>1, OneCall
  <1> HIDE DEF s13
  <1>15. s13 = code
    BY <1>1, <1>2, <1>14, StartsAll
  <1>16. s13 = EmitOutput(o - 1)
    BY Zenon DEF EmitOutput, s13, s12, s11, s10, s9, s7, s6, s5, s4, s2, s1
  <1> QED
    BY <1>1, <1>2, <1>15, <1>16 DEF code

-----------------------------------------------------------------------------
(* What is verified, and for which transaction. *)

LEMMA GivenTypes ==
    ASSUME given \in ToSet(Cases)
    PROVE  /\ Tx \in SpendView
           /\ IsSlh => WellFormed(given.p)
           /\ ~IsSlh => /\ Consistent(given.p) /\ given.sig \in LmsSignatures(given.p)
                        /\ given.pk.id \in Seq(Octet) /\ given.pk.q \in 0 .. LeafCount(given.p) - 1
           /\ ~IsSlh => given.sig.y \in Seq(Seq(Octet)) /\ given.sig.path \in Seq(Seq(Octet))
           /\ IsSlh => given.sig \in [1 .. SigElements(given.p) -> [1..N -> Octet]]
  <1>1. /\ given.tx \in SpendView
        /\ \/ /\ given.scheme = "slh" /\ WellFormed(given.p)
              /\ given.sig \in [1 .. SigElements(given.p) -> [1..N -> Octet]]
           \/ /\ given.scheme = "lms" /\ Consistent(given.p)
              /\ given.sig \in LmsSignatures(given.p)
              /\ given.pk.id \in Seq(Octet) /\ given.pk.q \in 0 .. LeafCount(given.p) - 1
    BY CasesAssumption, Zenon
  <1>2. "slh" # "lms"
    OBVIOUS
  <1>3. ASSUME Consistent(given.p), given.sig \in LmsSignatures(given.p)
        PROVE  given.sig.y \in Seq(Seq(Octet)) /\ given.sig.path \in Seq(Seq(Octet))
    <2>1. given.p.p \in Nat /\ given.p.h \in Nat
      BY <1>3 DEF Consistent
    <2>2. given.sig.y \in [1..given.p.p -> HashValue] /\ given.sig.path \in [1..given.p.h -> HashValue]
      BY <1>3 DEF LmsSignatures
    <2>3. HashValue \subseteq Seq(Octet)
      BY WidthsAssumption DEF HashValue
    <2> HIDE DEF HashValue
    <2>4. \A n \in Nat : \A f \in [1..n -> HashValue] : f \in Seq(Seq(Octet))
      BY <2>3
    <2> QED
      BY <2>1, <2>2, <2>4
  <1> QED
    BY <1>1, <1>2, <1>3, Zenon DEF Tx, IsSlh

OutputRecord == [amount : Word, version : Short, script : {s \in Seq(Octet) : Len(s) + 2 \in Word}]

LEMMA ShortIs ==
    ASSUME NEW v \in Short
    PROVE  /\ v \in Word /\ v \in Nat
           /\ (v \div 256) % 256 = v \div 256 /\ (v \div 1) % 256 = v % 256
           /\ v \div 256 \in 0..255 /\ v % 256 \in 0..255
  <1>1. v \in Word /\ v \in Nat
    BY SMT DEF Short, Word
  <1>2. (v \div 256) % 256 = v \div 256 /\ v \div 256 \in 0..255
    <2>1. v \in Nat /\ v < 256 * 256
      BY SMT DEF Short
    <2>2. v \div 256 \in 0..255
      BY <2>1, SMT
    <2>3. \A d \in 0..255 : d % 256 = d
      BY SMT
    <2> QED
      BY <2>2, <2>3
  <1>3. (v \div 1) % 256 = v % 256 /\ v % 256 \in 0..255
    BY SMT DEF Short
  <1> QED
    BY <1>1, <1>2, <1>3

LEMMA TxFields ==
    ASSUME Tx \in SpendView
    PROVE  /\ Tx.version \in Word /\ Tx.txid \in Seq(Octet) /\ Tx.index \in Word
           /\ Tx.outputs \in Seq(OutputRecord) /\ Len(Tx.outputs) \in Word
           /\ IsSequence(Tx.outputs) /\ DOMAIN Tx.outputs = 1..Len(Tx.outputs)
           /\ Len(Tx.outputs) \in Nat
  <1>1. Tx \in [version : Short, txid : Seq(Octet), index : Word,
                outputs : {o \in Seq(OutputRecord) : Len(o) \in Word}]
    BY Zenon DEF SpendView, OutputRecord
  <1>2. Tx.version \in Short
    BY <1>1, SMT
  <1>3. Tx.version \in Word
    BY <1>2, ShortIs
  <1>4. Tx.txid \in Seq(Octet) /\ Tx.index \in Word /\ Tx.outputs \in {o \in Seq(OutputRecord) : Len(o) \in Word}
    BY <1>1, SMT
  <1>5. Tx.outputs \in Seq(OutputRecord) /\ Len(Tx.outputs) \in Word
    BY <1>4, Zenon
  <1>6. IsSequence(Tx.outputs) /\ DOMAIN Tx.outputs = 1..Len(Tx.outputs) /\ Len(Tx.outputs) \in Nat
    BY <1>5, SequenceIs, LenProperties
  <1> QED
    BY <1>3, <1>4, <1>5, <1>6

\* The wire form of a script, as the node and as the wallet see it.
LEMMA WireForm ==
    ASSUME Tx \in SpendView, NEW o \in 1..Len(Tx.outputs)
    PROVE  /\ Tx.outputs[o].amount \in Word
           /\ Spk(o) = SpkWireBytes(Tx.outputs[o])
           /\ Spk(o) \in Seq(Octet) /\ Len(Spk(o)) \in Word
  <1> DEFINE out == Tx.outputs[o]
  <1>1. out \in OutputRecord
    BY TxFields, ElementOfSeq
  <1> HIDE DEF out
  <1>2. out.version \in Short /\ out.script \in {s \in Seq(Octet) : Len(s) + 2 \in Word}
    BY <1>1, SMT DEF OutputRecord
  <1>3. out.amount \in Word
    BY <1>1, SMT DEF OutputRecord
  <1>4. out.script \in Seq(Octet) /\ Len(out.script) + 2 \in Word
    BY <1>2, Zenon
  <1>5. /\ (out.version \div 256) % 256 = out.version \div 256
        /\ (out.version \div 1) % 256 = out.version % 256
        /\ out.version \div 256 \in 0..255 /\ out.version % 256 \in 0..255
    BY <1>2, ShortIs, SMTT(20)
  <1> DEFINE head == <<out.version \div 256, out.version % 256>>
  <1>6. head \in Seq(Octet) /\ Len(head) = 2 /\ head[1] = out.version \div 256 /\ head[2] = out.version % 256
    BY <1>5, SMT DEF Octet
  <1>7. out.version \in Word
    BY <1>2, ShortIs
  <1>8. BigEndian(out.version, 2) \in Seq(Octet) /\ Len(BigEndian(out.version, 2)) = 2
    <2>1. 2 \in Nat
      OBVIOUS
    <2> QED
      BY <1>7, <2>1, LittleEndianIs
  <1>9. \A i \in 1..2 : BigEndian(out.version, 2)[i] = head[i]
    <2>1. /\ BigEndian(out.version, 2)[1] = (out.version \div ByteWeight[2]) % 256
          /\ BigEndian(out.version, 2)[2] = (out.version \div ByteWeight[1]) % 256
      <3>1. /\ 1 \in 1..2 /\ 2 \in 1..2 /\ ~(2 - 1 > 3) /\ ~(2 - 2 > 3) /\ 2 - 1 + 1 = 2 /\ 2 - 2 + 1 = 1
        OBVIOUS
      <3> QED
        BY <3>1, SMT DEF BigEndian
    <2>2. ByteWeight[1] = 1 /\ ByteWeight[2] = 256
      BY Weights
    <2>3. BigEndian(out.version, 2)[1] = head[1] /\ BigEndian(out.version, 2)[2] = head[2]
      BY <1>5, <1>6, <2>1, <2>2, SMT
    <2>4. \A i \in 1..2 : i = 1 \/ i = 2
      OBVIOUS
    <2> HIDE DEF head
    <2> QED
      BY <2>3, <2>4, Zenon
  <1> HIDE DEF head
  <1>10. BigEndian(out.version, 2) = head
    BY <1>6, <1>8, <1>9, SeqEqual
  <1>11. Spk(o) = head \o out.script
    BY Zenon DEF Spk, NodeSpk, head, out
  <1>12. SpkWireBytes(out) = head \o out.script
    BY <1>10, Zenon DEF SpkWireBytes
  <1>13. head \o out.script \in Seq(Octet) /\ Len(head \o out.script) = 2 + Len(out.script)
    <2>1. head \in Seq(Octet) /\ Len(head) = 2
      BY <1>6
    <2> DEFINE rest == out.script
    <2>2. rest \in Seq(Octet)
      BY <1>4
    <2> HIDE DEF rest
    <2>3. head \o rest \in Seq(Octet) /\ Len(head \o rest) = Len(head) + Len(rest)
      BY <2>1, <2>2, ConcatProperties
    <2> QED
      BY <2>1, <2>3 DEF rest
  <1>14. Len(head \o out.script) \in Word
    <2>1. Len(out.script) \in Nat
      BY <1>4, LenProperties
    <2>2. 2 + Len(out.script) = Len(out.script) + 2
      BY <2>1
    <2> QED
      BY <1>4, <1>13, <2>2
  <1> QED
    BY <1>3, <1>11, <1>12, <1>13, <1>14, Zenon DEF out

LEMMA CallFirst ==
    ASSUME NEW c, NEW t, IsSequence(t)
    PROVE  /\ IsSequence(<<c>> \o t) /\ <<c>> \o t # <<>>
           /\ Head(<<c>> \o t) = c /\ Tail(<<c>> \o t) = t
  <1>1. IsSequence(<<c>>) /\ Len(<<c>>) = 1 /\ <<c>>[1] = c
    BY SequenceOne
  <1> DEFINE m == <<c>> \o t
  <1>2. /\ IsSequence(m) /\ Len(m) = 1 + Len(t) /\ Len(t) \in Nat
        /\ \A i \in 1 .. 1 + Len(t) : m[i] = IF i <= 1 THEN <<c>>[i] ELSE t[i - 1]
    BY <1>1, SequenceConcat
  <1> HIDE DEF m
  <1>3. m # <<>>
    BY <1>2, SequenceLen
  <1>4. m[1] = c
    BY <1>1, <1>2
  <1>5. /\ IsSequence(Tail(m)) /\ Len(Tail(m)) = Len(t) /\ Head(m) = m[1]
        /\ \A i \in 1..Len(t) : Tail(m)[i] = m[i + 1]
    <2>1. /\ IsSequence(Tail(m)) /\ Len(Tail(m)) = Len(m) - 1 /\ Head(m) = m[1]
          /\ \A i \in 1 .. Len(m) - 1 : Tail(m)[i] = m[i + 1]
      BY <1>2, <1>3, SequenceTail
    <2>2. Len(m) - 1 = Len(t)
      BY <1>2
    <2> QED
      BY <2>1, <2>2
  <1>6. \A i \in 1..Len(t) : m[i + 1] = t[i]
    <2>1. \A i \in 1..Len(t) : i + 1 \in 1 .. 1 + Len(t) /\ ~(i + 1 <= 1) /\ (i + 1) - 1 = i
      BY <1>2
    <2> QED
      BY <1>2, <2>1
  <1>7. Tail(m) = t
    <2>1. Tail(m) \in Seq(Range(Tail(m)) \cup Range(t)) /\ t \in Seq(Range(Tail(m)) \cup Range(t))
      BY <1>5, SeqMonotonic DEF IsSequence
    <2> QED
      BY <1>5, <1>6, <2>1, SeqEqual
  <1> QED
    BY <1>2, <1>3, <1>4, <1>5, <1>7 DEF m

-----------------------------------------------------------------------------
(* The witness. *)

LEMMA CountedFrom ==
    ASSUME NEW n \in Nat, NEW f, f = [i \in 1..n |-> f[i]]
    PROVE  IsSequence(f) /\ Len(f) = n
  <1>1. f \in Seq({f[i] : i \in 1..n}) /\ Len(f) = n
    OBVIOUS
  <1> QED
    BY <1>1, SequenceIs

LEMMA ElementsCounted ==
    ASSUME NEW p, WellFormed(p)
    PROVE  SigElements(p) \in Nat \ {0}
  <1>1. {p.h, p.d, p.hp, p.a, p.k} \subseteq Nat \ {0} /\ p.lgw \in 1..8 /\ W(p) \in 2..256
    BY SetTypes
  <1>2. Len1(p) \in Nat
    BY <1>1, WidthsAssumption DEF Len1, CeilDiv
  <1>3. Len2(p) \in Nat
    <2>1. Log2(Len1(p) * (W(p) - 1)) \in Nat
      BY Log2Type
    <2> QED
      BY <1>1, <2>1 DEF Len2
  <1>4. WotsLen(p) \in Nat
    BY <1>2, <1>3 DEF WotsLen
  <1>5. p.d * WotsLen(p) \in Nat
    BY <1>1, <1>4
  <1>6. p.k * (1 + p.a) \in Nat
    BY <1>1
  <1> QED
    BY <1>1, <1>5, <1>6 DEF SigElements

\* The plan: full blobs, and one with the rest.
LEMMA PlanIs ==
    ASSUME NEW p, WellFormed(p)
    PROVE  /\ BlobPlan(p) \in Seq(1..4)
           /\ Len(BlobPlan(p)) = CeilDiv(SigElements(p), 4) /\ Len(BlobPlan(p)) \in Nat \ {0}
           /\ DOMAIN BlobPlan(p) = 1..Len(BlobPlan(p))
  <1> DEFINE count == SigElements(p)
             full == count \div 4
             rest == count % 4
             blobs == [b \in 1..full |-> 4]
             last == IF rest = 0 THEN <<>> ELSE <<rest>>
  <1>1. count \in Nat \ {0}
    BY ElementsCounted
  <1> HIDE DEF count
  <1>2. full \in Nat /\ rest \in 0..3 /\ count = 4 * full + rest
    BY <1>1
  <1>3. blobs \in Seq(1..4) /\ Len(blobs) = full
    BY <1>2
  <1>4. last \in Seq(1..4) /\ Len(last) = IF rest = 0 THEN 0 ELSE 1
    <2>1. CASE rest = 0
      BY <2>1
    <2>2. CASE rest # 0
      <3>1. rest \in 1..4
        BY <1>2, <2>2
      <3> HIDE DEF rest
      <3> QED
        BY <3>1, <2>2
    <2> QED
      BY <2>1, <2>2
  <1>5. BlobPlan(p) = blobs \o last
    BY Zenon DEF BlobPlan, BLOB_ELEMS, count, full, rest, blobs, last
  <1> HIDE DEF blobs, last
  <1>6. blobs \o last \in Seq(1..4) /\ Len(blobs \o last) = full + Len(last)
    BY <1>3, <1>4, ConcatProperties
  <1>7. full + Len(last) = CeilDiv(count, 4)
    <2>1. CASE rest = 0
      <3>1. count = 4 * full /\ full + Len(last) = full
        BY <1>2, <1>4, <2>1
      <3> HIDE DEF full, rest
      <3>2. (4 * full + 4 - 1) \div 4 = full
        BY <1>2
      <3> QED
        BY <3>1, <3>2 DEF CeilDiv
    <2>2. CASE rest # 0
      <3>1. count = 4 * full + rest /\ full + Len(last) = full + 1 /\ rest \in 1..3
        BY <1>2, <1>4, <2>2
      <3> HIDE DEF full, rest
      <3>2. (4 * full + rest + 4 - 1) \div 4 = full + 1
        BY <1>2, <3>1
      <3> QED
        BY <3>1, <3>2 DEF CeilDiv
    <2> QED
      BY <2>1, <2>2
  <1>8. CeilDiv(count, 4) \in Nat \ {0}
    BY <1>1 DEF CeilDiv
  <1>9. BlobPlan(p) \in Seq(1..4) /\ Len(BlobPlan(p)) = CeilDiv(count, 4)
    BY <1>5, <1>6, <1>7
  <1> QED
    BY <1>8, <1>9, LenProperties DEF count

LEMMA Reversed ==
    ASSUME NEW s, IsSequence(s)
    PROVE  IsSequence(Reverse(s)) /\ Len(Reverse(s)) = Len(s)
  <1>1. Len(s) \in Nat
    BY SequenceLen
  <1>2. Reverse(s) = [i \in 1..Len(s) |-> Reverse(s)[i]]
    BY DEF Reverse
  <1> QED
    BY <1>1, <1>2, CountedFrom

LEMMA WitnessIs ==
    ASSUME given \in ToSet(Cases)
    PROVE  /\ IsSequence(Witness) /\ Len(Witness) \in Nat
           /\ IsSlh => Len(Witness) = Len(BlobPlan(given.p)) /\ Len(Witness) >= 1
  <1>1. CASE IsSlh
    <2>1. WellFormed(given.p)
      BY <1>1, GivenTypes
    <2>2. DOMAIN BlobPlan(given.p) = 1..Len(BlobPlan(given.p)) /\ Len(BlobPlan(given.p)) \in Nat \ {0}
      BY <2>1, PlanIs
    <2> DEFINE n == Len(BlobPlan(given.p))
    <2>3. Witness = SlhWitness(given.p, given.sig)
      BY <1>1 DEF Witness
    <2>4. SlhWitness(given.p, given.sig) = [b \in 1..n |-> SlhWitness(given.p, given.sig)[b]]
      BY <2>2 DEF SlhWitness
    <2> HIDE DEF n
    <2>5. IsSequence(Witness) /\ Len(Witness) = n /\ n \in Nat \ {0}
      BY <2>2, <2>3, <2>4, CountedFrom DEF n
    <2> QED
      BY <2>5 DEF n
  <1>2. CASE ~IsSlh
    <2>1. given.sig.y \in Seq(Seq(Octet)) /\ given.sig.path \in Seq(Seq(Octet))
      BY <1>2, GivenTypes
    <2>2. IsSequence(given.sig.y) /\ IsSequence(given.sig.path)
      BY <2>1, SequenceIs
    <2>3. IsSequence(Reverse(given.sig.y)) /\ IsSequence(Reverse(given.sig.path)) /\ IsSequence(<<given.sig.c>>)
      BY <2>2, Reversed, SequenceOne
    <2>4. IsSequence(LmsWitness(given.sig))
      BY <2>3, SequenceConcat DEF LmsWitness
    <2> QED
      BY <1>2, <2>4, SequenceLen DEF Witness
  <1> QED
    BY <1>1, <1>2

LEMMA Below0Is ==
    ASSUME given \in ToSet(Cases)
    PROVE  IsSequence(Below0)
  <1>1. IsSequence(<<>>)
    BY CallsNone DEF Calls
  <1> QED
    BY <1>1, WitnessIs DEF Below0

\* The verifying code is a sequence of calls.
LEMMA VerifyIs ==
    ASSUME given \in ToSet(Cases)
    PROVE  /\ IsSequence(Verify) /\ Verify # <<>>
           /\ IsSlh => Head(Verify) = [op |-> "message"] /\ Calls(Tail(Verify), Straight)
           /\ ~IsSlh => Head(Verify) = [op |-> "lms_verify", i |-> 0] /\ Tail(Verify) = <<>>
  <1>1. CASE IsSlh
    <2>1. Calls(EmitBody(given.p, given.pk), Straight)
      BY <1>1, GivenTypes, BodyStraight
    <2> DEFINE c == [op |-> "message"]
               body == EmitBody(given.p, given.pk)
    <2>2. IsSequence(body)
      BY <2>1 DEF Calls
    <2>3. Verify = <<c>> \o body
      BY <1>1, Zenon DEF Verify, Plain
    <2> HIDE DEF c, body
    <2>4. IsSequence(<<c>> \o body) /\ <<c>> \o body # <<>> /\ Head(<<c>> \o body) = c /\ Tail(<<c>> \o body) = body
      BY <2>2, CallFirst
    <2> QED
      BY <1>1, <2>1, <2>3, <2>4 DEF c, body
  <1>2. CASE ~IsSlh
    <2>1. Verify = <<[op |-> "lms_verify", i |-> 0]>>
      BY <1>2 DEF Verify, Call
    <2> DEFINE c == [op |-> "lms_verify", i |-> 0]
    <2>2. IsSequence(<<c>>) /\ Len(<<c>>) = 1
      BY SequenceOne
    <2>3. Head(<<c>>) = c /\ Tail(<<c>>) = <<>> /\ <<c>> # <<>>
      OBVIOUS
    <2> QED
      BY <1>2, <2>1, <2>2, <2>3
  <1> QED
    BY <1>1, <1>2

-----------------------------------------------------------------------------
(* The header, call by call. *)

HeaderAfter(k) == IF k = 15 THEN <<AfterCount>> ELSE HeaderItems[k + 1]
FitsAfter(k)   == IF k = 15 THEN HeaderFits(15) ELSE HeaderFits(k + 1)

LEMMA HeaderItemsAre ==
    /\ HeaderItems[1] = <<>>
    /\ HeaderItems[2] = <<Encode(Tx.version)>>
    /\ HeaderItems[3] = <<Encode(Tx.version), Encode(2)>>
    /\ HeaderItems[4] = <<AfterVersion>>
    /\ HeaderItems[5] = <<AfterVersion, Encode(0)>>
    /\ HeaderItems[6] = <<AfterVersion, Tx.txid>>
    /\ HeaderItems[7] = <<AfterTxid>>
    /\ HeaderItems[8] = <<AfterTxid, Encode(0)>>
    /\ HeaderItems[9] = <<AfterTxid, Encode(Tx.index)>>
    /\ HeaderItems[10] = <<AfterTxid, Encode(Tx.index), Encode(4)>>
    /\ HeaderItems[11] = <<AfterTxid, LittleEndian(Tx.index, 4)>>
    /\ HeaderItems[12] = <<AfterIndex>>
    /\ HeaderItems[13] = <<AfterIndex, Encode(Len(Tx.outputs))>>
    /\ HeaderItems[14] = <<AfterIndex, Encode(Len(Tx.outputs)), Encode(1)>>
    /\ HeaderItems[15] = <<AfterIndex, LittleEndian(Len(Tx.outputs), 1)>>
  BY Zenon DEF HeaderItems

LEMMA HeaderCodes ==
    /\ HeaderCode[1].code = "txversion"
    /\ HeaderCode[2].code = "data" /\ HeaderCode[2].bytes = Encode(2)
    /\ HeaderCode[3].code = "num2bin"
    /\ HeaderCode[4].code = "inputindex"
    /\ HeaderCode[5].code = "outpointtxid"
    /\ HeaderCode[6].code = "cat"
    /\ HeaderCode[7].code = "inputindex"
    /\ HeaderCode[8].code = "outpointindex"
    /\ HeaderCode[9].code = "data" /\ HeaderCode[9].bytes = Encode(4)
    /\ HeaderCode[10].code = "num2bin"
    /\ HeaderCode[11].code = "cat"
    /\ HeaderCode[12].code = "outputcount"
    /\ HeaderCode[13].code = "data" /\ HeaderCode[13].bytes = Encode(1)
    /\ HeaderCode[14].code = "num2bin"
    /\ HeaderCode[15].code = "cat"
    /\ \A k \in 1..15 : HeaderCode[k].op = "write"
  BY DEF HeaderCode, Writes, Writing

LEMMA Fields ==
    ASSUME NEW tx
    PROVE  /\ Global(tx, "txversion") = Encode(tx.version) /\ Global(tx, "inputindex") = Encode(0)
           /\ Global(tx, "outputcount") = Encode(Len(tx.outputs))
           /\ OfInput(tx, "outpointtxid")[0 + 1] = tx.txid
           /\ OfInput(tx, "outpointindex")[0 + 1] = Encode(tx.index)
           /\ 0 \in 0 .. 1 - 1
  BY DEF Global, OfInput

LEMMA SmallNumbers ==
    /\ 0 \in Word /\ 1 \in Word /\ 2 \in Word /\ 4 \in Word /\ 8 \in Word
    /\ \A v \in Word : Len(Encode(v)) <= 2 => v <= MAX_TX_VERSION /\ v <= MAX_SPK_LEN
    /\ \A v \in Word : Len(Encode(v)) <= 1 => v <= MAX_OUTPUT_COUNT
  <1>1. 0 \in Word /\ 1 \in Word /\ 2 \in Word /\ 4 \in Word /\ 8 \in Word
    BY SMT DEF Word
  <1>2. ASSUME NEW v \in Word, Len(Encode(v)) <= 2 PROVE v <= MAX_TX_VERSION /\ v <= MAX_SPK_LEN
    BY <1>2, NumberRead, SMT DEF MAX_TX_VERSION, MAX_SPK_LEN
  <1>3. ASSUME NEW v \in Word, Len(Encode(v)) <= 1 PROVE v <= MAX_OUTPUT_COUNT
    BY <1>3, NumberRead, SMT DEF MAX_OUTPUT_COUNT
  <1> QED
    BY <1>1, <1>2, <1>3

LEMMA HeaderRuns ==
    ASSUME given \in ToSet(Cases), ~skip, NEW k \in 1..15, RunOpcode(Tx, HeaderCode[k]),
           main = Below0 \o HeaderItems[k], HeaderFits(k)
    PROVE  failed' \/ (Ran(Below0 \o HeaderAfter(k)) /\ FitsAfter(k))
  <1> DEFINE b == Below0
  <1>1. IsSequence(b) /\ main = b \o HeaderItems[k]
    BY Below0Is
  <1>2. Tx.version \in Word /\ Tx.index \in Word /\ Len(Tx.outputs) \in Word
    BY GivenTypes, TxFields
  <1> HIDE DEF b
  <1> SUFFICES failed' \/ (Ran(b \o HeaderAfter(k)) /\ FitsAfter(k))
    BY DEF b
  <1>3. CASE k = 1
    <2>1. OpPush(Encode(Tx.version))
      BY <1>3, CodeDecides, HeaderCodes, Fields DEF Globals
    <2>2. Ran(b \o <<Encode(Tx.version)>>)
      BY <1>1, <1>3, <2>1, ItemsPushed, HeaderItemsAre
    <2>3. HeaderAfter(k) = <<Encode(Tx.version)>>
      BY <1>3, HeaderItemsAre DEF HeaderAfter
    <2>4. FitsAfter(k)
      BY <1>3 DEF FitsAfter, HeaderFits
    <2> QED
      BY <2>2, <2>3, <2>4, Zenon
  <1>4. CASE k = 2
    <2>1. OpPush(Encode(2))
      BY <1>4, CodeDecides, HeaderCodes
    <2>2. Ran(b \o <<Encode(Tx.version), Encode(2)>>)
      BY <1>1, <1>4, <2>1, ItemsPushed, HeaderItemsAre
    <2>3. HeaderAfter(k) = <<Encode(Tx.version), Encode(2)>>
      BY <1>4, HeaderItemsAre DEF HeaderAfter
    <2>4. FitsAfter(k)
      BY <1>4 DEF FitsAfter, HeaderFits
    <2> QED
      BY <2>2, <2>3, <2>4, Zenon
  <1>5. CASE k = 3
    <2>1. OpCalc("num2bin", 2)
      BY <1>5, CodeDecides, HeaderCodes
    <2>2. failed' \/ (Len(Encode(Tx.version)) <= 2 /\ Ran(b \o <<AfterVersion>>))
      <3>1. main = b \o <<Encode(Tx.version), Encode(2)>>
        BY <1>1, <1>5, HeaderItemsAre
      <3>2. 2 \in 1..8 /\ Tx.version \in Word
        BY <1>2
      <3>3. \/ failed'
            \/ Len(Encode(Tx.version)) <= 2 /\ Ran(b \o <<LittleEndian(Tx.version, 2)>>)
        BY <1>1, <2>1, <3>1, <3>2, ItemsSpread
      <3> QED
        BY <3>3 DEF AfterVersion
    <2>3. HeaderAfter(k) = <<AfterVersion>>
      BY <1>5, HeaderItemsAre DEF HeaderAfter
    <2>4. Len(Encode(Tx.version)) <= 2 => FitsAfter(k)
      BY <1>2, <1>5, SmallNumbers DEF FitsAfter, HeaderFits
    <2> QED
      BY <2>2, <2>3, <2>4, Zenon
  <1>6. CASE k = 4
    <2>1. OpPush(Encode(0))
      <3>1. HeaderCode[k].code = "inputindex"
        BY <1>6, HeaderCodes
      <3> QED
        BY <3>1, CodeDecides, Fields DEF Globals
    <2>2. Ran(b \o <<AfterVersion, Encode(0)>>)
      BY <1>1, <1>6, <2>1, ItemsPushed, HeaderItemsAre
    <2>3. HeaderAfter(k) = <<AfterVersion, Encode(0)>>
      BY <1>6, HeaderItemsAre DEF HeaderAfter
    <2>4. FitsAfter(k)
      BY <1>6 DEF FitsAfter, HeaderFits
    <2> QED
      BY <2>2, <2>3, <2>4, Zenon
  <1>7. CASE k = 5
    <2>1. OpTxField(1, OfInput(Tx, "outpointtxid"))
      BY <1>7, CodeDecides, HeaderCodes DEF OfOneInput
    <2>2. Ran(b \o <<AfterVersion, Tx.txid>>)
      BY <1>1, <1>7, <2>1, ItemsRead, HeaderItemsAre, SmallNumbers, Fields
    <2>3. HeaderAfter(k) = <<AfterVersion, Tx.txid>>
      BY <1>7, HeaderItemsAre DEF HeaderAfter
    <2>4. FitsAfter(k)
      BY <1>7 DEF FitsAfter, HeaderFits
    <2> QED
      BY <2>2, <2>3, <2>4, Zenon
  <1>8. CASE k = 6
    <2>1. OpCalc("cat", 2)
      BY <1>8, CodeDecides, HeaderCodes
    <2>2. Ran(b \o <<AfterTxid>>)
      BY <1>1, <1>8, <2>1, CatRuns, HeaderItemsAre DEF AfterTxid
    <2>3. HeaderAfter(k) = <<AfterTxid>>
      BY <1>8, HeaderItemsAre DEF HeaderAfter
    <2>4. FitsAfter(k)
      BY <1>8 DEF FitsAfter, HeaderFits
    <2> QED
      BY <2>2, <2>3, <2>4, Zenon
  <1>9. CASE k = 7
    <2>1. OpPush(Encode(0))
      <3>1. HeaderCode[k].code = "inputindex"
        BY <1>9, HeaderCodes
      <3> QED
        BY <3>1, CodeDecides, Fields DEF Globals
    <2>2. Ran(b \o <<AfterTxid, Encode(0)>>)
      BY <1>1, <1>9, <2>1, ItemsPushed, HeaderItemsAre
    <2>3. HeaderAfter(k) = <<AfterTxid, Encode(0)>>
      BY <1>9, HeaderItemsAre DEF HeaderAfter
    <2>4. FitsAfter(k)
      BY <1>9 DEF FitsAfter, HeaderFits
    <2> QED
      BY <2>2, <2>3, <2>4, Zenon
  <1>10. CASE k = 8
    <2>1. OpTxField(1, OfInput(Tx, "outpointindex"))
      BY <1>10, CodeDecides, HeaderCodes DEF OfOneInput
    <2>2. Ran(b \o <<AfterTxid, Encode(Tx.index)>>)
      BY <1>1, <1>10, <2>1, ItemsRead, HeaderItemsAre, SmallNumbers, Fields
    <2>3. HeaderAfter(k) = <<AfterTxid, Encode(Tx.index)>>
      BY <1>10, HeaderItemsAre DEF HeaderAfter
    <2>4. FitsAfter(k)
      BY <1>10 DEF FitsAfter, HeaderFits
    <2> QED
      BY <2>2, <2>3, <2>4, Zenon
  <1>11. CASE k = 9
    <2>1. OpPush(Encode(4))
      BY <1>11, CodeDecides, HeaderCodes
    <2>2. Ran(b \o <<AfterTxid, Encode(Tx.index), Encode(4)>>)
      BY <1>1, <1>11, <2>1, ItemsPushed, HeaderItemsAre
    <2>3. HeaderAfter(k) = <<AfterTxid, Encode(Tx.index), Encode(4)>>
      BY <1>11, HeaderItemsAre DEF HeaderAfter
    <2>4. FitsAfter(k)
      BY <1>11 DEF FitsAfter, HeaderFits
    <2> QED
      BY <2>2, <2>3, <2>4, Zenon
  <1>12. CASE k = 10
    <2>1. OpCalc("num2bin", 2)
      BY <1>12, CodeDecides, HeaderCodes
    <2>2. failed' \/ (Len(Encode(Tx.index)) <= 4 /\ Ran(b \o <<AfterTxid, LittleEndian(Tx.index, 4)>>))
      <3>1. main = b \o <<AfterTxid, Encode(Tx.index), Encode(4)>>
        BY <1>1, <1>12, HeaderItemsAre
      <3>2. 4 \in 1..8 /\ Tx.index \in Word
        BY <1>2
      <3>3. \/ failed'
            \/ Len(Encode(Tx.index)) <= 4 /\ Ran(b \o <<AfterTxid, LittleEndian(Tx.index, 4)>>)
        BY <1>1, <2>1, <3>1, <3>2, ItemsSpread
      <3> QED
        BY <3>3
    <2>3. HeaderAfter(k) = <<AfterTxid, LittleEndian(Tx.index, 4)>>
      BY <1>12, HeaderItemsAre DEF HeaderAfter
    <2>4. Len(Encode(Tx.index)) <= 4 => FitsAfter(k)
      BY <1>2, <1>12, SmallNumbers DEF FitsAfter, HeaderFits
    <2> QED
      BY <2>2, <2>3, <2>4, Zenon
  <1>13. CASE k = 11
    <2>1. OpCalc("cat", 2)
      BY <1>13, CodeDecides, HeaderCodes
    <2>2. Ran(b \o <<AfterIndex>>)
      BY <1>1, <1>13, <2>1, CatRuns, HeaderItemsAre DEF AfterIndex
    <2>3. HeaderAfter(k) = <<AfterIndex>>
      BY <1>13, HeaderItemsAre DEF HeaderAfter
    <2>4. FitsAfter(k)
      BY <1>13 DEF FitsAfter, HeaderFits
    <2> QED
      BY <2>2, <2>3, <2>4, Zenon
  <1>14. CASE k = 12
    <2>1. OpPush(Encode(Len(Tx.outputs)))
      BY <1>14, CodeDecides, HeaderCodes, Fields DEF Globals
    <2>2. Ran(b \o <<AfterIndex, Encode(Len(Tx.outputs))>>)
      BY <1>1, <1>14, <2>1, ItemsPushed, HeaderItemsAre
    <2>3. HeaderAfter(k) = <<AfterIndex, Encode(Len(Tx.outputs))>>
      BY <1>14, HeaderItemsAre DEF HeaderAfter
    <2>4. FitsAfter(k)
      BY <1>14 DEF FitsAfter, HeaderFits
    <2> QED
      BY <2>2, <2>3, <2>4, Zenon
  <1>15. CASE k = 13
    <2>1. OpPush(Encode(1))
      BY <1>15, CodeDecides, HeaderCodes
    <2>2. Ran(b \o <<AfterIndex, Encode(Len(Tx.outputs)), Encode(1)>>)
      BY <1>1, <1>15, <2>1, ItemsPushed, HeaderItemsAre
    <2>3. HeaderAfter(k) = <<AfterIndex, Encode(Len(Tx.outputs)), Encode(1)>>
      BY <1>15, HeaderItemsAre DEF HeaderAfter
    <2>4. FitsAfter(k)
      BY <1>15 DEF FitsAfter, HeaderFits
    <2> QED
      BY <2>2, <2>3, <2>4, Zenon
  <1>16. CASE k = 14
    <2>1. OpCalc("num2bin", 2)
      BY <1>16, CodeDecides, HeaderCodes
    <2>2. failed' \/ (Len(Encode(Len(Tx.outputs))) <= 1 /\ Ran(b \o <<AfterIndex, LittleEndian(Len(Tx.outputs), 1)>>))
      <3>1. main = b \o <<AfterIndex, Encode(Len(Tx.outputs)), Encode(1)>>
        BY <1>1, <1>16, HeaderItemsAre
      <3>2. 1 \in 1..8 /\ Len(Tx.outputs) \in Word
        BY <1>2
      <3>3. \/ failed'
            \/ Len(Encode(Len(Tx.outputs))) <= 1 /\ Ran(b \o <<AfterIndex, LittleEndian(Len(Tx.outputs), 1)>>)
        BY <1>1, <2>1, <3>1, <3>2, ItemsSpread
      <3> QED
        BY <3>3
    <2>3. HeaderAfter(k) = <<AfterIndex, LittleEndian(Len(Tx.outputs), 1)>>
      BY <1>16, HeaderItemsAre DEF HeaderAfter
    <2>4. Len(Encode(Len(Tx.outputs))) <= 1 => FitsAfter(k)
      BY <1>2, <1>16, SmallNumbers DEF FitsAfter, HeaderFits
    <2> QED
      BY <2>2, <2>3, <2>4, Zenon
  <1>17. CASE k = 15
    <2>1. OpCalc("cat", 2)
      BY <1>17, CodeDecides, HeaderCodes
    <2>2. Ran(b \o <<AfterCount>>)
      BY <1>1, <1>17, <2>1, CatRuns, HeaderItemsAre DEF AfterCount
    <2>3. HeaderAfter(k) = <<AfterCount>>
      BY <1>17, HeaderItemsAre DEF HeaderAfter
    <2>4. FitsAfter(k)
      BY <1>17 DEF FitsAfter, HeaderFits
    <2> QED
      BY <2>2, <2>3, <2>4, Zenon
  <1> QED
    BY <1>3, <1>4, <1>5, <1>6, <1>7, <1>8, <1>9, <1>10, <1>11, <1>12, <1>13, <1>14, <1>15, <1>16, <1>17

-----------------------------------------------------------------------------
(* An output, call by call. *)

OutputAfter(o, k) == IF k = 13 THEN <<AfterSpk(Before(o), o)>> ELSE OutputItems(o)[k + 1]

LEMMA OutputItemsAre ==
    ASSUME NEW o
    PROVE
           /\ OutputItems(o)[1] = <<Before(o)>>
           /\ OutputItems(o)[2] = <<Before(o), Encode(o - 1)>>
           /\ OutputItems(o)[3] = <<Before(o), Encode(Tx.outputs[o].amount)>>
           /\ OutputItems(o)[4] = <<Before(o), Encode(Tx.outputs[o].amount), Encode(8)>>
           /\ OutputItems(o)[5] = <<Before(o), LittleEndian(Tx.outputs[o].amount, 8)>>
           /\ OutputItems(o)[6] = <<AfterAmount(Before(o), o)>>
           /\ OutputItems(o)[7] = <<AfterAmount(Before(o), o), Encode(o - 1)>>
           /\ OutputItems(o)[8] = <<AfterAmount(Before(o), o), Encode(Len(Spk(o)))>>
           /\ OutputItems(o)[9] = <<AfterAmount(Before(o), o), Encode(Len(Spk(o))), Encode(2)>>
           /\ OutputItems(o)[10] = <<AfterAmount(Before(o), o), LittleEndian(Len(Spk(o)), 2)>>
           /\ OutputItems(o)[11] = <<AfterLen(Before(o), o)>>
           /\ OutputItems(o)[12] = <<AfterLen(Before(o), o), Encode(o - 1)>>
           /\ OutputItems(o)[13] = <<AfterLen(Before(o), o), Spk(o)>>
  BY Zenon DEF OutputItems

LEMMA OutputCodes ==
    ASSUME NEW o
    PROVE
           /\ OutputCode(o)[1].code = "data" /\ OutputCode(o)[1].bytes = Encode(o - 1)
           /\ OutputCode(o)[2].code = "outputamount"
           /\ OutputCode(o)[3].code = "data" /\ OutputCode(o)[3].bytes = Encode(8)
           /\ OutputCode(o)[4].code = "num2bin"
           /\ OutputCode(o)[5].code = "cat"
           /\ OutputCode(o)[6].code = "data" /\ OutputCode(o)[6].bytes = Encode(o - 1)
           /\ OutputCode(o)[7].code = "outputspklen"
           /\ OutputCode(o)[8].code = "data" /\ OutputCode(o)[8].bytes = Encode(2)
           /\ OutputCode(o)[9].code = "num2bin"
           /\ OutputCode(o)[10].code = "cat"
           /\ OutputCode(o)[11].code = "data" /\ OutputCode(o)[11].bytes = Encode(o - 1)
           /\ OutputCode(o)[12].code = "outputspk"
           /\ OutputCode(o)[13].code = "cat"
           /\ \A k \in 1..13 : OutputCode(o)[k].op = "write"
  BY DEF OutputCode, Writes, Writing

LEMMA OutputFields ==
    ASSUME Tx \in SpendView, NEW o \in 1..2
    PROVE  /\ o - 1 \in Word
           /\ o <= Len(Tx.outputs) <=> o - 1 \in 0 .. Len(Tx.outputs) - 1
           /\ o <= Len(Tx.outputs) =>
                /\ OfOutput(Tx, "outputamount")[(o - 1) + 1] = Encode(Tx.outputs[o].amount)
                /\ OfOutput(Tx, "outputspklen")[(o - 1) + 1] = Encode(Len(Spk(o)))
                /\ OfOutput(Tx, "outputspk")[(o - 1) + 1] = Spk(o)
                /\ Tx.outputs[o].amount \in Word /\ Len(Spk(o)) \in Word
  <1>1. o - 1 \in Word
    BY SmallNumbers
  <1>2. Len(Tx.outputs) \in Nat /\ DOMAIN Tx.outputs = 1..Len(Tx.outputs)
    BY TxFields
  <1>3. o <= Len(Tx.outputs) <=> o - 1 \in 0 .. Len(Tx.outputs) - 1
    BY <1>2
  <1>4. (o - 1) + 1 = o
    OBVIOUS
  <1>5. ASSUME o <= Len(Tx.outputs)
        PROVE  /\ OfOutput(Tx, "outputamount")[(o - 1) + 1] = Encode(Tx.outputs[o].amount)
               /\ OfOutput(Tx, "outputspklen")[(o - 1) + 1] = Encode(Len(Spk(o)))
               /\ OfOutput(Tx, "outputspk")[(o - 1) + 1] = Spk(o)
               /\ Tx.outputs[o].amount \in Word /\ Len(Spk(o)) \in Word
    <2>1. o \in 1..Len(Tx.outputs) /\ o \in DOMAIN Tx.outputs
      BY <1>2, <1>5
    <2>2. Tx.outputs[o].amount \in Word /\ Len(Spk(o)) \in Word
      BY <2>1, WireForm
    <2>3. /\ OfOutput(Tx, "outputamount")[o] = Encode(Tx.outputs[o].amount)
          /\ OfOutput(Tx, "outputspklen")[o] = Encode(Len(Spk(o)))
          /\ OfOutput(Tx, "outputspk")[o] = Spk(o)
      BY <2>1 DEF OfOutput, Spk
    <2> QED
      BY <1>4, <2>2, <2>3
  <1> QED
    BY <1>1, <1>3, <1>5

LEMMA OutputRuns ==
    ASSUME given \in ToSet(Cases), ~skip, NEW o \in 1..2, NEW k \in 1..13,
           RunOpcode(Tx, OutputCode(o)[k]), main = Below0 \o OutputItems(o)[k], OutputFitsAt(o, k)
    PROVE  failed' \/ (Ran(Below0 \o OutputAfter(o, k)) /\ (IF k = 13 THEN OutputFits(o) ELSE OutputFitsAt(o, k + 1)))
  <1> DEFINE b == Below0
             fits == IF k = 13 THEN OutputFits(o) ELSE OutputFitsAt(o, k + 1)
  <1>1. IsSequence(b) /\ main = b \o OutputItems(o)[k]
    BY Below0Is
  <1>2. Tx \in SpendView
    BY GivenTypes
  <1> HIDE DEF b
  <1> SUFFICES failed' \/ (Ran(b \o OutputAfter(o, k)) /\ fits)
    BY DEF b
  <1>3. CASE k = 1
    <2>1. OpPush(Encode(o - 1))
      <3>1. OutputCode(o)[k].code = "data" /\ OutputCode(o)[k].bytes = Encode(o - 1)
        BY <1>3, OutputCodes
      <3> QED
        BY <3>1, CodeDecides
    <2>2. Ran(b \o <<Before(o), Encode(o - 1)>>)
      BY <1>1, <1>3, <2>1, ItemsPushed, OutputItemsAre
    <2>3. OutputAfter(o, k) = <<Before(o), Encode(o - 1)>>
      BY <1>3, OutputItemsAre DEF OutputAfter
    <2>4. fits
      BY <1>3 DEF OutputFitsAt, OutputFits
    <2> HIDE DEF fits
    <2> QED
      BY <2>2, <2>3, <2>4, Zenon
  <1>4. CASE k = 2
    <2>1. OpTxField(Len(Tx.outputs), OfOutput(Tx, "outputamount"))
      BY <1>4, CodeDecides, OutputCodes DEF OfOneOutput
    <2>2. failed' \/ (o <= Len(Tx.outputs) /\ Ran(b \o <<Before(o), Encode(Tx.outputs[o].amount)>>))
      <3>1. main = b \o <<Before(o), Encode(o - 1)>>
        BY <1>1, <1>4, OutputItemsAre
      <3>2. o - 1 \in Word /\ (o <= Len(Tx.outputs) <=> o - 1 \in 0 .. Len(Tx.outputs) - 1)
        BY <1>2, OutputFields
      <3>3. IF o - 1 \in 0 .. Len(Tx.outputs) - 1
            THEN Ran(b \o <<Before(o), OfOutput(Tx, "outputamount")[(o - 1) + 1]>>) ELSE failed'
        BY <1>1, <2>1, <3>1, <3>2, ItemsRead
      <3>4. o <= Len(Tx.outputs) => OfOutput(Tx, "outputamount")[(o - 1) + 1] = Encode(Tx.outputs[o].amount)
        BY <1>2, OutputFields
      <3> QED
        BY <3>2, <3>3, <3>4, Zenon
    <2>3. OutputAfter(o, k) = <<Before(o), Encode(Tx.outputs[o].amount)>>
      BY <1>4, OutputItemsAre DEF OutputAfter
    <2>4. o <= Len(Tx.outputs) => fits
      BY <1>4 DEF OutputFitsAt, OutputFits
    <2> HIDE DEF fits
    <2> QED
      BY <2>2, <2>3, <2>4, Zenon
  <1>5. CASE k = 3
    <2>1. OpPush(Encode(8))
      BY <1>5, CodeDecides, OutputCodes
    <2>2. Ran(b \o <<Before(o), Encode(Tx.outputs[o].amount), Encode(8)>>)
      BY <1>1, <1>5, <2>1, ItemsPushed, OutputItemsAre
    <2>3. OutputAfter(o, k) = <<Before(o), Encode(Tx.outputs[o].amount), Encode(8)>>
      BY <1>5, OutputItemsAre DEF OutputAfter
    <2>4. fits
      BY <1>5 DEF OutputFitsAt, OutputFits
    <2> HIDE DEF fits
    <2> QED
      BY <2>2, <2>3, <2>4, Zenon
  <1>6. CASE k = 4
    <2>1. OpCalc("num2bin", 2)
      BY <1>6, CodeDecides, OutputCodes, SMTT(20)
    <2>2. failed' \/ (Len(Encode(Tx.outputs[o].amount)) <= 8 /\ Ran(b \o <<Before(o), LittleEndian(Tx.outputs[o].amount, 8)>>))
      <3>1. main = b \o <<Before(o), Encode(Tx.outputs[o].amount), Encode(8)>>
        BY <1>1, <1>6, OutputItemsAre
      <3>2. o <= Len(Tx.outputs)
        BY <1>6 DEF OutputFitsAt
      <3>3. 8 \in 1..8 /\ Tx.outputs[o].amount \in Word
        BY <1>2, <3>2, OutputFields
      <3> QED
        BY <1>1, <2>1, <3>1, <3>3, ItemsSpread
    <2>3. OutputAfter(o, k) = <<Before(o), LittleEndian(Tx.outputs[o].amount, 8)>>
      BY <1>6, OutputItemsAre DEF OutputAfter
    <2>4. fits
      BY <1>6 DEF OutputFitsAt, OutputFits
    <2> HIDE DEF fits
    <2> QED
      BY <2>2, <2>3, <2>4, Zenon
  <1>7. CASE k = 5
    <2>1. OpCalc("cat", 2)
      BY <1>7, CodeDecides, OutputCodes
    <2>2. Ran(b \o <<AfterAmount(Before(o), o)>>)
      BY <1>1, <1>7, <2>1, CatRuns, OutputItemsAre DEF AfterAmount
    <2>3. OutputAfter(o, k) = <<AfterAmount(Before(o), o)>>
      BY <1>7, OutputItemsAre DEF OutputAfter
    <2>4. fits
      BY <1>7 DEF OutputFitsAt, OutputFits
    <2> HIDE DEF fits
    <2> QED
      BY <2>2, <2>3, <2>4, Zenon
  <1>8. CASE k = 6
    <2>1. OpPush(Encode(o - 1))
      BY <1>8, CodeDecides, OutputCodes, SMTT(20)
    <2>2. Ran(b \o <<AfterAmount(Before(o), o), Encode(o - 1)>>)
      BY <1>1, <1>8, <2>1, ItemsPushed, OutputItemsAre
    <2>3. OutputAfter(o, k) = <<AfterAmount(Before(o), o), Encode(o - 1)>>
      BY <1>8, OutputItemsAre DEF OutputAfter
    <2>4. fits
      BY <1>8 DEF OutputFitsAt, OutputFits
    <2> HIDE DEF fits
    <2> QED
      BY <2>2, <2>3, <2>4, Zenon
  <1>9. CASE k = 7
    <2>1. OpTxField(Len(Tx.outputs), OfOutput(Tx, "outputspklen"))
      BY <1>9, CodeDecides, OutputCodes DEF OfOneOutput
    <2>2. failed' \/ (o <= Len(Tx.outputs) /\ Ran(b \o <<AfterAmount(Before(o), o), Encode(Len(Spk(o)))>>))
      <3>1. main = b \o <<AfterAmount(Before(o), o), Encode(o - 1)>>
        BY <1>1, <1>9, OutputItemsAre
      <3>2. o - 1 \in Word /\ (o <= Len(Tx.outputs) <=> o - 1 \in 0 .. Len(Tx.outputs) - 1)
        BY <1>2, OutputFields
      <3>3. IF o - 1 \in 0 .. Len(Tx.outputs) - 1
            THEN Ran(b \o <<AfterAmount(Before(o), o), OfOutput(Tx, "outputspklen")[(o - 1) + 1]>>) ELSE failed'
        BY <1>1, <2>1, <3>1, <3>2, ItemsRead
      <3>4. o <= Len(Tx.outputs) => OfOutput(Tx, "outputspklen")[(o - 1) + 1] = Encode(Len(Spk(o)))
        BY <1>2, OutputFields
      <3> QED
        BY <3>2, <3>3, <3>4, Zenon
    <2>3. OutputAfter(o, k) = <<AfterAmount(Before(o), o), Encode(Len(Spk(o)))>>
      BY <1>9, OutputItemsAre DEF OutputAfter
    <2>4. fits
      BY <1>9 DEF OutputFitsAt, OutputFits
    <2> HIDE DEF fits
    <2> QED
      BY <2>2, <2>3, <2>4, Zenon
  <1>10. CASE k = 8
    <2>1. OpPush(Encode(2))
      BY <1>10, CodeDecides, OutputCodes
    <2>2. Ran(b \o <<AfterAmount(Before(o), o), Encode(Len(Spk(o))), Encode(2)>>)
      BY <1>1, <1>10, <2>1, ItemsPushed, OutputItemsAre
    <2>3. OutputAfter(o, k) = <<AfterAmount(Before(o), o), Encode(Len(Spk(o))), Encode(2)>>
      BY <1>10, OutputItemsAre DEF OutputAfter
    <2>4. fits
      BY <1>10 DEF OutputFitsAt, OutputFits
    <2> HIDE DEF fits
    <2> QED
      BY <2>2, <2>3, <2>4, Zenon
  <1>11. CASE k = 9
    <2>1. OpCalc("num2bin", 2)
      BY <1>11, CodeDecides, OutputCodes, SMTT(20)
    <2>2. failed' \/ (Len(Encode(Len(Spk(o)))) <= 2 /\ Ran(b \o <<AfterAmount(Before(o), o), LittleEndian(Len(Spk(o)), 2)>>))
      <3>1. main = b \o <<AfterAmount(Before(o), o), Encode(Len(Spk(o))), Encode(2)>>
        BY <1>1, <1>11, OutputItemsAre
      <3>2. o <= Len(Tx.outputs)
        BY <1>11 DEF OutputFitsAt
      <3>3. 2 \in 1..8 /\ Len(Spk(o)) \in Word
        BY <1>2, <3>2, OutputFields
      <3> QED
        BY <1>1, <2>1, <3>1, <3>3, ItemsSpread
    <2>3. OutputAfter(o, k) = <<AfterAmount(Before(o), o), LittleEndian(Len(Spk(o)), 2)>>
      BY <1>11, OutputItemsAre DEF OutputAfter
    <2>4. Len(Encode(Len(Spk(o)))) <= 2 => fits
      <3>1. o <= Len(Tx.outputs)
        BY <1>11 DEF OutputFitsAt
      <3>2. Len(Spk(o)) \in Word
        BY <1>2, <3>1, OutputFields
      <3> QED
        BY <1>11, <3>1, <3>2, SmallNumbers DEF OutputFitsAt, OutputFits
    <2> HIDE DEF fits
    <2> QED
      BY <2>2, <2>3, <2>4, Zenon
  <1>12. CASE k = 10
    <2>1. OpCalc("cat", 2)
      BY <1>12, CodeDecides, OutputCodes
    <2>2. Ran(b \o <<AfterLen(Before(o), o)>>)
      BY <1>1, <1>12, <2>1, CatRuns, OutputItemsAre DEF AfterLen
    <2>3. OutputAfter(o, k) = <<AfterLen(Before(o), o)>>
      BY <1>12, OutputItemsAre DEF OutputAfter
    <2>4. fits
      BY <1>12 DEF OutputFitsAt, OutputFits
    <2> HIDE DEF fits
    <2> QED
      BY <2>2, <2>3, <2>4, Zenon
  <1>13. CASE k = 11
    <2>1. OpPush(Encode(o - 1))
      BY <1>13, CodeDecides, OutputCodes
    <2>2. Ran(b \o <<AfterLen(Before(o), o), Encode(o - 1)>>)
      BY <1>1, <1>13, <2>1, ItemsPushed, OutputItemsAre
    <2>3. OutputAfter(o, k) = <<AfterLen(Before(o), o), Encode(o - 1)>>
      BY <1>13, OutputItemsAre DEF OutputAfter
    <2>4. fits
      BY <1>13 DEF OutputFitsAt, OutputFits
    <2> HIDE DEF fits
    <2> QED
      BY <2>2, <2>3, <2>4, Zenon
  <1>14. CASE k = 12
    <2>1. OpTxField(Len(Tx.outputs), OfOutput(Tx, "outputspk"))
      BY <1>14, CodeDecides, OutputCodes DEF OfOneOutput
    <2>2. failed' \/ (o <= Len(Tx.outputs) /\ Ran(b \o <<AfterLen(Before(o), o), Spk(o)>>))
      <3>1. main = b \o <<AfterLen(Before(o), o), Encode(o - 1)>>
        BY <1>1, <1>14, OutputItemsAre
      <3>2. o - 1 \in Word /\ (o <= Len(Tx.outputs) <=> o - 1 \in 0 .. Len(Tx.outputs) - 1)
        BY <1>2, OutputFields
      <3>3. IF o - 1 \in 0 .. Len(Tx.outputs) - 1
            THEN Ran(b \o <<AfterLen(Before(o), o), OfOutput(Tx, "outputspk")[(o - 1) + 1]>>) ELSE failed'
        BY <1>1, <2>1, <3>1, <3>2, ItemsRead
      <3>4. o <= Len(Tx.outputs) => OfOutput(Tx, "outputspk")[(o - 1) + 1] = Spk(o)
        BY <1>2, OutputFields
      <3> QED
        BY <3>2, <3>3, <3>4, Zenon
    <2>3. OutputAfter(o, k) = <<AfterLen(Before(o), o), Spk(o)>>
      BY <1>14, OutputItemsAre DEF OutputAfter
    <2>4. fits
      BY <1>14 DEF OutputFitsAt, OutputFits
    <2> HIDE DEF fits
    <2> QED
      BY <2>2, <2>3, <2>4, Zenon
  <1>15. CASE k = 13
    <2>1. OpCalc("cat", 2)
      BY <1>15, CodeDecides, OutputCodes
    <2>2. Ran(b \o <<AfterSpk(Before(o), o)>>)
      BY <1>1, <1>15, <2>1, CatRuns, OutputItemsAre DEF AfterSpk
    <2>3. OutputAfter(o, k) = <<AfterSpk(Before(o), o)>>
      BY <1>15, OutputItemsAre DEF OutputAfter
    <2>4. fits
      BY <1>15 DEF OutputFitsAt, OutputFits
    <2> HIDE DEF fits
    <2> QED
      BY <2>2, <2>3, <2>4, Zenon
  <1> QED
    BY <1>3, <1>4, <1>5, <1>6, <1>7, <1>8, <1>9, <1>10, <1>11, <1>12, <1>13, <1>14, <1>15

-----------------------------------------------------------------------------
(* What is computed from the case alone stays. *)

LEMMA Kept ==
    ASSUME given' = given
    PROVE  /\ Tx' = Tx /\ IsSlh' = IsSlh /\ Below0' = Below0 /\ Queue' = Queue /\ Witness' = Witness
           /\ HeaderCode' = HeaderCode /\ HeaderItems' = HeaderItems /\ AfterHeader' = AfterHeader
           /\ AfterCount' = AfterCount /\ Gathered' = Gathered /\ Verify' = Verify
           /\ \A o : Spk(o)' = Spk(o) /\ Before(o)' = Before(o)
           /\ \A o : OutputItems(o)' = OutputItems(o) /\ AfterOutput(o)' = AfterOutput(o)
           /\ \A o : OutputCode(o)' = OutputCode(o)
           /\ \A k : HeaderFits(k)' = HeaderFits(k) /\ Queued(k)' = Queued(k)
           /\ \A o : OutputFits(o)' = OutputFits(o)
           /\ \A o, k : OutputFitsAt(o, k)' = OutputFitsAt(o, k)
  <1>1. Tx' = Tx /\ IsSlh' = IsSlh
    BY DEF Tx, IsSlh
  <1>2. Witness' = Witness
    BY <1>1 DEF Witness
  <1>3. Below0' = Below0
    BY <1>1, <1>2 DEF Below0
  <1>4. \A k : Queued(k)' = Queued(k)
    BY <1>2, Zenon DEF Queued
  <1>5. Queue' = Queue
    BY <1>1, <1>2, <1>4 DEF Queue
  <1>6. Verify' = Verify
    BY <1>1 DEF Verify
  <1>7. HeaderCode' = HeaderCode /\ \A o : OutputCode(o)' = OutputCode(o)
    OBVIOUS
  <1>8. \A o : AfterOutput(o)' = AfterOutput(o)
    BY <1>6 DEF AfterOutput
  <1>9. AfterHeader' = AfterHeader
    BY <1>8 DEF AfterHeader
  <1>10. \A o : Spk(o)' = Spk(o)
    BY <1>1 DEF Spk
  <1>11. AfterVersion' = AfterVersion
    BY <1>1 DEF AfterVersion
  <1>12. AfterTxid' = AfterTxid
    BY <1>1, <1>11 DEF AfterTxid
  <1>13. AfterIndex' = AfterIndex
    BY <1>1, <1>12 DEF AfterIndex
  <1>14. AfterCount' = AfterCount
    BY <1>1, <1>13 DEF AfterCount
  <1>15. HeaderItems' = HeaderItems
    BY <1>1, <1>11, <1>12, <1>13, Zenon DEF HeaderItems
  <1>16. \A o : Before(o)' = Before(o)
    BY <1>1, <1>10, <1>14, Zenon DEF Before, AfterSpk, AfterLen, AfterAmount
  <1>17. Gathered' = Gathered
    BY <1>1, <1>10, <1>16, Zenon DEF Gathered, AfterSpk, AfterLen, AfterAmount
  <1>18. \A o : OutputItems(o)' = OutputItems(o)
    BY <1>1, <1>10, <1>16, Zenon DEF OutputItems, AfterLen, AfterAmount
  <1>19. \A o : OutputFits(o)' = OutputFits(o)
    BY <1>1, <1>10 DEF OutputFits
  <1>20. \A k : HeaderFits(k)' = HeaderFits(k)
    BY <1>1 DEF HeaderFits
  <1>21. \A o, k : OutputFitsAt(o, k)' = OutputFitsAt(o, k)
    BY <1>1, <1>19 DEF OutputFitsAt
  <1> QED
    BY <1>1, <1>2, <1>3, <1>4, <1>5, <1>6, <1>7, <1>8, <1>9, <1>10, <1>14, <1>15, <1>16, <1>17, <1>18,
       <1>19, <1>20, <1>21, Zenon

-----------------------------------------------------------------------------
(* The steps up to the digest. *)

LEMMA WhatFollows ==
    ASSUME given \in ToSet(Cases)
    PROVE  /\ IsSequence(AfterHeader) /\ AfterHeader # <<>>
           /\ AfterHeader = Left(OutputCode(1), 1, AfterOutput(1))
           /\ IsSequence(AfterOutput(1)) /\ AfterOutput(1) # <<>>
           /\ AfterOutput(1) = Left(OutputCode(2), 1, AfterOutput(2))
           /\ IsSequence(AfterOutput(2)) /\ AfterOutput(2) # <<>>
           /\ AfterOutput(2) = <<Writing("sha256")>> \o Verify
  <1>1. AfterOutput(2) = <<Writing("sha256")>> \o Verify
    BY OneCall, SMTT(20) DEF AfterOutput
  <1>2. IsSequence(AfterOutput(2)) /\ AfterOutput(2) # <<>>
    BY <1>1, VerifyIs, CallFirst
  <1>3. ASSUME NEW o PROVE IsSequence(OutputCode(o)) /\ Len(OutputCode(o)) = 13 /\ 1 \in 1..Len(OutputCode(o))
    BY OutputIs
  <1>4. AfterOutput(1) = OutputCode(2) \o AfterOutput(2)
    BY DEF AfterOutput
  <1>5. /\ IsSequence(AfterOutput(1)) /\ AfterOutput(1) # <<>>
        /\ AfterOutput(1) = Left(OutputCode(2), 1, AfterOutput(2))
    <2>1. /\ IsSequence(Left(OutputCode(2), 1, AfterOutput(2))) /\ Left(OutputCode(2), 1, AfterOutput(2)) # <<>>
          /\ Left(OutputCode(2), 1, AfterOutput(2)) = OutputCode(2) \o AfterOutput(2)
      BY <1>2, <1>3, LeftNext
    <2> QED
      BY <1>4, <2>1
  <1>6. AfterHeader = OutputCode(1) \o AfterOutput(1)
    BY DEF AfterHeader
  <1>7. /\ IsSequence(AfterHeader) /\ AfterHeader # <<>>
        /\ AfterHeader = Left(OutputCode(1), 1, AfterOutput(1))
    <2>1. /\ IsSequence(Left(OutputCode(1), 1, AfterOutput(1))) /\ Left(OutputCode(1), 1, AfterOutput(1)) # <<>>
          /\ Left(OutputCode(1), 1, AfterOutput(1)) = OutputCode(1) \o AfterOutput(1)
      BY <1>3, <1>5, LeftNext, SMTT(20)
    <2> QED
      BY <1>6, <2>1
  <1> QED
    BY <1>1, <1>2, <1>5, <1>7

\* One call out of a piece of code.
LEMMA CodeStep ==
    ASSUME NEW code, NEW after, IsSequence(code), IsSequence(after), NEW k \in 1..Len(code),
           todo = Left(code, k, after), code[k].op = "write", Next, ~failed
    PROVE  /\ RunOpcode(Tx, code[k]) /\ todo' = Left(code, k + 1, after)
           /\ given' = given /\ UNCHANGED <<frame, pending, next, peak>>
  <1>1. /\ IsSequence(todo) /\ todo # <<>> /\ Head(todo) = code[k]
        /\ Tail(todo) = Left(code, k + 1, after)
    <2>1. FirstThen(Left(code, k, after), code[k], Left(code, k + 1, after))
      BY LeftNext
    <2> QED
      BY <2>1, Zenon DEF FirstThen
  <1>2. /\ RunOpcode(given.tx, Head(todo)) /\ todo' = Tail(todo) /\ given' = given
        /\ UNCHANGED <<frame, pending, next, peak>>
    BY <1>1, WriteNext
  <1> QED
    BY <1>1, <1>2 DEF Tx

LEMMA StillFresh ==
    ASSUME Fresh, alt = Queue, given' = given, UNCHANGED <<frame, pending, next, peak>>, NEW m, Ran(m)
    PROVE  Fresh' /\ (alt = Queue)' /\ main' = m
  BY Kept DEF Fresh, Ran

LEMMA HeaderStep ==
    ASSUME given \in ToSet(Cases), Next, Fresh, alt = Queue, NEW k \in 1..15, AtHeader(k)
    PROVE  given' = given /\ next' = next /\ (Stopped' \/ Digesting')
  <1>1. IsSequence(HeaderCode) /\ Len(HeaderCode) = 15 /\ IsSequence(AfterHeader) /\ AfterHeader # <<>>
    BY HeaderIs, WhatFollows
  <1>2. todo = Left(HeaderCode, k, AfterHeader) /\ main = Below0 \o HeaderItems[k] /\ HeaderFits(k)
    BY DEF AtHeader
  <1>3. /\ RunOpcode(Tx, HeaderCode[k]) /\ todo' = Left(HeaderCode, k + 1, AfterHeader)
        /\ given' = given /\ UNCHANGED <<frame, pending, next, peak>>
    BY <1>1, <1>2, CodeStep, HeaderCodes DEF Fresh
  <1>4. failed' \/ (Ran(Below0 \o HeaderAfter(k)) /\ FitsAfter(k))
    BY <1>2, <1>3, HeaderRuns DEF Fresh
  <1> DEFINE rest == Left(HeaderCode, k + 1, AfterHeader)
  <1>10. k = 15 => rest = AfterHeader
    <2>1. 1 \in 1..Len(HeaderCode)
      BY <1>1
    <2>2. Left(HeaderCode, Len(HeaderCode) + 1, AfterHeader) = AfterHeader
      BY <1>1, <2>1, LeftNext
    <2> QED
      BY <1>1, <2>2
  <1>5. todo' # <<>>
    <2>1. CASE k = 15
      BY <1>1, <1>3, <1>10, <2>1
    <2>2. CASE k # 15
      <3>1. k + 1 \in 1..Len(HeaderCode)
        BY <1>1, <2>2
      <3> QED
        BY <1>1, <1>3, <3>1, LeftNext
    <2> QED
      BY <2>1, <2>2
  <1>6. CASE failed'
    BY <1>3, <1>5, <1>6 DEF Stopped
  <1>7. CASE Ran(Below0 \o HeaderAfter(k)) /\ FitsAfter(k)
    <2>1. Fresh' /\ (alt = Queue)' /\ main' = Below0 \o HeaderAfter(k)
      BY <1>3, <1>7, StillFresh
    <2>2. CASE k # 15
      <3>1. k + 1 \in 1..15 /\ HeaderAfter(k) = HeaderItems[k + 1] /\ HeaderFits(k + 1)
        BY <1>7, <2>2 DEF HeaderAfter, FitsAfter
      <3>2. (todo = Left(HeaderCode, k + 1, AfterHeader))'
        BY <1>3, Kept DEF Left
      <3>3. (main = Below0 \o HeaderItems[k + 1])'
        BY <1>3, <2>1, <3>1, Kept
      <3>4. AtHeader(k + 1)'
        BY <1>3, <3>1, <3>2, <3>3, Kept DEF AtHeader
      <3> QED
        BY <1>3, <2>1, <3>1, <3>4 DEF Digesting
    <2>3. CASE k = 15
      <3>1. main' = Below0 \o OutputItems(1)[1] /\ HeaderFits(15)
        BY <1>7, <2>1, <2>3, OutputItemsAre DEF HeaderAfter, FitsAfter, Before
      <3>2. todo' = Left(OutputCode(1), 1, AfterOutput(1))
        BY <1>3, <1>10, <2>3, WhatFollows
      <3>3. (todo = Left(OutputCode(1), 1, AfterOutput(1)))'
        BY <1>3, <3>2, Kept DEF Left
      <3>4. (main = Below0 \o OutputItems(1)[1])'
        BY <1>3, <3>1, Kept
      <3>5. OutputFitsAt(1, 1)
        BY DEF OutputFitsAt
      <3>6. AtOutput(1, 1)'
        BY <1>3, <3>1, <3>3, <3>4, <3>5, Kept DEF AtOutput
      <3>7. 1 \in 1..2 /\ 1 \in 1..13
        OBVIOUS
      <3> QED
        BY <1>3, <2>1, <3>6, <3>7 DEF Digesting
    <2> QED
      BY <2>2, <2>3
  <1> QED
    BY <1>4, <1>6, <1>7

LEMMA OutputStep ==
    ASSUME given \in ToSet(Cases), Next, Fresh, alt = Queue, NEW o \in 1..2, NEW k \in 1..13, AtOutput(o, k)
    PROVE  given' = given /\ next' = next /\ (Stopped' \/ Digesting')
  <1> DEFINE code == OutputCode(o)
             after == AfterOutput(o)
             rest == Left(code, k + 1, after)
  <1>1. IsSequence(code) /\ Len(code) = 13 /\ IsSequence(after) /\ after # <<>>
    <2>1. o = 1 \/ o = 2
      OBVIOUS
    <2> QED
      BY <2>1, OutputIs, WhatFollows
  <1>2. /\ todo = Left(code, k, after) /\ main = Below0 \o OutputItems(o)[k]
        /\ HeaderFits(15) /\ (o = 2 => OutputFits(1)) /\ OutputFitsAt(o, k)
    BY DEF AtOutput
  <1>3. code[k].op = "write"
    BY OutputCodes
  <1>4. k = 13 => rest = after
    <2> HIDE DEF code, after
    <2>1. 1 \in 1..Len(code)
      BY <1>1
    <2>2. Left(code, Len(code) + 1, after) = after
      BY <1>1, <2>1, LeftNext
    <2> QED
      BY <1>1, <2>2 DEF rest
  <1>5. /\ RunOpcode(Tx, code[k]) /\ todo' = rest
        /\ given' = given /\ UNCHANGED <<frame, pending, next, peak>>
    <2> HIDE DEF code, after
    <2> QED
      BY <1>1, <1>2, <1>3, CodeStep DEF Fresh, rest
  <1>6. \/ failed'
        \/ Ran(Below0 \o OutputAfter(o, k)) /\ (IF k = 13 THEN OutputFits(o) ELSE OutputFitsAt(o, k + 1))
    BY <1>2, <1>5, OutputRuns DEF Fresh
  <1>7. todo' # <<>>
    <2> HIDE DEF code, after
    <2>1. CASE k = 13
      <3> HIDE DEF rest
      <3> QED
        BY <1>1, <1>4, <1>5, <2>1
    <2>2. CASE k # 13
      <3>1. k + 1 \in 1..Len(code)
        BY <1>1, <2>2
      <3>2. rest # <<>>
        BY <1>1, <3>1, LeftNext DEF rest
      <3> HIDE DEF rest
      <3> QED
        BY <1>5, <3>2
    <2> QED
      BY <2>1, <2>2
  <1>8. CASE failed'
    BY <1>5, <1>7, <1>8 DEF Stopped
  <1>9. CASE Ran(Below0 \o OutputAfter(o, k)) /\ (IF k = 13 THEN OutputFits(o) ELSE OutputFitsAt(o, k + 1))
    <2>1. Fresh' /\ (alt = Queue)' /\ main' = Below0 \o OutputAfter(o, k)
      BY <1>5, <1>9, StillFresh
    <2>2. CASE k # 13
      <3>1. k + 1 \in 1..13 /\ OutputAfter(o, k) = OutputItems(o)[k + 1] /\ OutputFitsAt(o, k + 1)
        BY <1>9, <2>2 DEF OutputAfter
      <3>2. (todo = Left(OutputCode(o), k + 1, AfterOutput(o)))'
        BY <1>5, Kept DEF Left
      <3>3. (main = Below0 \o OutputItems(o)[k + 1])'
        BY <1>5, <2>1, <3>1, Kept
      <3>4. AtOutput(o, k + 1)'
        BY <1>2, <1>5, <3>1, <3>2, <3>3, Kept DEF AtOutput
      <3> QED
        BY <1>5, <2>1, <3>1, <3>4 DEF Digesting
    <2>3. CASE k = 13 /\ o = 1
      <3>1. main' = Below0 \o OutputItems(2)[1] /\ OutputFits(1) /\ HeaderFits(15)
        <4>1. OutputAfter(1, 13) = <<AfterSpk(AfterCount, 1)>>
          BY DEF OutputAfter, Before
        <4>2. OutputItems(2)[1] = <<AfterSpk(AfterCount, 1)>>
          BY OutputItemsAre DEF Before
        <4> QED
          BY <1>2, <1>9, <2>1, <2>3, <4>1, <4>2
      <3>2. todo' = Left(OutputCode(2), 1, AfterOutput(2))
        BY <1>4, <1>5, <2>3, WhatFollows
      <3>3. (todo = Left(OutputCode(2), 1, AfterOutput(2)))'
        BY <1>5, <3>2, Kept DEF Left
      <3>4. (main = Below0 \o OutputItems(2)[1])'
        BY <1>5, <3>1, Kept
      <3>5. OutputFitsAt(2, 1)
        BY DEF OutputFitsAt
      <3>6. AtOutput(2, 1)'
        BY <1>5, <3>1, <3>3, <3>4, <3>5, Kept DEF AtOutput
      <3>7. 2 \in 1..2 /\ 1 \in 1..13
        OBVIOUS
      <3> QED
        BY <1>5, <2>1, <3>6, <3>7 DEF Digesting
    <2>4. CASE k = 13 /\ o = 2
      <3>1. main' = Below0 \o <<Gathered>> /\ OutputFits(1) /\ OutputFits(2) /\ HeaderFits(15)
        BY <1>2, <1>9, <2>1, <2>4 DEF OutputAfter, Gathered
      <3>2. todo' = AfterOutput(2)
        BY <1>4, <1>5, <2>4
      <3>3. AtDigest'
        BY <1>5, <3>1, <3>2, Kept DEF AtDigest
      <3> QED
        BY <1>5, <2>1, <3>3 DEF Digesting
    <2>5. o = 1 \/ o = 2
      OBVIOUS
    <2> QED
      BY <2>2, <2>3, <2>4, <2>5
  <1> QED
    BY <1>5, <1>6, <1>8, <1>9

LEMMA DigestStep ==
    ASSUME given \in ToSet(Cases), Next, Fresh, alt = Queue, AtDigest
    PROVE  given' = given /\ next' = next /\ Digesting'
  <1>1. todo = <<Writing("sha256")>> \o Verify /\ main = Below0 \o <<Gathered>>
    BY WhatFollows DEF AtDigest
  <1>2. IsSequence(Verify) /\ IsSequence(Below0)
    BY VerifyIs, Below0Is
  <1> DEFINE c == Writing("sha256")
  <1>3. c.op = "write" /\ c.code = "sha256"
    BY DEF Writing, Writes
  <1>4. IsSequence(todo) /\ todo # <<>> /\ Head(todo) = c /\ Tail(todo) = Verify
    <2> HIDE DEF c
    <2>1. /\ IsSequence(<<c>> \o Verify) /\ <<c>> \o Verify # <<>>
          /\ Head(<<c>> \o Verify) = c /\ Tail(<<c>> \o Verify) = Verify
      BY <1>2, CallFirst
    <2> QED
      BY <1>1, <2>1, Zenon DEF c
  <1> HIDE DEF c
  <1>5. /\ RunOpcode(given.tx, c) /\ todo' = Verify /\ given' = given
        /\ UNCHANGED <<frame, pending, next, peak>>
    BY <1>3, <1>4, WriteNext DEF Fresh
  <1>6. OpCalc("sha256", 1)
    BY <1>3, <1>5, CodeDecides
  <1>7. Ran(Below0 \o <<Sha256(Gathered)>>)
    BY <1>1, <1>2, <1>6, ShaRuns DEF Fresh
  <1>8. Fresh' /\ (alt = Queue)' /\ main' = Below0 \o <<Sha256(Gathered)>>
    BY <1>5, <1>7, StillFresh
  <1>9. AtVerify'
    BY <1>5, <1>8, Kept DEF AtVerify, AtDigest
  <1> QED
    BY <1>5, <1>8, <1>9 DEF Digesting

-----------------------------------------------------------------------------
(* The prologue. *)

LEMMA QueueNext ==
    ASSUME Next, ~failed, IsSequence(todo), todo # <<>>, Head(todo).op = "queue"
    PROVE  /\ OpToAltStack /\ todo' = Tail(todo) /\ given' = given
           /\ UNCHANGED <<frame, pending, next, peak>>
  <1>1. QueueBlob
    BY ActionOf DEF Current
  <1>2. Expand(<<>>) /\ OpToAltStack /\ UNCHANGED <<frame, pending, next, peak>>
    BY <1>1 DEF QueueBlob, Advance
  <1> QED
    BY <1>2, CallMade

LEMMA NextMove ==
    ASSUME NEW n \in Nat \ {0}, NEW r, IsSequence(r)
    PROVE  FirstThen(Moves(n) \o r, [op |-> "queue"], Moves(n - 1) \o r)
  <1> DEFINE q == [op |-> "queue"]
             s == Moves(n)
             t == Moves(n - 1)
  <1>1. n - 1 \in Nat /\ n \in Nat
    OBVIOUS
  <1>2. s = [b \in 1..n |-> q] /\ t = [b \in 1 .. n - 1 |-> q]
    BY Zenon DEF Moves
  <1> HIDE DEF s, t, q
  <1>3. s \in Seq({q}) /\ Len(s) = n /\ t \in Seq({q}) /\ Len(t) = n - 1
    BY <1>1, <1>2
  <1>4. <<q>> \in Seq({q}) /\ Len(<<q>>) = 1 /\ <<q>>[1] = q
    OBVIOUS
  <1>5. IsSequence(t)
    BY <1>3, SequenceIs
  <1>6. <<q>> \o t = s
    <2> DEFINE u == <<q>> \o t
    <2>1. /\ u \in Seq({q}) /\ Len(u) = 1 + (n - 1)
          /\ \A i \in 1 .. 1 + (n - 1) : u[i] = IF i <= 1 THEN <<q>>[i] ELSE t[i - 1]
      BY <1>3, <1>4, ConcatProperties
    <2> HIDE DEF u
    <2>2. Len(u) = n
      BY <1>1, <2>1
    <2>3. \A i \in 1..n : u[i] = q /\ s[i] = q
      BY <1>2, <1>3, <2>1, <2>2, ElementOfSeq
    <2>4. u = s
      BY <1>3, <2>1, <2>2, <2>3, SeqEqual
    <2> QED
      BY <2>4 DEF u
  <1>7. s \o r = <<q>> \o (t \o r)
    <2>1. (<<q>> \o t) \o r = <<q>> \o (t \o r)
      BY <1>5, SequenceOne, SequenceAssoc
    <2> QED
      BY <1>6, <2>1, Zenon
  <1>8. IsSequence(t \o r)
    BY <1>5, SequenceConcat
  <1> DEFINE x == t \o r
  <1>9. FirstThen(<<q>> \o x, q, x)
    <2> HIDE DEF x
    <2>1. IsSequence(x)
      BY <1>8 DEF x
    <2> QED
      BY <2>1, CallFirst DEF FirstThen
  <1> QED
    BY <1>7, <1>9, Zenon DEF s, t, q

\* One more blob in the queue.
LEMMA OneMoreQueued ==
    ASSUME IsSequence(Witness), NEW k \in 0 .. Len(Witness) - 1
    PROVE  Append(Queued(k), Witness[Len(Witness) - k]) = Queued(k + 1)
  <1> DEFINE X == Range(Witness)
             L == Len(Witness)
  <1>1. L \in Nat /\ \A i \in 1..L : Witness[i] \in X
    BY LenProperties, ElementOfSeq DEF IsSequence
  <1>2. Queued(k) = [b \in 1..k |-> Witness[L + 1 - b]] /\ Queued(k + 1) = [b \in 1 .. k + 1 |-> Witness[L + 1 - b]]
    BY DEF Queued
  <1> HIDE DEF X
  <1>3. \A b \in 1 .. k + 1 : L + 1 - b \in 1..L
    BY <1>1
  <1>4. Queued(k) \in Seq(X) /\ Len(Queued(k)) = k /\ Queued(k + 1) \in Seq(X) /\ Len(Queued(k + 1)) = k + 1
    <2>1. \A b \in 1 .. k + 1 : Witness[L + 1 - b] \in X
      BY <1>1, <1>3
    <2>2. k \in Nat /\ k + 1 \in Nat /\ 1..k \subseteq 1 .. k + 1
      BY <1>1
    <2> HIDE DEF L
    <2> QED
      BY <1>2, <2>1, <2>2
  <1> DEFINE x == Witness[L - k]
  <1>5. x \in X /\ Queued(k + 1)[k + 1] = x
    <2>1. L - k \in 1..L /\ k + 1 \in 1 .. k + 1 /\ L + 1 - (k + 1) = L - k
      BY <1>1
    <2> QED
      BY <1>1, <1>2, <2>1
  <1>6. \A b \in 1..k : Queued(k + 1)[b] = Queued(k)[b]
    BY <1>2
  <1> HIDE DEF x
  <1>7. /\ Append(Queued(k), x) \in Seq(X) /\ Len(Append(Queued(k), x)) = k + 1
        /\ Append(Queued(k), x)[k + 1] = x
        /\ \A b \in 1..k : Append(Queued(k), x)[b] = Queued(k)[b]
    BY <1>4, <1>5, AppendProperties
  <1>8. \A b \in 1 .. k + 1 : Append(Queued(k), x)[b] = Queued(k + 1)[b]
    <2>1. \A b \in 1 .. k + 1 : b \in 1..k \/ b = k + 1
      OBVIOUS
    <2> QED
      BY <1>5, <1>6, <1>7, <2>1
  <1> QED
    BY <1>4, <1>7, <1>8, SeqEqual DEF x

LEMMA QueueStep ==
    ASSUME given \in ToSet(Cases), Next, Queueing
    PROVE  given' = given /\ next' = next /\ (Queueing' \/ Digesting')
  <1> DEFINE L == Len(Witness)
             r == HeaderCode \o AfterHeader
  <1>1. PICK k \in 0 .. L - 1 :
          todo = Moves(L - k) \o r /\ main = SubSeq(Witness, 1, L - k) /\ alt = Queued(k)
    BY DEF Queueing
  <1>2. IsSlh /\ Fresh
    BY DEF Queueing
  <1>3. IsSequence(Witness) /\ L \in Nat /\ L >= 1
    BY <1>2, WitnessIs
  <1>4. IsSequence(HeaderCode) /\ Len(HeaderCode) = 15 /\ IsSequence(AfterHeader)
    BY HeaderIs, WhatFollows
  <1>5. IsSequence(r)
    BY <1>4, SequenceConcat
  <1> HIDE DEF r
  <1>6. L - k \in Nat \ {0} /\ L - k \in 1..L
    BY <1>3
  <1>7. FirstThen(todo, [op |-> "queue"], Moves(L - k - 1) \o r)
    BY <1>1, <1>5, <1>6, NextMove
  <1>8. /\ OpToAltStack /\ todo' = Moves(L - k - 1) \o r /\ given' = given
        /\ UNCHANGED <<frame, pending, next, peak>>
    <2>1. IsSequence(todo) /\ todo # <<>> /\ Head(todo) = [op |-> "queue"] /\ Tail(todo) = Moves(L - k - 1) \o r
      BY <1>7, Zenon DEF FirstThen
    <2>2. Head(todo).op = "queue"
      BY <2>1
    <2> QED
      BY <1>2, <2>1, <2>2, QueueNext DEF Fresh
  <1>9. /\ Depth = L - k /\ Top = Witness[L - k] /\ Below(1) = SubSeq(Witness, 1, L - k - 1)
    <2> DEFINE n == L - k
    <2>1. n \in Nat \ {0} /\ n \in 1..L /\ L = Len(Witness)
      BY <1>6
    <2>2. Witness \in Seq(Range(Witness))
      BY <1>3 DEF IsSequence
    <2> HIDE DEF n, L
    <2>3. \A i \in 1..n : Witness[i] \in Range(Witness)
      BY <1>3, <2>1, <2>2, ElementOfSeq
    <2>4. /\ SubSeq(Witness, 1, n) \in Seq(Range(Witness)) /\ Len(SubSeq(Witness, 1, n)) = n
          /\ \A i \in 1..n : SubSeq(Witness, 1, n)[i] = Witness[i]
      BY <2>1, <2>3, SubSeqProperties
    <2>5. main = SubSeq(Witness, 1, n)
      BY <1>1 DEF n
    <2>6. Depth = n /\ Top = Witness[n]
      BY <2>1, <2>4, <2>5 DEF Depth, Top
    <2> DEFINE s == SubSeq(Witness, 1, n)
               u == SubSeq(s, 1, n - 1)
               v == SubSeq(Witness, 1, n - 1)
    <2>7. n - 1 \in Nat /\ n - 1 < n
      BY <2>1
    <2>8. v \in Seq(Range(Witness)) /\ Len(v) = n - 1 /\ \A i \in 1 .. n - 1 : v[i] = Witness[i]
      <3>1. \A i \in 1 .. n - 1 : Witness[i] \in Range(Witness)
        <4>1. \A i \in 1 .. n - 1 : i \in 1..n
          BY <2>1
        <4> QED
          BY <2>3, <4>1, Zenon
      <3> DEFINE e == n - 1
      <3>3. e \in Nat /\ \A i \in 1..e : Witness[i] \in Range(Witness)
        BY <2>7, <3>1
      <3> HIDE DEF e
      <3>4. /\ SubSeq(Witness, 1, e) \in Seq(Range(Witness)) /\ Len(SubSeq(Witness, 1, e)) = e
            /\ \A i \in 1..e : SubSeq(Witness, 1, e)[i] = Witness[i]
        BY <3>3, SubSeqProperties
      <3> QED
        BY <3>4 DEF e
    <2>9. s \in Seq(Range(Witness)) /\ Len(s) = n /\ \A i \in 1..n : s[i] = Witness[i]
      BY <2>4
    <2> HIDE DEF s
    <2>10. \A i \in 1 .. n - 1 : s[i] \in Range(Witness) /\ s[i] = Witness[i]
      BY <2>3, <2>7, <2>9
    <2>11. u \in Seq(Range(Witness)) /\ Len(u) = n - 1 /\ \A i \in 1 .. n - 1 : u[i] = s[i]
      BY <2>7, <2>10, SubSeqProperties
    <2> HIDE DEF u, v
    <2>12. u = v
      BY <2>8, <2>10, <2>11, SeqEqual
    <2>13. Below(1) = u
      BY <2>5, <2>6 DEF Below, u, s
    <2> QED
      BY <2>6, <2>12, <2>13 DEF n, v
  <1>10. /\ main' = SubSeq(Witness, 1, L - k - 1) /\ alt' = Queued(k + 1) /\ ~failed' /\ ~skip'
    <2>1. Depth >= 1
      BY <1>6, <1>9
    <2>2. Append(Queued(k), Witness[L - k]) = Queued(k + 1)
      BY <1>3, OneMoreQueued
    <2>3. Execute(Depth >= 1, SubSeq(Witness, 1, L - k - 1), Queued(k + 1))
      BY <1>1, <1>8, <1>9, <2>2, Zenon DEF OpToAltStack
    <2> QED
      BY <1>2, <2>1, <2>3, Zenon DEF Execute, Fresh
  <1>11. Fresh'
    BY <1>2, <1>8, <1>10 DEF Fresh
  <1>12. CASE k # L - 1
    <2>1. k + 1 \in 0 .. L - 1 /\ L - (k + 1) = L - k - 1
      BY <1>3, <1>12
    <2>2. /\ todo' = Moves(L - (k + 1)) \o r /\ main' = SubSeq(Witness, 1, L - (k + 1)) /\ alt' = Queued(k + 1)
      BY <1>8, <1>10, <2>1
    <2>3. Queueing'
      BY <1>2, <1>8, <1>11, <2>1, <2>2, Kept DEF Queueing, r, Moves
    <2> QED
      BY <1>8, <2>3
  <1>13. CASE k = L - 1
    <2>1. L - k - 1 = 0 /\ k + 1 = L
      BY <1>3, <1>13
    <2>2. todo' = Left(HeaderCode, 1, AfterHeader)
      <3>1. Moves(0) = <<>>
        BY DEF Moves
      <3>2. todo' = <<>> \o r
        BY <1>8, <2>1, <3>1
      <3>3. <<>> \o r = r
        BY <1>5, ConcatEmptySeq DEF IsSequence
      <3>4. 1 \in 1..Len(HeaderCode)
        BY <1>4
      <3>5. Left(HeaderCode, 1, AfterHeader) = r
        BY <1>4, <3>4, LeftNext DEF r
      <3> QED
        BY <3>2, <3>3, <3>5
    <2>3. main' = Below0 \o HeaderItems[1]
      <3>1. SubSeq(Witness, 1, 0) = <<>>
        BY <1>3, SubSeqEmpty DEF IsSequence
      <3>2. Below0 = <<>> /\ HeaderItems[1] = <<>>
        BY <1>2, HeaderItemsAre DEF Below0
      <3>3. <<>> \in Seq({})
        OBVIOUS
      <3>4. <<>> \o <<>> = <<>>
        BY <3>3, ConcatEmptySeq
      <3> QED
        BY <1>10, <2>1, <3>1, <3>2, <3>4
    <2>4. alt' = Queue
      BY <1>2, <1>10, <2>1 DEF Queue
    <2>5. HeaderFits(1)
      BY DEF HeaderFits
    <2>6. AtHeader(1)'
      BY <1>8, <2>2, <2>3, <2>5, Kept DEF AtHeader, Left
    <2>7. (alt = Queue)' /\ 1 \in 1..15
      BY <1>8, <2>4, Kept
    <2> QED
      BY <1>8, <1>11, <2>6, <2>7 DEF Digesting
  <1> QED
    BY <1>12, <1>13

-----------------------------------------------------------------------------
(* The LMS emitter, phase by phase. *)

LEMMA LmsParts ==
    /\ Calls(<<>>, LmsOps)
    /\ \A s, t : Calls(s, LmsOps) /\ Calls(t, LmsOps) => Calls(s \o t, LmsOps)
    /\ \A code : Calls(Op(code), LmsOps)
    /\ \A bytes : Calls(Data(bytes), LmsOps)
    /\ \A v : Calls(Number(v), LmsOps)
    /\ \A i : Calls(Call("lms_csum_sum", i), LmsOps) /\ Calls(Call("lms_chain", i), LmsOps)
    /\ \A i, j : Calls(<<[op |-> "lms_step", i |-> i, j |-> j]>>, LmsOps)
  <1>1. ASSUME NEW code, NEW bytes PROVE Calls(Write(code, bytes), LmsOps)
    BY CallsOne DEF Write, LmsOps, Proper
  <1>2. ASSUME NEW i PROVE Calls(Call("lms_csum_sum", i), LmsOps) /\ Calls(Call("lms_chain", i), LmsOps)
    BY CallsOne DEF Call, LmsOps, Proper
  <1>3. ASSUME NEW i, NEW j PROVE Calls(<<[op |-> "lms_step", i |-> i, j |-> j]>>, LmsOps)
    BY CallsOne DEF LmsOps, Proper
  <1>4. /\ \A code : Calls(Op(code), LmsOps)
        /\ \A bytes : Calls(Data(bytes), LmsOps)
        /\ \A v : Calls(Number(v), LmsOps)
    BY <1>1 DEF Op, Data, Number
  <1> QED
    BY <1>2, <1>3, <1>4, CallsNone, CallsConcat

LEMMA LmsSmallParts ==
    /\ \A prefix : Calls(Prefixed(prefix), LmsOps)
    /\ Calls(ThenNext, LmsOps) /\ Calls(BytesExchanged, LmsOps)
    /\ \A width : Calls(FixedWidth(width), LmsOps)
    /\ \A p, i : Calls(EmitCoefficient(p, i), LmsOps)
    /\ \A key : Calls(EmitMessageDigest(key), LmsOps)
    /\ \A key, r : Calls(EmitLevel(key, r), LmsOps)
  <1>1. \A prefix : Calls(Prefixed(prefix), LmsOps)
    BY LmsParts DEF Prefixed
  <1>2. Calls(ThenNext, LmsOps)
    BY LmsParts DEF ThenNext
  <1>3. Calls(BytesExchanged, LmsOps)
    BY LmsParts DEF BytesExchanged
  <1>4. \A width : Calls(FixedWidth(width), LmsOps)
    BY LmsParts DEF FixedWidth
  <1>5. ASSUME NEW p, NEW i PROVE Calls(EmitCoefficient(p, i), LmsOps)
    BY LmsParts DEF EmitCoefficient
  <1>6. \A key : Calls(EmitMessageDigest(key), LmsOps)
    BY <1>1, <1>2, LmsParts DEF EmitMessageDigest
  <1>7. ASSUME NEW key, NEW r PROVE Calls(EmitLevel(key, r), LmsOps)
    BY <1>1, <1>2, LmsParts DEF EmitLevel
  <1> QED
    BY <1>1, <1>2, <1>3, <1>4, <1>5, <1>6, <1>7

LEMMA LmsTypes ==
    ASSUME NEW p, Consistent(p)
    PROVE  p.u \in Nat /\ p.h \in Nat /\ p.p \in Nat /\ MaxCoef(p) \in 1..255
  <1>1. p.u \in Nat /\ p.v \in Nat /\ p.h \in Nat /\ p.p = p.u + p.v /\ p.w \in {1, 2, 4, 8}
    BY DEF Consistent
  <1>2. 2 ^ p.w \in {2 ^ 1, 2 ^ 2, 2 ^ 3, 2 ^ 4, 2 ^ 5, 2 ^ 6, 2 ^ 7, 2 ^ 8}
    BY <1>1, Zenon
  <1>3. {2 ^ 1, 2 ^ 2, 2 ^ 3, 2 ^ 4, 2 ^ 5, 2 ^ 6, 2 ^ 7, 2 ^ 8} \subseteq 2..256
    OBVIOUS
  <1>4. MaxCoef(p) \in 1..255
    <2> DEFINE x == 2 ^ p.w
    <2>1. x \in 2..256
      BY <1>2, <1>3
    <2>2. MaxCoef(p) = x - 1
      BY DEF MaxCoef
    <2> HIDE DEF x
    <2> QED
      BY <2>1, <2>2
  <1>5. p.p \in Nat
    BY <1>1
  <1> QED
    BY <1>1, <1>4, <1>5


LEMMA ChecksumCalls ==
    ASSUME NEW p, Consistent(p)
    PROVE  Calls(EmitChecksumAndV(p), LmsOps)
  <1> DEFINE n == (p.u - 1) - 0 + 1
             f == [i \in 1..n |-> Call("lms_csum_sum", 0 + i - 1)]
  <1>1. Calls(Joined(f), LmsOps)
    <2>1. \A i \in 1..n : Calls(f[i], LmsOps)
      BY LmsParts
    <2>2. n \in Int /\ f = [i \in 1..n |-> f[i]]
      BY LmsTypes
    <2> HIDE DEF f, n
    <2> QED
      BY <2>1, <2>2, CallsLoop
  <1>2. Calls(For(0, p.u - 1, LAMBDA i : Call("lms_csum_sum", i)), LmsOps)
    BY <1>1, Zenon DEF For
  <1> QED
    BY <1>2, LmsParts, LmsSmallParts DEF EmitChecksumAndV

LEMMA LmsChainCalls ==
    ASSUME NEW p, NEW i, Consistent(p)
    PROVE  Calls(EmitLmsChain(p, i), LmsOps)
  <1> DEFINE n == (MaxCoef(p) - 1) - 0 + 1
             f == [k \in 1..n |-> <<[op |-> "lms_step", i |-> i, j |-> 0 + k - 1]>>]
  <1>1. Calls(Joined(f), LmsOps)
    <2>1. \A k \in 1..n : Calls(f[k], LmsOps)
      BY LmsParts
    <2>2. n \in Int /\ f = [k \in 1..n |-> f[k]]
      BY LmsTypes
    <2> HIDE DEF f, n
    <2> QED
      BY <2>1, <2>2, CallsLoop
  <1>2. Calls(For(0, MaxCoef(p) - 1, LAMBDA j : <<[op |-> "lms_step", i |-> i, j |-> j]>>), LmsOps)
    BY <1>1, Zenon DEF For
  <1> QED
    BY <1>2, LmsParts, LmsSmallParts DEF EmitLmsChain

LEMMA CandidateCalls ==
    ASSUME NEW p, NEW key, Consistent(p)
    PROVE  Calls(EmitCandidateKey(p, key), LmsOps)
  <1>1. Calls(For(1, p.p, LAMBDA i : Op("fromalt")), LmsOps)
    <2> DEFINE n == p.p - 1 + 1
               f == [i \in 1..n |-> Op("fromalt")]
    <2>1. \A i \in 1..n : Calls(f[i], LmsOps)
      BY LmsParts
    <2>2. n \in Int /\ f = [i \in 1..n |-> f[i]]
      BY LmsTypes
    <2>3. Calls(Joined(f), LmsOps)
      <3> HIDE DEF f, n
      <3> QED
        BY <2>1, <2>2, CallsLoop
    <2> QED
      BY <2>3, Zenon DEF For
  <1>2. Calls(For(1, p.p - 1, LAMBDA i : ThenNext), LmsOps)
    <2> DEFINE n == (p.p - 1) - 1 + 1
               f == [i \in 1..n |-> ThenNext]
    <2>1. \A i \in 1..n : Calls(f[i], LmsOps)
      BY LmsSmallParts
    <2>2. n \in Int /\ f = [i \in 1..n |-> f[i]]
      BY LmsTypes
    <2>3. Calls(Joined(f), LmsOps)
      <3> HIDE DEF f, n
      <3> QED
        BY <2>1, <2>2, CallsLoop
    <2> QED
      BY <2>3, Zenon DEF For
  <1> QED
    BY <1>1, <1>2, LmsParts, LmsSmallParts DEF EmitCandidateKey

LEMMA PathCalls ==
    ASSUME NEW p, NEW key, Consistent(p)
    PROVE  Calls(EmitMerklePath(p, key), LmsOps)
  <1> DEFINE Level(height) == EmitLevel(key, (LeafCount(p) + key.q) \div 2 ^ height)
             n == (p.h - 1) - 0 + 1
             f == [i \in 1..n |-> Level(0 + i - 1)]
  <1>1. Calls(Joined(f), LmsOps)
    <2>1. \A i \in 1..n : Calls(f[i], LmsOps)
      <3>1. \A x : Calls(Level(x), LmsOps)
        BY LmsSmallParts
      <3> HIDE DEF Level
      <3> QED
        BY <3>1
    <2>2. n \in Int /\ f = [i \in 1..n |-> f[i]]
      <3> HIDE DEF Level
      <3> QED
        BY LmsTypes
    <2> HIDE DEF f, n
    <2> QED
      BY <2>1, <2>2, CallsLoop
  <1>2. Calls(For(0, p.h - 1, Level), LmsOps)
    BY <1>1, Zenon DEF For
  <1> HIDE DEF Level
  <1>3. EmitMerklePath(p, key) =
          Prefixed(Prefix(key.id, LeafCount(p) + key.q, D_LEAF)) \o Op("sha256") \o For(0, p.h - 1, Level)
    BY Zenon DEF EmitMerklePath, Level
  <1> QED
    BY <1>2, <1>3, LmsParts, LmsSmallParts

LEMMA LmsBodyCalls ==
    ASSUME NEW p, NEW key, Consistent(p), NEW call, call.op \in LmsPhases
    PROVE  Calls(LmsBodyOf(p, key, call), LmsOps)
  <1>1. CASE call.op = "lms_verify"
    <2>1. Calls(For(0, p.p - 1, LAMBDA i : Call("lms_chain", i)), LmsOps)
      <3> DEFINE n == (p.p - 1) - 0 + 1
                 f == [i \in 1..n |-> Call("lms_chain", 0 + i - 1)]
      <3>1. \A i \in 1..n : Calls(f[i], LmsOps)
        BY LmsParts
      <3>2. n \in Int /\ f = [i \in 1..n |-> f[i]]
        BY LmsTypes
      <3>3. Calls(Joined(f), LmsOps)
        <4> HIDE DEF f, n
        <4> QED
          BY <3>1, <3>2, CallsLoop
      <3> QED
        BY <3>3, Zenon DEF For
    <2>2. Calls(EmitLmsVerify(p, key), LmsOps)
      BY <2>1, ChecksumCalls, CandidateCalls, PathCalls, LmsParts, LmsSmallParts DEF EmitLmsVerify
    <2> QED
      BY <1>1, <2>2 DEF LmsBodyOf
  <1>2. CASE call.op = "lms_csum_sum"
    <2>1. Calls(EmitCsumSum(p, call.i), LmsOps)
      BY LmsParts, LmsSmallParts DEF EmitCsumSum
    <2> QED
      BY <1>2, <2>1 DEF LmsBodyOf
  <1>3. CASE call.op = "lms_chain"
    BY <1>3, LmsChainCalls DEF LmsBodyOf
  <1>4. CASE call.op = "lms_step"
    <2>1. Calls(EmitStep(key, call.i, call.j), LmsOps)
      BY LmsParts, LmsSmallParts DEF EmitStep
    <2> QED
      BY <1>4, <2>1 DEF LmsBodyOf
  <1> QED
    BY <1>1, <1>2, <1>3, <1>4 DEF LmsPhases

LEMMA PhaseEntered ==
    ASSUME given \in ToSet(Cases), ~IsSlh, Next, ~failed, todo # <<>>, Current.op \in LmsPhases,
           Calls(Tail(todo), LmsOps)
    PROVE  given' = given /\ Calls(todo', LmsOps)
  <1>1. EnterPhase /\ Current.op \notin SlhPhases
    BY ActionOf DEF SlhPhases, LmsPhases
  <1>2. Expand(LmsBodyOf(given.p, given.pk, Current))
    BY <1>1, Zenon DEF EnterPhase, Emits
  <1>3. given' = given /\ todo' = LmsBodyOf(given.p, given.pk, Current) \o Tail(todo)
    BY <1>2, Zenon DEF Expand
  <1>4. Calls(LmsBodyOf(given.p, given.pk, Current), LmsOps)
    BY GivenTypes, LmsBodyCalls
  <1> QED
    BY <1>3, <1>4, CallsConcat

\* A phase, and every other call.
LEMMA VerifyingStep ==
    ASSUME given \in ToSet(Cases), Next, Verifying
    PROVE  given' = given /\ Verifying'
  <1>1. CASE failed \/ todo = <<>>
    <2>1. given' = given /\ todo' = todo
      BY <1>1, Halted DEF vars, emitter
    <2> QED
      BY <2>1, Kept DEF Verifying
  <1>2. CASE ~failed /\ todo # <<>>
    <2>1. ~IsSlh /\ Calls(todo, LmsOps) /\ IsSequence(todo)
      BY DEF Verifying, Calls
    <2>2. Calls(Tail(todo), LmsOps) /\ Current.op \in LmsOps
      BY <1>2, <2>1, CallsTail DEF Current
    <2>3. CASE Current.op = "write"
      <3>1. given' = given /\ todo' = Tail(todo)
        BY <1>2, <2>1, <2>3, WriteNext DEF Current
      <3> QED
        BY <2>1, <2>2, <3>1, Kept DEF Verifying
    <2>4. CASE Current.op \in LmsPhases
      <3>1. given' = given /\ Calls(todo', LmsOps)
        BY <1>2, <2>1, <2>2, <2>4, PhaseEntered
      <3> QED
        BY <2>1, <3>1, Kept DEF Verifying
    <2> QED
      BY <2>2, <2>3, <2>4 DEF LmsOps, LmsPhases
  <1> QED
    BY <1>1, <1>2

LEMMA VerifyStart ==
    ASSUME given \in ToSet(Cases), ~IsSlh, Next, Fresh, AtVerify
    PROVE  given' = given /\ Verifying'
  <1>1. todo = Verify /\ ~failed
    BY DEF AtVerify, Fresh
  <1>2. todo # <<>> /\ Current.op = "lms_verify" /\ Tail(todo) = <<>>
    BY <1>1, VerifyIs DEF Current
  <1>3. given' = given /\ Calls(todo', LmsOps)
    BY <1>1, <1>2, CallsNone, PhaseEntered DEF LmsPhases
  <1> QED
    BY <1>3, Kept DEF Verifying

\* An element that is still to come is in a blob of the plan.
LEMMA PlanCovers ==
    ASSUME NEW p, WellFormed(p), NEW n \in Nat, n < SigElements(p)
    PROVE  Locate(n) \in 1..Len(BlobPlan(p)) /\ BlobPlan(p)[Locate(n)] \in 1..4
  <1> DEFINE count == SigElements(p)
  <1>1. count \in Nat \ {0} /\ BlobPlan(p) \in Seq(1..4) /\ Len(BlobPlan(p)) = CeilDiv(count, 4)
    BY ElementsCounted, PlanIs
  <1> HIDE DEF count
  <1>2. n < count
    BY DEF count
  <1>3. n \div 4 + 1 \in 1 .. (count + 4 - 1) \div 4
    BY <1>1, <1>2
  <1>4. Locate(n) \in 1..Len(BlobPlan(p))
    BY <1>1, <1>3 DEF Locate, BLOB_ELEMS, CeilDiv
  <1>5. BlobPlan(p)[Locate(n)] \in 1..4
    BY <1>1, <1>4, ElementOfSeq
  <1> QED
    BY <1>4, <1>5

-----------------------------------------------------------------------------
(* The script as it is written. *)

LEMMA OutputsCode ==
    For(0, 2 - 1, EmitOutput) = OutputCode(1) \o OutputCode(2)
  <1> DEFINE a == OutputCode(1)
             b == OutputCode(2)
             X == Range(a) \cup Range(b)
             f == [i \in 1..2 |-> IF i = 1 THEN a ELSE b]
  <1>1. EmitOutput(0) = a /\ EmitOutput(1) = b /\ IsSequence(a) /\ IsSequence(b)
    <2>1. 1 - 1 = 0 /\ 2 - 1 = 1
      OBVIOUS
    <2>2. EmitOutput(1 - 1) = a /\ EmitOutput(2 - 1) = b /\ IsSequence(a) /\ IsSequence(b)
      BY OutputIs
    <2> QED
      BY <2>1, <2>2
  <1>2. a \in Seq(X) /\ b \in Seq(X)
    BY <1>1, SeqMonotonic DEF IsSequence
  <1>3. [i \in 1 .. (2 - 1) - 0 + 1 |-> EmitOutput(0 + i - 1)] = f
    <2>1. 1 .. (2 - 1) - 0 + 1 = 1..2
      OBVIOUS
    <2>2. ASSUME NEW i \in 1..2 PROVE EmitOutput(0 + i - 1) = IF i = 1 THEN a ELSE b
      <3>1. i = 1 \/ i = 2
        OBVIOUS
      <3>2. i = 1 => 0 + i - 1 = 0
        OBVIOUS
      <3>3. i = 2 => 0 + i - 1 = 1
        OBVIOUS
      <3> HIDE DEF a, b
      <3> QED
        BY <1>1, <3>1, <3>2, <3>3
    <2> HIDE DEF a, b
    <2> QED
      BY <2>1, <2>2
  <1> HIDE DEF a, b, X
  <1>4. f \in [1..2 -> Seq(X)] /\ f[1] = a /\ f[2] = b
    BY <1>2
  <1> HIDE DEF f
  <1>5. PICK P \in PartsOf(f, 2, X) : Joined(f) = IF 2 = 0 THEN <<>> ELSE P[<<1, 2>>]
    BY <1>4, JoinedIs
  <1>6. \A lo \in 1..2, hi \in 1..2 :
          P[<<lo, hi>>] = IF lo >= hi THEN f[lo]
                          ELSE P[<<lo, (lo + hi) \div 2>>] \o P[<<(lo + hi) \div 2 + 1, hi>>]
    BY DEF PartsOf
  <1>7. /\ 1 \in 1..2 /\ 2 \in 1..2 /\ 1 >= 1 /\ 2 >= 2 /\ ~(1 >= 2) /\ 2 # 0
        /\ (1 + 2) \div 2 = 1 /\ (1 + 2) \div 2 + 1 = 2
    OBVIOUS
  <1>8. P[<<1, 1>>] = f[1] /\ P[<<2, 2>>] = f[2]
    BY <1>6, <1>7, Zenon
  <1>9. P[<<1, 2>>] = P[<<1, (1 + 2) \div 2>>] \o P[<<(1 + 2) \div 2 + 1, 2>>]
    BY <1>6, <1>7, Zenon
  <1>10. P[<<1, 2>>] = a \o b
    BY <1>4, <1>7, <1>8, <1>9, Zenon
  <1>11. Joined(f) = a \o b
    BY <1>5, <1>7, <1>10, Zenon
  <1>12. For(0, 2 - 1, EmitOutput) = Joined([i \in 1 .. (2 - 1) - 0 + 1 |-> EmitOutput(0 + i - 1)])
    BY Zenon DEF For
  <1> QED
    BY <1>3, <1>11, <1>12, Zenon DEF a, b

\* The same, to be cited of long sequences.
Regrouped(s, t, u) == (s \o t) \o u = s \o (t \o u)

LEMMA Regroups ==
    ASSUME NEW s, NEW t, NEW u, IsSequence(s), IsSequence(t), IsSequence(u)
    PROVE  Regrouped(s, t, u)
  <1> DEFINE X == (Range(s) \cup Range(t)) \cup Range(u)
  <1>1. s \in Seq(X) /\ t \in Seq(X) /\ u \in Seq(X)
    BY SeqMonotonic DEF IsSequence
  <1> HIDE DEF X
  <1> QED
    BY <1>1, ConcatAssociative DEF Regrouped

LEMMA DigestCode ==
    ASSUME NEW v, IsSequence(v)
    PROVE  /\ IsSequence(EmitBindingDigest(CANONICAL_OUTPUT_COUNT))
           /\ EmitBindingDigest(CANONICAL_OUTPUT_COUNT) \o v =
                HeaderCode \o (OutputCode(1) \o (OutputCode(2) \o (Op("sha256") \o v)))
  <1> DEFINE h == HeaderCode
             a == OutputCode(1)
             b == OutputCode(2)
             s == Op("sha256")
  <1>1. IsSequence(h) /\ IsSequence(a) /\ IsSequence(b) /\ IsSequence(s)
    BY HeaderIs, OutputIs, OneCall, SequenceOne
  <1>2. EmitBindingDigest(CANONICAL_OUTPUT_COUNT) = (h \o (a \o b)) \o s
    <2>1. EmitBindingDigest(2) =
            (Op("txversion") \o FixedWidth(2)
               \o Op("inputindex") \o Op("outpointtxid") \o Op("cat")
               \o Op("inputindex") \o Op("outpointindex") \o FixedWidth(4) \o Op("cat")
               \o Op("outputcount") \o FixedWidth(1) \o Op("cat"))
              \o For(0, 2 - 1, EmitOutput) \o Op("sha256")
      BY Zenon DEF EmitBindingDigest
    <2> QED
      BY <2>1, HeaderIs, OutputsCode, Zenon DEF CANONICAL_OUTPUT_COUNT
  <1> HIDE DEF h, a, b, s
  <1>3. IsSequence(a \o b) /\ IsSequence(h \o (a \o b)) /\ IsSequence((h \o (a \o b)) \o s)
    BY <1>1, SequenceConcat
  <1>4. IsSequence(s \o v) /\ IsSequence(b \o (s \o v))
    BY <1>1, SequenceConcat
  <1> DEFINE x == a \o b
             y == s \o v
             z == h \o x
  <1>5. Regrouped(z, s, v) /\ Regrouped(h, x, y) /\ Regrouped(a, b, y)
    <2>1. IsSequence(x) /\ IsSequence(y) /\ IsSequence(z)
      BY <1>3, <1>4
    <2> HIDE DEF x, y, z
    <2> QED
      BY <1>1, <2>1, Regroups
  <1>6. (z \o s) \o v = z \o y
    BY <1>5, Zenon DEF Regrouped
  <1>7. z \o y = h \o (x \o y) /\ x \o y = a \o (b \o y)
    BY <1>5, Zenon DEF Regrouped
  <1>8. ((h \o (a \o b)) \o s) \o v = h \o (a \o (b \o (s \o v)))
    BY <1>6, <1>7, Zenon
  <1> QED
    BY <1>2, <1>3, <1>8, Zenon DEF h, a, b, s

\* The prologue moves every blob.
LEMMA MovesAre ==
    ASSUME NEW n \in Nat
    PROVE  IsSequence(Moves(n)) /\ For(1, n, LAMBDA b : Plain("queue")) = Moves(n)
  <1> DEFINE q == [op |-> "queue"]
             f == [i \in 1..n |-> <<q>>]
  <1>1. For(1, n, LAMBDA b : Plain("queue")) = Joined(f)
    <2>1. For(1, n, LAMBDA b : Plain("queue")) = Joined([i \in 1 .. n - 1 + 1 |-> <<q>>])
      BY Zenon DEF For, Plain
    <2>2. n - 1 + 1 = n
      OBVIOUS
    <2> QED
      BY <2>1, <2>2
  <1>2. Moves(n) = [b \in 1..n |-> q]
    BY Zenon DEF Moves
  <1> HIDE DEF q
  <1>3. f \in [1..n -> Seq({q})] /\ \A i \in 1..n : Len(f[i]) = 1
    OBVIOUS
  <1> HIDE DEF f
  <1>4. PICK P \in PartsOf(f, n, {q}) : Joined(f) = IF n = 0 THEN <<>> ELSE P[<<1, n>>]
    BY <1>3, JoinedIs
  <1>5. /\ P \in [(1..n) \X (1..n) -> Seq({q})]
        /\ \A lo \in 1..n, hi \in 1..n :
             P[<<lo, hi>>] = IF lo >= hi THEN f[lo]
                             ELSE P[<<lo, (lo + hi) \div 2>>] \o P[<<(lo + hi) \div 2 + 1, hi>>]
    BY DEF PartsOf
  <1> DEFINE S == {m \in Nat : \A l \in 1..n : \A h \in 1..n :
                     l <= h /\ h - l <= m => Len(P[<<l, h>>]) = h - l + 1}
  <1>6. 0 \in S
    <2>1. ASSUME NEW l \in 1..n, NEW h \in 1..n, l <= h, h - l <= 0 PROVE Len(P[<<l, h>>]) = h - l + 1
      <3>1. l >= h /\ h - l + 1 = 1
        BY <2>1
      <3>2. P[<<l, h>>] = f[l]
        BY <1>5, <3>1, Zenon
      <3> QED
        BY <1>3, <3>1, <3>2
    <2> QED
      BY <2>1
  <1>7. ASSUME NEW m \in Nat, m \in S PROVE m + 1 \in S
    <2>1. ASSUME NEW l \in 1..n, NEW h \in 1..n, l <= h, h - l <= m + 1 PROVE Len(P[<<l, h>>]) = h - l + 1
      <3>1. CASE l = h
        <4>1. l >= h /\ h - l + 1 = 1
          BY <3>1
        <4>2. P[<<l, h>>] = f[l]
          BY <1>5, <4>1, Zenon
        <4> QED
          BY <1>3, <4>1, <4>2
      <3>2. CASE l < h
        <4> DEFINE middle == (l + h) \div 2
        <4>1. /\ middle \in 1..n /\ middle + 1 \in 1..n
              /\ l <= middle /\ middle + 1 <= h
              /\ middle - l <= m /\ h - (middle + 1) <= m
          BY <2>1, <3>2
        <4>2. ~(l >= h)
          BY <3>2
        <4>3. P[<<l, h>>] = P[<<l, middle>>] \o P[<<middle + 1, h>>]
          BY <1>5, <4>2, Zenon
        <4> HIDE DEF middle
        <4> DEFINE s == P[<<l, middle>>]
                   t == P[<<middle + 1, h>>]
        <4>4. Len(s) = middle - l + 1 /\ Len(t) = h - (middle + 1) + 1
          BY <1>7, <4>1
        <4>5. s \in Seq({q}) /\ t \in Seq({q})
          BY <1>5, <4>1
        <4>6. P[<<l, h>>] = s \o t
          BY <4>3
        <4> HIDE DEF s, t
        <4>7. Len(s \o t) = Len(s) + Len(t)
          BY <4>5, ConcatProperties
        <4> QED
          BY <4>1, <4>4, <4>6, <4>7
      <3> QED
        BY <2>1, <3>1, <3>2
    <2>2. m + 1 \in Nat
      OBVIOUS
    <2> QED
      BY <2>1, <2>2, Zenon
  <1>8. n \in S
    <2> HIDE DEF S
    <2> QED
      BY <1>6, <1>7, InductionOn
  <1>9. Joined(f) \in Seq({q}) /\ Len(Joined(f)) = n
    <2>1. CASE n = 0
      BY <1>4, <2>1
    <2>2. CASE n # 0
      <3>1. 1 \in 1..n /\ n \in 1..n /\ 1 <= n /\ n - 1 <= n /\ n - 1 + 1 = n
        BY <2>2
      <3>2. Len(P[<<1, n>>]) = n /\ P[<<1, n>>] \in Seq({q})
        BY <1>5, <1>8, <3>1
      <3> QED
        BY <1>4, <2>2, <3>2
    <2> QED
      BY <2>1, <2>2
  <1>10. Moves(n) \in Seq({q}) /\ Len(Moves(n)) = n
    BY <1>2
  <1>11. \A i \in 1..n : Joined(f)[i] = Moves(n)[i]
    <2>1. \A i \in 1..n : Joined(f)[i] \in {q}
      BY <1>9, ElementOfSeq
    <2>2. \A i \in 1..n : Moves(n)[i] \in {q}
      BY <1>10, ElementOfSeq
    <2> QED
      BY <2>1, <2>2
  <1>12. Joined(f) = Moves(n)
    BY <1>9, <1>10, <1>11, SeqEqual
  <1> QED
    BY <1>1, <1>10, <1>12, SequenceIs

\* The script begins with the blobs, or with the digest.
LEMMA PrologueFirst ==
    ASSUME Init
    PROVE  given \in ToSet(Cases) /\ (IF IsSlh THEN Queueing ELSE Digesting)
  <1>1. /\ given \in ToSet(Cases) /\ todo = RedeemScript
        /\ frame = <<>> /\ pending = 0 /\ next = 0 /\ peak = 0
        /\ main = Witness /\ alt = <<>> /\ skip = FALSE /\ failed = FALSE
    BY DEF Init
  <1>2. Fresh /\ next \in Nat
    BY <1>1 DEF Fresh
  <1>3. /\ IsSequence(Verify) /\ IsSequence(Witness) /\ Len(Witness) \in Nat
        /\ IsSlh => Len(Witness) = Len(BlobPlan(given.p)) /\ Len(Witness) >= 1
    BY <1>1, VerifyIs, WitnessIs
  <1>4. /\ IsSequence(EmitBindingDigest(CANONICAL_OUTPUT_COUNT))
        /\ EmitBindingDigest(CANONICAL_OUTPUT_COUNT) \o Verify = HeaderCode \o AfterHeader
    BY <1>3, DigestCode DEF AfterHeader, AfterOutput
  <1>5. CASE IsSlh
    <2> DEFINE n == Len(BlobPlan(given.p))
               e == EmitBindingDigest(CANONICAL_OUTPUT_COUNT)
               m == Plain("message")
               body == EmitBody(given.p, given.pk)
    <2>1. todo = For(1, n, LAMBDA b : Plain("queue")) \o e \o m \o body
      BY <1>1, <1>5, Zenon DEF RedeemScript, EmitSlhVaultScript
    <2>2. IsSequence(Moves(n)) /\ For(1, n, LAMBDA b : Plain("queue")) = Moves(n)
      BY <1>3, <1>5, MovesAre
    <2>3. IsSequence(m) /\ IsSequence(body) /\ Verify = m \o body /\ IsSequence(e)
      <3>1. Calls(body, Straight)
        BY <1>1, <1>5, GivenTypes, BodyStraight
      <3>2. IsSequence(m)
        BY SequenceOne DEF Plain
      <3> QED
        BY <1>4, <1>5, <3>1, <3>2 DEF Verify, Calls
    <2> HIDE DEF e, m, body
    <2>4. todo = Moves(n) \o (e \o (m \o body))
      <3> DEFINE w == Moves(n)
      <3>1. IsSequence(w) /\ IsSequence(w \o e) /\ IsSequence(m \o body)
        BY <2>2, <2>3, SequenceConcat
      <3>2. todo = ((w \o e) \o m) \o body
        BY <2>1, <2>2, Zenon
      <3> HIDE DEF w
      <3> DEFINE x == w \o e
                 y == m \o body
      <3>3. Regrouped(x, m, body) /\ Regrouped(w, e, y)
        <4>1. IsSequence(x) /\ IsSequence(y)
          BY <3>1
        <4> HIDE DEF x, y
        <4> QED
          BY <2>3, <3>1, <4>1, Regroups
      <3>4. (x \o m) \o body = x \o y /\ x \o y = w \o (e \o y)
        BY <3>3, Zenon DEF Regrouped
      <3> QED
        BY <3>2, <3>4, Zenon DEF w
    <2>5. todo = Moves(Len(Witness) - 0) \o (HeaderCode \o AfterHeader)
      <3>1. Len(Witness) - 0 = n
        BY <1>3, <1>5
      <3>2. e \o (m \o body) = HeaderCode \o AfterHeader
        BY <1>4, <2>3, Zenon DEF e
      <3> QED
        BY <2>4, <3>1, <3>2, Zenon
    <2>6. main = SubSeq(Witness, 1, Len(Witness) - 0)
      <3>1. Len(Witness) - 0 = Len(Witness)
        BY <1>3
      <3>2. SubSeq(Witness, 1, Len(Witness)) = Witness
        BY <1>3, SubSeqFull DEF IsSequence
      <3> QED
        BY <1>1, <3>1, <3>2
    <2>7. alt = Queued(0)
      <3>1. Queued(0) = <<>>
        BY DEF Queued
      <3> QED
        BY <1>1, <3>1
    <2>8. 0 \in 0 .. Len(Witness) - 1
      BY <1>3, <1>5
    <2>9. Queueing
      BY <1>2, <1>5, <2>5, <2>6, <2>7, <2>8 DEF Queueing
    <2> QED
      BY <1>1, <1>5, <2>9
  <1>6. CASE ~IsSlh
    <2>1. todo = EmitBindingDigest(CANONICAL_OUTPUT_COUNT) \o Verify
      BY <1>1, <1>6, Zenon DEF RedeemScript, EmitLmsVaultScript, Verify
    <2>2. IsSequence(HeaderCode) /\ Len(HeaderCode) = 15 /\ IsSequence(AfterHeader) /\ 1 \in 1..Len(HeaderCode)
      BY <1>1, HeaderIs, WhatFollows
    <2>3. todo = Left(HeaderCode, 1, AfterHeader)
      BY <1>4, <2>1, <2>2, LeftNext
    <2>4. main = Below0 \o HeaderItems[1]
      <3>1. Below0 = Witness /\ HeaderItems[1] = <<>>
        BY <1>6, HeaderItemsAre DEF Below0
      <3>2. Witness \o <<>> = Witness
        BY <1>3, ConcatEmptySeq DEF IsSequence
      <3> QED
        BY <1>1, <3>1, <3>2
    <2>5. HeaderFits(1) /\ alt = Queue
      BY <1>1, <1>6 DEF HeaderFits, Queue
    <2>6. Digesting
      <3>1. AtHeader(1) /\ 1 \in 1..15
        BY <2>3, <2>4, <2>5 DEF AtHeader
      <3> QED
        BY <1>2, <2>5, <3>1 DEF Digesting
    <2> QED
      BY <1>1, <1>6, <2>6
  <1> QED
    BY <1>5, <1>6

\* The prologue stays where it is.
LEMMA PrologueStill ==
    ASSUME UNCHANGED vars, Queueing \/ Digesting
    PROVE  Queueing' \/ Digesting'
  <1>1. /\ given' = given /\ todo' = todo /\ frame' = frame /\ pending' = pending
        /\ next' = next /\ peak' = peak
        /\ main' = main /\ alt' = alt /\ skip' = skip /\ failed' = failed
    BY DEF vars, emitter, machine
  <1>2. Fresh' = Fresh
    BY <1>1 DEF Fresh
  <1>4. CASE Digesting
    <2>1. \A k : AtHeader(k) => AtHeader(k)'
      BY <1>1, Kept DEF AtHeader, Left
    <2>2. \A o, k : AtOutput(o, k) => AtOutput(o, k)'
      BY <1>1, Kept DEF AtOutput, Left
    <2>3. (AtDigest => AtDigest') /\ (AtVerify => AtVerify')
      BY <1>1, Kept DEF AtDigest, AtVerify
    <2> QED
      BY <1>1, <1>2, <1>4, <2>1, <2>2, <2>3, Kept DEF Digesting
  <1>5. CASE Queueing
    <2>1. PICK k \in 0 .. Len(Witness) - 1 :
            todo = Moves(Len(Witness) - k) \o (HeaderCode \o AfterHeader)
            /\ main = SubSeq(Witness, 1, Len(Witness) - k) /\ alt = Queued(k)
      BY <1>5 DEF Queueing
    <2>2. IsSlh' /\ Fresh'
      BY <1>1, <1>2, <1>5, Kept DEF Queueing
    <2>3. (todo = Moves(Len(Witness) - k) \o (HeaderCode \o AfterHeader))'
      BY <1>1, <2>1, Kept DEF Moves
    <2>4. (main = SubSeq(Witness, 1, Len(Witness) - k) /\ alt = Queued(k))'
      BY <1>1, <2>1, Kept
    <2>5. (k \in 0 .. Len(Witness) - 1)'
      BY <1>1, <2>1, Kept
    <2> QED
      BY <2>2, <2>3, <2>4, <2>5 DEF Queueing
  <1> QED
    BY <1>4, <1>5

-----------------------------------------------------------------------------
(* What was gathered is what the wallet serialises. *)

LEMMA FlattenedPair ==
    ASSUME NEW f, f = [i \in 1..2 |-> f[i]]
    PROVE  FlattenSeq(f) = f[1] \o f[2]
  <1>1. Len(f) = 2 /\ Len(f) # 0
    OBVIOUS
  <1> DEFINE Solves(Q) == Q = [i \in 1..Len(f) |-> IF i = 1 THEN f[i] ELSE Q[i - 1] \o f[i]]
             P == CHOOSE Q : Solves(Q)
  <1>2. FlattenSeq(f) = IF Len(f) = 0 THEN f ELSE P[Len(f)]
    BY Zenon DEF FlattenSeq
  <1> DEFINE G == [i \in 1..2 |-> IF i = 1 THEN f[1] ELSE f[1] \o f[2]]
  <1>3. Solves(G)
    <2>1. G[1] = f[1] /\ G[2] = f[1] \o f[2]
      OBVIOUS
    <2>2. ASSUME NEW i \in 1..2 PROVE G[i] = IF i = 1 THEN f[i] ELSE G[i - 1] \o f[i]
      <3>1. i = 1 \/ i = 2
        OBVIOUS
      <3>2. i = 1 => G[i] = f[i]
        BY <2>1
      <3>3. i = 2 => i # 1 /\ G[i] = G[i - 1] \o f[i]
        <4>1. 2 - 1 = 1 /\ 2 # 1
          OBVIOUS
        <4> HIDE DEF G
        <4> QED
          BY <2>1, <4>1
      <3> HIDE DEF G
      <3> QED
        BY <3>1, <3>2, <3>3
    <2> QED
      BY <1>1, <2>2
  <1>4. Solves(P)
    BY <1>3, Zenon
  <1> HIDE DEF P
  <1>5. P[1] = f[1]
    <2>1. 1 \in 1..Len(f)
      BY <1>1
    <2> QED
      BY <1>4, <2>1
  <1>6. P[2] = P[1] \o f[2]
    <2>1. 2 \in 1..Len(f) /\ 2 # 1 /\ 2 - 1 = 1
      BY <1>1
    <2>2. P[2] = IF 2 = 1 THEN f[2] ELSE P[2 - 1] \o f[2]
      BY <1>4, <2>1
    <2> QED
      BY <2>1, <2>2, Zenon
  <1>7. FlattenSeq(f) = P[2]
    BY <1>1, <1>2, Zenon
  <1> QED
    BY <1>5, <1>6, <1>7, Zenon

\* Fields appended one by one, or the fields of an output at once.
AtOnce(h, a, l, s) == ((h \o a) \o l) \o s = h \o ((a \o l) \o s)

LEMMA FieldsAtOnce ==
    ASSUME NEW h, NEW a, NEW l, NEW s, IsSequence(h), IsSequence(a), IsSequence(l), IsSequence(s)
    PROVE  AtOnce(h, a, l, s)
  <1> DEFINE al == a \o l
             ha == h \o a
             hal == h \o al
  <1>1. IsSequence(al) /\ IsSequence(ha)
    BY SequenceConcat
  <1> HIDE DEF al, ha, hal
  <1>2. Regrouped(h, a, l) /\ Regrouped(h, al, s)
    BY <1>1, Regroups
  <1>3. ha \o l = hal
    BY <1>2, Zenon DEF Regrouped, ha, al, hal
  <1>4. hal \o s = h \o (al \o s)
    BY <1>2, Zenon DEF Regrouped, hal
  <1> QED
    BY <1>3, <1>4, Zenon DEF AtOnce, ha, al

LEMMA GatheredIs ==
    ASSUME given \in ToSet(Cases), Len(Tx.outputs) = 2
    PROVE  Gathered = BindingPreimage(Tx)
  <1>1. Tx \in SpendView
    BY GivenTypes
  <1>2. /\ Tx.version \in Word /\ Tx.txid \in Seq(Octet) /\ Tx.index \in Word
        /\ DOMAIN Tx.outputs = 1..2
    BY <1>1, TxFields
  <1>3. ASSUME NEW o \in 1..2
        PROVE  /\ IsSequence(LittleEndian(Tx.outputs[o].amount, 8))
               /\ IsSequence(LittleEndian(Len(Spk(o)), 2)) /\ IsSequence(Spk(o))
               /\ Spk(o) = SpkWireBytes(Tx.outputs[o])
    <2>1. /\ Tx.outputs[o].amount \in Word /\ Spk(o) = SpkWireBytes(Tx.outputs[o])
          /\ Spk(o) \in Seq(Octet) /\ Len(Spk(o)) \in Word
      BY <1>1, WireForm
    <2>2. /\ LittleEndian(Tx.outputs[o].amount, 8) \in Seq(Octet)
          /\ LittleEndian(Len(Spk(o)), 2) \in Seq(Octet)
      <3>1. 8 \in Nat /\ 2 \in Nat
        OBVIOUS
      <3> QED
        BY <2>1, <3>1, LittleEndianIs
    <2> QED
      BY <2>1, <2>2, SequenceIs
  <1>4. LittleEndian(2, 1) = <<2>>
    <2>1. 2 \in Word /\ 1 \in Nat
      BY SMT DEF Word
    <2>2. LittleEndian(2, 1) = [i \in 1..1 |-> IF i > 4 THEN 0 ELSE (2 \div ByteWeight[i]) % 256]
      BY <2>1, LittleEndianIs
    <2>3. ByteWeight[1] = 1 /\ (2 \div 1) % 256 = 2
      BY Weights
    <2> QED
      BY <2>2, <2>3
  <1>5. IsSequence(AfterCount)
    <2>1. LittleEndian(Tx.version, 2) \in Seq(Octet) /\ LittleEndian(Tx.index, 4) \in Seq(Octet)
      <3>1. 4 \in Nat /\ 2 \in Nat
        OBVIOUS
      <3> QED
        BY <1>2, <3>1, LittleEndianIs
    <2>2. IsSequence(LittleEndian(Tx.version, 2)) /\ IsSequence(LittleEndian(Tx.index, 4)) /\ IsSequence(Tx.txid)
      BY <1>2, <2>1, SequenceIs
    <2>3. IsSequence(LittleEndian(Len(Tx.outputs), 1))
      BY <1>4, SequenceOne
    <2>4. IsSequence(AfterTxid)
      BY <2>2, SequenceConcat DEF AfterTxid, AfterVersion
    <2>5. IsSequence(AfterIndex)
      BY <2>2, <2>4, SequenceConcat DEF AfterIndex
    <2> QED
      BY <2>3, <2>5, SequenceConcat DEF AfterCount
  <1> DEFINE h == AfterCount
             a1 == LittleEndian(Tx.outputs[1].amount, 8)
             l1 == LittleEndian(Len(Spk(1)), 2)
             s1 == Spk(1)
             a2 == LittleEndian(Tx.outputs[2].amount, 8)
             l2 == LittleEndian(Len(Spk(2)), 2)
             s2 == Spk(2)
             o1 == (a1 \o l1) \o s1
             o2 == (a2 \o l2) \o s2
             g1 == h \o o1
  <1>6. /\ IsSequence(a1) /\ IsSequence(l1) /\ IsSequence(s1)
        /\ IsSequence(a2) /\ IsSequence(l2) /\ IsSequence(s2) /\ IsSequence(h)
    <2>1. 1 \in 1..2 /\ 2 \in 1..2
      OBVIOUS
    <2> QED
      BY <1>3, <1>5, <2>1
  <1>7. Gathered = (((((h \o a1) \o l1) \o s1) \o a2) \o l2) \o s2
    <2>1. 2 # 1
      OBVIOUS
    <2> QED
      BY <2>1, Zenon DEF Gathered, AfterSpk, AfterLen, AfterAmount, Before
  <1>8. BindingPreimage(Tx) = h \o (o1 \o o2)
    <2> DEFINE f == [i \in DOMAIN Tx.outputs |-> OutputBytes(Tx.outputs[i].amount, SpkWireBytes(Tx.outputs[i]))]
    <2>1. f = [i \in 1..2 |-> f[i]]
      BY <1>2
    <2>2. f[1] = o1 /\ f[2] = o2
      <3>1. 1 \in DOMAIN Tx.outputs /\ 2 \in DOMAIN Tx.outputs /\ 1 \in 1..2 /\ 2 \in 1..2
        BY <1>2
      <3>2. Spk(1) = SpkWireBytes(Tx.outputs[1]) /\ Spk(2) = SpkWireBytes(Tx.outputs[2])
        BY <1>3, <3>1
      <3>3. /\ f[1] = OutputBytes(Tx.outputs[1].amount, SpkWireBytes(Tx.outputs[1]))
            /\ f[2] = OutputBytes(Tx.outputs[2].amount, SpkWireBytes(Tx.outputs[2]))
        BY <3>1
      <3> HIDE DEF f
      <3> QED
        BY <3>2, <3>3, Zenon DEF OutputBytes
    <2>3. BindingPreimage(Tx) =
            (((LittleEndian(Tx.version, 2) \o Tx.txid) \o LittleEndian(Tx.index, 4)) \o <<Len(Tx.outputs)>>)
              \o FlattenSeq(f)
      BY Zenon DEF BindingPreimage
    <2>4. <<Len(Tx.outputs)>> = LittleEndian(Len(Tx.outputs), 1)
      BY <1>4
    <2> HIDE DEF f, o1, o2
    <2>5. FlattenSeq(f) = o1 \o o2
      BY <2>1, <2>2, FlattenedPair
    <2> QED
      BY <2>3, <2>4, <2>5, Zenon DEF AfterCount, AfterIndex, AfterTxid, AfterVersion
  <1>9. IsSequence(o1) /\ IsSequence(o2) /\ IsSequence(g1)
    <2>1. IsSequence(a1 \o l1) /\ IsSequence(a2 \o l2)
      <3> HIDE DEF a1, l1, a2, l2
      <3> QED
        BY <1>6, SequenceConcat
    <2>2. IsSequence(o1) /\ IsSequence(o2)
      <3> HIDE DEF a1, l1, a2, l2, s1, s2
      <3> QED
        BY <1>6, <2>1, SequenceConcat
    <2> HIDE DEF o1, o2, h
    <2> QED
      BY <1>6, <2>2, SequenceConcat
  <1> HIDE DEF h, a1, l1, s1, a2, l2, s2
  <1>10. AtOnce(h, a1, l1, s1)
    BY <1>6, FieldsAtOnce
  <1>11. AtOnce(g1, a2, l2, s2)
    <2> HIDE DEF g1
    <2> QED
      BY <1>6, <1>9, FieldsAtOnce
  <1>12. Regrouped(h, o1, o2)
    <2> HIDE DEF o1, o2
    <2> QED
      BY <1>6, <1>9, Regroups
  <1>13. ((h \o a1) \o l1) \o s1 = g1
    BY <1>10, Zenon DEF AtOnce
  <1>14. Gathered = ((g1 \o a2) \o l2) \o s2
    BY <1>7, <1>13, Zenon
  <1>15. Gathered = g1 \o o2
    <2> HIDE DEF g1
    <2> QED
      BY <1>11, <1>14, Zenon DEF AtOnce
  <1>16. g1 \o o2 = h \o (o1 \o o2)
    BY <1>12, Zenon DEF Regrouped
  <1> QED
    BY <1>8, <1>15, <1>16, Zenon

-----------------------------------------------------------------------------
(* Branches: what is in one leaves the frame as high as it found it, so that  *)
(* frame and stack agree again at its end, whether or not it was taken.       *)

\* What a call adds to the frame, and to the stack when it runs.
Effect(c) ==
  CASE c.op \in {"data", "num", "dup", "over", "pick"} -> 1
    [] c.op = "calc" -> 1 - c.n
    [] c.op \in {"drop", "nip", "oproll"} -> -1
    [] OTHER -> 0

\* Calls that together add n.
Rises(s, n) ==
  /\ Calls(s, Branchable)
  /\ \E level \in [1 .. Len(s) + 1 -> Int] :
       /\ level[1] = 0 /\ level[Len(s) + 1] = n
       /\ \A i \in 1..Len(s) : level[i + 1] = level[i] + Effect(s[i])

\* A script in a branch that still adds n before it ends.
Closes(t, n) ==
  \E b, rest : t = b \o (EndIf \o rest) /\ Rises(b, n) /\ Calls(rest, Straight)

\* A script outside of branches, with one at most to come.
Branching(t) == \E w : t = If \o w /\ Closes(w, 0)
Ready(t) ==
  \E s, u : t = s \o u /\ Calls(s, Simple) /\ (Calls(u, Straight) \/ Branching(u))

LEMMA EffectType ==
    ASSUME NEW c, Proper(c)
    PROVE  Effect(c) \in Int
  <1>1. CASE c.op = "calc"
    <2>1. c.n \in 1..3 /\ Effect(c) = 1 - c.n
      BY <1>1 DEF Effect, Proper
    <2> QED
      BY <2>1
  <1>2. CASE c.op # "calc"
    BY <1>2 DEF Effect
  <1> QED
    BY <1>1, <1>2

LEMMA HeadFirst ==
    ASSUME NEW s, NEW t, IsSequence(s), IsSequence(t), s # <<>>
    PROVE  FirstThen(s \o t, Head(s), Tail(s) \o t)
  <1>1. /\ IsSequence(Tail(s)) /\ Len(Tail(s)) = Len(s) - 1 /\ Len(s) \in Nat \ {0}
        /\ Head(s) = s[1]
        /\ \A i \in 1 .. Len(s) - 1 : Tail(s)[i] = s[i + 1]
    BY SequenceTail
  <1> DEFINE c == Head(s)
             r == Tail(s)
             m == <<c>> \o r
  <1>2. IsSequence(<<c>>) /\ Len(<<c>>) = 1 /\ <<c>>[1] = c
    BY SequenceOne
  <1>3. IsSequence(r) /\ Len(r) = Len(s) - 1 /\ c = s[1]
    BY <1>1
  <1>4. \A i \in 1 .. Len(s) - 1 : r[i] = s[i + 1]
    BY <1>1
  <1> HIDE DEF c, r
  <1>5. /\ IsSequence(m) /\ Len(m) = 1 + Len(r)
        /\ \A i \in 1 .. 1 + Len(r) : m[i] = IF i <= 1 THEN <<c>>[i] ELSE r[i - 1]
    BY <1>2, <1>3, SequenceConcat
  <1>6. m = s
    <2> HIDE DEF m
    <2>1. Len(m) = Len(s) /\ Len(s) \in Nat
      BY <1>1, <1>3, <1>5
    <2>2. ASSUME NEW i \in 1..Len(s) PROVE m[i] = s[i]
      <3>1. CASE i = 1
        BY <1>1, <1>2, <1>3, <1>5, <3>1
      <3>2. CASE i # 1
        <4>1. ~(i <= 1) /\ i - 1 \in 1 .. Len(s) - 1 /\ (i - 1) + 1 = i
          BY <1>1, <3>2
        <4>2. r[i - 1] = s[i]
          BY <1>4, <4>1
        <4> QED
          BY <1>3, <1>5, <4>1, <4>2
      <3> QED
        BY <3>1, <3>2
    <2>3. m \in Seq(Range(m) \cup Range(s)) /\ s \in Seq(Range(m) \cup Range(s))
      BY <1>5, SeqMonotonic DEF IsSequence
    <2> QED
      BY <2>1, <2>2, <2>3, SeqEqual
  <1>7. Regrouped(<<c>>, r, t)
    BY <1>2, <1>3, Regroups
  <1> DEFINE x == r \o t
  <1>8. IsSequence(x)
    BY <1>3, SequenceConcat
  <1> HIDE DEF x
  <1>9. FirstThen(<<c>> \o x, c, x)
    BY <1>8, CallFirst DEF FirstThen
  <1>10. s \o t = <<c>> \o x
    BY <1>6, <1>7, Zenon DEF Regrouped, x, m
  <1> QED
    BY <1>9, <1>10, Zenon DEF x, c, r

LEMMA RisesNone ==
    /\ Rises(<<>>, 0)
    /\ \A n : Rises(<<>>, n) => n = 0
  <1>1. Calls(<<>>, Branchable) /\ Len(<<>>) = 0
    BY CallsNone
  <1>2. [i \in 1 .. Len(<<>>) + 1 |-> 0] \in [1 .. Len(<<>>) + 1 -> Int]
    OBVIOUS
  <1>3. Rises(<<>>, 0)
    <2> DEFINE level == [i \in 1 .. Len(<<>>) + 1 |-> 0]
    <2>1. level[1] = 0 /\ level[Len(<<>>) + 1] = 0 /\ \A i \in 1..Len(<<>>) : FALSE
      BY <1>1
    <2>2. level \in [1 .. Len(<<>>) + 1 -> Int]
      OBVIOUS
    <2> HIDE DEF level
    <2> QED
      BY <1>1, <2>1, <2>2 DEF Rises
  <1>4. ASSUME NEW n, Rises(<<>>, n) PROVE n = 0
    <2>1. Len(<<>>) + 1 = 1
      BY <1>1
    <2> QED
      BY <1>4, <2>1 DEF Rises
  <1> QED
    BY <1>3, <1>4

LEMMA RisesOne ==
    ASSUME NEW c, c.op \in Branchable, Proper(c)
    PROVE  Rises(<<c>>, Effect(c))
  <1>1. Calls(<<c>>, Branchable) /\ Len(<<c>>) = 1 /\ <<c>>[1] = c
    BY CallsOne, SequenceOne
  <1>2. Effect(c) \in Int
    BY EffectType
  <1> DEFINE level == [i \in 1..2 |-> IF i = 1 THEN 0 ELSE Effect(c)]
             s == <<c>>
  <1>3. level \in [1 .. 1 + 1 -> Int] /\ level[1] = 0 /\ level[1 + 1] = 0 + Effect(c) /\ level[1 + 1] = Effect(c)
    BY <1>2
  <1>4. Len(s) = 1 /\ s[1] = c /\ Calls(s, Branchable)
    BY <1>1
  <1> HIDE DEF level, s
  <1>5. level \in [1 .. Len(s) + 1 -> Int] /\ level[1] = 0 /\ level[Len(s) + 1] = Effect(c)
    BY <1>3, <1>4
  <1>6. \A i \in 1..Len(s) : level[i + 1] = level[i] + Effect(s[i])
    BY <1>3, <1>4
  <1>7. Rises(s, Effect(c))
    BY <1>4, <1>5, <1>6 DEF Rises
  <1> QED
    BY <1>7 DEF s

LEMMA RisesConcat ==
    ASSUME NEW s, NEW t, NEW m, NEW n, Rises(s, m), Rises(t, n)
    PROVE  Rises(s \o t, m + n) /\ m \in Int /\ n \in Int
  <1>1. Calls(s, Branchable) /\ Calls(t, Branchable) /\ IsSequence(s) /\ IsSequence(t)
    BY DEF Rises, Calls
  <1> DEFINE u == s \o t
             S == Len(s)
             T == Len(t)
  <1>2. /\ Calls(u, Branchable) /\ Len(u) = S + T /\ S \in Nat /\ T \in Nat
        /\ \A i \in 1 .. S + T : u[i] = IF i <= S THEN s[i] ELSE t[i - S]
    BY <1>1, SequenceConcat, CallsConcat
  <1>3. PICK a \in [1 .. S + 1 -> Int] :
          a[1] = 0 /\ a[S + 1] = m /\ \A i \in 1..S : a[i + 1] = a[i] + Effect(s[i])
    BY DEF Rises
  <1>4. PICK b \in [1 .. T + 1 -> Int] :
          b[1] = 0 /\ b[T + 1] = n /\ \A i \in 1..T : b[i + 1] = b[i] + Effect(t[i])
    BY DEF Rises
  <1> HIDE DEF u, S, T
  <1>5. m \in Int /\ n \in Int /\ S + 1 \in 1 .. S + 1 /\ T + 1 \in 1 .. T + 1
    BY <1>2, <1>3, <1>4
  <1> DEFINE level == [i \in 1 .. (S + T) + 1 |-> IF i <= S + 1 THEN a[i] ELSE m + b[i - S]]
  <1>6. level \in [1 .. (S + T) + 1 -> Int]
    <2>1. ASSUME NEW i \in 1 .. (S + T) + 1 PROVE (IF i <= S + 1 THEN a[i] ELSE m + b[i - S]) \in Int
      <3>1. CASE i <= S + 1
        <4>1. i \in 1 .. S + 1
          BY <1>2, <3>1
        <4> QED
          BY <3>1, <4>1
      <3>2. CASE ~(i <= S + 1)
        <4>1. i - S \in 1 .. T + 1
          BY <1>2, <3>2
        <4>2. b[i - S] \in Int
          BY <4>1
        <4> QED
          BY <1>5, <3>2, <4>2
      <3> QED
        BY <3>1, <3>2
    <2> QED
      BY <2>1
  <1>7. \A i \in 1 .. (S + T) + 1 : level[i] = IF i <= S + 1 THEN a[i] ELSE m + b[i - S]
    OBVIOUS
  <1>8. level[S + 1] = m + b[1]
    <2>1. S + 1 \in 1 .. (S + T) + 1 /\ S + 1 <= S + 1
      BY <1>2
    <2> HIDE DEF level
    <2> QED
      BY <1>3, <1>4, <1>5, <1>7, <2>1
  <1> HIDE DEF level
  <1>9. level[1] = 0
    <2>1. 1 \in 1 .. (S + T) + 1 /\ 1 <= S + 1
      BY <1>2
    <2> QED
      BY <1>3, <1>7, <2>1
  <1>10. \A i \in 1 .. T + 1 : level[S + i] = m + b[i]
    <2> TAKE i \in 1 .. T + 1
    <2>1. CASE i = 1
      BY <1>8, <2>1
    <2>2. CASE i # 1
      <3>1. S + i \in 1 .. (S + T) + 1 /\ ~(S + i <= S + 1) /\ (S + i) - S = i
        BY <1>2, <2>2
      <3> QED
        BY <1>7, <3>1
    <2> QED
      BY <2>1, <2>2
  <1>11. level[(S + T) + 1] = m + n
    <2>1. S + (T + 1) = (S + T) + 1
      BY <1>2
    <2> QED
      BY <1>4, <1>5, <1>10, <2>1
  <1>12. ASSUME NEW i \in 1 .. S + T PROVE level[i + 1] = level[i] + Effect(u[i])
    <2>1. CASE i <= S
      <3>1. /\ i \in 1..S /\ i \in 1 .. (S + T) + 1 /\ i + 1 \in 1 .. (S + T) + 1
            /\ i <= S + 1 /\ i + 1 <= S + 1
        BY <1>2, <2>1
      <3>2. level[i] = a[i] /\ level[i + 1] = a[i + 1]
        BY <1>7, <3>1
      <3> QED
        BY <1>2, <1>3, <2>1, <3>1, <3>2
    <2>2. CASE ~(i <= S)
      <3> DEFINE j == i - S
      <3>1. j \in 1..T /\ j \in 1 .. T + 1 /\ j + 1 \in 1 .. T + 1 /\ S + j = i /\ S + (j + 1) = i + 1
        BY <1>2, <2>2
      <3>2. u[i] = t[j]
        BY <1>2, <2>2
      <3> HIDE DEF j
      <3>3. level[i] = m + b[j] /\ level[i + 1] = m + b[j + 1]
        BY <1>10, <3>1
      <3>4. b[j + 1] = b[j] + Effect(t[j]) /\ b[j] \in Int
        BY <1>4, <3>1
      <3>5. Effect(t[j]) \in Int
        <4>1. Proper(t[j])
          BY <1>1, <3>1 DEF Calls, S, T
        <4> QED
          BY <4>1, EffectType
      <3> QED
        BY <1>5, <3>2, <3>3, <3>4, <3>5
    <2> QED
      BY <2>1, <2>2
  <1>13. Rises(u, m + n)
    BY <1>2, <1>6, <1>9, <1>11, <1>12 DEF Rises
  <1> QED
    BY <1>5, <1>13 DEF u

LEMMA RisesTail ==
    ASSUME NEW s, NEW n, Rises(s, n), s # <<>>
    PROVE  /\ n \in Int /\ Head(s).op \in Branchable /\ Proper(Head(s))
           /\ Rises(Tail(s), n - Effect(Head(s)))
  <1>1. Calls(s, Branchable) /\ IsSequence(s)
    BY DEF Rises, Calls
  <1> DEFINE c == Head(s)
             r == Tail(s)
             L == Len(s)
  <1>2. /\ Calls(r, Branchable) /\ c.op \in Branchable /\ Proper(c)
        /\ Len(r) = L - 1 /\ L \in Nat \ {0} /\ c = s[1] /\ \A i \in 1 .. L - 1 : r[i] = s[i + 1]
    BY <1>1, CallsTail, SequenceTail
  <1>3. PICK a \in [1 .. L + 1 -> Int] :
          a[1] = 0 /\ a[L + 1] = n /\ \A i \in 1..L : a[i + 1] = a[i] + Effect(s[i])
    BY DEF Rises
  <1> HIDE DEF c, r, L
  <1>4. Effect(c) \in Int
    BY <1>2, EffectType
  <1>5. a[2] = Effect(c) /\ n \in Int
    <2>1. 1 \in 1..L /\ 1 + 1 = 2 /\ L + 1 \in 1 .. L + 1
      BY <1>2
    <2>2. a[2] = a[1] + Effect(s[1])
      BY <1>3, <2>1
    <2> QED
      BY <1>2, <1>3, <1>4, <2>1, <2>2
  <1> DEFINE level == [i \in 1 .. (L - 1) + 1 |-> a[i + 1] - Effect(c)]
  <1>6. level \in [1 .. (L - 1) + 1 -> Int]
    <2>1. ASSUME NEW i \in 1 .. (L - 1) + 1 PROVE a[i + 1] - Effect(c) \in Int
      <3>1. i + 1 \in 1 .. L + 1
        BY <1>2
      <3>2. a[i + 1] \in Int
        BY <3>1
      <3> QED
        BY <1>4, <3>2
    <2> QED
      BY <2>1
  <1>7. \A i \in 1 .. (L - 1) + 1 : level[i] = a[i + 1] - Effect(c)
    OBVIOUS
  <1> HIDE DEF level
  <1>8. level[1] = 0 /\ level[(L - 1) + 1] = n - Effect(c)
    <2>1. 1 \in 1 .. (L - 1) + 1 /\ (L - 1) + 1 \in 1 .. (L - 1) + 1 /\ 1 + 1 = 2 /\ ((L - 1) + 1) + 1 = L + 1
      BY <1>2
    <2>2. level[1] = a[2] - Effect(c) /\ level[(L - 1) + 1] = a[L + 1] - Effect(c)
      BY <1>7, <2>1
    <2> QED
      BY <1>3, <1>4, <1>5, <2>2
  <1>9. ASSUME NEW i \in 1 .. L - 1 PROVE level[i + 1] = level[i] + Effect(r[i])
    <2> DEFINE j == i + 1
    <2>1. /\ j \in 1..L /\ j \in 1 .. L + 1 /\ j + 1 \in 1 .. L + 1
          /\ i \in 1 .. (L - 1) + 1 /\ i + 1 \in 1 .. (L - 1) + 1
      BY <1>2
    <2>2. level[i] = a[j] - Effect(c) /\ level[i + 1] = a[j + 1] - Effect(c) /\ r[i] = s[j]
      BY <1>2, <1>7, <2>1
    <2> HIDE DEF j
    <2>3. a[j + 1] = a[j] + Effect(s[j]) /\ a[j] \in Int
      BY <1>3, <2>1
    <2>4. Effect(s[j]) \in Int
      <3>1. Proper(s[j])
        BY <1>1, <2>1 DEF Calls, L
      <3> QED
        BY <3>1, EffectType
    <2> QED
      BY <1>4, <2>2, <2>3, <2>4
  <1>10. Rises(r, n - Effect(c))
    BY <1>2, <1>6, <1>8, <1>9 DEF Rises
  <1> QED
    BY <1>2, <1>5, <1>10 DEF c, r

LEMMA EndIfIs ==
    EndIf = <<[op |-> "endif"]>> /\ If = <<[op |-> "if"]>> /\ IsSequence(EndIf) /\ IsSequence(If)
  BY SequenceOne DEF EndIf, If, Plain

LEMMA ClosesStep ==
    ASSUME NEW t, NEW n, Closes(t, n)
    PROVE  /\ IsSequence(t) /\ t # <<>> /\ n \in Int
           /\ \/ Head(t).op = "endif" /\ n = 0 /\ Calls(Tail(t), Straight)
              \/ /\ Head(t).op \in Branchable /\ Proper(Head(t))
                 /\ Closes(Tail(t), n - Effect(Head(t)))
  <1>1. PICK b, rest : t = b \o (EndIf \o rest) /\ Rises(b, n) /\ Calls(rest, Straight)
    BY DEF Closes
  <1>2. IsSequence(b) /\ IsSequence(rest)
    BY <1>1 DEF Rises, Calls
  <1> DEFINE e == [op |-> "endif"]
             u == <<e>> \o rest
  <1>3. EndIf \o rest = u
    BY EndIfIs
  <1>4. FirstThen(u, e, rest)
    <2> HIDE DEF e
    <2> QED
      BY <1>2, CallFirst DEF FirstThen
  <1>5. e.op = "endif"
    OBVIOUS
  <1> HIDE DEF e, u
  <1>6. t = b \o u /\ IsSequence(u) /\ u # <<>> /\ Head(u) = e /\ Tail(u) = rest
    BY <1>1, <1>3, <1>4 DEF FirstThen
  <1>7. CASE b = <<>>
    <2>1. n = 0
      BY <1>1, <1>7, RisesNone
    <2>2. t = u
      BY <1>6, <1>7, ConcatEmptySeq DEF IsSequence
    <2>3. Head(t).op = "endif" /\ Calls(Tail(t), Straight) /\ t # <<>> /\ IsSequence(t)
      BY <1>1, <1>5, <1>6, <2>2, Zenon
    <2>4. n \in Int
      BY <2>1
    <2> QED
      BY <2>1, <2>3, <2>4, Zenon
  <1>8. CASE b # <<>>
    <2>1. /\ n \in Int /\ Head(b).op \in Branchable /\ Proper(Head(b))
          /\ Rises(Tail(b), n - Effect(Head(b)))
      BY <1>1, <1>8, RisesTail
    <2>2. FirstThen(t, Head(b), Tail(b) \o u)
      BY <1>2, <1>6, <1>8, HeadFirst
    <2>3. IsSequence(t) /\ t # <<>> /\ Head(t) = Head(b) /\ Tail(t) = Tail(b) \o u
      BY <2>2 DEF FirstThen
    <2>4. Tail(t) = Tail(b) \o (EndIf \o rest)
      BY <1>3, <2>3
    <2>5. Closes(Tail(t), n - Effect(Head(t)))
      BY <1>1, <2>1, <2>3, <2>4 DEF Closes
    <2> QED
      BY <2>1, <2>3, <2>5
  <1> QED
    BY <1>7, <1>8

LEMMA ClosesIs ==
    ASSUME NEW t, NEW n, Closes(t, n)
    PROVE  IsSequence(t) /\ n \in Int
  BY ClosesStep

LEMMA ClosesMore ==
    ASSUME NEW s, NEW m, NEW t, NEW n, Rises(s, m), Closes(t, n)
    PROVE  Closes(s \o t, m + n)
  <1>1. PICK b, rest : t = b \o (EndIf \o rest) /\ Rises(b, n) /\ Calls(rest, Straight)
    BY DEF Closes
  <1> DEFINE u == EndIf \o rest
             sb == s \o b
  <1>2. IsSequence(s) /\ IsSequence(b) /\ IsSequence(u)
    BY <1>1, EndIfIs, SequenceConcat DEF Rises, Calls
  <1> HIDE DEF u
  <1>3. Regrouped(s, b, u)
    BY <1>2, Regroups
  <1>4. Rises(sb, m + n)
    BY <1>1, RisesConcat
  <1>5. s \o t = sb \o u
    BY <1>1, <1>3, Zenon DEF Regrouped, u, sb
  <1> HIDE DEF sb
  <1> QED
    BY <1>1, <1>4, <1>5 DEF Closes, u

LEMMA ReadyStraight ==
    ASSUME NEW t, Calls(t, Straight)
    PROVE  Ready(t)
  <1>1. <<>> \o t = t
    BY ConcatEmptySeq DEF Calls, IsSequence
  <1>2. Calls(<<>>, Simple)
    BY CallsNone
  <1> QED
    BY <1>1, <1>2 DEF Ready

LEMMA ReadyIs ==
    ASSUME NEW t, Ready(t)
    PROVE  IsSequence(t)
  <1>1. PICK s, u : t = s \o u /\ Calls(s, Simple) /\ (Calls(u, Straight) \/ Branching(u))
    BY DEF Ready
  <1>2. IsSequence(u)
    <2>1. CASE Branching(u)
      <3>1. PICK w : u = If \o w /\ Closes(w, 0)
        BY <2>1 DEF Branching
      <3>2. IsSequence(w) /\ IsSequence(If)
        BY <3>1, ClosesIs, EndIfIs
      <3> QED
        BY <3>1, <3>2, SequenceConcat
    <2> QED
      BY <1>1, <2>1 DEF Calls
  <1>3. IsSequence(s)
    BY <1>1 DEF Calls
  <1> QED
    BY <1>1, <1>2, <1>3, SequenceConcat

LEMMA ReadyMore ==
    ASSUME NEW s, NEW t, Calls(s, Simple), Ready(t)
    PROVE  Ready(s \o t)
  <1>1. PICK r, u : t = r \o u /\ Calls(r, Simple) /\ (Calls(u, Straight) \/ Branching(u))
    BY DEF Ready
  <1> DEFINE sr == s \o r
  <1>2. IsSequence(s) /\ IsSequence(r) /\ IsSequence(u)
    <2>1. Ready(u)
      <3>1. CASE Calls(u, Straight)
        BY <3>1, ReadyStraight
      <3>2. CASE Branching(u)
        <4>1. IsSequence(u)
          <5>1. PICK w : u = If \o w /\ Closes(w, 0)
            BY <3>2 DEF Branching
          <5>2. IsSequence(w) /\ IsSequence(If)
            BY <5>1, ClosesIs, EndIfIs
          <5> QED
            BY <5>1, <5>2, SequenceConcat
        <4>2. <<>> \o u = u
          BY <4>1, ConcatEmptySeq DEF IsSequence
        <4> QED
          BY <3>2, <4>2, CallsNone DEF Ready
      <3> QED
        BY <1>1, <3>1, <3>2
    <2> QED
      BY <1>1, <2>1, ReadyIs DEF Calls
  <1>3. Calls(sr, Simple)
    BY <1>1, CallsConcat
  <1>4. s \o t = sr \o u
    <2>1. Regrouped(s, r, u)
      BY <1>2, Regroups
    <2> QED
      BY <1>1, <2>1, Zenon DEF Regrouped, sr
  <1> HIDE DEF sr
  <1> QED
    BY <1>1, <1>3, <1>4 DEF Ready

LEMMA ReadyIf ==
    ASSUME NEW w, Closes(w, 0)
    PROVE  Ready(If \o w)
  <1>1. IsSequence(If \o w)
    BY ClosesIs, EndIfIs, SequenceConcat
  <1>2. <<>> \o (If \o w) = If \o w
    BY <1>1, ConcatEmptySeq DEF IsSequence
  <1>3. Branching(If \o w)
    BY DEF Branching
  <1> QED
    BY <1>2, <1>3, CallsNone DEF Ready

\* What comes next: a primitive, a phase or a branch.
LEMMA ReadyStep ==
    ASSUME NEW t, Ready(t), t # <<>>
    PROVE  /\ IsSequence(t)
           /\ \/ Head(t).op \in Simple /\ Proper(Head(t)) /\ Ready(Tail(t))
              \/ Head(t).op \in SlhPhases /\ Proper(Head(t)) /\ Calls(Tail(t), Straight)
              \/ Head(t).op = "if" /\ Closes(Tail(t), 0)
  <1>1. PICK s, u : t = s \o u /\ Calls(s, Simple) /\ (Calls(u, Straight) \/ Branching(u))
    BY DEF Ready
  <1>2. IsSequence(t) /\ IsSequence(s)
    BY <1>1, ReadyIs DEF Calls
  <1>3. CASE s # <<>>
    <2>1. Calls(Tail(s), Simple) /\ Head(s).op \in Simple /\ Proper(Head(s))
      BY <1>1, <1>3, CallsTail
    <2>2. IsSequence(u)
      <3>1. CASE Branching(u)
        <4>1. PICK w : u = If \o w /\ Closes(w, 0)
          BY <3>1 DEF Branching
        <4> QED
          BY <4>1, ReadyIf, ReadyIs
      <3> QED
        BY <1>1, <3>1 DEF Calls
    <2>3. FirstThen(t, Head(s), Tail(s) \o u)
      BY <1>1, <1>2, <1>3, <2>2, HeadFirst
    <2>4. Head(t) = Head(s) /\ Tail(t) = Tail(s) \o u
      BY <2>3 DEF FirstThen
    <2>5. Ready(Tail(t))
      BY <1>1, <2>1, <2>4 DEF Ready
    <2> QED
      BY <1>2, <2>1, <2>4, <2>5
  <1>4. CASE s = <<>> /\ Calls(u, Straight)
    <2>1. t = u
      BY <1>1, <1>4, ConcatEmptySeq DEF Calls, IsSequence
    <2>2. Calls(Tail(t), Straight) /\ Head(t).op \in Straight /\ Proper(Head(t))
      BY <1>4, <2>1, CallsTail
    <2>3. Ready(Tail(t))
      BY <2>2, ReadyStraight
    <2> QED
      BY <1>2, <2>2, <2>3 DEF Straight
  <1>5. CASE s = <<>> /\ Branching(u)
    <2>1. PICK w : u = If \o w /\ Closes(w, 0)
      BY <1>5 DEF Branching
    <2>2. IsSequence(w)
      BY <2>1, ClosesIs
    <2> DEFINE c == [op |-> "if"]
    <2>3. u = <<c>> \o w
      BY <2>1, EndIfIs
    <2>4. c.op = "if"
      OBVIOUS
    <2> HIDE DEF c
    <2>5. IsSequence(u) /\ Head(u) = c /\ Tail(u) = w
      BY <2>2, <2>3, CallFirst
    <2>6. t = u
      BY <1>1, <1>5, <2>5, ConcatEmptySeq DEF IsSequence
    <2> QED
      BY <1>2, <2>1, <2>4, <2>5, <2>6
  <1> QED
    BY <1>1, <1>3, <1>4, <1>5

\* A part of a phase after which straight calls may follow; and one that has
\* entered a branch, which has n still to add.
Opens(s) == IsSequence(s) /\ \A t : Calls(t, Straight) => Ready(s \o t)
OpensTo(s, n) == IsSequence(s) /\ n \in Int /\ \A t : Closes(t, n) => Ready(s \o t)

LEMMA OpensStraight ==
    ASSUME NEW s, Calls(s, Straight)
    PROVE  Opens(s)
  <1>1. IsSequence(s)
    BY DEF Calls
  <1>2. ASSUME NEW t, Calls(t, Straight) PROVE Ready(s \o t)
    BY <1>2, CallsConcat, ReadyStraight
  <1> QED
    BY <1>1, <1>2 DEF Opens

LEMMA OpensIf ==
    ASSUME NEW s, Calls(s, Simple)
    PROVE  OpensTo(s \o If, 0)
  <1>1. IsSequence(s) /\ IsSequence(If)
    BY EndIfIs DEF Calls
  <1>2. ASSUME NEW t, Closes(t, 0) PROVE Ready((s \o If) \o t)
    <2> DEFINE u == If \o t
    <2>1. Ready(u)
      BY <1>2, ReadyIf
    <2>2. Regrouped(s, If, t)
      BY <1>1, <1>2, ClosesIs, Regroups
    <2> HIDE DEF u
    <2>3. Ready(s \o u)
      BY <2>1, ReadyMore
    <2> QED
      BY <2>2, <2>3, Zenon DEF Regrouped, u
  <1>3. IsSequence(s \o If)
    BY <1>1, SequenceConcat
  <1>4. 0 \in Int
    OBVIOUS
  <1> QED
    BY <1>2, <1>3, <1>4, Zenon DEF OpensTo

LEMMA OpensToMore ==
    ASSUME NEW s, NEW n, NEW c, NEW m, OpensTo(s, n), Rises(c, m)
    PROVE  OpensTo(s \o c, n - m)
  <1>1. IsSequence(s) /\ n \in Int /\ IsSequence(c)
    BY DEF OpensTo, Rises, Calls
  <1>2. m \in Int
    BY RisesConcat
  <1>3. ASSUME NEW t, Closes(t, n - m) PROVE Ready((s \o c) \o t)
    <2> DEFINE u == c \o t
    <2>1. m + (n - m) = n
      BY <1>1, <1>2
    <2>2. Closes(u, m + (n - m))
      BY <1>3, ClosesMore
    <2>3. Regrouped(s, c, t)
      BY <1>1, <1>3, ClosesIs, Regroups
    <2> HIDE DEF u
    <2>4. Ready(s \o u)
      BY <2>1, <2>2 DEF OpensTo
    <2> QED
      BY <2>3, <2>4, Zenon DEF Regrouped, u
  <1>4. IsSequence(s \o c) /\ n - m \in Int
    BY <1>1, <1>2, SequenceConcat
  <1> QED
    BY <1>3, <1>4, Zenon DEF OpensTo

LEMMA OpensEnd ==
    ASSUME NEW s, OpensTo(s, 0)
    PROVE  Opens(s \o EndIf)
  <1>1. IsSequence(s) /\ IsSequence(EndIf)
    BY EndIfIs DEF OpensTo
  <1>2. ASSUME NEW t, Calls(t, Straight) PROVE Ready((s \o EndIf) \o t)
    <2> DEFINE u == EndIf \o t
    <2>1. IsSequence(t)
      BY <1>2 DEF Calls
    <2>2. IsSequence(u)
      BY <1>1, <2>1, SequenceConcat
    <2>3. Regrouped(s, EndIf, t)
      BY <1>1, <2>1, Regroups
    <2>4. <<>> \o u = u
      <3> HIDE DEF u
      <3> QED
        BY <2>2, ConcatEmptySeq DEF IsSequence
    <2>5. Closes(u, 0)
      <3>1. u = <<>> \o (EndIf \o t)
        BY <2>4, Zenon DEF u
      <3> HIDE DEF u
      <3> QED
        BY <1>2, <3>1, RisesNone, Zenon DEF Closes
    <2> HIDE DEF u
    <2>6. Ready(s \o u)
      BY <2>5 DEF OpensTo
    <2> QED
      BY <2>3, <2>6, Zenon DEF Regrouped, u
  <1>3. IsSequence(s \o EndIf)
    BY <1>1, SequenceConcat
  <1> QED
    BY <1>2, <1>3, Zenon DEF Opens

LEMMA OpensMore ==
    ASSUME NEW s, NEW c, Opens(s), Calls(c, Straight)
    PROVE  Opens(s \o c)
  <1>1. IsSequence(s) /\ IsSequence(c)
    BY DEF Opens, Calls
  <1>2. ASSUME NEW t, Calls(t, Straight) PROVE Ready((s \o c) \o t)
    <2> DEFINE u == c \o t
    <2>1. Calls(u, Straight)
      BY <1>2, CallsConcat
    <2>2. Regrouped(s, c, t)
      BY <1>1, <1>2, Regroups DEF Calls
    <2> HIDE DEF u
    <2>3. Ready(s \o u)
      BY <2>1 DEF Opens
    <2> QED
      BY <2>2, <2>3, Zenon DEF Regrouped, u
  <1>3. IsSequence(s \o c)
    BY <1>1, SequenceConcat
  <1> QED
    BY <1>2, <1>3, Zenon DEF Opens

LEMMA OpensAfter ==
    ASSUME NEW s, NEW c, Calls(s, Simple), Opens(c)
    PROVE  Opens(s \o c)
  <1>1. IsSequence(s) /\ IsSequence(c)
    BY DEF Opens, Calls
  <1>2. ASSUME NEW t, Calls(t, Straight) PROVE Ready((s \o c) \o t)
    <2> DEFINE u == c \o t
    <2>1. Ready(u)
      BY <1>2 DEF Opens
    <2>2. Regrouped(s, c, t)
      BY <1>1, <1>2, Regroups DEF Calls
    <2> HIDE DEF u
    <2>3. Ready(s \o u)
      BY <2>1, ReadyMore
    <2> QED
      BY <2>2, <2>3, Zenon DEF Regrouped, u
  <1>3. IsSequence(s \o c)
    BY <1>1, SequenceConcat
  <1> QED
    BY <1>2, <1>3, Zenon DEF Opens

-----------------------------------------------------------------------------
(* What the parts of a branch add to the frame, and the bodies of the phases. *)

LEMMA PrimitivesRise ==
    /\ \A bytes : Rises(Push(bytes), 1)
    /\ \A v : Rises(Num(v), 1)
    /\ \A fn : Rises(Calc(fn, 1), 0) /\ Rises(Calc(fn, 2), -1) /\ Rises(Calc(fn, 3), -2)
    /\ \A slot : Rises(Pick(slot), 1) /\ Rises(Rename(slot), 0)
    /\ Rises(Swap, 0)
  <1>1. ASSUME NEW bytes PROVE Rises(Push(bytes), 1)
    <2> DEFINE c == [op |-> "data", bytes |-> bytes]
    <2>1. Effect(c) = 1 /\ c.op \in Branchable /\ Proper(c)
      BY DEF Effect, Branchable, Proper
    <2> HIDE DEF c
    <2>2. Rises(<<c>>, 1)
      BY <2>1, RisesOne, Zenon
    <2> QED
      BY <2>2, Zenon DEF Push, c
  <1>2. ASSUME NEW v PROVE Rises(Num(v), 1)
    <2> DEFINE c == [op |-> "num", value |-> v]
    <2>1. Effect(c) = 1 /\ c.op \in Branchable /\ Proper(c)
      BY DEF Effect, Branchable, Proper
    <2> HIDE DEF c
    <2>2. Rises(<<c>>, 1)
      BY <2>1, RisesOne, Zenon
    <2> QED
      BY <2>2, Zenon DEF Num, c
  <1>3. ASSUME NEW fn, NEW n \in 1..3 PROVE Rises(Calc(fn, n), 1 - n)
    <2> DEFINE c == [op |-> "calc", fn |-> fn, n |-> n]
    <2>1. Effect(c) = 1 - n /\ c.op \in Branchable /\ Proper(c)
      BY DEF Effect, Branchable, Proper
    <2> HIDE DEF c
    <2>2. Rises(<<c>>, 1 - n)
      BY <2>1, RisesOne, Zenon
    <2> QED
      BY <2>2, Zenon DEF Calc, c
  <1>4. ASSUME NEW slot PROVE Rises(Pick(slot), 1)
    <2> DEFINE c == [op |-> "pick", slot |-> slot]
    <2>1. Effect(c) = 1 /\ c.op \in Branchable /\ Proper(c)
      BY DEF Effect, Branchable, Proper
    <2> HIDE DEF c
    <2>2. Rises(<<c>>, 1)
      BY <2>1, RisesOne, Zenon
    <2> QED
      BY <2>2, Zenon DEF Pick, c
  <1>5. ASSUME NEW slot PROVE Rises(Rename(slot), 0)
    <2> DEFINE c == [op |-> "rename", slot |-> slot]
    <2>1. Effect(c) = 0 /\ c.op \in Branchable /\ Proper(c)
      BY DEF Effect, Branchable, Proper
    <2> HIDE DEF c
    <2>2. Rises(<<c>>, 0)
      BY <2>1, RisesOne, Zenon
    <2> QED
      BY <2>2, Zenon DEF Rename, c
  <1>6. Rises(Swap, 0)
    <2> DEFINE c == [op |-> "swap"]
    <2>1. Effect(c) = 0 /\ c.op \in Branchable /\ Proper(c)
      BY DEF Effect, Branchable, Proper
    <2> HIDE DEF c
    <2>2. Rises(<<c>>, 0)
      BY <2>1, RisesOne, Zenon
    <2> QED
      BY <2>2, Zenon DEF Swap, Plain, c
  <1>7. \A fn : Rises(Calc(fn, 1), 0) /\ Rises(Calc(fn, 2), -1) /\ Rises(Calc(fn, 3), -2)
    <2>1. 1 \in 1..3 /\ 2 \in 1..3 /\ 3 \in 1..3 /\ 1 - 1 = 0 /\ 1 - 2 = -1 /\ 1 - 3 = -2
      OBVIOUS
    <2> TAKE fn
    <2>2. Rises(Calc(fn, 1), 1 - 1) /\ Rises(Calc(fn, 2), 1 - 2) /\ Rises(Calc(fn, 3), 1 - 3)
      BY <1>3, <2>1
    <2> QED
      BY <2>1, <2>2
  <1> QED
    BY <1>1, <1>2, <1>4, <1>5, <1>6, <1>7, Zenon

LEMMA SmallPartsRise ==
    /\ \A bytes : Rises(Append2(bytes), 0)
    /\ Rises(FinishHash, -1)
  <1>0. 1 + -1 = 0 /\ 1 + 1 = 2 /\ 2 + -2 = 0 /\ 0 + -1 = -1 /\ -1 + 0 = -1
    OBVIOUS
  <1>1. ASSUME NEW bytes PROVE Rises(Append2(bytes), 0)
    <2>1. Rises(Push(bytes) \o Cat, 1 + -1)
      BY PrimitivesRise, RisesConcat DEF Cat
    <2> QED
      BY <1>0, <2>1, Zenon DEF Append2
  <1>2. Rises(Cut, 0)
    <2>1. Rises(Num(0) \o Num(N), 1 + 1)
      BY PrimitivesRise, RisesConcat
    <2>2. Rises(Num(0) \o Num(N) \o Calc("substr", 3), 2 + -2)
      BY <1>0, <2>1, PrimitivesRise, RisesConcat
    <2> QED
      BY <1>0, <2>2, Zenon DEF Cut, Substr
  <1>3. Rises(Swap \o Cat, 0 + -1)
    BY PrimitivesRise, RisesConcat DEF Cat
  <1>4. Rises(Swap \o Cat \o Sha, -1 + 0)
    BY <1>0, <1>3, PrimitivesRise, RisesConcat DEF Sha
  <1>5. Rises(Swap \o Cat \o Sha \o Cut, -1 + 0)
    BY <1>0, <1>2, <1>4, RisesConcat
  <1> QED
    BY <1>0, <1>1, <1>5, Zenon DEF FinishHash

\* A node of a tree: what is hashed first depends on a bit.
LEMMA NodeAboveOpens ==
    ASSUME NEW context, NEW number, NEW height, NEW width \in Int, NEW bits
    PROVE  Opens(EmitNodeAbove(context, number, height, width, bits))
  <1>1. ASSUME NEW bit PROVE Opens(EmitMerkleStep(bits, bit))
    <2> DEFINE before == Rename("pfx") \o Roll("node") \o Roll("auth")
                           \o Pick(bits) \o ShiftRight(bit) \o LowBits(1)
               taken  == before \o If
               swapped == taken \o Swap
               ended  == swapped \o EndIf
               after  == ended \o Cat \o Cat \o Sha \o Cut \o Rename("node")
    <2>1. Calls(before, Simple)
      BY SimplePrimitives, SimpleSmallParts, SimpleComposed
    <2> HIDE DEF before
    <2>2. OpensTo(taken, 0)
      BY <2>1, OpensIf
    <2> HIDE DEF taken
    <2>3. OpensTo(swapped, 0 - 0)
      BY <2>2, PrimitivesRise, OpensToMore
    <2> HIDE DEF swapped
    <2>4. Opens(ended)
      <3>1. 0 - 0 = 0
        OBVIOUS
      <3> QED
        BY <2>3, <3>1, OpensEnd
    <2> HIDE DEF ended
    <2>5. Opens(after)
      BY <2>4, OpensMore, Primitives, SmallParts
    <2>6. EmitMerkleStep(bits, bit) = after
      BY Zenon DEF EmitMerkleStep, after, ended, swapped, taken, before
    <2> QED
      BY <2>5, <2>6
  <1> DEFINE prefix == EmitNodePrefix(context, height, width)
             merkle == EmitMerkleStep(bits, height - 1)
             begin  == Fetch("auth") \o Pick(number) \o ShiftRight(height) \o EmitBeBytes(width)
                         \o prefix
  <1>2. Calls(prefix, Simple)
    BY SimplePrimitives, SimpleSmallParts, SimpleComposed DEF EmitNodePrefix
  <1>3. Opens(merkle)
    BY <1>1
  <1> HIDE DEF prefix, merkle
  <1>4. Calls(begin, Simple)
    BY <1>2, BeBytesSimple, SimplePrimitives, SimpleSmallParts, SimpleComposed
  <1> HIDE DEF begin
  <1>5. Opens(begin \o merkle)
    BY <1>3, <1>4, OpensAfter
  <1> QED
    BY <1>5, Zenon DEF EmitNodeAbove, begin, prefix, merkle

\* A step of a chain: one item is hashed, or left as it is.
LEMMA ChainStepOpens ==
    ASSUME NEW s
    PROVE  Opens(EmitChainStep(s))
  <1> DEFINE before == Over \o Num(s) \o Calc("lte", 2)
             taken  == before \o If
             copied == taken \o Pick("hcwi")
             longer == copied \o Append2(<<s>>)
             hashed == longer \o FinishHash
             named  == hashed \o Rename("x")
  <1>0. 0 - 1 = -1 /\ -1 - 0 = -1 /\ -1 - -1 = 0 /\ 0 - 0 = 0 /\ 2 \in 1..3
    OBVIOUS
  <1>1. Calls(before, Simple)
    BY <1>0, SimplePrimitives, SimpleComposed
  <1> HIDE DEF before
  <1>2. OpensTo(taken, 0)
    BY <1>1, OpensIf
  <1> HIDE DEF taken
  <1>3. OpensTo(copied, 0 - 1)
    BY <1>2, PrimitivesRise, OpensToMore
  <1> HIDE DEF copied
  <1>4. OpensTo(longer, -1 - 0)
    BY <1>0, <1>3, SmallPartsRise, OpensToMore
  <1> HIDE DEF longer
  <1>5. OpensTo(hashed, -1 - -1)
    BY <1>0, <1>4, SmallPartsRise, OpensToMore
  <1> HIDE DEF hashed
  <1>6. OpensTo(named, 0 - 0)
    BY <1>0, <1>5, PrimitivesRise, OpensToMore
  <1> HIDE DEF named
  <1>7. Opens(named \o EndIf)
    BY <1>0, <1>6, OpensEnd
  <1> QED
    BY <1>7, Zenon DEF EmitChainStep, named, hashed, longer, copied, taken, before

\* The body of every phase.
LEMMA SlhBodyOpens ==
    ASSUME NEW p, NEW pk, WellFormed(p), NEW c, c.op \in SlhPhases, Proper(c)
    PROVE  Opens(SlhBodyOf(p, pk, c))
  <1>1. c.op \in {"fors_tree", "fors_node", "layer", "layer_node", "csum_term", "chain", "chain_step"}
    BY DEF SlhPhases
  <1>2. CASE c.op = "fors_tree"
    <2>1. SlhBodyOf(p, pk, c) = EmitForsTree(p, c.i) /\ c.i \in Int
      BY <1>2 DEF SlhBodyOf, Proper
    <2> QED
      BY <2>1, ForsTreeStraight, OpensStraight
  <1>3. CASE c.op = "layer"
    <2>1. SlhBodyOf(p, pk, c) = EmitLayer(p, pk, c.i)
      BY <1>3 DEF SlhBodyOf
    <2> QED
      BY <2>1, LayerStraight, OpensStraight
  <1>4. CASE c.op = "csum_term"
    <2>1. SlhBodyOf(p, pk, c) = EmitCsumTerm(p, c.i)
      BY <1>4 DEF SlhBodyOf
    <2> QED
      BY <2>1, DigitsStraight, OpensStraight
  <1>5. CASE c.op = "chain"
    <2>1. SlhBodyOf(p, pk, c) = EmitChain(p, c.i)
      BY <1>5 DEF SlhBodyOf
    <2> QED
      BY <2>1, ChainStraight, OpensStraight
  <1>6. CASE c.op = "chain_step"
    <2>1. SlhBodyOf(p, pk, c) = EmitChainStep(c.i)
      BY <1>6 DEF SlhBodyOf
    <2> QED
      BY <2>1, ChainStepOpens
  <1>7. CASE c.op = "fors_node"
    <2>1. SlhBodyOf(p, pk, c) = EmitNodeAbove("hcf", "lx", c.i, ForsIndexWidth(p), "idx")
      BY <1>7 DEF SlhBodyOf
    <2> QED
      BY <2>1, NodeAboveOpens, SetTypes
  <1>8. CASE c.op = "layer_node"
    <2>1. SlhBodyOf(p, pk, c) = EmitNodeAbove("hct", "lleaf", c.i, XmssIndexWidth(p), "lleaf")
      BY <1>8 DEF SlhBodyOf
    <2> QED
      BY <2>1, NodeAboveOpens, SetTypes
  <1> QED
    BY <1>1, <1>2, <1>3, <1>4, <1>5, <1>6, <1>7, <1>8

-----------------------------------------------------------------------------
(* One call of the emitter: how much higher it leaves the frame and the      *)
(* stack.                                                                    *)

LEMMA CutOff ==
    ASSUME NEW s, IsSequence(s), NEW n \in Nat, n <= Len(s)
    PROVE  /\ IsSequence(SubSeq(s, 1, Len(s) - n)) /\ Len(SubSeq(s, 1, Len(s) - n)) = Len(s) - n
           /\ \A i \in 1 .. Len(s) - n : SubSeq(s, 1, Len(s) - n)[i] = s[i]
  <1>1. Len(s) \in Nat /\ \A i \in 1..Len(s) : s[i] \in Range(s)
    BY LenProperties, ElementOfSeq DEF IsSequence
  <1> DEFINE m == Len(s) - n
             u == SubSeq(s, 1, m)
  <1>2. m \in Nat /\ m - 1 + 1 = m /\ \A i \in 1..m : i \in 1..Len(s) /\ 1 + i - 1 = i
    BY <1>1
  <1> HIDE DEF m
  <1>3. \A i \in 1..m : s[i] \in Range(s)
    BY <1>1, <1>2
  <1>4. /\ u \in Seq(Range(s)) /\ Len(u) = (IF 1 <= m THEN m - 1 + 1 ELSE 0)
        /\ \A i \in 1 .. m - 1 + 1 : u[i] = s[1 + i - 1]
    BY <1>2, <1>3, SubSeqProperties
  <1> HIDE DEF u
  <1>5. Len(u) = m
    BY <1>2, <1>4
  <1>6. \A i \in 1..m : u[i] = s[i]
    BY <1>2, <1>4
  <1>7. IsSequence(u)
    BY <1>4, SequenceIs
  <1> QED
    BY <1>5, <1>6, <1>7 DEF u, m

LEMMA WithoutLast ==
    ASSUME NEW s, IsSequence(s), s # <<>>
    PROVE  /\ IsSequence(Front(s)) /\ Len(Front(s)) = Len(s) - 1 /\ Last(s) = s[Len(s)]
           /\ Len(s) \in Nat \ {0} /\ \A i \in 1 .. Len(s) - 1 : Front(s)[i] = s[i]
  <1>1. Len(s) \in Nat \ {0}
    BY SequenceLen
  <1>2. 1 \in Nat /\ 1 <= Len(s)
    BY <1>1
  <1> QED
    BY <1>1, <1>2, CutOff DEF Front, Last

LEMMA WithoutOne ==
    ASSUME NEW s, IsSequence(s), NEW i \in 1..Len(s)
    PROVE  IsSequence(RemoveAt(s, i)) /\ Len(RemoveAt(s, i)) = Len(s) - 1
  <1> DEFINE L == Len(s)
             a == SubSeq(s, 1, i - 1)
             b == SubSeq(s, i + 1, L)
  <1>1. L \in Nat /\ \A j \in 1..L : s[j] \in Range(s)
    BY LenProperties, ElementOfSeq DEF IsSequence
  <1> HIDE DEF L
  <1>2. i \in 1..L /\ i - 1 \in Int /\ i + 1 \in Int
    BY <1>1 DEF L
  <1>3. \A j \in 1 .. i - 1 : s[j] \in Range(s)
    BY <1>1, <1>2
  <1>4. \A j \in i + 1 .. L : s[j] \in Range(s)
    BY <1>1, <1>2
  <1>5. a \in Seq(Range(s)) /\ Len(a) = (IF 1 <= i - 1 THEN (i - 1) - 1 + 1 ELSE 0)
    BY <1>2, <1>3, SubSeqProperties
  <1>6. b \in Seq(Range(s)) /\ Len(b) = (IF i + 1 <= L THEN L - (i + 1) + 1 ELSE 0)
    BY <1>1, <1>2, <1>4, SubSeqProperties
  <1> HIDE DEF a, b
  <1>7. IsSequence(a) /\ IsSequence(b)
    BY <1>5, <1>6, SequenceIs
  <1>8. IsSequence(a \o b) /\ Len(a \o b) = Len(a) + Len(b)
    BY <1>7, SequenceConcat
  <1>9. Len(a) + Len(b) = L - 1
    BY <1>1, <1>2, <1>5, <1>6
  <1> QED
    BY <1>8, <1>9 DEF RemoveAt, a, b, L

LEMMA WithTop ==
    ASSUME NEW s, IsSequence(s), NEW x
    PROVE  IsSequence(Append(s, x)) /\ Len(Append(s, x)) = Len(s) + 1
  BY Stacked1

\* A greatest number of those up to n.
LEMMA Greatest ==
    ASSUME NEW n \in Nat, NEW S, S \subseteq 1..n, S # {}
    PROVE  Max(S) \in S
  <1> DEFINE K == {m \in Nat : S \cap (1..m) # {} => \E x \in S \cap (1..m) : \A y \in S \cap (1..m) : x >= y}
  <1>1. 0 \in K
    OBVIOUS
  <1>2. ASSUME NEW m \in Nat, m \in K PROVE m + 1 \in K
    <2>1. CASE m + 1 \in S
      <3>1. m + 1 \in S \cap (1 .. m + 1) /\ \A y \in S \cap (1 .. m + 1) : m + 1 >= y
        BY <2>1
      <3> QED
        BY <3>1
    <2>2. CASE m + 1 \notin S
      <3>1. S \cap (1 .. m + 1) = S \cap (1..m)
        BY <2>2
      <3> QED
        BY <1>2, <3>1
    <2> QED
      BY <2>1, <2>2
  <1>3. n \in K
    <2> HIDE DEF K
    <2> QED
      BY <1>1, <1>2, InductionOn
  <1>4. S \cap (1..n) = S
    OBVIOUS
  <1>5. \E x \in S : \A y \in S : x >= y
    BY <1>3, <1>4
  <1> QED
    BY <1>5, Zenon DEF Max

\* What an opcode did that leaves the stack e higher.
RanBy(e) ==
  /\ alt' = alt /\ skip' = skip /\ IsSequence(main')
  /\ \/ failed' /\ main' = main
     \/ ~failed' /\ Len(main') = Len(main) + (IF skip THEN 0 ELSE e) /\ (skip => main' = main)

LEMMA ExecutedBy ==
    ASSUME NEW accepts, NEW stack, NEW e, Execute(accepts, stack, alt), IsSequence(main),
           accepts => IsSequence(stack) /\ Len(stack) = Len(main) + e
    PROVE  RanBy(e)
  <1>1. Len(main) \in Nat /\ Len(main) + 0 = Len(main)
    BY SequenceLen
  <1>2. CASE ~skip /\ accepts
    <2>1. main' = stack /\ alt' = alt /\ ~failed' /\ skip' = skip
      BY <1>2, Zenon DEF Execute
    <2> QED
      BY <1>2, <2>1 DEF RanBy
  <1>3. CASE skip
    <2>1. main' = main /\ alt' = alt /\ ~failed' /\ skip' = skip
      BY <1>3, Zenon DEF Execute
    <2> QED
      BY <1>1, <1>3, <2>1 DEF RanBy
  <1>4. CASE ~skip /\ ~accepts
    <2>1. main' = main /\ alt' = alt /\ failed' /\ skip' = skip
      BY <1>4, Zenon DEF Execute
    <2> QED
      BY <2>1 DEF RanBy
  <1> QED
    BY <1>2, <1>3, <1>4

LEMMA BelowIs ==
    ASSUME IsSequence(main), NEW n \in Nat, n <= Depth
    PROVE  IsSequence(Below(n)) /\ Len(Below(n)) = Depth - n
  BY CutOff DEF Below, Depth

LEMMA OpcodesRun ==
    ASSUME IsSequence(main)
    PROVE  /\ \A bytes : OpPush(bytes) => RanBy(1)
           /\ \A fn : \A n \in 1..3 : OpCalc(fn, n) => RanBy(1 - n)
           /\ OpDup \/ OpOver => RanBy(1)
           /\ OpSwap \/ OpPick => RanBy(0)
           /\ OpDrop \/ OpNip \/ OpRoll => RanBy(-1)
  <1>0. Depth = Len(main) /\ Depth \in Nat
    BY SequenceLen DEF Depth
  <1>1. ASSUME NEW bytes, OpPush(bytes) PROVE RanBy(1)
    BY <1>1, ExecutedBy, WithTop DEF OpPush
  <1>2. ASSUME NEW fn, NEW n \in 1..3, OpCalc(fn, n) PROVE RanBy(1 - n)
    <2> DEFINE x == SubSeq(main, Depth - n + 1, Depth)
               accepts == n <= Depth /\ Accepts(fn, x)
               stack   == Append(Below(n), Result(fn, x))
    <2>1. Execute(accepts, stack, alt)
      BY <1>2, Zenon DEF OpCalc
    <2>2. ASSUME accepts PROVE IsSequence(stack) /\ Len(stack) = Len(main) + (1 - n)
      <3>1. IsSequence(Below(n)) /\ Len(Below(n)) = Depth - n
        BY <2>2, BelowIs
      <3>2. IsSequence(stack) /\ Len(stack) = Depth - n + 1
        BY <3>1, WithTop
      <3> HIDE DEF stack, accepts
      <3> QED
        BY <1>0, <3>2
    <2> HIDE DEF accepts, stack
    <2> QED
      BY <2>1, <2>2, ExecutedBy
  <1>3. ASSUME OpDup \/ OpOver PROVE RanBy(1)
    <2>1. \A x : IsSequence(Append(main, x)) /\ Len(Append(main, x)) = Len(main) + 1
      BY WithTop
    <2>2. \E accepts, x : Execute(accepts, Append(main, x), alt)
      BY <1>3, Zenon DEF OpDup, OpOver
    <2> QED
      BY <2>1, <2>2, ExecutedBy
  <1>4. ASSUME OpNip PROVE RanBy(-1)
    <2>1. ASSUME Depth >= 2 PROVE IsSequence(Append(Below(2), Top)) /\ Len(Append(Below(2), Top)) = Len(main) + -1
      <3>1. IsSequence(Below(2)) /\ Len(Below(2)) = Depth - 2
        BY <2>1, BelowIs
      <3>2. IsSequence(Append(Below(2), Top)) /\ Len(Append(Below(2), Top)) = Depth - 2 + 1
        BY <3>1, WithTop
      <3> QED
        BY <1>0, <3>2
    <2> QED
      BY <1>4, <2>1, ExecutedBy DEF OpNip
  <1>5. ASSUME OpDrop PROVE RanBy(-1)
    <2>1. ASSUME Depth >= 1 PROVE IsSequence(Below(1)) /\ Len(Below(1)) = Len(main) + -1
      <3>1. IsSequence(Below(1)) /\ Len(Below(1)) = Depth - 1
        BY <2>1, BelowIs
      <3> QED
        BY <1>0, <3>1
    <2> QED
      BY <1>5, <2>1, ExecutedBy DEF OpDrop
  <1>6. ASSUME OpSwap PROVE RanBy(0)
    <2> DEFINE stack == Below(2) \o <<Top, main[Depth - 1]>>
    <2>1. ASSUME Depth >= 2 PROVE IsSequence(stack) /\ Len(stack) = Len(main) + 0
      <3>1. IsSequence(Below(2)) /\ Len(Below(2)) = Depth - 2
        BY <2>1, BelowIs
      <3>2. IsSequence(<<Top, main[Depth - 1]>>) /\ Len(<<Top, main[Depth - 1]>>) = 2
        BY Pairs
      <3>3. IsSequence(stack) /\ Len(stack) = (Depth - 2) + 2
        BY <3>1, <3>2, SequenceConcat
      <3> HIDE DEF stack
      <3> QED
        BY <1>0, <3>3
    <2>2. Execute(Depth >= 2, stack, alt)
      BY <1>6, Zenon DEF OpSwap
    <2> HIDE DEF stack
    <2> QED
      BY <2>1, <2>2, ExecutedBy
  <1>7. ASSUME OpPick PROVE RanBy(0)
    <2> DEFINE stack == Append(Below(1), main[Named])
    <2>1. ASSUME NamesItem PROVE IsSequence(stack) /\ Len(stack) = Len(main) + 0
      <3>1. Depth >= 2
        BY <2>1 DEF NamesItem
      <3>2. IsSequence(Below(1)) /\ Len(Below(1)) = Depth - 1
        BY <1>0, <3>1, BelowIs
      <3>3. IsSequence(stack) /\ Len(stack) = (Depth - 1) + 1
        BY <3>2, WithTop
      <3> HIDE DEF stack
      <3> QED
        BY <1>0, <3>3
    <2>2. Execute(NamesItem, stack, alt)
      BY <1>7, Zenon DEF OpPick
    <2> HIDE DEF stack
    <2> QED
      BY <2>1, <2>2, ExecutedBy
  <1>8. ASSUME OpRoll PROVE RanBy(-1)
    <2> DEFINE stack == Append(RemoveAt(Below(1), Named), main[Named])
    <2>1. ASSUME NamesItem PROVE IsSequence(stack) /\ Len(stack) = Len(main) + -1
      <3>1. Depth >= 2 /\ Decode(Top) \in 0 .. Depth - 2
        BY <2>1 DEF NamesItem
      <3>2. IsSequence(Below(1)) /\ Len(Below(1)) = Depth - 1
        BY <1>0, <3>1, BelowIs
      <3>3. Named \in 1..Len(Below(1))
        BY <1>0, <3>1, <3>2 DEF Named
      <3> DEFINE r == RemoveAt(Below(1), Named)
      <3>4. IsSequence(r) /\ Len(r) = Len(Below(1)) - 1
        BY <3>2, <3>3, WithoutOne
      <3> HIDE DEF r
      <3>5. IsSequence(Append(r, main[Named])) /\ Len(Append(r, main[Named])) = Len(r) + 1
        BY <3>4, WithTop
      <3>6. IsSequence(stack) /\ Len(stack) = ((Depth - 1) - 1) + 1
        BY <3>2, <3>4, <3>5 DEF r
      <3> HIDE DEF stack
      <3> QED
        BY <1>0, <3>6
    <2>2. Execute(NamesItem, stack, alt)
      BY <1>8, Zenon DEF OpRoll
    <2> HIDE DEF stack
    <2> QED
      BY <2>1, <2>2, ExecutedBy
  <1> QED
    BY <1>1, <1>2, <1>3, <1>4, <1>5, <1>6, <1>7, <1>8

\* What a primitive did that leaves the frame e higher.
FrameBy(e) ==
  /\ IsSequence(frame') /\ Len(frame') = Len(frame) + e
  /\ peak' \in Nat /\ peak' >= peak
  /\ Len(frame') <= Len(frame) \/ Len(frame') <= peak'

LEMMA PeakNoted ==
    ASSUME IsSequence(frame'), peak \in Nat, NotePeak
    PROVE  peak' \in Nat /\ peak' >= peak /\ Len(frame') <= peak'
  <1>1. Len(frame') \in Nat
    BY SequenceLen
  <1>2. peak' = IF peak >= Len(frame') THEN peak ELSE Len(frame')
    BY <1>1, GreaterOf DEF NotePeak
  <1> QED
    BY <1>1, <1>2

LEMMA FrameMoves ==
    ASSUME IsSequence(frame), peak \in Nat
    PROVE  /\ \A slot : FramePush(slot) /\ NotePeak => FrameBy(1)
           /\ FramePop /\ peak' = peak => FrameBy(-1)
           /\ \A slot : \A n \in 1..3 : FrameReplace(n, slot) /\ (peak' = peak \/ NotePeak) => FrameBy(1 - n)
           /\ Len(frame) >= 2 /\ frame' = Rolled(frame, 1) /\ peak' = peak => FrameBy(0)
           /\ \A d \in Nat : Len(frame) - 1 > d /\ frame' = Rolled(Front(frame), d) /\ peak' = peak => FrameBy(-1)
  <1>0. Len(frame) \in Nat
    BY SequenceLen
  <1>1. ASSUME NEW slot, FramePush(slot), NotePeak PROVE FrameBy(1)
    <2>1. IsSequence(frame') /\ Len(frame') = Len(frame) + 1
      BY <1>1, WithTop DEF FramePush
    <2> QED
      BY <1>1, <2>1, PeakNoted DEF FrameBy
  <1>2. ASSUME FramePop, peak' = peak PROVE FrameBy(-1)
    <2>1. IsSequence(frame') /\ Len(frame') = Len(frame) - 1
      BY <1>2, WithoutLast DEF FramePop
    <2> QED
      BY <1>0, <1>2, <2>1 DEF FrameBy
  <1>3. ASSUME NEW slot, NEW n \in 1..3, FrameReplace(n, slot), peak' = peak \/ NotePeak PROVE FrameBy(1 - n)
    <2>1. n \in Nat /\ n <= Len(frame)
      BY <1>0, <1>3 DEF FrameReplace
    <2>2. IsSequence(FrameBelow(n)) /\ Len(FrameBelow(n)) = Len(frame) - n
      BY <2>1, CutOff DEF FrameBelow
    <2>3. IsSequence(frame') /\ Len(frame') = (Len(frame) - n) + 1
      BY <1>3, <2>2, WithTop DEF FrameReplace
    <2>4. Len(frame') = Len(frame) + (1 - n) /\ Len(frame') <= Len(frame)
      BY <1>0, <2>3
    <2>5. peak' \in Nat /\ peak' >= peak
      BY <1>3, <2>3, PeakNoted
    <2> QED
      BY <2>3, <2>4, <2>5 DEF FrameBy
  <1>4. ASSUME Len(frame) >= 2, frame' = Rolled(frame, 1), peak' = peak PROVE FrameBy(0)
    <2> DEFINE i == Len(frame) - 1
               r == RemoveAt(frame, i)
    <2>1. i \in 1..Len(frame)
      BY <1>0, <1>4
    <2>2. IsSequence(r) /\ Len(r) = Len(frame) - 1
      BY <2>1, WithoutOne
    <2>3. frame' = Append(r, frame[i])
      BY <1>4 DEF Rolled
    <2> HIDE DEF r, i
    <2>4. IsSequence(frame') /\ Len(frame') = (Len(frame) - 1) + 1
      BY <2>2, <2>3, WithTop
    <2>5. Len(frame') = Len(frame) + 0 /\ Len(frame') <= Len(frame)
      BY <1>0, <2>4
    <2> QED
      BY <1>4, <2>4, <2>5 DEF FrameBy
  <1>5. ASSUME NEW d \in Nat, Len(frame) - 1 > d, frame' = Rolled(Front(frame), d), peak' = peak
        PROVE  FrameBy(-1)
    <2>1. frame # <<>>
      BY <1>0, <1>5, SequenceLen
    <2> DEFINE f == Front(frame)
               i == Len(f) - d
               r == RemoveAt(f, i)
    <2>2. IsSequence(f) /\ Len(f) = Len(frame) - 1
      BY <2>1, WithoutLast
    <2>3. frame' = Append(r, f[i])
      BY <1>5 DEF Rolled
    <2> HIDE DEF f
    <2>4. i \in 1..Len(f)
      BY <1>0, <1>5, <2>2
    <2> HIDE DEF i
    <2>5. IsSequence(r) /\ Len(r) = Len(f) - 1
      BY <2>2, <2>4, WithoutOne
    <2> HIDE DEF r
    <2>6. IsSequence(frame') /\ Len(frame') = ((Len(frame) - 1) - 1) + 1
      BY <2>2, <2>3, <2>5, WithTop
    <2>7. Len(frame') = Len(frame) + -1 /\ Len(frame') <= Len(frame)
      BY <1>0, <2>6
    <2> QED
      BY <1>5, <2>6, <2>7 DEF FrameBy
  <1> QED
    BY <1>1, <1>2, <1>3, <1>4, <1>5


\* The calls that stand for one opcode, or rename a slot.
Direct == {"data", "num", "calc", "dup", "over", "swap", "drop", "nip", "oppick", "oproll", "rename"}

Acts(e) ==
  /\ FrameBy(e) /\ RanBy(e)
  /\ todo' = Tail(todo) /\ given' = given /\ pending' = pending /\ next' = next

LEMMA DirectActs ==
    ASSUME Next, ~failed, IsSequence(todo), todo # <<>>, Current.op \in Direct, Proper(Current),
           IsSequence(main), IsSequence(frame), peak \in Nat
    PROVE  Acts(Effect(Current))
  <1>0. Advance => todo' = Tail(todo) /\ given' = given
    BY CallMade DEF Advance
  <1>1. CASE Current.op \in {"data", "num"}
    <2>1. PushItem
      BY <1>1, ActionOf
    <2>2. /\ \E bytes : OpPush(bytes)
          /\ FramePush(TRANSIENT) /\ NotePeak
          /\ Advance /\ pending' = pending /\ next' = next
      BY <2>1, Zenon DEF PushItem
    <2>3. Effect(Current) = 1
      BY <1>1 DEF Effect
    <2> QED
      BY <1>0, <2>2, <2>3, OpcodesRun, FrameMoves DEF Acts
  <1>2. CASE Current.op = "calc"
    <2>1. Calculate
      BY <1>2, ActionOf
    <2>2. /\ OpCalc(Current.fn, Current.n) /\ FrameReplace(Current.n, TRANSIENT)
          /\ Advance /\ pending' = pending /\ next' = next /\ peak' = peak
      BY <2>1, Zenon DEF Calculate
    <2>3. Effect(Current) = 1 - Current.n /\ Current.n \in 1..3
      BY <1>2 DEF Effect, Proper
    <2>4. RanBy(1 - Current.n) /\ FrameBy(1 - Current.n)
      BY <2>2, <2>3, OpcodesRun, FrameMoves
    <2> QED
      BY <1>0, <2>2, <2>3, <2>4 DEF Acts
  <1>3. CASE Current.op \in {"dup", "over"}
    <2>1. CopyTop
      BY <1>3, ActionOf
    <2>2. /\ OpDup \/ OpOver
          /\ FramePush(TRANSIENT) /\ NotePeak
          /\ Advance /\ pending' = pending /\ next' = next
      BY <2>1, Zenon DEF CopyTop
    <2>3. Effect(Current) = 1
      BY <1>3 DEF Effect
    <2> QED
      BY <1>0, <2>2, <2>3, OpcodesRun, FrameMoves DEF Acts
  <1>4. CASE Current.op = "swap"
    <2>1. SwapTop
      BY <1>4, ActionOf
    <2>2. /\ OpSwap /\ Len(frame) >= 2 /\ frame' = Rolled(frame, 1)
          /\ Advance /\ pending' = pending /\ next' = next /\ peak' = peak
      BY <2>1, Zenon DEF SwapTop
    <2>3. Effect(Current) = 0
      BY <1>4 DEF Effect
    <2> QED
      BY <1>0, <2>2, <2>3, OpcodesRun, FrameMoves DEF Acts
  <1>5. CASE Current.op = "drop"
    <2>1. DropTop
      BY <1>5, ActionOf
    <2>2. /\ OpDrop /\ FramePop
          /\ Advance /\ pending' = pending /\ next' = next /\ peak' = peak
      BY <2>1, Zenon DEF DropTop
    <2>3. Effect(Current) = -1
      BY <1>5 DEF Effect
    <2> QED
      BY <1>0, <2>2, <2>3, OpcodesRun, FrameMoves DEF Acts
  <1>6. CASE Current.op = "nip"
    <2>1. NipTop
      BY <1>6, ActionOf
    <2>2. /\ OpNip /\ FrameReplace(2, Last(frame))
          /\ Advance /\ pending' = pending /\ next' = next /\ peak' = peak
      BY <2>1, Zenon DEF NipTop
    <2>3. Effect(Current) = -1 /\ 2 \in 1..3 /\ 1 - 2 = -1
      BY <1>6 DEF Effect
    <2>4. FrameBy(1 - 2) /\ RanBy(-1)
      BY <2>2, <2>3, OpcodesRun, FrameMoves
    <2> QED
      BY <1>0, <2>2, <2>3, <2>4 DEF Acts
  <1>7. CASE Current.op = "oppick"
    <2>1. PickSlot
      BY <1>7, ActionOf
    <2>2. /\ OpPick /\ FrameReplace(1, TRANSIENT) /\ NotePeak
          /\ Advance /\ pending' = pending /\ next' = next
      BY <2>1, Zenon DEF PickSlot
    <2>3. Effect(Current) = 0 /\ 1 \in 1..3 /\ 1 - 1 = 0
      BY <1>7 DEF Effect
    <2>4. FrameBy(1 - 1) /\ RanBy(0)
      BY <2>2, <2>3, OpcodesRun, FrameMoves
    <2> QED
      BY <1>0, <2>2, <2>3, <2>4 DEF Acts
  <1>8. CASE Current.op = "oproll"
    <2>1. RollSlot
      BY <1>8, ActionOf
    <2>2. /\ OpRoll /\ Len(frame) - 1 > Current.depth /\ frame' = Rolled(Front(frame), Current.depth)
          /\ Advance /\ pending' = pending /\ next' = next /\ peak' = peak
      BY <2>1, Zenon DEF RollSlot
    <2>3. Effect(Current) = -1 /\ Current.depth \in Nat
      BY <1>8 DEF Effect, Proper
    <2> QED
      BY <1>0, <2>2, <2>3, OpcodesRun, FrameMoves DEF Acts
  <1>9. CASE Current.op = "rename"
    <2>1. NameTop
      BY <1>9, ActionOf
    <2>2. /\ FrameReplace(1, Current.slot)
          /\ Advance /\ pending' = pending /\ next' = next /\ peak' = peak /\ UNCHANGED machine
      BY <2>1, Zenon DEF NameTop
    <2>3. Effect(Current) = 0 /\ 1 \in 1..3 /\ 1 - 1 = 0
      BY <1>9 DEF Effect
    <2>4. FrameBy(1 - 1)
      BY <2>2, <2>3, FrameMoves
    <2>5. RanBy(0)
      <3>1. main' = main /\ alt' = alt /\ skip' = skip /\ failed' = failed
        BY <2>2 DEF machine
      <3>2. Len(main) + 0 = Len(main)
        BY SequenceLen
      <3> QED
        BY <3>1, <3>2 DEF RanBy
    <2> QED
      BY <1>0, <2>2, <2>3, <2>4, <2>5 DEF Acts
  <1> QED
    BY <1>1, <1>2, <1>3, <1>4, <1>5, <1>6, <1>7, <1>8, <1>9 DEF Direct

-----------------------------------------------------------------------------
(* The blobs, and the elements in them. *)

\* A signature has more elements than a blob.
LEMMA ElementsEnough ==
    ASSUME NEW p, WellFormed(p)
    PROVE  SigElements(p) \in Nat /\ SigElements(p) >= 4
  <1>1. {p.h, p.d, p.hp, p.a, p.k} \subseteq Nat \ {0} /\ p.lgw \in 1..8 /\ W(p) \in 2..256
    BY SetTypes
  <1>2. Len1(p) \in Nat
    BY <1>1, WidthsAssumption DEF Len1, CeilDiv
  <1>3. Len2(p) \in Nat \ {0}
    <2>1. Log2(Len1(p) * (W(p) - 1)) \in Nat
      BY Log2Type
    <2> QED
      BY <1>1, <2>1 DEF Len2
  <1>4. WotsLen(p) \in Nat \ {0}
    BY <1>2, <1>3 DEF WotsLen
  <1>5. \A x, y \in Nat \ {0} : x * y \in Nat \ {0}
    OBVIOUS
  <1>6. p.d * WotsLen(p) \in Nat \ {0}
    BY <1>1, <1>4, <1>5
  <1>7. p.k * (1 + p.a) \in Nat \ {0}
    <2>1. 1 + p.a \in Nat \ {0}
      BY <1>1
    <2> QED
      BY <1>1, <1>5, <2>1
  <1> DEFINE forsPart == p.k * (1 + p.a)
             wotsPart == p.d * WotsLen(p)
  <1>8. SigElements(p) = 1 + forsPart + p.h + wotsPart
    BY Zenon DEF SigElements
  <1>9. forsPart \in Nat \ {0} /\ wotsPart \in Nat \ {0} /\ p.h \in Nat \ {0}
    BY <1>1, <1>6, <1>7
  <1> HIDE DEF forsPart, wotsPart
  <1> QED
    BY <1>8, <1>9

\* Every blob but the last is full.
LEMMA PlanValues ==
    ASSUME NEW p, WellFormed(p), NEW b \in 1..Len(BlobPlan(p))
    PROVE  BlobPlan(p)[b] = IF b <= SigElements(p) \div 4 THEN 4 ELSE SigElements(p) % 4
  <1> DEFINE count == SigElements(p)
             full == count \div 4
             rest == count % 4
             blobs == [i \in 1..full |-> 4]
             last == IF rest = 0 THEN <<>> ELSE <<rest>>
  <1>1. count \in Nat
    BY ElementsCounted
  <1>2. full \in Nat
    BY <1>1
  <1>3. IsSequence(blobs) /\ Len(blobs) = full /\ \A i \in 1..full : blobs[i] = 4
    BY <1>2, CountedFrom
  <1>4. IsSequence(last) /\ \/ Len(last) = 0
                            \/ Len(last) = 1 /\ last[1] = rest
    <2>1. IsSequence(<<>>) /\ Len(<<>>) = 0
      BY CallsNone DEF Calls
    <2>2. IsSequence(<<rest>>) /\ Len(<<rest>>) = 1 /\ <<rest>>[1] = rest
      BY SequenceOne
    <2> QED
      BY <2>1, <2>2, Zenon
  <1>5. BlobPlan(p) = blobs \o last
    BY Zenon DEF BlobPlan, BLOB_ELEMS, count, full, rest, blobs, last
  <1> HIDE DEF blobs, last, full, rest
  <1>6. /\ Len(blobs \o last) = full + Len(last)
        /\ \A i \in 1 .. full + Len(last) : (blobs \o last)[i] = IF i <= full THEN blobs[i] ELSE last[i - full]
    BY <1>3, <1>4, SequenceConcat
  <1>7. b \in 1 .. full + Len(last)
    BY <1>5, <1>6
  <1>8. BlobPlan(p)[b] = IF b <= full THEN 4 ELSE rest
    <2>1. CASE b <= full
      <3>1. b \in 1..full
        BY <1>2, <1>7, <2>1
      <3> QED
        BY <1>3, <1>5, <1>6, <1>7, <2>1, <3>1
    <2>2. CASE ~(b <= full)
      <3>1. Len(last) # 0
        BY <1>2, <1>7, <2>2
      <3>2. Len(last) = 1 /\ last[1] = rest
        BY <1>4, <3>1
      <3>3. b - full = 1
        BY <1>2, <1>7, <2>2, <3>2
      <3> QED
        BY <1>5, <1>6, <1>7, <2>2, <3>2, <3>3
    <2> QED
      BY <2>1, <2>2
  <1> QED
    BY <1>8 DEF full, rest, count

\* The blob with the next element, when all before it have been fetched.
LEMMA NextBlob ==
    ASSUME NEW p, WellFormed(p), NEW n \in Nat, n < SigElements(p), n % 4 = 0
    PROVE  /\ Locate(n) \in 1..Len(BlobPlan(p)) /\ n = (Locate(n) - 1) * 4
           /\ BlobPlan(p)[Locate(n)] \in 1..4 /\ n + BlobPlan(p)[Locate(n)] <= SigElements(p)
           /\ CeilDiv(n, 4) = Locate(n) - 1
           /\ CeilDiv(n + BlobPlan(p)[Locate(n)], 4) = Locate(n)
  <1> DEFINE count == SigElements(p)
             b == Locate(n)
             c == BlobPlan(p)[b]
             full == count \div 4
             rest == count % 4
  <1>1. b \in 1..Len(BlobPlan(p)) /\ c \in 1..4
    BY PlanCovers
  <1>2. c = IF b <= full THEN 4 ELSE rest
    BY <1>1, PlanValues
  <1>3. count \in Nat /\ n < count
    BY ElementsCounted
  <1> HIDE DEF count
  <1>4. full \in Nat /\ rest \in 0..3 /\ count = 4 * full + rest
    BY <1>3
  <1>5. b = n \div 4 + 1 /\ b \in Nat /\ n = 4 * (b - 1)
    BY DEF Locate, BLOB_ELEMS
  <1> HIDE DEF b, full, rest
  <1>6. n + c <= count
    <2>1. CASE b <= full
      BY <1>2, <1>4, <1>5, <2>1
    <2>2. CASE ~(b <= full)
      <3>1. b - 1 <= full
        BY <1>3, <1>4, <1>5
      <3>2. b = full + 1
        BY <1>4, <1>5, <2>2, <3>1
      <3> QED
        BY <1>2, <1>4, <1>5, <2>2, <3>2
    <2> QED
      BY <2>1, <2>2
  <1>7. CeilDiv(n, 4) = b - 1
    <2>1. (4 * (b - 1) + 4 - 1) \div 4 = b - 1
      BY <1>5
    <2> QED
      BY <1>5, <2>1 DEF CeilDiv
  <1> HIDE DEF c
  <1>8. CeilDiv(n + c, 4) = b
    <2>1. (4 * (b - 1) + c + 4 - 1) \div 4 = b
      BY <1>1, <1>5
    <2> QED
      BY <1>5, <2>1 DEF CeilDiv
  <1>9. n = (b - 1) * 4
    BY <1>5
  <1> QED
    BY <1>1, <1>6, <1>7, <1>8, <1>9 DEF b, c, count

\* The estimate: all blobs but one, the elements of that one, and the frame.
LEMMA EstimateIs ==
    ASSUME NEW p, WellFormed(p), NEW slots
    PROVE  PeakStackEstimate(BlobPlan(p), slots) = Len(BlobPlan(p)) - 1 + 4 + slots
  <1> DEFINE plan == BlobPlan(p)
             V == {plan[b] : b \in DOMAIN plan}
  <1>1. /\ plan \in Seq(1..4) /\ DOMAIN plan = 1..Len(plan) /\ Len(plan) \in Nat \ {0}
    BY PlanIs
  <1>2. plan[1] = 4 /\ 1 \in DOMAIN plan
    <2>1. 1 \in 1..Len(plan)
      BY <1>1
    <2>2. 1 <= SigElements(p) \div 4
      BY ElementsEnough
    <2> QED
      BY <1>1, <2>1, <2>2, PlanValues
  <1>3. \A b \in DOMAIN plan : plan[b] \in 1..4
    BY <1>1, ElementOfSeq
  <1> HIDE DEF plan
  <1>4. 4 \in V /\ \A v \in V : v \in 1..4
    BY <1>2, <1>3
  <1> HIDE DEF V
  <1>5. \A u \in V : (\A v \in V : u >= v) => u = 4
    BY <1>4
  <1>6. \A v \in V : 4 >= v
    BY <1>4
  <1>7. (CHOOSE u \in V : \A v \in V : u >= v) = 4
    BY <1>4, <1>5, <1>6
  <1>8. Max(V) = 4
    BY <1>7, Zenon DEF Max
  <1> QED
    BY <1>8, Zenon DEF PeakStackEstimate, V, plan

\* The first k elements of a sequence after `from`, joined.
Joint(f, from, k) ==
  IF k = 1 THEN f[from + 1]
  ELSE IF k = 2 THEN f[from + 1] \o f[from + 2]
  ELSE IF k = 3 THEN (f[from + 1] \o f[from + 2]) \o f[from + 3]
  ELSE ((f[from + 1] \o f[from + 2]) \o f[from + 3]) \o f[from + 4]

LEMMA JointIs ==
    ASSUME NEW f, NEW from
    PROVE  /\ Joint(f, from, 1) = f[from + 1]
           /\ \A k \in 2..4 : Joint(f, from, k) = Joint(f, from, k - 1) \o f[from + k]
  <1>0. 2 # 1 /\ 3 # 1 /\ 3 # 2 /\ 4 # 1 /\ 4 # 2 /\ 4 # 3
    OBVIOUS
  <1>1. Joint(f, from, 1) = f[from + 1]
    BY Zenon DEF Joint
  <1>2. Joint(f, from, 2) = f[from + 1] \o f[from + 2]
    BY <1>0, Zenon DEF Joint
  <1>3. Joint(f, from, 3) = (f[from + 1] \o f[from + 2]) \o f[from + 3]
    BY <1>0, Zenon DEF Joint
  <1>4. Joint(f, from, 4) = ((f[from + 1] \o f[from + 2]) \o f[from + 3]) \o f[from + 4]
    BY <1>0, Zenon DEF Joint
  <1>5. ASSUME NEW k \in 2..4 PROVE Joint(f, from, k) = Joint(f, from, k - 1) \o f[from + k]
    <2>1. k = 2 \/ k = 3 \/ k = 4
      OBVIOUS
    <2>2. 2 - 1 = 1 /\ 3 - 1 = 2 /\ 4 - 1 = 3
      OBVIOUS
    <2>3. CASE k = 2
      BY <1>1, <1>2, <2>2, <2>3
    <2>4. CASE k = 3
      BY <1>2, <1>3, <2>2, <2>4
    <2>5. CASE k = 4
      BY <1>3, <1>4, <2>2, <2>5
    <2> QED
      BY <2>1, <2>3, <2>4, <2>5
  <1> QED
    BY <1>1, <1>5

\* The first k elements of f after `from` are sequences of length n, and what
\* that makes them when joined.
LongFrom(f, from, k, n, S) == \A i \in 1..4 : i <= k => f[from + i] \in [1..n -> S]
JointLong(f, from, k, n) == IsSequence(Joint(f, from, k)) /\ Len(Joint(f, from, k)) = k * n

LEMMA JointLen ==
    ASSUME NEW f, NEW from \in Nat, NEW k \in 1..4, NEW S, NEW n \in Nat, LongFrom(f, from, k, n, S)
    PROVE  JointLong(f, from, k, n)
  <1>1. \A s \in [1..n -> S] : IsSequence(s) /\ Len(s) = n
    <2> TAKE s \in [1..n -> S]
    <2>1. s = [i \in 1..n |-> s[i]]
      OBVIOUS
    <2> QED
      BY <2>1, CountedFrom
  <1> DEFINE J(j) == Joint(f, from, j)
             Good(j) == IsSequence(J(j)) /\ Len(J(j)) = j * n
  <1>2. \A i \in 1..4 : i <= k => IsSequence(f[from + i]) /\ Len(f[from + i]) = n
    BY <1>1 DEF LongFrom
  <1>3. Good(1)
    <2>1. 1 \in 1..4 /\ 1 <= k /\ 1 * n = n
      OBVIOUS
    <2> QED
      BY <1>2, <2>1, JointIs
  <1>4. ASSUME NEW j \in 2..4, j <= k, Good(j - 1) PROVE Good(j)
    <2>1. J(j) = J(j - 1) \o f[from + j]
      BY JointIs
    <2>2. IsSequence(f[from + j]) /\ Len(f[from + j]) = n
      <3>1. j \in 1..4
        OBVIOUS
      <3> QED
        BY <1>2, <1>4, <3>1
    <2> DEFINE a == J(j - 1)
               b == f[from + j]
    <2>3. IsSequence(a) /\ Len(a) = (j - 1) * n
      BY <1>4
    <2> HIDE DEF a
    <2>4. IsSequence(a \o b) /\ Len(a \o b) = (j - 1) * n + n
      BY <2>2, <2>3, SequenceConcat
    <2>5. (j - 1) * n + n = j * n
      <3>1. j = 2 \/ j = 3 \/ j = 4
        OBVIOUS
      <3> QED
        BY <3>1
    <2> HIDE DEF b, J
    <2> QED
      BY <2>1, <2>4, <2>5 DEF a, b
  <1> HIDE DEF Good
  <1>5. 2 <= k => Good(2)
    <2>1. 2 \in 2..4 /\ 2 - 1 = 1
      OBVIOUS
    <2> QED
      BY <1>3, <1>4, <2>1
  <1>6. 3 <= k => Good(3)
    <2>1. 3 \in 2..4 /\ 3 - 1 = 2 /\ (3 <= k => 2 <= k)
      OBVIOUS
    <2> QED
      BY <1>4, <1>5, <2>1
  <1>7. 4 <= k => Good(4)
    <2>1. 4 \in 2..4 /\ 4 - 1 = 3 /\ (4 <= k => 3 <= k)
      OBVIOUS
    <2> QED
      BY <1>4, <1>6, <2>1
  <1>8. Good(k)
    <2>1. k = 1 \/ k = 2 \/ k = 3 \/ k = 4
      OBVIOUS
    <2> QED
      BY <1>3, <1>5, <1>6, <1>7, <2>1
  <1> QED
    BY <1>8 DEF Good, J, JointLong

\* A few sequences, joined.
LEMMA FlattenedFew ==
    ASSUME NEW c \in 1..4, NEW f, f = [i \in 1..c |-> f[i]]
    PROVE  FlattenSeq(f) = Joint(f, 0, c)
  <1>1. Len(f) = c /\ Len(f) # 0
    OBVIOUS
  <1> DEFINE Solves(Q) == Q = [i \in 1..Len(f) |-> IF i = 1 THEN f[i] ELSE Q[i - 1] \o f[i]]
             P == CHOOSE Q : Solves(Q)
             G == [i \in 1..c |-> Joint(f, 0, i)]
  <1>2. FlattenSeq(f) = IF Len(f) = 0 THEN f ELSE P[Len(f)]
    BY Zenon DEF FlattenSeq
  <1>3. Solves(G)
    <2>1. ASSUME NEW i \in 1..c PROVE G[i] = IF i = 1 THEN f[i] ELSE G[i - 1] \o f[i]
      <3>1. CASE i = 1
        <4>1. Joint(f, 0, 1) = f[0 + 1] /\ 0 + 1 = 1
          BY JointIs
        <4> QED
          BY <3>1, <4>1
      <3>2. CASE i # 1
        <4>1. i \in 2..4 /\ i - 1 \in 1..c /\ 0 + i = i
          BY <3>2
        <4>2. Joint(f, 0, i) = Joint(f, 0, i - 1) \o f[0 + i]
          BY <4>1, JointIs
        <4>3. G[i] = Joint(f, 0, i) /\ G[i - 1] = Joint(f, 0, i - 1)
          BY <4>1
        <4> HIDE DEF G
        <4> QED
          BY <3>2, <4>1, <4>2, <4>3, Zenon
      <3> QED
        BY <3>1, <3>2
    <2>2. G = [i \in 1..Len(f) |-> IF i = 1 THEN f[i] ELSE G[i - 1] \o f[i]]
      <3>1. G = [i \in 1..c |-> G[i]]
        OBVIOUS
      <3> HIDE DEF G
      <3> QED
        BY <1>1, <2>1, <3>1
    <2> QED
      BY <2>2
  <1>4. Solves(P)
    BY <1>3, Zenon
  <1> HIDE DEF P
  <1>5. \A i \in 1..c : P[i] = IF i = 1 THEN f[i] ELSE P[i - 1] \o f[i]
    BY <1>1, <1>4
  <1>6. P[1] = Joint(f, 0, 1)
    <2>1. 1 \in 1..c /\ 0 + 1 = 1
      OBVIOUS
    <2>2. Joint(f, 0, 1) = f[1]
      BY <2>1, JointIs
    <2> QED
      BY <1>5, <2>1, <2>2
  <1>7. ASSUME NEW i \in 2..4, i <= c, P[i - 1] = Joint(f, 0, i - 1) PROVE P[i] = Joint(f, 0, i)
    <2>1. i \in 1..c /\ i # 1 /\ 0 + i = i
      BY <1>7
    <2>2. P[i] = P[i - 1] \o f[i]
      BY <1>5, <2>1, Zenon
    <2>3. Joint(f, 0, i) = Joint(f, 0, i - 1) \o f[0 + i]
      BY JointIs
    <2> QED
      BY <1>7, <2>1, <2>2, <2>3, Zenon
  <1>8. 2 <= c => P[2] = Joint(f, 0, 2)
    <2>1. 2 \in 2..4 /\ 2 - 1 = 1
      OBVIOUS
    <2> QED
      BY <1>6, <1>7, <2>1
  <1>9. 3 <= c => P[3] = Joint(f, 0, 3)
    <2>1. 3 \in 2..4 /\ 3 - 1 = 2 /\ (3 <= c => 2 <= c)
      OBVIOUS
    <2> QED
      BY <1>7, <1>8, <2>1
  <1>10. 4 <= c => P[4] = Joint(f, 0, 4)
    <2>1. 4 \in 2..4 /\ 4 - 1 = 3 /\ (4 <= c => 3 <= c)
      OBVIOUS
    <2> QED
      BY <1>7, <1>9, <2>1
  <1>11. P[c] = Joint(f, 0, c)
    <2>1. c = 1 \/ c = 2 \/ c = 3 \/ c = 4
      OBVIOUS
    <2> QED
      BY <1>6, <1>8, <1>9, <1>10, <2>1
  <1>12. FlattenSeq(f) = P[c]
    BY <1>1, <1>2, Zenon
  <1> QED
    BY <1>11, <1>12

\* A blob of the witness: its elements, joined.
LEMMA BlobIs ==
    ASSUME given \in ToSet(Cases), IsSlh, NEW n \in Nat, n < SigElements(given.p), n % 4 = 0
    PROVE  Witness[Locate(n)] = Joint(given.sig, n, BlobPlan(given.p)[Locate(n)])
  <1> DEFINE p == given.p
             sig == given.sig
             count == SigElements(p)
             b == Locate(n)
             c == BlobPlan(p)[b]
  <1>1. WellFormed(p) /\ sig \in [1..count -> [1..N -> Octet]]
    BY GivenTypes
  <1>2. b \in 1..Len(BlobPlan(p)) /\ n = (b - 1) * 4 /\ c \in 1..4 /\ n + c <= count
    BY <1>1, NextBlob
  <1>3. count \in Nat
    BY <1>1, ElementsCounted
  <1>4. b \in DOMAIN BlobPlan(p)
    BY <1>1, <1>2, PlanIs
  <1>5. Witness[b] = FlattenSeq(SubSeq(sig, n + 1, n + c))
    <2>1. Witness = SlhWitness(p, sig)
      BY DEF Witness
    <2>2. SlhWitness(p, sig)[b] =
            FlattenSeq(SubSeq(sig, (b - 1) * BLOB_ELEMS + 1, (b - 1) * BLOB_ELEMS + BlobPlan(p)[b]))
      <3> HIDE DEF p, sig, b
      <3> QED
        BY <1>4 DEF SlhWitness
    <2> QED
      BY <1>2, <2>1, <2>2, Zenon DEF BLOB_ELEMS
  <1> HIDE DEF count, sig, c, b
  <1> DEFINE s == SubSeq(sig, n + 1, n + c)
  <1>6. s = [i \in 1..c |-> sig[n + i]]
    <2> DEFINE E == [1..N -> Octet]
    <2>1. \A i \in n + 1 .. n + c : sig[i] \in E
      BY <1>1, <1>2, <1>3
    <2>2. n + 1 \in Int /\ n + c \in Int
      BY <1>2
    <2> HIDE DEF E
    <2>3. /\ s \in Seq(E) /\ Len(s) = (IF n + 1 <= n + c THEN (n + c) - (n + 1) + 1 ELSE 0)
          /\ \A i \in 1 .. (n + c) - (n + 1) + 1 : s[i] = sig[(n + 1) + i - 1]
      BY <2>1, <2>2, SubSeqProperties
    <2> HIDE DEF s
    <2>4. Len(s) = c /\ DOMAIN s = 1..Len(s) /\ (n + c) - (n + 1) + 1 = c
      BY <1>2, <2>3, LenProperties
    <2>5. \A i \in 1..c : s[i] = sig[n + i]
      <3> TAKE i \in 1..c
      <3>1. i \in 1 .. (n + c) - (n + 1) + 1 /\ (n + 1) + i - 1 = n + i
        BY <1>2
      <3> QED
        BY <2>3, <3>1
    <2>6. s = [i \in 1..c |-> s[i]]
      <3>1. s \in [1..Len(s) -> E]
        BY <2>3, LenProperties
      <3> QED
        BY <2>4, <3>1
    <2> QED
      BY <2>5, <2>6
  <1> HIDE DEF s
  <1>7. \A i \in 1..c : s[0 + i] = sig[n + i]
    <2> TAKE i \in 1..c
    <2>1. 0 + i = i
      BY <1>2
    <2> QED
      BY <1>6, <2>1
  <1>8. Joint(s, 0, c) = Joint(sig, n, c)
    <2>1. c = 1 \/ c = 2 \/ c = 3 \/ c = 4
      BY <1>2
    <2>2. c >= 1 => s[0 + 1] = sig[n + 1]
      BY <1>7
    <2>3. c >= 2 => s[0 + 2] = sig[n + 2]
      BY <1>2, <1>7
    <2>4. c >= 3 => s[0 + 3] = sig[n + 3]
      BY <1>2, <1>7
    <2>5. c >= 4 => s[0 + 4] = sig[n + 4]
      BY <1>2, <1>7
    <2>6. CASE c = 1
      <3>1. s[0 + 1] = sig[n + 1]
        BY <2>2, <2>6
      <3> QED
        BY <2>6, <3>1, Zenon DEF Joint
    <2>7. CASE c = 2
      <3>1. s[0 + 1] = sig[n + 1] /\ s[0 + 2] = sig[n + 2] /\ c # 1
        BY <2>2, <2>3, <2>7
      <3> QED
        BY <2>7, <3>1, Zenon DEF Joint
    <2>8. CASE c = 3
      <3>1. s[0 + 1] = sig[n + 1] /\ s[0 + 2] = sig[n + 2] /\ s[0 + 3] = sig[n + 3] /\ c # 1 /\ c # 2
        BY <2>2, <2>3, <2>4, <2>8
      <3> QED
        BY <2>8, <3>1, Zenon DEF Joint
    <2>9. CASE c = 4
      <3>1. /\ s[0 + 1] = sig[n + 1] /\ s[0 + 2] = sig[n + 2] /\ s[0 + 3] = sig[n + 3]
            /\ s[0 + 4] = sig[n + 4] /\ c # 1 /\ c # 2 /\ c # 3
        BY <2>2, <2>3, <2>4, <2>5, <2>9
      <3> QED
        BY <3>1, Zenon DEF Joint
    <2> QED
      BY <2>1, <2>6, <2>7, <2>8, <2>9
  <1>9. FlattenSeq(s) = Joint(s, 0, c)
    <2>1. s = [i \in 1..c |-> s[i]]
      BY <1>6
    <2> QED
      BY <1>2, <2>1, FlattenedFew
  <1>10. Witness[b] = Joint(sig, n, c)
    BY <1>5, <1>8, <1>9, Zenon DEF s
  <1> QED
    BY <1>10 DEF b, c, sig, p

-----------------------------------------------------------------------------
(* What waits on the alternative stack. *)

\* The blobs no element of which has been reached when n elements have.
Waiting(n) == Len(BlobPlan(given.p)) - CeilDiv(n, 4)

\* A stack with the last q blobs of w, the last at the bottom, and above them
\* the n elements of f after `from`, the next one on top.
Holds(w, f, a, q, from, n) ==
  /\ IsSequence(a) /\ Len(a) = q + n
  /\ \A b \in 1..q : a[b] = w[Len(w) + 1 - b]
  /\ \A j \in 1..n : a[q + n + 1 - j] = f[from + j]

LEMMA AppendIs ==
    ASSUME NEW b, IsSequence(b), NEW x
    PROVE  Append(b, x) = b \o <<x>>
  BY Stacked1, Zenon

\* The next element on top of those after it.
LEMMA HoldsPut ==
    ASSUME NEW w, NEW f, NEW a, NEW q \in Nat, NEW from \in Nat \ {0}, NEW n \in Nat,
           Holds(w, f, a, q, from, n), NEW x, x = f[from]
    PROVE  Holds(w, f, Append(a, x), q, from - 1, n + 1)
  <1> DEFINE c == Append(a, x)
  <1>1. IsSequence(a) /\ Len(a) = q + n
    BY DEF Holds
  <1>2. /\ IsSequence(c) /\ Len(c) = Len(a) + 1 /\ c[Len(a) + 1] = x
        /\ \A i \in 1..Len(a) : c[i] = a[i]
    <2>1. c = a \o <<x>>
      BY <1>1, AppendIs, Zenon
    <2>2. IsSequence(<<x>>) /\ Len(<<x>>) = 1 /\ <<x>>[1] = x /\ Len(a) \in Nat
      BY <1>1, SequenceOne, SequenceLen
    <2> DEFINE y == <<x>>
    <2>3. IsSequence(y) /\ Len(y) = 1 /\ y[1] = x /\ c = a \o y
      BY <2>1, <2>2
    <2> HIDE DEF c, y
    <2>4. /\ IsSequence(c) /\ Len(c) = Len(a) + 1
          /\ \A i \in 1 .. Len(a) + 1 : c[i] = IF i <= Len(a) THEN a[i] ELSE y[i - Len(a)]
      BY <1>1, <2>3, SequenceConcat
    <2>5. c[Len(a) + 1] = x
      <3>1. Len(a) + 1 \in 1 .. Len(a) + 1 /\ ~(Len(a) + 1 <= Len(a)) /\ (Len(a) + 1) - Len(a) = 1
        BY <2>2
      <3> QED
        BY <2>3, <2>4, <3>1
    <2>6. ASSUME NEW i \in 1..Len(a) PROVE c[i] = a[i]
      <3>1. i \in 1 .. Len(a) + 1 /\ i <= Len(a)
        BY <2>2
      <3> QED
        BY <2>4, <3>1
    <2> QED
      BY <2>4, <2>5, <2>6
  <1> HIDE DEF c
  <1>3. Len(c) = q + (n + 1)
    BY <1>1, <1>2
  <1>4. \A b \in 1..q : c[b] = w[Len(w) + 1 - b]
    <2> TAKE b \in 1..q
    <2>1. b \in 1..Len(a)
      BY <1>1
    <2> QED
      BY <1>2, <2>1 DEF Holds
  <1>5. \A j \in 1 .. n + 1 : c[q + (n + 1) + 1 - j] = f[(from - 1) + j]
    <2> TAKE j \in 1 .. n + 1
    <2>1. CASE j = 1
      <3>1. q + (n + 1) + 1 - j = Len(a) + 1 /\ (from - 1) + j = from
        BY <1>1, <2>1
      <3> QED
        BY <1>2, <3>1
    <2>2. CASE j # 1
      <3>1. /\ q + (n + 1) + 1 - j \in 1..Len(a) /\ j - 1 \in 1..n
            /\ q + (n + 1) + 1 - j = q + n + 1 - (j - 1) /\ (from - 1) + j = from + (j - 1)
        BY <1>1, <2>2
      <3>2. c[q + (n + 1) + 1 - j] = a[q + (n + 1) + 1 - j]
        BY <1>2, <3>1
      <3>3. a[q + n + 1 - (j - 1)] = f[from + (j - 1)]
        BY <3>1 DEF Holds
      <3> QED
        BY <3>1, <3>2, <3>3
    <2> QED
      BY <2>1, <2>2
  <1> QED
    BY <1>2, <1>3, <1>4, <1>5, Zenon DEF Holds, c

\* The next element, and what is left without it.
LEMMA HoldsTake ==
    ASSUME NEW w, NEW f, NEW a, NEW q \in Nat, NEW from \in Nat, NEW n \in Nat \ {0},
           Holds(w, f, a, q, from, n)
    PROVE  a # <<>> /\ Last(a) = f[from + 1] /\ Holds(w, f, Front(a), q, from + 1, n - 1)
  <1> DEFINE c == Front(a)
  <1>1. IsSequence(a) /\ Len(a) = q + n
    BY DEF Holds
  <1>2. a # <<>>
    BY <1>1, SequenceLen
  <1>3. /\ IsSequence(c) /\ Len(c) = Len(a) - 1 /\ Last(a) = a[Len(a)]
        /\ \A i \in 1 .. Len(a) - 1 : c[i] = a[i]
    BY <1>1, <1>2, WithoutLast
  <1> HIDE DEF c
  <1>4. Last(a) = f[from + 1]
    <2>1. 1 \in 1..n /\ q + n + 1 - 1 = Len(a)
      BY <1>1
    <2> QED
      BY <1>3, <2>1 DEF Holds
  <1>5. Len(c) = q + (n - 1)
    BY <1>1, <1>3
  <1>6. \A b \in 1..q : c[b] = w[Len(w) + 1 - b]
    <2> TAKE b \in 1..q
    <2>1. b \in 1 .. Len(a) - 1
      BY <1>1
    <2> QED
      BY <1>3, <2>1 DEF Holds
  <1>7. \A j \in 1 .. n - 1 : c[q + (n - 1) + 1 - j] = f[(from + 1) + j]
    <2> TAKE j \in 1 .. n - 1
    <2>1. /\ q + (n - 1) + 1 - j \in 1 .. Len(a) - 1 /\ j + 1 \in 1..n
          /\ q + (n - 1) + 1 - j = q + n + 1 - (j + 1) /\ (from + 1) + j = from + (j + 1)
      BY <1>1
    <2>2. a[q + n + 1 - (j + 1)] = f[from + (j + 1)]
      BY <2>1 DEF Holds
    <2>3. c[q + (n - 1) + 1 - j] = a[q + (n - 1) + 1 - j]
      BY <1>3, <2>1
    <2> QED
      BY <2>1, <2>2, <2>3
  <1> QED
    BY <1>2, <1>3, <1>4, <1>5, <1>6, <1>7, Zenon DEF Holds, c

\* The next blob, and what is left without it.
LEMMA HoldsBlob ==
    ASSUME NEW w, NEW f, NEW a, NEW q \in Nat \ {0}, NEW from, Holds(w, f, a, q, from, 0), NEW to
    PROVE  a # <<>> /\ Last(a) = w[Len(w) + 1 - q] /\ Holds(w, f, Front(a), q - 1, to, 0)
  <1> DEFINE c == Front(a)
  <1>1. IsSequence(a) /\ Len(a) = q
    BY DEF Holds
  <1>2. a # <<>>
    BY <1>1, SequenceLen
  <1>3. /\ IsSequence(c) /\ Len(c) = Len(a) - 1 /\ Last(a) = a[Len(a)]
        /\ \A i \in 1 .. Len(a) - 1 : c[i] = a[i]
    BY <1>1, <1>2, WithoutLast
  <1> HIDE DEF c
  <1>4. Last(a) = w[Len(w) + 1 - q]
    BY <1>1, <1>3 DEF Holds
  <1>5. Len(c) = (q - 1) + 0
    BY <1>1, <1>3
  <1>6. \A b \in 1 .. q - 1 : c[b] = w[Len(w) + 1 - b]
    <2> TAKE b \in 1 .. q - 1
    <2>1. b \in 1 .. Len(a) - 1 /\ b \in 1..q
      BY <1>1
    <2> QED
      BY <1>3, <2>1 DEF Holds
  <1>7. \A j \in 1..0 : c[(q - 1) + 0 + 1 - j] = f[to + j]
    OBVIOUS
  <1> QED
    BY <1>2, <1>3, <1>4, <1>5, <1>6, <1>7, Zenon DEF Holds, c

\* All blobs, before the first is cut up.
LEMMA HoldsAll ==
    ASSUME given \in ToSet(Cases), IsSlh
    PROVE  Waiting(0) = Len(Witness) /\ Holds(Witness, given.sig, Queue, Waiting(0), 0, 0)
  <1> DEFINE n == Len(Witness)
             s == given.sig
             w == Witness
  <1>1. n \in Nat /\ n = Len(BlobPlan(given.p))
    BY WitnessIs
  <1>2. CeilDiv(0, 4) = 0
    BY DEF CeilDiv
  <1>3. Waiting(0) = n
    BY <1>1, <1>2 DEF Waiting
  <1> HIDE DEF n
  <1> DEFINE a == [b \in 1..n |-> w[n + 1 - b]]
  <1>4. Queue = a
    BY Zenon DEF Queue, Queued, n, w
  <1> HIDE DEF s, w
  <1>5. IsSequence(a) /\ Len(a) = n + 0
    BY <1>1, CountedFrom
  <1>6. \A b \in 1..n : a[b] = w[Len(w) + 1 - b]
    <2>1. Len(w) = n
      BY DEF n, w
    <2> QED
      BY <2>1
  <1>7. \A j \in 1..0 : a[n + 0 + 1 - j] = s[0 + j]
    OBVIOUS
  <1> HIDE DEF a
  <1>8. Holds(w, s, a, n, 0, 0)
    BY <1>5, <1>6, <1>7, Zenon DEF Holds
  <1> QED
    BY <1>3, <1>4, <1>8 DEF n, s, w

-----------------------------------------------------------------------------
(* Cutting up a blob. *)

\* Take the last of k + 1 elements off, and leave k.
SliceCode(k) ==
  << [op |-> "dup"],
     [op |-> "num", value |-> k * N], [op |-> "num", value |-> (k + 1) * N],
     [op |-> "calc", fn |-> "substr", n |-> 3],
     [op |-> "toalt"],
     [op |-> "num", value |-> 0], [op |-> "num", value |-> k * N],
     [op |-> "calc", fn |-> "substr", n |-> 3] >>

\* What is left to do with k elements in the blob on top.
Rest(k, after) ==
  IF k = 1 THEN ToAlt \o after
  ELSE IF k = 2 THEN SliceCode(1) \o (ToAlt \o after)
  ELSE IF k = 3 THEN SliceCode(2) \o (SliceCode(1) \o (ToAlt \o after))
  ELSE SliceCode(3) \o (SliceCode(2) \o (SliceCode(1) \o (ToAlt \o after)))

LEMMA StartsThree ==
    ASSUME NEW s, NEW code, NEW n, Starts(s, code, n), NEW c, NEW d, NEW e,
           code[n + 1] = c, code[n + 2] = d, code[n + 3] = e
    PROVE  Starts(s \o ((<<c>> \o <<d>>) \o <<e>>), code, n + 3)
  <1>1. n \in Nat /\ IsSequence(s)
    BY DEF Starts
  <1> DEFINE pair == <<c>> \o <<d>>
             last == <<e>>
             u == s \o pair
  <1>2. Starts(u, code, n + 2)
    BY StartsTwo
  <1>3. (n + 2) + 1 = n + 3
    BY <1>1
  <1> HIDE DEF u
  <1>4. Starts(u \o <<e>>, code, (n + 2) + 1)
    BY <1>2, <1>3, StartsOne
  <1>5. IsSequence(pair) /\ IsSequence(last)
    BY SequenceOne, SequenceConcat
  <1> HIDE DEF pair, last
  <1>6. Regrouped(s, pair, last)
    BY <1>1, <1>5, Regroups
  <1>7. u \o last = s \o (pair \o last)
    BY <1>6, Zenon DEF Regrouped, u
  <1> QED
    BY <1>3, <1>4, <1>7, Zenon DEF pair, last

LEMMA SliceCodeIs ==
    ASSUME NEW k
    PROVE  /\ IsSequence(SliceCode(k)) /\ Len(SliceCode(k)) = 8
           /\ Dup \o Substr(k * N, (k + 1) * N) \o ToAlt \o Substr(0, k * N) = SliceCode(k)
  <1> DEFINE a == k * N
             b == (k + 1) * N
             code == SliceCode(k)
             c1 == [op |-> "dup"]
             c2 == [op |-> "num", value |-> a]
             c3 == [op |-> "num", value |-> b]
             c4 == [op |-> "calc", fn |-> "substr", n |-> 3]
             c5 == [op |-> "toalt"]
             c6 == [op |-> "num", value |-> 0]
  <1>1. code = <<c1, c2, c3, c4, c5, c6, c2, c4>>
    BY Zenon DEF SliceCode
  <1> DEFINE s1 == <<c1>>
             s4 == s1 \o ((<<c2>> \o <<c3>>) \o <<c4>>)
             s5 == s4 \o <<c5>>
             s8 == s5 \o ((<<c6>> \o <<c2>>) \o <<c4>>)
  <1>2. Dup \o Substr(k * N, (k + 1) * N) \o ToAlt \o Substr(0, k * N) = s8
    BY Zenon DEF Dup, ToAlt, Plain, Substr, Num, Calc
  <1> HIDE DEF a, b, code, c1, c2, c3, c4, c5, c6
  <1>3. /\ code \in Seq({c1, c2, c3, c4, c5, c6}) /\ Len(code) = 8
        /\ code[1] = c1 /\ code[2] = c2 /\ code[3] = c3 /\ code[4] = c4
        /\ code[5] = c5 /\ code[6] = c6 /\ code[7] = c2 /\ code[8] = c4
    BY <1>1
  <1>4. Starts(s1, code, 1)
    <2>1. IsSequence(<<c1>>) /\ Len(<<c1>>) = 1 /\ <<c1>>[1] = c1
      BY SequenceOne
    <2>2. \A i \in 1..1 : i = 1
      OBVIOUS
    <2> QED
      BY <1>3, <2>1, <2>2 DEF Starts
  <1> HIDE DEF s1
  <1>5. 1 + 1 = 2 /\ 1 + 2 = 3 /\ 1 + 3 = 4 /\ 4 + 1 = 5 /\ 5 + 1 = 6 /\ 5 + 2 = 7 /\ 5 + 3 = 8
    OBVIOUS
  <1>6. Starts(s4, code, 1 + 3)
    BY <1>3, <1>4, <1>5, StartsThree
  <1> HIDE DEF s4
  <1>7. Starts(s5, code, 4 + 1)
    BY <1>3, <1>5, <1>6, StartsOne
  <1> HIDE DEF s5
  <1>8. Starts(s8, code, 5 + 3)
    <2>1. Starts(s5, code, 5) /\ code[5 + 1] = c6 /\ code[5 + 2] = c2 /\ code[5 + 3] = c4
      BY <1>3, <1>5, <1>7
    <2> QED
      BY <2>1, StartsThree
  <1> HIDE DEF s8
  <1>9. IsSequence(code)
    BY <1>3, SequenceIs
  <1>10. s8 = code
    BY <1>3, <1>5, <1>8, <1>9, StartsAll
  <1> QED
    BY <1>2, <1>3, <1>9, <1>10 DEF code

LEMMA RestIs ==
    ASSUME NEW after, IsSequence(after)
    PROVE  /\ \A k \in 1..4 : IsSequence(Rest(k, after)) /\ Rest(k, after) # <<>>
           /\ \A k \in 1..3 : Rest(k + 1, after) = SliceCode(k) \o Rest(k, after)
           /\ Rest(1, after) = <<[op |-> "toalt"]>> \o after
  <1>1. Rest(1, after) = ToAlt \o after
    BY Zenon DEF Rest
  <1>2. \A k \in 1..3 : Rest(k + 1, after) = SliceCode(k) \o Rest(k, after)
    <2>1. 2 # 1 /\ 3 # 1 /\ 3 # 2 /\ 4 # 1 /\ 4 # 2 /\ 4 # 3
      OBVIOUS
    <2>2. /\ Rest(2, after) = SliceCode(1) \o Rest(1, after)
          /\ Rest(3, after) = SliceCode(2) \o Rest(2, after)
          /\ Rest(4, after) = SliceCode(3) \o Rest(3, after)
      BY <2>1, Zenon DEF Rest
    <2> TAKE k \in 1..3
    <2>3. (k = 1 /\ k + 1 = 2) \/ (k = 2 /\ k + 1 = 3) \/ (k = 3 /\ k + 1 = 4)
      OBVIOUS
    <2> QED
      BY <2>2, <2>3, Zenon
  <1> DEFINE c == [op |-> "toalt"]
  <1>3. Rest(1, after) = <<c>> \o after
    BY <1>1, Zenon DEF ToAlt, Plain
  <1> HIDE DEF c
  <1> DEFINE Good(k) == IsSequence(Rest(k, after)) /\ Rest(k, after) # <<>>
  <1>4. Good(1)
    BY <1>3, CallFirst
  <1>5. ASSUME NEW k \in 1..3, Good(k) PROVE Good(k + 1)
    <2>1. IsSequence(SliceCode(k)) /\ Len(SliceCode(k)) = 8
      BY SliceCodeIs
    <2> DEFINE r == Rest(k, after)
               s == SliceCode(k)
    <2>2. IsSequence(r) /\ IsSequence(s) /\ Len(s) = 8
      BY <1>5, <2>1
    <2> HIDE DEF r, s
    <2>3. IsSequence(s \o r) /\ Len(s \o r) = 8 + Len(r) /\ Len(r) \in Nat
      BY <2>2, SequenceConcat
    <2>4. s \o r # <<>>
      <3>1. Len(s \o r) # 0
        BY <2>3
      <3> QED
        BY <2>3, <3>1, SequenceLen
    <2> QED
      BY <1>2, <2>3, <2>4 DEF r, s
  <1>6. Good(1) /\ Good(2) /\ Good(3) /\ Good(4)
    <2> HIDE DEF Good
    <2>1. 1 \in 1..3 /\ 2 \in 1..3 /\ 3 \in 1..3 /\ 1 + 1 = 2 /\ 2 + 1 = 3 /\ 3 + 1 = 4
      OBVIOUS
    <2>2. Good(2)
      BY <1>4, <1>5, <2>1
    <2>3. Good(3)
      BY <1>5, <2>1, <2>2
    <2> QED
      BY <1>4, <1>5, <2>1, <2>2, <2>3
  <1>7. ASSUME NEW k \in 1..4 PROVE Good(k)
    <2> HIDE DEF Good
    <2>1. k = 1 \/ k = 2 \/ k = 3 \/ k = 4
      OBVIOUS
    <2> QED
      BY <1>6, <2>1
  <1> QED
    BY <1>2, <1>3, <1>7 DEF c

\* A few sequences, joined by halves.
LEMMA JoinedFew ==
    ASSUME NEW n \in 0..3, NEW f, f = [i \in 1..n |-> f[i]], \A i \in 1..n : IsSequence(f[i])
    PROVE  /\ n = 0 => Joined(f) = <<>>
           /\ n = 1 => Joined(f) = f[1]
           /\ n = 2 => Joined(f) = f[1] \o f[2]
           /\ n = 3 => Joined(f) = (f[1] \o f[2]) \o f[3]
  <1> DEFINE X == UNION {Range(f[i]) : i \in 1..n}
  <1>1. \A i \in 1..n : f[i] \in Seq(X)
    <2> TAKE i \in 1..n
    <2>1. Range(f[i]) \subseteq X
      OBVIOUS
    <2> HIDE DEF X
    <2> QED
      BY <2>1, SeqMonotonic DEF IsSequence
  <1>2. n \in Nat /\ f \in [1..n -> Seq(X)]
    <2> HIDE DEF X
    <2> QED
      BY <1>1
  <1> HIDE DEF X
  <1>3. PICK Part \in PartsOf(f, n, X) : Joined(f) = IF n = 0 THEN <<>> ELSE Part[<<1, n>>]
    BY <1>2, JoinedIs
  <1>4. \A lo \in 1..n, hi \in 1..n :
          Part[<<lo, hi>>] = IF lo >= hi THEN f[lo]
                             ELSE Part[<<lo, (lo + hi) \div 2>>] \o Part[<<(lo + hi) \div 2 + 1, hi>>]
    BY DEF PartsOf
  <1>5. \A i \in 1..n : Part[<<i, i>>] = f[i]
    <2> TAKE i \in 1..n
    <2>1. i >= i
      OBVIOUS
    <2> QED
      BY <1>4, <2>1, Zenon
  <1>6. n >= 2 => Part[<<1, 2>>] = f[1] \o f[2]
    <2> SUFFICES ASSUME n >= 2 PROVE Part[<<1, 2>>] = f[1] \o f[2]
      OBVIOUS
    <2>1. 1 \in 1..n /\ 2 \in 1..n /\ ~(1 >= 2) /\ (1 + 2) \div 2 = 1 /\ (1 + 2) \div 2 + 1 = 2
      OBVIOUS
    <2>2. Part[<<1, 2>>] = Part[<<1, (1 + 2) \div 2>>] \o Part[<<(1 + 2) \div 2 + 1, 2>>]
      BY <1>4, <2>1, Zenon
    <2> QED
      BY <1>5, <2>1, <2>2, Zenon
  <1>7. n = 3 => Part[<<1, 3>>] = (f[1] \o f[2]) \o f[3]
    <2> SUFFICES ASSUME n = 3 PROVE Part[<<1, 3>>] = (f[1] \o f[2]) \o f[3]
      OBVIOUS
    <2>1. /\ 1 \in 1..n /\ 3 \in 1..n /\ ~(1 >= 3) /\ (1 + 3) \div 2 = 2 /\ (1 + 3) \div 2 + 1 = 3
          /\ n >= 2
      OBVIOUS
    <2>2. Part[<<1, 3>>] = Part[<<1, (1 + 3) \div 2>>] \o Part[<<(1 + 3) \div 2 + 1, 3>>]
      BY <1>4, <2>1, Zenon
    <2> QED
      BY <1>5, <1>6, <2>1, <2>2, Zenon
  <1>8. n # 0 => Joined(f) = Part[<<1, n>>]
    BY <1>3, Zenon
  <1>9. n = 0 => Joined(f) = <<>>
    BY <1>3, Zenon
  <1>10. n = 1 => Joined(f) = f[1]
    <2>1. n = 1 => n # 0 /\ 1 \in 1..n
      OBVIOUS
    <2> QED
      BY <1>5, <1>8, <2>1, Zenon
  <1>11. n = 2 => Joined(f) = f[1] \o f[2]
    <2>1. n = 2 => n # 0 /\ n >= 2
      OBVIOUS
    <2> QED
      BY <1>6, <1>8, <2>1, Zenon
  <1>12. n = 3 => Joined(f) = (f[1] \o f[2]) \o f[3]
    <2>1. n = 3 => n # 0
      OBVIOUS
    <2> QED
      BY <1>7, <1>8, <2>1, Zenon
  <1> QED
    BY <1>9, <1>10, <1>11, <1>12

\* The elements are taken off from the last to the second.
LEMMA SliceIs ==
    ASSUME NEW count \in 1..4, NEW after, IsSequence(after)
    PROVE  /\ IsSequence(SliceBlob(count))
           /\ SliceBlob(count) \o after = <<[op |-> "takeblob"]>> \o Rest(count, after)
  <1> DEFINE Peel(i) == LET k == count - i IN
               Dup \o Substr(k * N, (k + 1) * N) \o ToAlt \o Substr(0, k * N)
             n == (count - 1) - 1 + 1
             f == [i \in 1..n |-> Peel(1 + i - 1)]
             tb == <<[op |-> "takeblob"]>>
             loop == Joined(f)
  <1>1. SliceBlob(count) = tb \o loop \o ToAlt
    BY Zenon DEF SliceBlob, For, Plain
  <1>2. \A i : Peel(i) = SliceCode(count - i)
    <2> TAKE i
    <2> DEFINE k == count - i
    <2> HIDE DEF k
    <2>1. Dup \o Substr(k * N, (k + 1) * N) \o ToAlt \o Substr(0, k * N) = SliceCode(k)
      BY SliceCodeIs
    <2> QED
      BY <2>1, Zenon DEF k
  <1> HIDE DEF Peel
  <1>3. n \in 0..3 /\ n = count - 1
    OBVIOUS
  <1>4. \A i \in 1..n : f[i] = SliceCode(count - i)
    <2> TAKE i \in 1..n
    <2>1. f[i] = Peel(1 + i - 1) /\ 1 + i - 1 = i
      BY <1>3
    <2> QED
      BY <1>2, <2>1, Zenon
  <1>5. f = [i \in 1..n |-> f[i]]
    OBVIOUS
  <1> HIDE DEF n, f
  <1> DEFINE a1 == SliceCode(1)
             a2 == SliceCode(2)
             a3 == SliceCode(3)
             last == ToAlt \o after
  <1>6. IsSequence(ToAlt) /\ IsSequence(last)
    <2>1. IsSequence(ToAlt)
      BY SequenceOne DEF ToAlt, Plain
    <2> QED
      BY <2>1, SequenceConcat
  <1>7. IsSequence(a1) /\ IsSequence(a2) /\ IsSequence(a3)
    BY SliceCodeIs
  <1>8. /\ Rest(1, after) = last
        /\ Rest(2, after) = a1 \o last
        /\ Rest(3, after) = a2 \o (a1 \o last)
        /\ Rest(4, after) = a3 \o (a2 \o (a1 \o last))
    <2>1. 2 # 1 /\ 3 # 1 /\ 3 # 2 /\ 4 # 1 /\ 4 # 2 /\ 4 # 3
      OBVIOUS
    <2> QED
      BY <2>1, Zenon DEF Rest, a1, a2, a3, last
  <1>9. \A i \in 1..n : IsSequence(f[i])
    BY <1>4, SliceCodeIs
  <1> HIDE DEF loop
  <1>10. /\ n = 0 => loop = <<>>
         /\ n = 1 => loop = f[1]
         /\ n = 2 => loop = f[1] \o f[2]
         /\ n = 3 => loop = (f[1] \o f[2]) \o f[3]
    BY <1>3, <1>5, <1>9, JoinedFew DEF loop
  <1>11. IsSequence(loop) /\ loop \o last = Rest(count, after)
    <2>0. IsSequence(<<>>)
      BY CallsNone DEF Calls
    <2>1. CASE count = 1
      <3>1. loop = <<>>
        BY <1>3, <1>10, <2>1
      <3>2. <<>> \o last = last
        <4> HIDE DEF last
        <4> QED
          BY <1>6, ConcatEmptySeq DEF IsSequence
      <3> QED
        BY <1>8, <2>0, <2>1, <3>1, <3>2, Zenon
    <2>2. CASE count = 2
      <3>1. loop = f[1] /\ 1 \in 1..n /\ count - 1 = 1
        BY <1>3, <1>10, <2>2
      <3>2. loop = a1
        BY <1>4, <3>1
      <3> QED
        BY <1>7, <1>8, <2>2, <3>2, Zenon
    <2>3. CASE count = 3
      <3>0. n = 2 /\ 1 \in 1..n /\ 2 \in 1..n /\ count - 1 = 2 /\ count - 2 = 1
        BY <1>3, <2>3
      <3>1. loop = f[1] \o f[2] /\ 1 \in 1..n /\ 2 \in 1..n /\ count - 1 = 2 /\ count - 2 = 1
        BY <1>10, <3>0, Zenon
      <3>2. f[1] = a2 /\ f[2] = a1
        BY <1>4, <3>1
      <3> HIDE DEF a1, a2, a3, last
      <3>3. Regrouped(a2, a1, last) /\ IsSequence(a2 \o a1)
        BY <1>6, <1>7, Regroups, SequenceConcat
      <3>4. loop = a2 \o a1
        BY <3>1, <3>2, Zenon
      <3> QED
        BY <1>8, <2>3, <3>3, <3>4, Zenon DEF Regrouped
    <2>4. CASE count = 4
      <3>0. /\ n = 3 /\ 1 \in 1..n /\ 2 \in 1..n /\ 3 \in 1..n
            /\ count - 1 = 3 /\ count - 2 = 2 /\ count - 3 = 1
        BY <1>3, <2>4
      <3>1. /\ loop = (f[1] \o f[2]) \o f[3] /\ 1 \in 1..n /\ 2 \in 1..n /\ 3 \in 1..n
            /\ count - 1 = 3 /\ count - 2 = 2 /\ count - 3 = 1
        BY <1>10, <3>0, Zenon
      <3>2. f[1] = a3 /\ f[2] = a2 /\ f[3] = a1
        BY <1>4, <3>1
      <3> HIDE DEF a1, a2, a3, last
      <3> DEFINE a32 == a3 \o a2
                 rest == a1 \o last
      <3>3. IsSequence(a32) /\ IsSequence(rest)
        BY <1>6, <1>7, SequenceConcat
      <3>4. loop = a32 \o a1
        BY <3>1, <3>2, Zenon
      <3> HIDE DEF a32, rest
      <3>5. Regrouped(a32, a1, last) /\ Regrouped(a3, a2, rest) /\ IsSequence(a32 \o a1)
        BY <1>6, <1>7, <3>3, Regroups, SequenceConcat
      <3>6. loop \o last = a32 \o rest /\ a32 \o rest = a3 \o (a2 \o rest)
        BY <3>4, <3>5, Zenon DEF Regrouped, a32, rest
      <3> QED
        BY <1>8, <2>4, <3>4, <3>5, <3>6, Zenon DEF rest
    <2>5. count = 1 \/ count = 2 \/ count = 3 \/ count = 4
      OBVIOUS
    <2> QED
      BY <2>1, <2>2, <2>3, <2>4, <2>5
  <1>12. IsSequence(tb)
    BY SequenceOne
  <1> HIDE DEF tb
  <1> DEFINE tl == tb \o loop
             ta == ToAlt
  <1>13. IsSequence(tl)
    BY <1>11, <1>12, SequenceConcat
  <1> HIDE DEF tl, ta
  <1>14. Regrouped(tl, ta, after)
    BY <1>6, <1>13, Regroups DEF ta
  <1> HIDE DEF last
  <1>15. Regrouped(tb, loop, last)
    BY <1>6, <1>11, <1>12, Regroups
  <1>16. (tl \o ta) \o after = tl \o last /\ tl \o last = tb \o (loop \o last)
    BY <1>14, <1>15, Zenon DEF Regrouped, tl, ta, last
  <1>17. SliceBlob(count) = tl \o ta
    BY <1>1, Zenon DEF tl, ta
  <1>18. IsSequence(tl \o ta)
    BY <1>6, <1>13, SequenceConcat DEF ta
  <1> QED
    BY <1>11, <1>16, <1>17, <1>18, Zenon DEF tb

-----------------------------------------------------------------------------
(* Where the blobs and the elements are while the verifying code runs: as    *)
(* many slots in the frame as items, and the elements still to come on the   *)
(* alternative stack.                                                        *)

FrameIs == IsSequence(frame) /\ peak \in Nat

\* The frame is no higher than noted, but for the message it starts with.
Noted == Len(frame) <= peak + 1 /\ (pending > 0 => Len(frame) <= peak)

\* The elements fetched so far, those cut up, and the blobs of the others.
WitnessAt ==
  /\ pending \in 0..4 /\ next \in Nat /\ next + pending <= SigElements(given.p)
  /\ Holds(Witness, given.sig, alt, Waiting(next + pending), next, pending)

\* Between two calls outside of branches, and in a branch, taken or not.
Reading ==
  /\ ~failed /\ ~skip /\ IsSequence(main) /\ Len(main) = Len(frame)
  /\ Noted /\ WitnessAt /\ Ready(todo)
Branched ==
  /\ ~failed /\ skip \in BOOLEAN /\ IsSequence(main) /\ Noted /\ WitnessAt
  /\ \E n : Closes(todo, n) /\ Len(main) = Len(frame) + (IF skip THEN n ELSE 0)

\* The script has failed.
Broken == failed /\ (todo = <<>> => WitnessAt)

LEMMA WitnessKept ==
    ASSUME WitnessAt, given' = given, next' = next, pending' = pending, alt' = alt
    PROVE  WitnessAt'
  <1>1. Witness' = Witness /\ (Waiting(next + pending))' = Waiting(next + pending)
    BY Kept DEF Waiting
  <1>2. SigElements(given.p)' = SigElements(given.p)
    OBVIOUS
  <1>3. (Holds(Witness, given.sig, alt, Waiting(next + pending), next, pending))'
          <=> Holds(Witness', (given.sig)', alt', (Waiting(next + pending))', next', pending')
    OBVIOUS
  <1> QED
    BY <1>1, <1>2, <1>3 DEF WitnessAt

\* One primitive, outside of branches.
LEMMA ReadingDirect ==
    ASSUME FrameIs, Reading, Next, todo # <<>>, Current.op \in Direct
    PROVE  FrameIs' /\ (Reading' \/ Broken')
  <1>1. /\ IsSequence(todo) /\ Proper(Current) /\ Ready(Tail(todo))
    <2>1. Current.op \notin SlhPhases /\ Current.op # "if"
      BY DEF Direct, SlhPhases
    <2> QED
      BY <2>1, ReadyStep DEF Reading, Current
  <1> DEFINE e == Effect(Current)
  <1>2. e \in Int
    BY <1>1, EffectType
  <1>3. Acts(e)
    BY <1>1, DirectActs DEF Reading, FrameIs
  <1> HIDE DEF e
  <1>4. FrameIs'
    BY <1>3 DEF Acts, FrameBy, FrameIs
  <1>5. WitnessAt'
    BY <1>3, WitnessKept DEF Acts, RanBy, Reading
  <1>6. CASE failed'
    BY <1>4, <1>5, <1>6 DEF Broken
  <1>7. CASE ~failed'
    <2>1. Len(main) \in Nat /\ Len(frame) \in Nat /\ Len(main) = Len(frame) /\ ~skip
      BY SequenceLen DEF Reading, FrameIs
    <2>2. IsSequence(main') /\ Len(main') = Len(main) + e /\ ~skip'
      BY <1>3, <1>7, <2>1 DEF Acts, RanBy
    <2>3. Len(frame') = Len(frame) + e
      BY <1>3 DEF Acts, FrameBy
    <2>4. Noted'
      <3>1. Noted /\ pending' = pending /\ pending \in 0..4
        BY <1>3 DEF Reading, Acts, WitnessAt
      <3>2. /\ peak' \in Nat /\ peak' >= peak
            /\ Len(frame') <= Len(frame) \/ Len(frame') <= peak'
        BY <1>3 DEF Acts, FrameBy
      <3>3. peak \in Nat /\ Len(frame') \in Nat
        BY <1>4, SequenceLen DEF FrameIs
      <3> QED
        BY <2>1, <3>1, <3>2, <3>3 DEF Noted
    <2>5. Ready(todo')
      BY <1>1, <1>3 DEF Acts
    <2> QED
      BY <1>4, <1>5, <1>7, <2>1, <2>2, <2>3, <2>4, <2>5 DEF Reading
  <1> QED
    BY <1>6, <1>7

\* Nothing has moved but the script.
Still ==
  /\ given' = given /\ frame' = frame /\ pending' = pending /\ next' = next /\ peak' = peak
  /\ main' = main /\ alt' = alt /\ skip' = skip /\ failed' = failed

LEMMA ReadingStill ==
    ASSUME FrameIs, Reading, Still, Ready(todo')
    PROVE  FrameIs' /\ Reading'
  <1>1. WitnessAt'
    BY WitnessKept DEF Reading, Still
  <1> QED
    BY <1>1 DEF FrameIs, Reading, Still, Noted

LEMMA SlotDepthIs ==
    ASSUME IsSequence(frame), NEW slot, HasSlot(slot)
    PROVE  SlotDepth(slot) \in Nat
  <1> DEFINE S == {i \in DOMAIN frame : frame[i] = slot}
  <1>1. Len(frame) \in Nat /\ DOMAIN frame = 1..Len(frame)
    BY SequenceLen
  <1>2. S \subseteq 1..Len(frame) /\ S # {}
    BY <1>1 DEF HasSlot
  <1>3. SlotDepth(slot) = Len(frame) - Max(S)
    BY DEF SlotDepth
  <1> HIDE DEF S
  <1>4. Max(S) \in 1..Len(frame)
    BY <1>1, <1>2, Greatest
  <1> QED
    BY <1>1, <1>3, <1>4

\* A name becomes a depth.
ByDepth(c, d) == Num(d) \o (IF c.op = "pick" THEN PickedFrom(d) ELSE RolledFrom(d))

LEMMA Resolved ==
    ASSUME IsSequence(frame), Next, ~failed, todo # <<>>, Current.op \in {"pick", "roll"}
    PROVE  Still /\ \E d \in Nat : todo' = ByDepth(Current, d) \o Tail(todo)
  <1>1. ResolveSlot
    BY ActionOf
  <1> DEFINE d == SlotDepth(Current.slot)
  <1>2. /\ HasSlot(Current.slot)
        /\ Expand(ByDepth(Current, d))
        /\ UNCHANGED <<frame, pending, next, peak, machine>>
    BY <1>1, Zenon DEF ResolveSlot, ByDepth
  <1>3. d \in Nat
    BY <1>2, SlotDepthIs
  <1> HIDE DEF d
  <1>4. todo' = ByDepth(Current, d) \o Tail(todo) /\ given' = given
    BY <1>2, Zenon DEF Expand
  <1>5. Still
    BY <1>2, <1>4 DEF Still, machine
  <1> QED
    BY <1>3, <1>4, <1>5

LEMMA ByDepthIs ==
    ASSUME NEW c, c.op \in {"pick", "roll"}, NEW d \in Nat
    PROVE  Calls(ByDepth(c, d), Simple) /\ Rises(ByDepth(c, d), Effect(c))
  <1>1. Calls(Num(d), Simple) /\ Rises(Num(d), 1)
    BY SimplePrimitives, PrimitivesRise
  <1>2. CASE c.op = "pick"
    <2> DEFINE o == [op |-> "oppick", depth |-> d]
    <2>1. o.op = "oppick"
      OBVIOUS
    <2> HIDE DEF o
    <2>2. o.op \in Simple /\ o.op \in Branchable /\ Proper(o)
      BY <2>1 DEF Simple, Branchable, Proper
    <2>3. Effect(o) = 0 /\ Effect(c) = 1
      BY <1>2, <2>1 DEF Effect
    <2>4. Calls(<<o>>, Simple) /\ Rises(<<o>>, 0)
      BY <2>2, <2>3, CallsOne, RisesOne
    <2>5. ByDepth(c, d) = Num(d) \o <<o>>
      BY <1>2 DEF ByDepth, PickedFrom, o
    <2>6. Calls(Num(d) \o <<o>>, Simple) /\ Rises(Num(d) \o <<o>>, 1 + 0)
      BY <1>1, <2>4, CallsConcat, RisesConcat
    <2> QED
      BY <2>3, <2>5, <2>6
  <1>3. CASE c.op = "roll"
    <2> DEFINE o == [op |-> "oproll", depth |-> d]
    <2>1. o.op = "oproll" /\ o.depth \in Nat
      OBVIOUS
    <2> HIDE DEF o
    <2>2. o.op \in Simple /\ o.op \in Branchable /\ Proper(o)
      BY <2>1 DEF Simple, Branchable, Proper
    <2>3. Effect(o) = -1 /\ Effect(c) = 0
      BY <1>3, <2>1 DEF Effect
    <2>4. Calls(<<o>>, Simple) /\ Rises(<<o>>, -1)
      BY <2>2, <2>3, CallsOne, RisesOne
    <2>5. ByDepth(c, d) = Num(d) \o <<o>>
      BY <1>3 DEF ByDepth, RolledFrom, o
    <2>6. Calls(Num(d) \o <<o>>, Simple) /\ Rises(Num(d) \o <<o>>, 1 + -1)
      BY <1>1, <2>4, CallsConcat, RisesConcat
    <2>7. 1 + -1 = 0
      OBVIOUS
    <2> QED
      BY <2>3, <2>5, <2>6, <2>7
  <1> QED
    BY <1>2, <1>3

\* A slot by its name; a phase; what is insisted on at the end.
LEMMA ReadingExpands ==
    ASSUME given \in ToSet(Cases), IsSlh, FrameIs, Reading, Next, todo # <<>>,
           Current.op \in {"pick", "roll", "expectspent"} \cup SlhPhases
    PROVE  FrameIs' /\ Reading'
  <1>0. Ready(todo) /\ ~failed /\ IsSequence(todo)
    BY ReadyIs DEF Reading
  <1>1. CASE Current.op \in {"pick", "roll"}
    <2>1. Ready(Tail(todo))
      <3>1. Current.op \notin SlhPhases /\ Current.op # "if"
        BY <1>1 DEF SlhPhases
      <3> QED
        BY <1>0, <3>1, ReadyStep DEF Current
    <2>2. Still /\ \E d \in Nat : todo' = ByDepth(Current, d) \o Tail(todo)
      BY <1>0, <1>1, Resolved DEF FrameIs
    <2>3. Ready(todo')
      BY <1>1, <2>1, <2>2, ByDepthIs, ReadyMore
    <2> QED
      BY <2>2, <2>3, ReadingStill
  <1>2. CASE Current.op = "expectspent"
    <2>1. Ready(Tail(todo))
      <3>1. Current.op \notin SlhPhases /\ Current.op # "if"
        BY <1>2 DEF SlhPhases
      <3> QED
        BY <1>0, <3>1, ReadyStep DEF Current
    <2>2. ExpectSpent
      BY <1>0, <1>2, ActionOf
    <2>3. Advance /\ UNCHANGED <<frame, pending, next, peak, machine>>
      BY <2>2, Zenon DEF ExpectSpent
    <2>4. todo' = Tail(todo) /\ given' = given
      BY <1>0, <2>3, CallMade DEF Advance
    <2>5. Still
      BY <2>3, <2>4 DEF Still, machine
    <2> QED
      BY <2>1, <2>4, <2>5, ReadingStill
  <1>3. CASE Current.op \in SlhPhases
    <2>1. Proper(Current) /\ Calls(Tail(todo), Straight)
      <3>1. Current.op \notin Simple /\ Current.op # "if"
        BY <1>3 DEF SlhPhases, Simple, Branchable
      <3> QED
        BY <1>0, <3>1, ReadyStep DEF Current
    <2>2. EnterPhase
      BY <1>0, <1>3, ActionOf
    <2>3. Current.op \notin LmsPhases
      BY <1>3 DEF SlhPhases, LmsPhases
    <2>4. /\ Expand(SlhBodyOf(given.p, given.pk, Current))
          /\ UNCHANGED <<frame, pending, next, peak, machine>>
      BY <2>2, <2>3, Zenon DEF EnterPhase, Emits
    <2>5. todo' = SlhBodyOf(given.p, given.pk, Current) \o Tail(todo) /\ given' = given
      BY <2>4, Zenon DEF Expand
    <2>6. WellFormed(given.p)
      BY GivenTypes
    <2>7. Opens(SlhBodyOf(given.p, given.pk, Current))
      BY <1>3, <2>1, <2>6, SlhBodyOpens
    <2>8. Ready(todo')
      BY <2>1, <2>5, <2>7, Zenon DEF Opens
    <2>9. Still
      BY <2>4, <2>5 DEF Still, machine
    <2> QED
      BY <2>8, <2>9, ReadingStill
  <1> QED
    BY <1>1, <1>2, <1>3

\* A branch begins.
LEMMA ReadingIf ==
    ASSUME FrameIs, Reading, Next, todo # <<>>, Current.op = "if"
    PROVE  FrameIs' /\ (Branched' \/ Broken')
  <1>0. Ready(todo) /\ ~failed /\ IsSequence(todo) /\ Closes(Tail(todo), 0)
    <2>1. Current.op \notin Simple /\ Current.op \notin SlhPhases
      BY DEF SlhPhases, Simple, Branchable
    <2> QED
      BY <2>1, ReadyIs, ReadyStep DEF Reading, Current
  <1>1. Branch
    BY <1>0, ActionOf
  <1>2. OpIf /\ FramePop /\ Advance /\ pending' = pending /\ next' = next /\ peak' = peak
    BY <1>1, Zenon DEF Branch
  <1>3. todo' = Tail(todo) /\ given' = given
    BY <1>0, <1>2, CallMade DEF Advance
  <1>4. FrameBy(-1)
    BY <1>2, FrameMoves DEF FrameIs
  <1>5. FrameIs'
    BY <1>4 DEF FrameBy, FrameIs
  <1>6. alt' = alt
    BY <1>2, Zenon DEF OpIf
  <1>7. WitnessAt'
    BY <1>2, <1>3, <1>6, WitnessKept DEF Reading
  <1>8. CASE failed'
    BY <1>5, <1>7, <1>8 DEF Broken
  <1>9. CASE ~failed'
    <2>1. Depth >= 1 /\ main' = Below(1) /\ skip' \in BOOLEAN
      BY <1>2, <1>9 DEF OpIf
    <2>2. IsSequence(main') /\ Len(main') = Depth - 1
      BY <2>1, BelowIs DEF Reading
    <2>3. Depth = Len(frame) /\ Len(frame) \in Nat
      BY SequenceLen DEF Depth, Reading, FrameIs
    <2>4. Len(frame') = Len(frame) - 1
      BY <1>4, <2>3 DEF FrameBy
    <2>5. Len(main') = Len(frame') + 0
      BY <2>2, <2>3, <2>4
    <2>6. Len(main') = Len(frame') + (IF skip' THEN 0 ELSE 0)
      BY <2>5
    <2>7. Noted'
      <3>1. Noted /\ pending' = pending /\ peak' = peak /\ pending \in 0..4
        BY <1>2 DEF Reading, WitnessAt
      <3> QED
        BY <2>3, <2>4, <3>1 DEF Noted, FrameIs
    <2>8. Closes(todo', 0)
      BY <1>0, <1>3
    <2> QED
      BY <1>5, <1>7, <1>9, <2>1, <2>2, <2>6, <2>7, <2>8 DEF Branched
  <1> QED
    BY <1>8, <1>9

\* In a branch, and to its end.
LEMMA BranchedStep ==
    ASSUME FrameIs, Branched, Next
    PROVE  FrameIs' /\ (Branched' \/ Broken' \/ Reading')
  <1> PICK n : Closes(todo, n) /\ Len(main) = Len(frame) + (IF skip THEN n ELSE 0)
    BY DEF Branched
  <1>0. /\ IsSequence(todo) /\ todo # <<>> /\ n \in Int /\ ~failed
        /\ \/ Current.op = "endif" /\ n = 0 /\ Calls(Tail(todo), Straight)
           \/ /\ Current.op \in Branchable /\ Proper(Current)
              /\ Closes(Tail(todo), n - Effect(Current))
    BY ClosesStep DEF Branched, Current
  <1>n. Len(main) \in Nat /\ Len(frame) \in Nat /\ peak \in Nat
    BY SequenceLen DEF Branched, FrameIs
  <1>1. CASE Current.op = "endif"
    <2>1. n = 0 /\ Calls(Tail(todo), Straight)
      BY <1>0, <1>1 DEF Branchable
    <2>2. EndBranch
      BY <1>0, <1>1, ActionOf
    <2>3. OpEndIf /\ Advance /\ UNCHANGED <<frame, pending, next, peak>>
      BY <2>2, Zenon DEF EndBranch
    <2>4. todo' = Tail(todo) /\ given' = given
      BY <1>0, <2>3, CallMade DEF Advance
    <2>5. ~skip' /\ main' = main /\ alt' = alt /\ ~failed'
      BY <1>0, <2>3, Zenon DEF OpEndIf
    <2>6. Len(main) = Len(frame)
      BY <1>n, <2>1
    <2>7. WitnessAt'
      BY <2>3, <2>4, <2>5, WitnessKept DEF Branched
    <2>8. Noted'
      BY <2>3 DEF Noted, Branched
    <2>9. Ready(todo')
      BY <2>1, <2>4, ReadyStraight
    <2> QED
      BY <2>3, <2>5, <2>6, <2>7, <2>8, <2>9 DEF Reading, Branched, FrameIs
  <1>2. CASE Current.op \in {"pick", "roll"}
    <2>1. Closes(Tail(todo), n - Effect(Current)) /\ Proper(Current)
      BY <1>0, <1>2
    <2>2. Still /\ \E d \in Nat : todo' = ByDepth(Current, d) \o Tail(todo)
      BY <1>0, <1>2, Resolved DEF FrameIs
    <2>3. Closes(todo', Effect(Current) + (n - Effect(Current)))
      BY <1>2, <2>1, <2>2, ByDepthIs, ClosesMore
    <2>4. Effect(Current) + (n - Effect(Current)) = n
      BY <1>0, <2>1, EffectType
    <2>5. Closes(todo', n)
      BY <2>3, <2>4
    <2>6. WitnessAt'
      BY <2>2, WitnessKept DEF Branched, Still
    <2>7. Len(main') = Len(frame') + (IF skip' THEN n ELSE 0)
      BY <2>2 DEF Still
    <2> QED
      BY <2>2, <2>5, <2>6, <2>7 DEF Branched, FrameIs, Still, Noted
  <1>3. CASE Current.op \in Direct
    <2>1. Closes(Tail(todo), n - Effect(Current)) /\ Proper(Current)
      BY <1>0, <1>3 DEF Direct
    <2> DEFINE e == Effect(Current)
    <2>2. e \in Int
      BY <2>1, EffectType
    <2>3. Acts(e)
      BY <1>0, <1>3, <2>1, DirectActs DEF Branched, FrameIs
    <2>4. Closes(todo', n - e)
      BY <2>1, <2>3 DEF Acts
    <2> HIDE DEF e
    <2>5. FrameIs'
      BY <2>3 DEF Acts, FrameBy, FrameIs
    <2>6. WitnessAt'
      BY <2>3, WitnessKept DEF Acts, RanBy, Branched
    <2>7. CASE failed'
      BY <2>5, <2>6, <2>7 DEF Broken
    <2>8. CASE ~failed'
      <3>1. /\ IsSequence(main') /\ skip' = skip
            /\ Len(main') = Len(main) + (IF skip THEN 0 ELSE e)
        BY <2>3, <2>8 DEF Acts, RanBy
      <3>2. Len(frame') = Len(frame) + e
        BY <2>3 DEF Acts, FrameBy
      <3>3. Len(main') = Len(frame') + (IF skip' THEN n - e ELSE 0)
        <4>1. CASE skip
          BY <1>0, <1>n, <2>2, <3>1, <3>2, <4>1
        <4>2. CASE ~skip
          BY <1>0, <1>n, <2>2, <3>1, <3>2, <4>2
        <4> QED
          BY <4>1, <4>2
      <3>4. Noted'
        <4>1. Noted /\ pending' = pending /\ pending \in 0..4
          BY <2>3 DEF Branched, Acts, WitnessAt
        <4>2. /\ peak' \in Nat /\ peak' >= peak
              /\ Len(frame') <= Len(frame) \/ Len(frame') <= peak'
          BY <2>3 DEF Acts, FrameBy
        <4>3. Len(frame') \in Nat
          BY <2>5, SequenceLen DEF FrameIs
        <4> QED
          BY <1>n, <4>1, <4>2, <4>3 DEF Noted
      <3> QED
        BY <2>4, <2>5, <2>6, <2>8, <3>1, <3>3, <3>4 DEF Branched
    <2> QED
      BY <2>7, <2>8
  <1> QED
    BY <1>0, <1>1, <1>2, <1>3 DEF Branchable, Direct

-----------------------------------------------------------------------------
(* A blob is taken, cut up, and its elements are fetched.                    *)

\* Once an element has been reached, one blob is waiting less.
LEMMA WaitingIs ==
    ASSUME given \in ToSet(Cases), IsSlh, NEW n \in Nat, n <= SigElements(given.p)
    PROVE  /\ Waiting(n) \in Nat /\ Len(BlobPlan(given.p)) \in Nat
           /\ Waiting(n) <= Len(BlobPlan(given.p))
           /\ n > 0 => Waiting(n) <= Len(BlobPlan(given.p)) - 1
  <1> DEFINE y == SigElements(given.p)
             P == Len(BlobPlan(given.p))
  <1>1. WellFormed(given.p)
    BY GivenTypes
  <1>2. P = CeilDiv(y, 4) /\ y \in Nat /\ P \in Nat
    BY <1>1, PlanIs, ElementsCounted
  <1>3. n <= y /\ Waiting(n) = P - CeilDiv(n, 4)
    BY DEF Waiting
  <1> HIDE DEF y, P
  <1>4. CeilDiv(n, 4) <= CeilDiv(y, 4)
    BY <1>2, <1>3 DEF CeilDiv
  <1>5. CeilDiv(n, 4) \in Nat /\ (n > 0 => CeilDiv(n, 4) >= 1)
    BY DEF CeilDiv
  <1>6. Waiting(n) \in Nat /\ Waiting(n) <= P /\ (n > 0 => Waiting(n) <= P - 1)
    BY <1>2, <1>3, <1>4, <1>5
  <1> QED
    BY <1>2, <1>6 DEF P

\* Before the blob is taken; `after` is the call that fetches, and the rest.
Opening ==
  /\ ~failed /\ ~skip /\ IsSequence(main) /\ Len(main) = Len(frame) /\ Len(frame) <= peak + 1
  /\ next \in Nat /\ next < SigElements(given.p) /\ next % 4 = 0
  /\ pending = BlobPlan(given.p)[Locate(next)]
  /\ Holds(Witness, given.sig, alt, Waiting(next), next, 0)
  /\ \E after : Ready(after) /\ todo = <<[op |-> "takeblob"]>> \o Rest(pending, after)

\* The items above the k + 1 elements that are left, before each of the calls
\* that take the last of them off.
SliceItems(f, from, k) ==
  LET blob == Joint(f, from, k + 1)
  IN  << <<>>, <<blob>>, <<blob, Encode(k * N)>>, <<blob, Encode(k * N), Encode((k + 1) * N)>>,
         <<f[from + (k + 1)]>>, <<>>, <<Encode(0)>>, <<Encode(0), Encode(k * N)>> >>

\* The first k elements after `from` are left on the stack m, above b; or k + 1
\* and the s-th of those calls is next.
PieceShape(t, m, b, after, f, from, k) ==
  t = Rest(k, after) /\ m = b \o <<Joint(f, from, k)>>
CutShape(t, m, b, after, f, from, k, s) ==
  /\ t = Left(SliceCode(k), s, Rest(k, after))
  /\ m = (b \o <<Joint(f, from, k + 1)>>) \o SliceItems(f, from, k)[s]

\* All but the first k of the elements of the blob are on the other stack.
Peeled(k) == Holds(Witness, given.sig, alt, Waiting(next + pending), next + k, pending - k)

Cutting ==
  /\ ~failed /\ ~skip /\ IsSequence(main) /\ Len(main) = Len(frame) /\ Len(frame) <= peak
  /\ pending \in 1..4 /\ next \in Nat /\ next + pending <= SigElements(given.p)
Taking ==
  /\ Cutting
  /\ \E b, after :
       /\ IsSequence(b) /\ Ready(after)
       /\ \/ PieceShape(todo, main, b, after, given.sig, next, 1) /\ Peeled(1)
          \/ \E k \in 1 .. pending - 1, s \in 1..8 :
               /\ CutShape(todo, main, b, after, given.sig, next, k, s)
               /\ Peeled(IF s <= 5 THEN k + 1 ELSE k)

\* With more than one element left, the last is next to be taken off.
LEMMA NextPiece ==
    ASSUME NEW t, NEW m, NEW b, IsSequence(b), NEW after, IsSequence(after), NEW f, NEW from,
           NEW k \in 1..3, PieceShape(t, m, b, after, f, from, k + 1)
    PROVE  CutShape(t, m, b, after, f, from, k, 1)
  <1>1. t = SliceCode(k) \o Rest(k, after)
    BY RestIs, Zenon DEF PieceShape
  <1>2. IsSequence(SliceCode(k)) /\ Len(SliceCode(k)) = 8
    BY SliceCodeIs
  <1>3. IsSequence(Rest(k, after))
    <2>1. k \in 1..4
      OBVIOUS
    <2> QED
      BY <2>1, RestIs
  <1>4. Left(SliceCode(k), 1, Rest(k, after)) = SliceCode(k) \o Rest(k, after)
    <2>1. 1 \in 1..Len(SliceCode(k))
      BY <1>2
    <2> QED
      BY <1>2, <1>3, <2>1, LeftNext
  <1> DEFINE c == b \o <<Joint(f, from, k + 1)>>
  <1>5. IsSequence(c)
    BY Stacked1
  <1>6. SliceItems(f, from, k)[1] = <<>>
    BY DEF SliceItems
  <1>7. m = c
    BY DEF PieceShape
  <1> HIDE DEF c
  <1>8. m = c \o <<>>
    BY <1>5, <1>7, Stacked1
  <1> QED
    BY <1>1, <1>4, <1>6, <1>8, Zenon DEF CutShape, c

\* The other stack, after a step.
LEMMA PeeledNow ==
    ASSUME given' = given, next' = next, pending' = pending, NEW k,
           Holds(Witness, given.sig, alt', Waiting(next + pending), next + k, pending - k)
    PROVE  Peeled(k)'
  <1>1. Witness' = Witness /\ (Waiting(next + pending))' = Waiting(next + pending)
    BY Kept DEF Waiting
  <1>2. Peeled(k)' <=> Holds(Witness', (given.sig)', alt', (Waiting(next + pending))', next' + k, pending' - k)
    BY DEF Peeled
  <1> QED
    BY <1>1, <1>2

\* A step that leaves k elements in the blob on top.
LEMMA PieceReached ==
    ASSUME Cutting', given' = given, next' = next, pending' = pending, NEW b, NEW after, IsSequence(b),
           Ready(after), NEW k \in 1..4, k <= pending, Peeled(k)',
           PieceShape(todo', main', b, after, given.sig, next, k)
    PROVE  Taking'
  <1>1. \/ PieceShape(todo', main', b, after, given'.sig, next', 1) /\ Peeled(1)'
        \/ \E j \in 1 .. pending' - 1, s \in 1..8 :
             /\ CutShape(todo', main', b, after, given'.sig, next', j, s)
             /\ Peeled(IF s <= 5 THEN j + 1 ELSE j)'
    <2>1. CASE k = 1
      BY <2>1
    <2>2. CASE k # 1
      <3>0. pending \in Int
        BY DEF Cutting
      <3> PICK j \in 1..3 : j + 1 = k
        BY <2>2
      <3>1. j \in 1 .. pending' - 1
        BY <3>0
      <3>2. IsSequence(after)
        BY ReadyIs
      <3>3. CutShape(todo', main', b, after, given.sig, next, j, 1)
        BY <3>2, NextPiece
      <3>4. Peeled(j + 1)'
        OBVIOUS
      <3>5. 1 \in 1..8 /\ 1 <= 5
        OBVIOUS
      <3>6. Peeled(IF 1 <= 5 THEN j + 1 ELSE j)'
        BY <3>4, <3>5
      <3> QED
        BY <3>1, <3>3, <3>5, <3>6
    <2> QED
      BY <2>1, <2>2
  <1> QED
    BY <1>1 DEF Taking

\* An element is fetched.
LEMMA ReadingFetch ==
    ASSUME given \in ToSet(Cases), IsSlh, FrameIs, Reading, Next, todo # <<>>, FetchElement
    PROVE  FrameIs' /\ Reading'
  <1>1. /\ Emits("fetch") /\ pending > 0 /\ OpFromAltStack
        /\ FramePush(Current.slot) /\ NotePeak
        /\ pending' = pending - 1 /\ next' = next + 1 /\ Advance
    BY Zenon DEF FetchElement
  <1>2. Current.op = "fetch"
    BY <1>1 DEF Emits
  <1>3. IsSequence(todo) /\ Ready(Tail(todo))
    <2>1. Current.op \notin SlhPhases /\ Current.op # "if"
      BY <1>2 DEF SlhPhases
    <2> QED
      BY <2>1, ReadyStep DEF Reading, Current
  <1>4. todo' = Tail(todo) /\ given' = given
    BY <1>1, <1>3, CallMade DEF Advance
  <1>5. FrameBy(1)
    BY <1>1, FrameMoves DEF FrameIs
  <1>6. FrameIs'
    BY <1>5 DEF FrameBy, FrameIs
  <1> DEFINE q == Waiting(next + pending)
  <1>7. /\ pending \in 1..4 /\ next \in Nat /\ next + pending <= SigElements(given.p)
        /\ Holds(Witness, given.sig, alt, q, next, pending)
    BY <1>1 DEF Reading, WitnessAt
  <1>8. q \in Nat
    <2>1. next + pending \in Nat
      BY <1>7
    <2> QED
      BY <1>7, <2>1, WaitingIs
  <1> HIDE DEF q
  <1>9. alt # <<>> /\ Holds(Witness, given.sig, Front(alt), q, next + 1, pending - 1)
    BY <1>7, <1>8, HoldsTake
  <1>10. main' = Append(main, Last(alt)) /\ alt' = Front(alt) /\ ~failed' /\ ~skip'
    BY <1>1, <1>9 DEF OpFromAltStack, Execute, Reading
  <1>11. IsSequence(main') /\ Len(main') = Len(frame) + 1
    BY <1>10, WithTop DEF Reading
  <1>12. WitnessAt'
    <2>1. next' + pending' = next + pending /\ pending' \in 0..4 /\ next' \in Nat
      BY <1>1, <1>7
    <2>2. (Waiting(next + pending))' = q
      <3>1. (Waiting(next + pending))' = Len(BlobPlan(given'.p)) - CeilDiv(next' + pending', 4)
        BY DEF Waiting
      <3> QED
        BY <1>4, <2>1, <3>1, Zenon DEF Waiting, q
    <2>3. Witness' = Witness
      BY <1>4, Kept
    <2>4. (Holds(Witness, given.sig, alt, Waiting(next + pending), next, pending))'
            <=> Holds(Witness', (given.sig)', alt', (Waiting(next + pending))', next', pending')
      OBVIOUS
    <2>5. Holds(Witness', (given.sig)', alt', (Waiting(next + pending))', next', pending')
      BY <1>1, <1>4, <1>9, <1>10, <2>2, <2>3
    <2>6. next' + pending' <= SigElements(given.p)'
      BY <1>4, <1>7, <2>1
    <2> QED
      BY <2>1, <2>4, <2>5, <2>6 DEF WitnessAt
  <1>13. Noted'
    <2>1. Len(frame') = Len(frame) + 1 /\ peak' \in Nat
      BY <1>5 DEF FrameBy
    <2>2. Len(frame') <= peak'
      BY <1>1, <1>6, PeakNoted DEF FrameIs
    <2>3. Len(frame') \in Nat
      BY <1>6, SequenceLen DEF FrameIs
    <2> QED
      BY <2>1, <2>2, <2>3 DEF Noted
  <1>14. Len(frame') = Len(frame) + 1
    BY <1>5 DEF FrameBy
  <1> QED
    BY <1>3, <1>4, <1>6, <1>10, <1>11, <1>12, <1>13, <1>14 DEF Reading

LEMMA HeadAndTail ==
    ASSUME NEW s, IsSequence(s), s # <<>>
    PROVE  <<Head(s)>> \o Tail(s) = s
  <1> DEFINE t == Tail(s)
             y == <<Head(s)>>
             c == y \o t
  <1>1. /\ IsSequence(t) /\ Len(t) = Len(s) - 1 /\ Len(s) \in Nat \ {0}
        /\ Head(s) = s[1] /\ \A i \in 1 .. Len(s) - 1 : t[i] = s[i + 1]
    BY SequenceTail
  <1>2. IsSequence(y) /\ Len(y) = 1 /\ y[1] = Head(s)
    BY SequenceOne
  <1> HIDE DEF t, y
  <1>3. /\ IsSequence(c) /\ Len(c) = Len(y) + Len(t)
        /\ \A i \in 1 .. Len(y) + Len(t) : c[i] = IF i <= Len(y) THEN y[i] ELSE t[i - Len(y)]
    BY <1>1, <1>2, SequenceConcat
  <1> HIDE DEF c
  <1>4. Len(c) = Len(s)
    BY <1>1, <1>2, <1>3
  <1>5. ASSUME NEW i \in 1..Len(c) PROVE c[i] = s[i]
    <2>1. CASE i = 1
      BY <1>1, <1>2, <1>3, <1>4, <2>1
    <2>2. CASE i # 1
      <3>1. i - 1 \in 1 .. Len(s) - 1 /\ (i - 1) + 1 = i
        BY <1>1, <1>4, <2>2
      <3>2. i \in 1 .. Len(y) + Len(t) /\ ~(i <= Len(y)) /\ i - Len(y) = i - 1
        BY <1>2, <1>3, <2>2
      <3> QED
        BY <1>1, <1>3, <3>1, <3>2
    <2> QED
      BY <2>1, <2>2
  <1>6. c = s
    <2>1. c \in Seq(Range(c) \cup Range(s)) /\ s \in Seq(Range(c) \cup Range(s))
      BY <1>3 DEF IsSequence
    <2> QED
      BY <1>4, <1>5, <2>1, SeqEqual
  <1> QED
    BY <1>6 DEF c, y, t

\* Nothing is left of the blobs cut up: the next one is put before the fetch.
LEMMA ReadingSlice ==
    ASSUME given \in ToSet(Cases), IsSlh, FrameIs, Reading, Next, todo # <<>>, SliceNextBlob
    PROVE  FrameIs' /\ Opening'
  <1> DEFINE count == BlobPlan(given.p)[Locate(next)]
  <1>1. /\ Emits("fetch") /\ pending = 0 /\ next < SigElements(given.p) /\ next % BLOB_ELEMS = 0
        /\ Expand(SliceBlob(count) \o <<Current>>) /\ pending' = count
        /\ UNCHANGED <<frame, next, peak, machine>>
    BY Zenon DEF SliceNextBlob
  <1>2. next % 4 = 0 /\ next \in Nat /\ WellFormed(given.p)
    BY <1>1, GivenTypes DEF BLOB_ELEMS, Reading, WitnessAt
  <1>3. count \in 1..4
    BY <1>1, <1>2, NextBlob
  <1>4. IsSequence(todo) /\ Ready(todo)
    BY ReadyIs DEF Reading
  <1> HIDE DEF count
  <1>5. todo' = (SliceBlob(count) \o <<Current>>) \o Tail(todo) /\ given' = given
    BY <1>1, Zenon DEF Expand
  <1>6. todo' = <<[op |-> "takeblob"]>> \o Rest(count, todo)
    <2>1. IsSequence(SliceBlob(count))
      BY <1>3, <1>4, SliceIs
    <2>2. IsSequence(<<Current>>) /\ IsSequence(Tail(todo))
      BY <1>4, SequenceOne, SequenceTail
    <2> DEFINE s == SliceBlob(count)
               t == <<Current>>
               u == Tail(todo)
    <2>3. IsSequence(s) /\ IsSequence(t) /\ IsSequence(u)
      BY <2>1, <2>2
    <2>4. t \o u = todo
      BY <1>4, HeadAndTail DEF Current
    <2> HIDE DEF s, t, u
    <2>5. Regrouped(s, t, u)
      BY <2>3, Regroups
    <2>6. (s \o t) \o u = s \o todo
      BY <2>4, <2>5, Zenon DEF Regrouped
    <2>7. s \o todo = <<[op |-> "takeblob"]>> \o Rest(count, todo)
      BY <1>3, <1>4, SliceIs DEF s
    <2> QED
      BY <1>5, <2>6, <2>7, Zenon DEF s, t, u
  <1>7. /\ frame' = frame /\ next' = next /\ peak' = peak
        /\ main' = main /\ alt' = alt /\ skip' = skip /\ failed' = failed
    BY <1>1 DEF machine
  <1>8. (Holds(Witness, given.sig, alt, Waiting(next), next, 0))'
    <2>1. Holds(Witness, given.sig, alt, Waiting(next), next, 0)
      <3>1. Holds(Witness, given.sig, alt, Waiting(next + pending), next, pending)
        BY DEF Reading, WitnessAt
      <3>2. next + pending = next
        BY <1>1, <1>2
      <3> QED
        BY <1>1, <3>1, <3>2
    <2>2. Witness' = Witness /\ (Waiting(next))' = Waiting(next)
      BY <1>5, <1>7, Kept DEF Waiting
    <2>3. (Holds(Witness, given.sig, alt, Waiting(next), next, 0))'
            <=> Holds(Witness', (given.sig)', alt', (Waiting(next))', next', 0)
      OBVIOUS
    <2> QED
      BY <1>5, <1>7, <2>1, <2>2, <2>3
  <1>9. (\E after : Ready(after) /\ todo = <<[op |-> "takeblob"]>> \o Rest(pending, after))'
    <2>1. todo' = <<[op |-> "takeblob"]>> \o Rest(pending', todo)
      BY <1>1, <1>6
    <2> QED
      BY <1>4, <2>1
  <1>10. (pending = BlobPlan(given.p)[Locate(next)])'
    <2>1. pending' = BlobPlan(given.p)[Locate(next)]
      BY <1>1 DEF count
    <2> QED
      BY <1>5, <1>7, <2>1
  <1>11. (next \in Nat /\ next < SigElements(given.p) /\ next % 4 = 0)'
    BY <1>1, <1>2, <1>5, <1>7
  <1> QED
    BY <1>7, <1>8, <1>9, <1>10, <1>11 DEF Opening, FrameIs, Reading, Noted

\* A blob is taken off the other stack.
LEMMA OpeningStep ==
    ASSUME given \in ToSet(Cases), IsSlh, FrameIs, Opening, Next
    PROVE  FrameIs' /\ Taking'
  <1> PICK after : Ready(after) /\ todo = <<[op |-> "takeblob"]>> \o Rest(pending, after)
    BY DEF Opening
  <1>1. WellFormed(given.p)
    BY GivenTypes
  <1>2. /\ next \in Nat /\ next < SigElements(given.p) /\ next % 4 = 0
        /\ pending = BlobPlan(given.p)[Locate(next)]
    BY DEF Opening
  <1>3. /\ Locate(next) \in 1..Len(BlobPlan(given.p)) /\ pending \in 1..4
        /\ next + pending <= SigElements(given.p)
        /\ CeilDiv(next, 4) = Locate(next) - 1 /\ CeilDiv(next + pending, 4) = Locate(next)
    BY <1>1, <1>2, NextBlob
  <1>4. IsSequence(after) /\ IsSequence(Rest(pending, after))
    BY <1>3, ReadyIs, RestIs
  <1>5. /\ todo # <<>> /\ IsSequence(todo)
        /\ Current = [op |-> "takeblob"] /\ Tail(todo) = Rest(pending, after)
    BY <1>4, CallFirst DEF Current
  <1>6. TakeBlob
    <2>1. Current.op = "takeblob"
      BY <1>5
    <2> QED
      BY <1>5, <2>1, ActionOf DEF Opening
  <1>7. /\ OpFromAltStack /\ FramePush(TRANSIENT) /\ NotePeak /\ Advance
        /\ pending' = pending /\ next' = next
    BY <1>6, Zenon DEF TakeBlob
  <1>8. todo' = Rest(pending, after) /\ given' = given
    BY <1>5, <1>7, CallMade DEF Advance
  <1>9. FrameBy(1)
    BY <1>7, FrameMoves DEF FrameIs
  <1>10. FrameIs' /\ Len(frame') = Len(frame) + 1 /\ Len(frame') <= peak'
    <2>1. FrameIs' /\ Len(frame') = Len(frame) + 1
      BY <1>9 DEF FrameBy, FrameIs
    <2> QED
      BY <1>7, <2>1, PeakNoted DEF FrameIs
  <1> DEFINE q == Waiting(next)
             x == Joint(given.sig, next, pending)
  <1>11. Holds(Witness, given.sig, alt, q, next, 0)
    BY DEF Opening
  <1>12. q \in Nat \ {0} /\ q - 1 = Waiting(next + pending) /\ Len(Witness) + 1 - q = Locate(next)
    <2>1. Len(Witness) = Len(BlobPlan(given.p)) /\ Len(Witness) \in Nat
      BY WitnessIs
    <2>2. q = Len(BlobPlan(given.p)) - (Locate(next) - 1)
      BY <1>3 DEF Waiting
    <2>3. Waiting(next + pending) = Len(BlobPlan(given.p)) - Locate(next)
      BY <1>3 DEF Waiting
    <2> HIDE DEF q
    <2> QED
      BY <1>3, <2>1, <2>2, <2>3
  <1>13. Witness[Locate(next)] = x
    BY <1>2, BlobIs
  <1> HIDE DEF q, x
  <1>14. /\ alt # <<>> /\ Last(alt) = x
         /\ Holds(Witness, given.sig, Front(alt), q - 1, next + pending, 0)
    BY <1>11, <1>12, <1>13, HoldsBlob
  <1>15. main' = Append(main, Last(alt)) /\ alt' = Front(alt) /\ ~failed' /\ ~skip'
    BY <1>7, <1>14 DEF OpFromAltStack, Execute, Opening
  <1>16. IsSequence(main) /\ main' = main \o <<x>>
    BY <1>14, <1>15, Stacked1 DEF Opening
  <1>17. IsSequence(main') /\ Len(main') = Len(main) + 1
    BY <1>16, Stacked1
  <1>18. PieceShape(todo', main', main, after, given.sig, next, pending)
    BY <1>8, <1>16, Zenon DEF PieceShape, x
  <1>19. Cutting'
    <2>1. Len(main') = Len(frame')
      BY <1>10, <1>17 DEF Opening
    <2>2. (pending \in 1..4 /\ next \in Nat /\ next + pending <= SigElements(given.p))'
      BY <1>2, <1>3, <1>7, <1>8
    <2> QED
      BY <1>10, <1>15, <1>17, <2>1, <2>2 DEF Cutting
  <1> PICK k \in 1..4 : k = pending
    BY <1>3
  <1>20. Peeled(k)'
    <2>1. pending - k = 0 /\ next + k = next + pending
      BY <1>3
    <2>2. Holds(Witness, given.sig, alt', Waiting(next + pending), next + k, pending - k)
      BY <1>12, <1>14, <1>15, <2>1
    <2> QED
      BY <1>7, <1>8, <2>2, PeeledNow
  <1>21. Taking'
    BY <1>7, <1>8, <1>16, <1>18, <1>19, <1>20, PieceReached
  <1> QED
    BY <1>10, <1>21

\* The opcodes that cut a blob up, on a stack whose top is known.
LEMMA DupRuns ==
    ASSUME NEW b, NEW x, IsSequence(b), main = b \o <<x>>, OpDup, ~skip
    PROVE  Ran((b \o <<x>>) \o <<x>>)
  <1>1. Depth = Len(b) + 1 /\ Len(b) \in Nat /\ main[Len(b) + 1] = x /\ IsSequence(main)
    BY Stacked1 DEF Depth
  <1>2. Depth >= 1 /\ Top = x
    BY <1>1 DEF Top
  <1>3. Ran(Append(main, x))
    BY <1>2, Executed DEF OpDup
  <1>4. Append(main, x) = main \o <<x>>
    BY <1>1, Stacked1
  <1> QED
    BY <1>3, <1>4

LEMMA StashRuns ==
    ASSUME NEW b, NEW x, IsSequence(b), main = b \o <<x>>, OpToAltStack, ~skip
    PROVE  main' = b /\ alt' = Append(alt, x) /\ ~failed' /\ ~skip'
  <1>1. Depth = Len(b) + 1 /\ Len(b) \in Nat /\ main[Len(b) + 1] = x /\ SubSeq(main, 1, Len(b)) = b
    BY Stacked1 DEF Depth
  <1>2. Depth >= 1 /\ Top = x /\ Depth - 1 = Len(b)
    BY <1>1 DEF Top
  <1>3. Below(1) = b
    BY <1>1, <1>2 DEF Below
  <1> QED
    BY <1>2, <1>3, Zenon DEF OpToAltStack, Execute

LEMMA TopThree ==
    ASSUME NEW b, IsSequence(b), NEW t, IsSequence(t), Len(t) = 3, main = b \o t
    PROVE  SubSeq(main, Depth - 3 + 1, Depth) = t /\ Below(3) = b /\ 3 <= Depth
  <1>1. SubSeq(main, 1, Len(b)) = b /\ SubSeq(main, Len(b) + 1, Len(b) + Len(t)) = t
    BY TakenApart
  <1>2. Depth = Len(b) + 3 /\ Len(b) \in Nat
    BY SequenceConcat DEF Depth
  <1>3. Len(b) + Len(t) = Depth /\ Len(b) + 1 = Depth - 3 + 1 /\ Len(b) = Depth - 3
    BY <1>2
  <1>4. SubSeq(main, Depth - 3 + 1, Depth) = t
    BY <1>1, <1>3, Zenon
  <1>5. SubSeq(main, 1, Depth - 3) = b
    BY <1>1, <1>3, Zenon
  <1>6. 3 <= Depth
    BY <1>2
  <1> QED
    BY <1>4, <1>5, <1>6, Zenon DEF Below

\* A part of an item, by two numbers on top of it.
LEMMA SubstrRuns ==
    ASSUME NEW b, NEW x, NEW i \in Word, NEW j \in Word, IsSequence(b), IsSequence(x),
           i <= j, j <= Len(x), main = b \o <<x, Encode(i), Encode(j)>>, OpCalc("substr", 3), ~skip
    PROVE  Ran(b \o <<SubSeq(x, i + 1, j)>>)
  <1> DEFINE t == <<x, Encode(i), Encode(j)>>
  <1>1. IsSequence(t) /\ Len(t) = 3 /\ main = b \o t /\ t[1] = x /\ t[2] = Encode(i) /\ t[3] = Encode(j)
    <2>1. t \in Seq({x, Encode(i), Encode(j)})
      OBVIOUS
    <2> QED
      BY <2>1, SequenceIs
  <1> HIDE DEF t
  <1>2. SubSeq(main, Depth - 3 + 1, Depth) = t /\ Below(3) = b /\ 3 <= Depth
    BY <1>1, TopThree
  <1>3. Decode(Encode(i)) = i /\ Decode(Encode(j)) = j /\ IsNumber(Encode(i)) /\ IsNumber(Encode(j))
    BY NumberRead
  <1>4. 0 <= i
    BY SMT DEF Word
  <1>5. Accepts("substr", t)
    BY <1>1, <1>3, <1>4 DEF Accepts
  <1>6. Result("substr", t) = SubSeq(x, i + 1, j)
    BY <1>1, <1>3 DEF Result
  <1>7. Execute(3 <= Depth /\ Accepts("substr", t), Append(b, Result("substr", t)), alt)
    BY <1>2, Zenon DEF OpCalc
  <1>8. Ran(Append(b, SubSeq(x, i + 1, j)))
    BY <1>2, <1>5, <1>6, <1>7, Executed
  <1> QED
    BY <1>8, Stacked1

\* The elements of a signature.
LEMMA ElementIs ==
    ASSUME given \in ToSet(Cases), IsSlh
    PROVE  \A i \in 1..SigElements(given.p) :
             given.sig[i] \in [1..N -> Octet] /\ IsSequence(given.sig[i]) /\ Len(given.sig[i]) = N
  <1>1. given.sig \in [1..SigElements(given.p) -> [1..N -> Octet]]
    BY GivenTypes
  <1>2. N \in Nat
    BY WidthsAssumption
  <1>3. \A s \in [1..N -> Octet] : IsSequence(s) /\ Len(s) = N
    <2> TAKE s \in [1..N -> Octet]
    <2>1. s = [i \in 1..N |-> s[i]]
      OBVIOUS
    <2> QED
      BY <1>2, <2>1, CountedFrom
  <1> QED
    BY <1>1, <1>3

\* The last of k + 1 elements, and those before it.
LEMMA CutParts ==
    ASSUME given \in ToSet(Cases), IsSlh, NEW from \in Nat, NEW k \in 1..3, from + (k + 1) <= SigElements(given.p)
    PROVE  LET x == Joint(given.sig, from, k + 1)
           IN  /\ IsSequence(x) /\ Len(x) = (k + 1) * N
               /\ SubSeq(x, k * N + 1, (k + 1) * N) = given.sig[from + (k + 1)]
               /\ SubSeq(x, 0 + 1, k * N) = Joint(given.sig, from, k)
               /\ 0 \in Word /\ k * N \in Word /\ (k + 1) * N \in Word
               /\ 0 <= k * N /\ k * N <= (k + 1) * N
  <1> DEFINE x == Joint(given.sig, from, k + 1)
             a == Joint(given.sig, from, k)
             y == given.sig[from + (k + 1)]
             m == k * N
             n == (k + 1) * N
  <1>1. N \in 1..16
    BY WidthsAssumption
  <1>2. m \in 0..48 /\ n \in 0..64 /\ n = m + N
    <2>1. k = 1 \/ k = 2 \/ k = 3
      OBVIOUS
    <2> QED
      BY <1>1, <2>1
  <1>3. \A i \in 1..4 : i <= k + 1 => given.sig[from + i] \in [1..N -> Octet]
    <2>1. SigElements(given.p) \in Nat
      BY GivenTypes, ElementsCounted
    <2>2. \A i \in 1..4 : i <= k + 1 => from + i \in 1..SigElements(given.p)
      BY <2>1
    <2> QED
      BY <2>2, ElementIs
  <1>4. IsSequence(x) /\ Len(x) = n
    <2>1. k + 1 \in 1..4 /\ N \in Nat
      BY <1>1
    <2>2. LongFrom(given.sig, from, k + 1, N, Octet)
      BY <1>3 DEF LongFrom
    <2>3. JointLong(given.sig, from, k + 1, N)
      BY <2>1, <2>2, JointLen
    <2> QED
      BY <2>3 DEF JointLong
  <1>5. IsSequence(a) /\ Len(a) = m
    <2>1. k \in 1..4 /\ N \in Nat /\ \A i \in 1..4 : i <= k => i <= k + 1
      BY <1>1
    <2>2. LongFrom(given.sig, from, k, N, Octet)
      BY <1>3, <2>1 DEF LongFrom
    <2>3. JointLong(given.sig, from, k, N)
      BY <2>1, <2>2, JointLen
    <2> QED
      BY <2>3 DEF JointLong
  <1>6. IsSequence(y) /\ Len(y) = N
    <2>1. SigElements(given.p) \in Nat
      BY GivenTypes, ElementsCounted
    <2>2. from + (k + 1) \in 1..SigElements(given.p)
      BY <2>1
    <2> QED
      BY <2>2, ElementIs
  <1>7. x = a \o y
    <2>1. k + 1 \in 2..4 /\ (k + 1) - 1 = k
      OBVIOUS
    <2> QED
      BY <2>1, JointIs
  <1>8. 0 \in Word /\ m \in Word /\ n \in Word
    BY <1>2, SMT DEF Word
  <1> HIDE DEF x, a, y, m, n
  <1>9. SubSeq(x, 1, Len(a)) = a /\ SubSeq(x, Len(a) + 1, Len(a) + Len(y)) = y
    BY <1>5, <1>6, <1>7, TakenApart
  <1>10. SubSeq(x, m + 1, n) = y /\ SubSeq(x, 0 + 1, m) = a
    <2>1. 0 + 1 = 1
      OBVIOUS
    <2> QED
      BY <1>2, <1>5, <1>6, <1>9, <2>1
  <1>11. 0 <= m /\ m <= n
    BY <1>1, <1>2
  <1> QED
    BY <1>4, <1>8, <1>10, <1>11 DEF x, a, y, m, n

LEMMA CutItems ==
    ASSUME given \in ToSet(Cases), IsSlh, next \in Nat, NEW k \in 1..3, next + (k + 1) <= SigElements(given.p)
    PROVE  LET x == Joint(given.sig, next, k + 1)
           IN  /\ IsSequence(x) /\ Len(x) = (k + 1) * N
               /\ SubSeq(x, k * N + 1, (k + 1) * N) = given.sig[next + (k + 1)]
               /\ SubSeq(x, 0 + 1, k * N) = Joint(given.sig, next, k)
               /\ 0 \in Word /\ k * N \in Word /\ (k + 1) * N \in Word
               /\ 0 <= k * N /\ k * N <= (k + 1) * N
  BY CutParts

SliceItem(k, s) == SliceItems(given.sig, next, k)[s]
Piece(k) == Joint(given.sig, next, k)

LEMMA SliceCalls ==
    ASSUME NEW k \in 1..3
    PROVE  /\ \A s \in 1..8 : Proper(SliceCode(k)[s])
           /\ \A s \in {2, 3, 6, 7} : SliceCode(k)[s].op = "num"
           /\ SliceCode(k)[1].op = "dup" /\ SliceCode(k)[5].op = "toalt"
           /\ SliceCode(k)[4].op = "calc" /\ SliceCode(k)[4].fn = "substr" /\ SliceCode(k)[4].n = 3
           /\ SliceCode(k)[8].op = "calc" /\ SliceCode(k)[8].fn = "substr" /\ SliceCode(k)[8].n = 3
           /\ SliceCode(k)[2].value = k * N /\ SliceCode(k)[3].value = (k + 1) * N
           /\ SliceCode(k)[6].value = 0 /\ SliceCode(k)[7].value = k * N
  <1> DEFINE m == k * N
             n == (k + 1) * N
             c == << [op |-> "dup"],
                     [op |-> "num", value |-> m], [op |-> "num", value |-> n],
                     [op |-> "calc", fn |-> "substr", n |-> 3],
                     [op |-> "toalt"],
                     [op |-> "num", value |-> 0], [op |-> "num", value |-> m],
                     [op |-> "calc", fn |-> "substr", n |-> 3] >>
  <1>1. SliceCode(k) = c
    BY Zenon DEF SliceCode
  <1> HIDE DEF m, n
  <1>2. /\ c[1].op = "dup" /\ c[5].op = "toalt"
        /\ c[4].op = "calc" /\ c[4].fn = "substr" /\ c[4].n = 3
        /\ c[8].op = "calc" /\ c[8].fn = "substr" /\ c[8].n = 3
    OBVIOUS
  <1>3. /\ c[2].op = "num" /\ c[3].op = "num" /\ c[6].op = "num" /\ c[7].op = "num"
        /\ c[2].value = m /\ c[3].value = n /\ c[6].value = 0 /\ c[7].value = m
    OBVIOUS
  <1> HIDE DEF c
  <1>4. \A s \in 1..8 : Proper(c[s])
    <2> TAKE s \in 1..8
    <2>1. s = 1 \/ s = 2 \/ s = 3 \/ s = 4 \/ s = 5 \/ s = 6 \/ s = 7 \/ s = 8
      OBVIOUS
    <2>2. c[s].op \in {"dup", "num", "toalt"} \/ (c[s].op = "calc" /\ c[s].n = 3)
      BY <1>2, <1>3, <2>1
    <2> QED
      BY <2>2 DEF Proper
  <1> QED
    BY <1>1, <1>2, <1>3, <1>4 DEF m, n

LEMMA SliceItemsAre ==
    ASSUME NEW k
    PROVE  /\ SliceItem(k, 1) = <<>> /\ SliceItem(k, 2) = <<Piece(k + 1)>>
           /\ SliceItem(k, 3) = <<Piece(k + 1), Encode(k * N)>>
           /\ SliceItem(k, 4) = <<Piece(k + 1), Encode(k * N), Encode((k + 1) * N)>>
           /\ SliceItem(k, 5) = <<given.sig[next + (k + 1)]>>
           /\ SliceItem(k, 6) = <<>> /\ SliceItem(k, 7) = <<Encode(0)>>
           /\ SliceItem(k, 8) = <<Encode(0), Encode(k * N)>>
  <1> DEFINE x == Piece(k + 1)
             l == Encode(k * N)
             r == Encode((k + 1) * N)
             y == given.sig[next + (k + 1)]
             z == Encode(0)
             t == << <<>>, <<x>>, <<x, l>>, <<x, l, r>>, <<y>>, <<>>, <<z>>, <<z, l>> >>
  <1>1. SliceItems(given.sig, next, k) = t
    BY Zenon DEF SliceItems, Piece
  <1> HIDE DEF x, l, r, y, z
  <1>2. /\ t[1] = <<>> /\ t[2] = <<x>> /\ t[3] = <<x, l>> /\ t[4] = <<x, l, r>>
        /\ t[5] = <<y>> /\ t[6] = <<>> /\ t[7] = <<z>> /\ t[8] = <<z, l>>
    OBVIOUS
  <1> QED
    BY <1>1, <1>2 DEF SliceItem, x, l, r, y, z

\* Which opcode each of those calls is.
LEMMA SliceRuns ==
    ASSUME Next, ~failed, todo # <<>>
    PROVE  /\ Current.op = "dup" => OpDup
           /\ Current.op = "num" => OpPush(Encode(Current.value))
           /\ Current.op = "calc" => OpCalc(Current.fn, Current.n)
  <1>1. ASSUME Current.op = "dup" PROVE OpDup
    <2>1. CopyTop
      BY <1>1, ActionOf
    <2>2. Current.op # "over"
      BY <1>1
    <2> QED
      BY <2>1, <2>2, Zenon DEF CopyTop, Emits
  <1>2. ASSUME Current.op = "num" PROVE OpPush(Encode(Current.value))
    <2>1. PushItem
      BY <1>2, ActionOf
    <2>2. Current.op # "data"
      BY <1>2
    <2> QED
      BY <2>1, <2>2, Zenon DEF PushItem, Emits
  <1>3. ASSUME Current.op = "calc" PROVE OpCalc(Current.fn, Current.n)
    <2>1. Calculate
      BY <1>3, ActionOf
    <2> QED
      BY <2>1, Zenon DEF Calculate
  <1> QED
    BY <1>1, <1>2, <1>3

\* One call of those, but for the one that puts the element away.
LEMMA CutRuns ==
    ASSUME given \in ToSet(Cases), IsSlh, next \in Nat, NEW k \in 1..3,
           next + (k + 1) <= SigElements(given.p), NEW b, IsSequence(b),
           Next, ~failed, ~skip, todo # <<>>, NEW s \in 1..8, s # 5, Current = SliceCode(k)[s],
           main = (b \o <<Piece(k + 1)>>) \o SliceItem(k, s)
    PROVE  IF s = 8 THEN Ran(b \o <<Piece(k)>>) ELSE Ran((b \o <<Piece(k + 1)>>) \o SliceItem(k, s + 1))
  <1> DEFINE x == Piece(k + 1)
             y == given.sig[next + (k + 1)]
             m == k * N
             n == (k + 1) * N
             l == Encode(m)
             r == Encode(n)
             z == Encode(0)
             c == b \o <<x>>
  <1>1. IsSequence(c) /\ c \o <<>> = c
    BY Stacked1
  <1>2. /\ SliceItem(k, 1) = <<>> /\ SliceItem(k, 2) = <<x>>
        /\ SliceItem(k, 3) = <<x, l>> /\ SliceItem(k, 4) = <<x, l, r>>
        /\ SliceItem(k, 5) = <<y>>
        /\ SliceItem(k, 6) = <<>> /\ SliceItem(k, 7) = <<z>> /\ SliceItem(k, 8) = <<z, l>>
    BY SliceItemsAre
  <1>3. /\ IsSequence(x) /\ Len(x) = n
        /\ SubSeq(x, m + 1, n) = y /\ SubSeq(x, 0 + 1, m) = Piece(k)
        /\ 0 \in Word /\ m \in Word /\ n \in Word /\ 0 <= m /\ m <= n
    BY CutItems DEF Piece
  <1>4. /\ SliceCode(k)[1].op = "dup"
        /\ SliceCode(k)[4].op = "calc" /\ SliceCode(k)[4].fn = "substr" /\ SliceCode(k)[4].n = 3
        /\ SliceCode(k)[8].op = "calc" /\ SliceCode(k)[8].fn = "substr" /\ SliceCode(k)[8].n = 3
        /\ SliceCode(k)[2].op = "num" /\ SliceCode(k)[3].op = "num"
        /\ SliceCode(k)[6].op = "num" /\ SliceCode(k)[7].op = "num"
        /\ SliceCode(k)[2].value = m /\ SliceCode(k)[3].value = n
        /\ SliceCode(k)[6].value = 0 /\ SliceCode(k)[7].value = m
    BY SliceCalls
  <1>5. /\ Current.op = "dup" => OpDup
        /\ Current.op = "num" => OpPush(Encode(Current.value))
        /\ Current.op = "calc" => OpCalc(Current.fn, Current.n)
    BY SliceRuns
  <1>6. main = c \o SliceItem(k, s)
    OBVIOUS
  <1>7. c \o <<z, l>> = b \o <<x, z, l>>
    <2> HIDE DEF x, z, l, c
    <2>1. b \o <<x, z, l>> = (b \o <<x>>) \o <<z, l>>
      BY Stacked3, SMTT(20)
    <2> QED
      BY <2>1 DEF c
  <1> HIDE DEF l, r, z, m, n, y
  <1>8. CASE s = 1
    <2>1. OpDup /\ main = b \o <<x>>
      BY <1>1, <1>2, <1>4, <1>5, <1>6, <1>8
    <2> HIDE DEF x, c
    <2>2. Ran((b \o <<x>>) \o <<x>>)
      BY <2>1, DupRuns
    <2> QED
      BY <1>2, <1>8, <2>2 DEF x
  <1> HIDE DEF c, x
  <1>9. CASE s = 2
    <2>1. OpPush(l) /\ main = c \o <<x>>
      BY <1>2, <1>4, <1>5, <1>6, <1>9 DEF l
    <2>2. Ran(c \o <<x, l>>)
      BY <1>1, <2>1, ItemsPushed
    <2>3. s # 8 /\ s + 1 = 3
      BY <1>9
    <2>4. Ran(c \o SliceItem(k, s + 1))
      BY <1>2, <2>2, <2>3
    <2> QED
      BY <2>3, <2>4 DEF c, x
  <1>10. CASE s = 3
    <2>1. OpPush(r) /\ main = c \o <<x, l>>
      BY <1>2, <1>4, <1>5, <1>6, <1>10 DEF r
    <2>2. Ran(c \o <<x, l, r>>)
      BY <1>1, <2>1, ItemsPushed
    <2>3. s # 8 /\ s + 1 = 4
      BY <1>10
    <2>4. Ran(c \o SliceItem(k, s + 1))
      BY <1>2, <2>2, <2>3
    <2> QED
      BY <2>3, <2>4 DEF c, x
  <1>11. CASE s = 4
    <2>1. OpCalc("substr", 3) /\ main = c \o <<x, Encode(m), Encode(n)>>
      BY <1>2, <1>4, <1>5, <1>6, <1>11 DEF l, r
    <2>2. n <= Len(x)
      BY <1>3 DEF Word
    <2>3. Ran(c \o <<SubSeq(x, m + 1, n)>>)
      BY <1>1, <1>3, <2>1, <2>2, SubstrRuns
    <2>4. s # 8 /\ s + 1 = 5
      BY <1>11
    <2>5. Ran(c \o SliceItem(k, s + 1))
      BY <1>2, <1>3, <2>3, <2>4
    <2> QED
      BY <2>4, <2>5 DEF c, x
  <1>12. CASE s = 6
    <2>1. OpPush(z) /\ main = c \o <<>>
      BY <1>2, <1>4, <1>5, <1>6, <1>12 DEF z
    <2>2. Ran(c \o <<z>>)
      BY <1>1, <2>1, ItemsPushed
    <2>3. s # 8 /\ s + 1 = 7
      BY <1>12
    <2>4. Ran(c \o SliceItem(k, s + 1))
      BY <1>2, <2>2, <2>3
    <2> QED
      BY <2>3, <2>4 DEF c, x
  <1>13. CASE s = 7
    <2>1. OpPush(l) /\ main = c \o <<z>>
      BY <1>2, <1>4, <1>5, <1>6, <1>13 DEF l
    <2>2. Ran(c \o <<z, l>>)
      BY <1>1, <2>1, ItemsPushed
    <2>3. s # 8 /\ s + 1 = 8
      BY <1>13
    <2>4. Ran(c \o SliceItem(k, s + 1))
      BY <1>2, <2>2, <2>3
    <2> QED
      BY <2>3, <2>4 DEF c, x
  <1>14. CASE s = 8
    <2>1. OpCalc("substr", 3) /\ main = b \o <<x, Encode(0), Encode(m)>>
      BY <1>2, <1>4, <1>5, <1>6, <1>7, <1>14 DEF l, z
    <2>2. m <= Len(x) /\ 0 <= m
      BY <1>3 DEF Word
    <2>3. Ran(b \o <<SubSeq(x, 0 + 1, m)>>)
      BY <1>3, <2>1, <2>2, SubstrRuns
    <2> QED
      BY <1>3, <1>14, <2>3
  <1> QED
    BY <1>8, <1>9, <1>10, <1>11, <1>12, <1>13, <1>14

\* One primitive of the code that cuts a blob up.
LEMMA CutDirect ==
    ASSUME FrameIs, Cutting, Next, IsSequence(todo), todo # <<>>, Current.op \in Direct, Proper(Current),
           ~failed', ~skip'
    PROVE  /\ FrameIs' /\ Cutting' /\ todo' = Tail(todo)
           /\ given' = given /\ next' = next /\ pending' = pending /\ alt' = alt
  <1> DEFINE e == Effect(Current)
  <1>1. e \in Int
    BY EffectType
  <1>2. Acts(e)
    BY DirectActs DEF Cutting, FrameIs
  <1> HIDE DEF e
  <1>3. FrameIs'
    BY <1>2 DEF Acts, FrameBy, FrameIs
  <1>4. Len(main) \in Nat /\ Len(frame) \in Nat /\ Len(main) = Len(frame) /\ peak \in Nat
    BY SequenceLen DEF Cutting, FrameIs
  <1>5. IsSequence(main') /\ Len(main') = Len(main) + e
    BY <1>2 DEF Acts, RanBy, Cutting
  <1>6. Len(frame') = Len(frame) + e /\ peak' \in Nat /\ peak' >= peak
        /\ (Len(frame') <= Len(frame) \/ Len(frame') <= peak')
    BY <1>2 DEF Acts, FrameBy
  <1>7. Len(frame') <= peak'
    <2>1. Len(frame') \in Nat /\ Len(frame) <= peak
      BY <1>3, SequenceLen DEF FrameIs, Cutting
    <2> QED
      BY <1>4, <1>6, <2>1
  <1>8. given' = given /\ next' = next /\ pending' = pending /\ alt' = alt /\ todo' = Tail(todo)
    BY <1>2 DEF Acts, RanBy
  <1>9. Cutting'
    BY <1>4, <1>5, <1>6, <1>7, <1>8 DEF Cutting
  <1> QED
    BY <1>3, <1>8, <1>9

\* An item is put away.
LEMMA CutStash ==
    ASSUME FrameIs, Next, ~failed, ~skip, IsSequence(todo), todo # <<>>, Current.op = "toalt",
           NEW b, NEW x, IsSequence(b), main = b \o <<x>>, Len(main) = Len(frame), Len(frame) <= peak
    PROVE  /\ FrameIs' /\ todo' = Tail(todo) /\ given' = given /\ next' = next /\ pending' = pending
           /\ main' = b /\ alt' = Append(alt, x) /\ ~failed' /\ ~skip'
           /\ Len(main') = Len(frame') /\ Len(frame') <= peak'
  <1>1. Stash
    BY ActionOf
  <1>2. OpToAltStack /\ FramePop /\ Advance /\ pending' = pending /\ next' = next /\ peak' = peak
    BY <1>1, Zenon DEF Stash
  <1>3. todo' = Tail(todo) /\ given' = given
    BY <1>2, CallMade DEF Advance
  <1>4. main' = b /\ alt' = Append(alt, x) /\ ~failed' /\ ~skip'
    BY <1>2, StashRuns
  <1>5. FrameBy(-1)
    BY <1>2, FrameMoves DEF FrameIs
  <1>6. FrameIs' /\ Len(frame') = Len(frame) + -1
    BY <1>5 DEF FrameBy, FrameIs
  <1>7. Len(main) = Len(b) + 1 /\ Len(b) \in Nat
    BY Stacked1
  <1>8. Len(frame') = Len(frame) - 1 /\ Len(main') = Len(main) - 1
    BY <1>4, <1>6, <1>7
  <1>9. Len(main') = Len(frame') /\ Len(frame') <= peak'
    <2>1. Len(frame) \in Nat /\ peak \in Nat /\ peak' = peak
      BY <1>2, <1>7 DEF FrameIs
    <2>2. Len(main') = Len(frame')
      BY <1>8
    <2>3. Len(frame') <= peak'
      BY <1>8, <2>1
    <2> QED
      BY <2>2, <2>3
  <1> QED
    BY <1>2, <1>3, <1>4, <1>6, <1>9

LEMMA CutStep ==
    ASSUME given \in ToSet(Cases), IsSlh, FrameIs, Cutting, Next,
           NEW b, NEW after, IsSequence(b), Ready(after), NEW k \in 1..3, k < pending, NEW s \in 1..8,
           CutShape(todo, main, b, after, given.sig, next, k, s), Peeled(IF s <= 5 THEN k + 1 ELSE k)
    PROVE  FrameIs' /\ Taking'
  <1> DEFINE c == b \o <<Piece(k + 1)>>
             rest == Rest(k, after)
  <1>0. pending \in 1..4 /\ next \in Nat /\ next + pending <= SigElements(given.p) /\ ~failed /\ ~skip
    BY DEF Cutting
  <1>1. IsSequence(c)
    BY Stacked1
  <1>2. IsSequence(rest)
    <2>1. IsSequence(after) /\ k \in 1..4
      BY ReadyIs
    <2> QED
      BY <2>1, RestIs
  <1>3. todo = Left(SliceCode(k), s, rest) /\ main = c \o SliceItem(k, s)
    BY Zenon DEF CutShape, SliceItem, Piece
  <1> HIDE DEF rest
  <1>4. /\ IsSequence(todo) /\ todo # <<>> /\ Current = SliceCode(k)[s]
        /\ Tail(todo) = Left(SliceCode(k), s + 1, rest)
    <2>1. IsSequence(SliceCode(k)) /\ Len(SliceCode(k)) = 8
      BY SliceCodeIs
    <2>2. s \in 1..Len(SliceCode(k))
      BY <2>1
    <2>3. /\ IsSequence(Left(SliceCode(k), s, rest)) /\ Left(SliceCode(k), s, rest) # <<>>
          /\ FirstThen(Left(SliceCode(k), s, rest), SliceCode(k)[s], Left(SliceCode(k), s + 1, rest))
      BY <1>2, <2>1, <2>2, LeftNext
    <2> QED
      BY <1>3, <2>3, Zenon DEF FirstThen, Current
  <1>5. Proper(Current)
    BY <1>4, SliceCalls
  <1>6. CASE s # 5
    <2>1. Current.op \in {"dup", "num", "calc"}
      <3>1. s = 1 \/ s = 4 \/ s = 8 \/ s \in {2, 3, 6, 7}
        BY <1>6
      <3> QED
        BY <1>4, <3>1, SliceCalls, SMTT(20)
    <2>2. IF s = 8 THEN Ran(b \o <<Piece(k)>>) ELSE Ran(c \o SliceItem(k, s + 1))
      <3>1. next + (k + 1) <= SigElements(given.p)
        <4>1. SigElements(given.p) \in Nat
          BY GivenTypes, ElementsCounted
        <4> QED
          BY <1>0, <4>1
      <3> QED
        BY <1>0, <1>3, <1>4, <1>6, <3>1, CutRuns
    <2> HIDE DEF c
    <2>3. ~failed' /\ ~skip'
      BY <2>2 DEF Ran
    <2>4. /\ FrameIs' /\ Cutting' /\ todo' = Tail(todo)
          /\ given' = given /\ next' = next /\ pending' = pending /\ alt' = alt
      BY <1>4, <1>5, <2>1, <2>3, CutDirect DEF Direct
    <2>5. \A j : Peeled(j) => Peeled(j)'
      <3> SUFFICES ASSUME NEW j, Peeled(j) PROVE Peeled(j)'
        OBVIOUS
      <3>1. Holds(Witness, given.sig, alt', Waiting(next + pending), next + j, pending - j)
        BY <2>4 DEF Peeled
      <3> QED
        BY <2>4, <3>1, PeeledNow
    <2>6. CASE s = 8
      <3>1. main' = b \o <<Joint(given.sig, next, k)>>
        BY <2>2, <2>6 DEF Ran, Piece
      <3>2. todo' = rest
        <4>1. IsSequence(SliceCode(k)) /\ Len(SliceCode(k)) = 8
          BY SliceCodeIs
        <4>2. s + 1 = Len(SliceCode(k)) + 1 /\ 1 \in 1..Len(SliceCode(k))
          BY <2>6, <4>1
        <4>3. Left(SliceCode(k), Len(SliceCode(k)) + 1, rest) = rest
          BY <1>2, <4>1, <4>2, LeftNext
        <4> QED
          BY <1>4, <2>4, <4>2, <4>3
      <3>3. PieceShape(todo', main', b, after, given.sig, next, k)
        BY <3>1, <3>2, Zenon DEF PieceShape, rest
      <3>4. Peeled(k)'
        <4>1. ~(s <= 5)
          BY <2>6
        <4> QED
          BY <2>5, <4>1
      <3>5. k \in 1..4 /\ k <= pending
        BY <1>0
      <3> QED
        BY <2>4, <3>3, <3>4, <3>5, PieceReached
    <2>7. CASE s # 8
      <3>1. s + 1 \in 1..8 /\ (s <= 5 <=> s + 1 <= 5)
        BY <1>6, <2>7
      <3>2. main' = c \o SliceItem(k, s + 1)
        BY <2>2, <2>7 DEF Ran
      <3>3. CutShape(todo', main', b, after, given.sig, next, k, s + 1)
        BY <1>4, <2>4, <3>2, Zenon DEF CutShape, SliceItem, Piece, c, rest
      <3>4. Peeled(IF s <= 5 THEN k + 1 ELSE k)'
        BY <2>5
      <3>5. Peeled(IF s + 1 <= 5 THEN k + 1 ELSE k)'
        BY <3>1, <3>4
      <3>6. CutShape(todo', main', b, after, given'.sig, next', k, s + 1)
        BY <2>4, <3>3
      <3>7. k \in 1 .. pending' - 1
        BY <1>0, <2>4
      <3> QED
        BY <2>4, <3>1, <3>5, <3>6, <3>7 DEF Taking
    <2> QED
      BY <2>6, <2>7
  <1>7. CASE s = 5
    <2> DEFINE x == given.sig[next + (k + 1)]
               n == next + (k + 1)
               m == pending - (k + 1)
               q == Waiting(next + pending)
    <2>1. main = c \o <<x>> /\ Current.op = "toalt"
      BY <1>3, <1>4, <1>7, SliceItemsAre, SliceCalls
    <2>2. Holds(Witness, given.sig, alt, q, n, m)
      <3>1. Peeled(k + 1)
        BY <1>7
      <3> QED
        BY <3>1 DEF Peeled
    <2>3. q \in Nat /\ n \in Nat \ {0} /\ m \in Nat /\ x = given.sig[n]
      <3>1. next + pending \in Nat
        BY <1>0
      <3> QED
        BY <1>0, <3>1, WaitingIs
    <2> HIDE DEF c, x, q
    <2>4. /\ FrameIs' /\ todo' = Tail(todo) /\ given' = given /\ next' = next /\ pending' = pending
          /\ main' = c /\ alt' = Append(alt, x) /\ ~failed' /\ ~skip'
          /\ Len(main') = Len(frame') /\ Len(frame') <= peak'
      BY <1>0, <1>1, <1>4, <2>1, CutStash DEF Cutting
    <2>5. n - 1 = next + k /\ m + 1 = pending - k
      BY <1>0
    <2> HIDE DEF n, m
    <2>6. Holds(Witness, given.sig, Append(alt, x), q, n - 1, m + 1)
      BY <2>2, <2>3, HoldsPut
    <2>7. Peeled(k)'
      <3>1. Holds(Witness, given.sig, alt', Waiting(next + pending), next + k, pending - k)
        BY <2>4, <2>5, <2>6 DEF q
      <3> QED
        BY <2>4, <3>1, PeeledNow
    <2>8. Cutting'
      BY <1>0, <1>1, <2>4 DEF Cutting
    <2>9. CutShape(todo', main', b, after, given.sig, next, k, 6)
      <3>1. todo' = Left(SliceCode(k), 6, rest)
        BY <1>4, <1>7, <2>4
      <3>2. SliceItem(k, 6) = <<>>
        BY SliceItemsAre
      <3>3. c = c \o <<>>
        BY <1>1, Stacked1
      <3>4. main' = c \o SliceItem(k, 6)
        BY <2>4, <3>2, <3>3
      <3> QED
        BY <3>1, <3>4, Zenon DEF CutShape, SliceItem, Piece, c, rest
    <2>10. 6 \in 1..8 /\ ~(6 <= 5) /\ k \in 1 .. pending' - 1
      BY <1>0, <2>4
    <2>11. Peeled(IF 6 <= 5 THEN k + 1 ELSE k)'
      BY <2>7, <2>10
    <2>12. CutShape(todo', main', b, after, given'.sig, next', k, 6)
      BY <2>4, <2>9
    <2> QED
      BY <2>4, <2>8, <2>10, <2>11, <2>12 DEF Taking
  <1> QED
    BY <1>6, <1>7

\* The first element is put away last, and can be fetched.
LEMMA LastStep ==
    ASSUME given \in ToSet(Cases), IsSlh, FrameIs, Cutting, Next,
           NEW b, NEW after, IsSequence(b), Ready(after),
           PieceShape(todo, main, b, after, given.sig, next, 1), Peeled(1)
    PROVE  FrameIs' /\ Reading'
  <1> DEFINE x == given.sig[next + 1]
             m == pending - 1
             q == Waiting(next + pending)
  <1>0. pending \in 1..4 /\ next \in Nat /\ next + pending <= SigElements(given.p) /\ ~failed /\ ~skip
    BY DEF Cutting
  <1>1. IsSequence(after)
    BY ReadyIs
  <1>2. todo = <<[op |-> "toalt"]>> \o after /\ main = b \o <<x>>
    BY <1>1, RestIs, JointIs, Zenon DEF PieceShape
  <1>3. todo # <<>> /\ IsSequence(todo) /\ Current = [op |-> "toalt"] /\ Tail(todo) = after
    BY <1>1, <1>2, CallFirst DEF Current
  <1>4. Current.op = "toalt"
    BY <1>3
  <1>5. Holds(Witness, given.sig, alt, q, next + 1, m)
    BY DEF Peeled
  <1>6. q \in Nat /\ next + 1 \in Nat \ {0} /\ m \in Nat
    <2>1. next + pending \in Nat
      BY <1>0
    <2> QED
      BY <1>0, <2>1, WaitingIs
  <1> HIDE DEF q
  <1>7. Holds(Witness, given.sig, Append(alt, x), q, (next + 1) - 1, m + 1)
    BY <1>5, <1>6, HoldsPut
  <1>8. (next + 1) - 1 = next /\ m + 1 = pending
    BY <1>0
  <1> HIDE DEF x, m
  <1>9. /\ FrameIs' /\ todo' = Tail(todo) /\ given' = given /\ next' = next /\ pending' = pending
        /\ main' = b /\ alt' = Append(alt, x) /\ ~failed' /\ ~skip'
        /\ Len(main') = Len(frame') /\ Len(frame') <= peak'
    BY <1>0, <1>2, <1>3, <1>4, CutStash DEF Cutting
  <1>10. WitnessAt'
    <2>1. Holds(Witness, given.sig, alt', q, next, pending)
      BY <1>7, <1>8, <1>9
    <2>2. Witness' = Witness /\ (Waiting(next + pending))' = q
      BY <1>9, Kept DEF Waiting, q
    <2>3. (Holds(Witness, given.sig, alt, Waiting(next + pending), next, pending))'
            <=> Holds(Witness', (given.sig)', alt', (Waiting(next + pending))', next', pending')
      OBVIOUS
    <2>4. (Holds(Witness, given.sig, alt, Waiting(next + pending), next, pending))'
      BY <1>9, <2>1, <2>2, <2>3
    <2>5. (pending \in 0..4 /\ next \in Nat /\ next + pending <= SigElements(given.p))'
      BY <1>0, <1>9
    <2> QED
      BY <2>4, <2>5 DEF WitnessAt
  <1>11. Noted'
    <2>1. Len(frame') \in Nat /\ peak' \in Nat
      BY <1>9, SequenceLen DEF FrameIs
    <2> QED
      BY <1>9, <2>1 DEF Noted
  <1> QED
    BY <1>3, <1>9, <1>10, <1>11 DEF Reading

LEMMA TakingStep ==
    ASSUME given \in ToSet(Cases), IsSlh, FrameIs, Taking, Next
    PROVE  FrameIs' /\ (Taking' \/ Reading')
  <1>1. Cutting
    BY DEF Taking
  <1>2. PICK b, after :
          /\ IsSequence(b) /\ Ready(after)
          /\ \/ PieceShape(todo, main, b, after, given.sig, next, 1) /\ Peeled(1)
             \/ \E k \in 1 .. pending - 1, s \in 1..8 :
                  /\ CutShape(todo, main, b, after, given.sig, next, k, s)
                  /\ Peeled(IF s <= 5 THEN k + 1 ELSE k)
    BY DEF Taking
  <1>3. CASE PieceShape(todo, main, b, after, given.sig, next, 1) /\ Peeled(1)
    BY <1>1, <1>2, <1>3, LastStep
  <1>4. CASE \E k \in 1 .. pending - 1, s \in 1..8 :
               /\ CutShape(todo, main, b, after, given.sig, next, k, s)
               /\ Peeled(IF s <= 5 THEN k + 1 ELSE k)
    <2>1. PICK k \in 1 .. pending - 1, s \in 1..8 :
               /\ CutShape(todo, main, b, after, given.sig, next, k, s)
               /\ Peeled(IF s <= 5 THEN k + 1 ELSE k)
      BY <1>4
    <2>2. k \in 1..3 /\ k < pending
      BY <1>1 DEF Cutting
    <2> QED
      BY <1>1, <1>2, <2>1, <2>2, CutStep
  <1> QED
    BY <1>2, <1>3, <1>4

\* A step outside of branches.
LEMMA ReadingStep ==
    ASSUME given \in ToSet(Cases), IsSlh, FrameIs, Reading, Next, todo # <<>>
    PROVE  FrameIs' /\ (Reading' \/ Branched' \/ Broken' \/ Opening')
  <1>1. Ready(todo) /\ ~failed
    BY DEF Reading
  <1>2. Current.op \in Simple \/ Current.op \in SlhPhases \/ Current.op = "if"
    BY <1>1, ReadyStep DEF Current
  <1>3. CASE Current.op \in Direct
    BY <1>3, ReadingDirect
  <1>4. CASE Current.op \in {"pick", "roll", "expectspent"} \cup SlhPhases
    BY <1>4, ReadingExpands
  <1>5. CASE Current.op = "if"
    BY <1>5, ReadingIf
  <1>6. CASE Current.op = "fetch"
    <2>1. SliceNextBlob \/ FetchElement
      BY <1>1, <1>6, ActionOf
    <2> QED
      BY <2>1, ReadingSlice, ReadingFetch
  <1> QED
    BY <1>2, <1>3, <1>4, <1>5, <1>6 DEF Simple, Branchable, Direct

\* The message is named, and verifying begins with all the blobs queued.
LEMMA ReadingStarts ==
    ASSUME given \in ToSet(Cases), IsSlh, Next, Fresh, alt = Queue, AtVerify
    PROVE  FrameIs' /\ Reading'
  <1>1. todo = Verify /\ main = <<>> \o <<Sha256(Gathered)>> /\ ~failed /\ ~skip
    BY DEF AtVerify, Fresh, Below0
  <1>2. /\ IsSequence(todo) /\ todo # <<>> /\ Current = [op |-> "message"]
        /\ Calls(Tail(todo), Straight)
    BY <1>1, VerifyIs DEF Current
  <1>3. StartFrame
    <2>1. Current.op = "message"
      BY <1>2
    <2> QED
      BY <1>1, <1>2, <2>1, ActionOf
  <1>4. /\ FramePush("d") /\ Advance
        /\ pending' = pending /\ next' = next /\ peak' = peak
        /\ main' = main /\ alt' = alt /\ skip' = skip /\ failed' = failed
    BY <1>3, Zenon DEF StartFrame, machine
  <1>5. todo' = Tail(todo) /\ given' = given
    BY <1>2, <1>4, CallMade DEF Advance
  <1>6. IsSequence(<<>>) /\ Len(<<>>) = 0
    BY CallsNone DEF Calls
  <1>o. ASSUME NEW b, NEW x, b = <<>>
        PROVE  /\ IsSequence(b \o <<x>>) /\ Len(b \o <<x>>) = 1
               /\ Append(b, x) = b \o <<x>>
    <2>1. IsSequence(b) /\ Len(b) = 0
      BY <1>6, <1>o, Zenon
    <2>2. IsSequence(b \o <<x>>) /\ Len(b \o <<x>>) = Len(b) + 1 /\ Append(b, x) = b \o <<x>>
      BY <2>1, Stacked1, Zenon
    <2>3. Len(b) + 1 = 1
      BY <2>1
    <2> QED
      BY <2>2, <2>3, Zenon
  <1>7. IsSequence(main) /\ Len(main) = 1
    BY <1>1, <1>o, Zenon
  <1>8. IsSequence(frame') /\ Len(frame') = 1
    BY <1>4, <1>o, Zenon DEF FramePush, Fresh
  <1>9. FrameIs' /\ Noted'
    <2>1. peak' = 0 /\ pending' = 0
      BY <1>4 DEF Fresh
    <2> QED
      BY <1>8, <2>1 DEF FrameIs, Noted
  <1>10. WitnessAt
    <2>1. Waiting(0) = Len(Witness) /\ Holds(Witness, given.sig, alt, Waiting(0), 0, 0)
      BY HoldsAll
    <2>2. SigElements(given.p) \in Nat
      BY GivenTypes, ElementsCounted
    <2> QED
      BY <2>1, <2>2 DEF WitnessAt, Fresh
  <1>11. WitnessAt'
    BY <1>4, <1>5, <1>10, WitnessKept
  <1>12. Ready(todo')
    BY <1>2, <1>5, ReadyStraight
  <1> QED
    BY <1>1, <1>4, <1>7, <1>8, <1>9, <1>11, <1>12 DEF Reading

\* The blobs are queued, the message is digested, the elements are cut up and
\* fetched; or the script has failed.
WitnessModes ==
  \/ Broken
  \/ FrameIs /\ (Queueing \/ Digesting \/ Reading \/ Branched \/ Opening \/ Taking)

LEMMA ModesStill ==
    ASSUME UNCHANGED vars, WitnessModes
    PROVE  WitnessModes'
  <1>1. /\ given' = given /\ todo' = todo /\ frame' = frame /\ pending' = pending
        /\ next' = next /\ peak' = peak
        /\ main' = main /\ alt' = alt /\ skip' = skip /\ failed' = failed
    BY DEF vars, emitter, machine
  <1>2. FrameIs' = FrameIs /\ (WitnessAt => WitnessAt') /\ Noted' = Noted
    BY <1>1, WitnessKept DEF FrameIs, Noted
  <1>3. Witness' = Witness /\ \A n : Waiting(n)' = Waiting(n)
    BY <1>1, Kept DEF Waiting
  <1>4. Broken => Broken'
    BY <1>1, <1>2 DEF Broken
  <1>5. Queueing \/ Digesting => Queueing' \/ Digesting'
    BY <1>1, PrologueStill
  <1>6. (Reading => Reading') /\ (Branched => Branched')
    BY <1>1, <1>2 DEF Reading, Branched
  <1>7. Opening => Opening'
    <2>1. (Waiting(next))' = Waiting(next)
      BY <1>1 DEF Waiting
    <2>2. (Holds(Witness, given.sig, alt, Waiting(next), next, 0))'
            <=> Holds(Witness', (given.sig)', alt', (Waiting(next))', next', 0)
      OBVIOUS
    <2> QED
      BY <1>1, <1>3, <2>1, <2>2 DEF Opening
  <1>8. Taking => Taking'
    <2>1. Cutting' = Cutting
      BY <1>1 DEF Cutting
    <2>2. (Waiting(next + pending))' = Waiting(next + pending)
      BY <1>1 DEF Waiting
    <2>3. \A k : Peeled(k)' = Peeled(k)
      BY <1>1, <1>3, <2>2 DEF Peeled
    <2> QED
      BY <1>1, <2>1, <2>3 DEF Taking
  <1> QED
    BY <1>2, <1>4, <1>5, <1>6, <1>7, <1>8 DEF WitnessModes

LEMMA FreshFrame ==
    ASSUME Queueing \/ Digesting
    PROVE  FrameIs
  <1>1. frame = <<>> /\ peak = 0
    BY DEF Queueing, Digesting, Fresh
  <1>2. IsSequence(<<>>)
    BY CallsNone DEF Calls
  <1> QED
    BY <1>1, <1>2, Zenon DEF FrameIs

LEMMA DigestingStep ==
    ASSUME given \in ToSet(Cases), IsSlh, Digesting, Next
    PROVE  Broken' \/ Digesting' \/ (FrameIs' /\ Reading')
  <1>0. Fresh /\ alt = Queue
    BY DEF Digesting
  <1>1. CASE \E k \in 1..15 : AtHeader(k)
    <2>1. Stopped' \/ Digesting'
      BY <1>0, <1>1, HeaderStep
    <2> QED
      BY <2>1 DEF Stopped, Broken
  <1>2. CASE \E o \in 1..2, k \in 1..13 : AtOutput(o, k)
    <2>1. Stopped' \/ Digesting'
      BY <1>0, <1>2, OutputStep
    <2> QED
      BY <2>1 DEF Stopped, Broken
  <1>3. CASE AtDigest
    BY <1>0, <1>3, DigestStep
  <1>4. CASE AtVerify
    BY <1>0, <1>4, ReadingStarts
  <1> QED
    BY <1>1, <1>2, <1>3, <1>4 DEF Digesting

LEMMA ModesStep ==
    ASSUME given \in ToSet(Cases), IsSlh, WitnessModes, Next
    PROVE  WitnessModes'
  <1>0. (Queueing \/ Digesting => FrameIs)'
    BY FreshFrame, PTL
  <1>1. CASE failed \/ todo = <<>>
    BY <1>1, Halted, ModesStill
  <1>2. CASE ~failed /\ todo # <<>>
    <2>0. FrameIs
      BY <1>2 DEF WitnessModes, Broken
    <2>1. CASE Queueing
      BY <1>0, <2>1, QueueStep DEF WitnessModes
    <2>2. CASE Digesting
      BY <1>0, <2>2, DigestingStep DEF WitnessModes
    <2>3. CASE Reading
      BY <1>2, <2>0, <2>3, ReadingStep DEF WitnessModes
    <2>4. CASE Branched
      BY <2>0, <2>4, BranchedStep DEF WitnessModes
    <2>5. CASE Opening
      BY <2>0, <2>5, OpeningStep DEF WitnessModes
    <2>6. CASE Taking
      BY <2>0, <2>6, TakingStep DEF WitnessModes
    <2> QED
      BY <1>2, <2>1, <2>2, <2>3, <2>4, <2>5, <2>6 DEF WitnessModes, Broken
  <1> QED
    BY <1>1, <1>2

-----------------------------------------------------------------------------
(* How high the stacks have been. *)

\* What an opcode may do to the machine.
Executes == \E accepts, stack, other : Execute(accepts, stack, other)
MachineStays == main' = main /\ alt' = alt /\ skip' = skip /\ failed' = failed /\ high' = high

LEMMA OpcodesExecute ==
    /\ \A bytes : OpPush(bytes) => Executes
    /\ \A fn, n : OpCalc(fn, n) => Executes
    /\ OpDup \/ OpOver \/ OpDrop \/ OpSwap \/ OpNip \/ OpPick \/ OpRoll => Executes
    /\ OpToAltStack \/ OpFromAltStack => Executes
    /\ \A count, fields : OpTxField(count, fields) => Executes
  <1>1. /\ \A bytes : OpPush(bytes) => Executes
        /\ \A fn, n : OpCalc(fn, n) => Executes
    BY Zenon DEF OpPush, OpCalc, Executes
  <1>2. (OpDup => Executes) /\ (OpOver => Executes) /\ (OpDrop => Executes) /\ (OpSwap => Executes)
    BY Zenon DEF OpDup, OpOver, OpDrop, OpSwap, Executes
  <1>3. (OpNip => Executes) /\ (OpPick => Executes) /\ (OpRoll => Executes)
    BY Zenon DEF OpNip, OpPick, OpRoll, Executes
  <1>4. /\ OpToAltStack => Executes
        /\ OpFromAltStack => Executes
        /\ \A count, fields : OpTxField(count, fields) => Executes
    BY Zenon DEF OpToAltStack, OpFromAltStack, OpTxField, Executes
  <1> QED
    BY <1>1, <1>2, <1>3, <1>4, Zenon

LEMMA MachineMoves ==
    ASSUME Next
    PROVE  Executes \/ OpIf \/ OpEndIf \/ MachineStays
  <1>0. UNCHANGED machine => MachineStays
    BY DEF machine, MachineStays
  <1>1. CASE WriteOpcode
    <2>1. RunOpcode(given.tx, Current)
      BY <1>1, Zenon DEF WriteOpcode
    <2> QED
      BY <2>1, OpcodesExecute, Zenon DEF RunOpcode
  <1>2. CASE PushItem \/ Calculate \/ CopyTop \/ SwapTop \/ DropTop \/ NipTop
    BY <1>2, OpcodesExecute, Zenon DEF PushItem, Calculate, CopyTop, SwapTop, DropTop, NipTop
  <1>3. CASE PickSlot \/ RollSlot \/ FetchElement \/ TakeBlob \/ Stash \/ QueueBlob
    BY <1>3, OpcodesExecute, Zenon DEF PickSlot, RollSlot, FetchElement, TakeBlob, Stash, QueueBlob
  <1>4. CASE Branch \/ EndBranch
    BY <1>4, Zenon DEF Branch, EndBranch
  <1>5. CASE EnterPhase \/ ResolveSlot \/ NameTop \/ StartFrame \/ ExpectSpent
    <2>1. UNCHANGED machine
      BY <1>5 DEF EnterPhase, ResolveSlot, NameTop, StartFrame, ExpectSpent
    <2> QED
      BY <1>0, <2>1
  <1>6. CASE SliceNextBlob
    <2>1. UNCHANGED machine
      BY <1>6, Zenon DEF SliceNextBlob, machine
    <2> QED
      BY <1>0, <2>1
  <1>7. CASE Finished
    <2>1. UNCHANGED machine
      BY <1>7 DEF Finished, vars
    <2> QED
      BY <1>0, <2>1
  <1> QED
    BY <1>1, <1>2, <1>3, <1>4, <1>5, <1>6, <1>7 DEF Next

\* A case is never changed, and a peak never forgotten.
LEMMA GivenStays ==
    ASSUME Next
    PROVE  given' = given
  <1>1. \A calls : Expand(calls) => given' = given
    BY DEF Expand
  <1>2. Advance => given' = given
    BY <1>1 DEF Advance
  <1>3. CASE EnterPhase
    BY <1>1, <1>3, Zenon DEF EnterPhase
  <1>4. CASE WriteOpcode \/ PushItem \/ Calculate \/ CopyTop \/ SwapTop \/ DropTop \/ NipTop
    BY <1>2, <1>4, Zenon DEF WriteOpcode, PushItem, Calculate, CopyTop, SwapTop, DropTop, NipTop
  <1>5. CASE PickSlot \/ RollSlot \/ NameTop \/ Branch \/ EndBranch \/ FetchElement
    BY <1>2, <1>5, Zenon DEF PickSlot, RollSlot, NameTop, Branch, EndBranch, FetchElement
  <1>6. CASE TakeBlob \/ Stash \/ QueueBlob \/ StartFrame \/ ExpectSpent
    BY <1>2, <1>6, Zenon DEF TakeBlob, Stash, QueueBlob, StartFrame, ExpectSpent
  <1>7. CASE ResolveSlot
    BY <1>1, <1>7, Zenon DEF ResolveSlot
  <1>8. CASE SliceNextBlob
    BY <1>1, <1>8, Zenon DEF SliceNextBlob
  <1>9. CASE Finished
    BY <1>9 DEF Finished, vars
  <1> QED
    BY <1>3, <1>4, <1>5, <1>6, <1>7, <1>8, <1>9 DEF Next

LEMMA PeakKept ==
    ASSUME Next, FrameIs
    PROVE  peak' \in Nat /\ peak' >= peak
  <1>0. peak \in Nat /\ IsSequence(frame)
    BY DEF FrameIs
  <1>1. ASSUME NEW slot, FramePush(slot), NotePeak
        PROVE  peak' \in Nat /\ peak' >= peak
    BY <1>0, <1>1, FrameMoves DEF FrameBy
  <1>2. CASE PushItem \/ CopyTop \/ TakeBlob \/ FetchElement
    <2>1. \E slot : FramePush(slot) /\ NotePeak
      BY <1>2, Zenon DEF PushItem, CopyTop, TakeBlob, FetchElement
    <2> QED
      BY <1>1, <2>1
  <1>3. CASE PickSlot
    <2>1. FrameReplace(1, TRANSIENT) /\ NotePeak
      BY <1>3, Zenon DEF PickSlot
    <2>2. FrameBy(1 - 1)
      BY <1>0, <2>1, FrameMoves
    <2> QED
      BY <1>0, <2>2 DEF FrameBy
  <1>4. CASE Calculate \/ SwapTop \/ DropTop \/ NipTop \/ RollSlot \/ NameTop \/ Branch
    <2>1. peak' = peak
      BY <1>4, Zenon DEF Calculate, SwapTop, DropTop, NipTop, RollSlot, NameTop, Branch
    <2> QED
      BY <1>0, <2>1
  <1>5. CASE WriteOpcode \/ EndBranch \/ QueueBlob \/ Stash \/ StartFrame \/ ExpectSpent
    <2>1. peak' = peak
      BY <1>5, Zenon DEF WriteOpcode, EndBranch, QueueBlob, Stash, StartFrame, ExpectSpent
    <2> QED
      BY <1>0, <2>1
  <1>6. CASE EnterPhase \/ ResolveSlot
    <2>1. peak' = peak
      BY <1>6, Zenon DEF EnterPhase, ResolveSlot
    <2> QED
      BY <1>0, <2>1
  <1>7. CASE SliceNextBlob
    <2>1. peak' = peak
      BY <1>7, Zenon DEF SliceNextBlob
    <2> QED
      BY <1>0, <2>1
  <1>8. CASE Finished
    <2>1. peak' = peak
      BY <1>8 DEF Finished, vars, emitter
    <2> QED
      BY <1>0, <2>1
  <1> QED
    BY <1>2, <1>3, <1>4, <1>5, <1>6, <1>7, <1>8 DEF Next

\* The blobs of the plan, the elements of one that are not blobs any more, and
\* the frame.
Bound == Len(BlobPlan(given.p)) + 3 + peak
Stacks == IsSequence(main) /\ IsSequence(alt) /\ peak \in Nat /\ Len(main) + Len(alt) <= Bound
Fits == Stacks /\ high \in Nat /\ high <= Bound

\* At most three items, as while a field is added to the message.
Few(s) == s = <<>> \/ (\E x : s = <<x>>) \/ (\E x, y : s = <<x, y>>) \/ (\E x, y, z : s = <<x, y, z>>)

LEMMA FewIs ==
    ASSUME NEW s, Few(s)
    PROVE  IsSequence(<<>> \o s) /\ Len(<<>> \o s) <= 3
  <1>1. IsSequence(<<>>) /\ Len(<<>>) = 0
    BY CallsNone DEF Calls
  <1>2. IsSequence(s) /\ Len(s) <= 3
    <2>1. CASE s = <<>>
      BY <1>1, <2>1
    <2>2. CASE \E x : s = <<x>>
      <3> PICK x : s = <<x>>
        BY <2>2
      <3>1. s \in Seq({x}) /\ Len(s) = 1
        OBVIOUS
      <3>2. IsSequence(s)
        BY <3>1, SequenceIs, Zenon
      <3> QED
        BY <3>1, <3>2
    <2>3. CASE \E x, y : s = <<x, y>>
      <3> PICK x, y : s = <<x, y>>
        BY <2>3
      <3>1. s \in Seq({x, y}) /\ Len(s) = 2
        OBVIOUS
      <3>2. IsSequence(s)
        BY <3>1, SequenceIs, Zenon
      <3> QED
        BY <3>1, <3>2
    <2>4. CASE \E x, y, z : s = <<x, y, z>>
      <3> PICK x, y, z : s = <<x, y, z>>
        BY <2>4
      <3>1. s \in Seq({x, y, z}) /\ Len(s) = 3
        OBVIOUS
      <3>2. IsSequence(s)
        BY <3>1, SequenceIs, Zenon
      <3> QED
        BY <3>1, <3>2
    <2> QED
      BY <2>1, <2>2, <2>3, <2>4 DEF Few
  <1>3. s \in Seq(Range(s))
    BY <1>2 DEF IsSequence
  <1>4. <<>> \o s = s
    BY <1>3, ConcatEmptySeq
  <1> QED
    BY <1>2, <1>4, Zenon

LEMMA FieldsFew ==
    /\ \A k \in 1..15 : Few(HeaderItems[k])
    /\ \A o : \A k \in 1..13 : Few(OutputItems(o)[k])
  <1>s. /\ Few(<<>>) /\ \A x : Few(<<x>>)
        /\ \A x, y : Few(<<x, y>>)
        /\ \A x, y, z : Few(<<x, y, z>>)
    BY Zenon DEF Few
  <1>1. ASSUME NEW k \in 1..15 PROVE Few(HeaderItems[k])
    <2>1. \/ k = 1 \/ k = 2 \/ k = 3 \/ k = 4 \/ k = 5 \/ k = 6 \/ k = 7 \/ k = 8 \/ k = 9
          \/ k = 10 \/ k = 11 \/ k = 12 \/ k = 13 \/ k = 14 \/ k = 15
      OBVIOUS
    <2>2. /\ Few(HeaderItems[1]) /\ Few(HeaderItems[2]) /\ Few(HeaderItems[3])
          /\ Few(HeaderItems[4]) /\ Few(HeaderItems[5])
      BY <1>s, HeaderItemsAre, Zenon
    <2>3. /\ Few(HeaderItems[6]) /\ Few(HeaderItems[7]) /\ Few(HeaderItems[8])
          /\ Few(HeaderItems[9]) /\ Few(HeaderItems[10])
      BY <1>s, HeaderItemsAre, Zenon
    <2>4. /\ Few(HeaderItems[11]) /\ Few(HeaderItems[12]) /\ Few(HeaderItems[13])
          /\ Few(HeaderItems[14]) /\ Few(HeaderItems[15])
      BY <1>s, HeaderItemsAre, Zenon
    <2> QED
      BY <2>1, <2>2, <2>3, <2>4, Zenon
  <1>2. ASSUME NEW o, NEW k \in 1..13 PROVE Few(OutputItems(o)[k])
    <2>1. \/ k = 1 \/ k = 2 \/ k = 3 \/ k = 4 \/ k = 5 \/ k = 6 \/ k = 7 \/ k = 8 \/ k = 9
          \/ k = 10 \/ k = 11 \/ k = 12 \/ k = 13
      OBVIOUS
    <2>2. /\ Few(OutputItems(o)[1]) /\ Few(OutputItems(o)[2]) /\ Few(OutputItems(o)[3])
          /\ Few(OutputItems(o)[4]) /\ Few(OutputItems(o)[5]) /\ Few(OutputItems(o)[6])
      BY <1>s, Zenon DEF OutputItems
    <2>3. /\ Few(OutputItems(o)[7]) /\ Few(OutputItems(o)[8]) /\ Few(OutputItems(o)[9])
          /\ Few(OutputItems(o)[10])
      BY <1>s, Zenon DEF OutputItems
    <2>4. /\ Few(OutputItems(o)[11]) /\ Few(OutputItems(o)[12]) /\ Few(OutputItems(o)[13])
      BY <1>s, Zenon DEF OutputItems
    <2> QED
      BY <2>1, <2>2, <2>3, <2>4, Zenon
  <1> QED
    BY <1>1, <1>2

LEMMA DigestingFits ==
    ASSUME given \in ToSet(Cases), IsSlh, Queueing \/ Digesting
    PROVE  Stacks
  <1>1. Len(Witness) = Len(BlobPlan(given.p)) /\ IsSequence(Witness) /\ Len(Witness) \in Nat
    BY WitnessIs
  <1>2. ASSUME NEW k \in 0..Len(Witness) PROVE IsSequence(Queued(k)) /\ Len(Queued(k)) = k
    <2>1. k \in Nat
      BY <1>1
    <2> DEFINE a == [b \in 1..k |-> Witness[Len(Witness) + 1 - b]]
    <2>2. IsSequence(a) /\ Len(a) = k
      BY <2>1, CountedFrom
    <2> QED
      BY <2>2, Zenon DEF Queued
  <1>3. peak = 0
    BY DEF Queueing, Digesting, Fresh
  <1>4. CASE Queueing
    <2>1. PICK k \in 0 .. Len(Witness) - 1 : main = SubSeq(Witness, 1, Len(Witness) - k) /\ alt = Queued(k)
      BY <1>4 DEF Queueing
    <2>2. k \in Nat /\ k <= Len(Witness) /\ k \in 0..Len(Witness)
      BY <1>1
    <2>3. IsSequence(main) /\ Len(main) = Len(Witness) - k
      BY <1>1, <2>1, <2>2, CutOff
    <2>4. IsSequence(alt) /\ Len(alt) = k
      BY <1>2, <2>1, <2>2
    <2> QED
      BY <1>1, <1>3, <2>2, <2>3, <2>4 DEF Stacks, Bound
  <1>5. CASE Digesting
    <2>1. IsSequence(alt) /\ Len(alt) = Len(Witness)
      <3>1. alt = Queued(Len(Witness)) /\ Len(Witness) \in 0..Len(Witness)
        BY <1>1, <1>5 DEF Digesting, Queue
      <3> QED
        BY <1>2, <3>1
    <2>2. Below0 = <<>>
      BY DEF Below0
    <2>3. \E s : Few(s) /\ main = <<>> \o s
      <3>1. CASE \E k \in 1..15 : AtHeader(k)
        <4> PICK k \in 1..15 : AtHeader(k)
          BY <3>1
        <4>1. main = Below0 \o HeaderItems[k]
          BY DEF AtHeader
        <4> QED
          BY <2>2, <4>1, FieldsFew
      <3>2. CASE \E o \in 1..2, k \in 1..13 : AtOutput(o, k)
        <4> PICK o \in 1..2, k \in 1..13 : AtOutput(o, k)
          BY <3>2
        <4>1. main = Below0 \o OutputItems(o)[k]
          BY DEF AtOutput
        <4> QED
          BY <2>2, <4>1, FieldsFew
      <3>3. CASE AtDigest \/ AtVerify
        <4>1. \E x : main = Below0 \o <<x>>
          BY <3>3, Zenon DEF AtDigest, AtVerify
        <4>2. \A x : Few(<<x>>)
          BY Zenon DEF Few
        <4> QED
          BY <2>2, <4>1, <4>2
      <3> QED
        BY <1>5, <3>1, <3>2, <3>3 DEF Digesting
    <2>4. IsSequence(main) /\ Len(main) <= 3
      <3> PICK s : Few(s) /\ main = <<>> \o s
        BY <2>3
      <3>1. IsSequence(<<>> \o s) /\ Len(<<>> \o s) <= 3
        BY FewIs
      <3> QED
        BY <3>1, Zenon
    <2>5. Len(main) \in Nat
      BY <2>4, SequenceLen
    <2> QED
      BY <1>1, <1>3, <2>1, <2>4, <2>5 DEF Stacks, Bound
  <1> QED
    BY <1>4, <1>5

\* What the alternative stack holds, in a blob and out of it.
LEMMA ReadingFits ==
    ASSUME given \in ToSet(Cases), IsSlh, FrameIs, IsSequence(main), Len(main) = Len(frame), Noted, WitnessAt
    PROVE  Stacks
  <1> DEFINE P == Len(BlobPlan(given.p))
             q == Waiting(next + pending)
  <1>1. /\ pending \in 0..4 /\ next \in Nat /\ next + pending <= SigElements(given.p)
        /\ Holds(Witness, given.sig, alt, q, next, pending)
    BY DEF WitnessAt
  <1>2. q \in Nat /\ P \in Nat /\ q <= P /\ (next + pending > 0 => q <= P - 1)
    <2>1. next + pending \in Nat
      BY <1>1
    <2> QED
      BY <1>1, <2>1, WaitingIs
  <1> HIDE DEF P, q
  <1>3. IsSequence(alt) /\ Len(alt) = q + pending
    BY <1>1 DEF Holds
  <1>4. Len(main) \in Nat /\ Len(main) <= peak + 1 /\ (pending > 0 => Len(main) <= peak) /\ peak \in Nat
    BY SequenceLen DEF Noted, FrameIs
  <1>5. pending = 0 \/ (pending > 0 /\ next + pending > 0)
    BY <1>1
  <1>6. Len(main) + Len(alt) <= P + 3 + peak
    BY <1>1, <1>2, <1>3, <1>4, <1>5
  <1> QED
    BY <1>3, <1>4, <1>6 DEF Stacks, Bound, P

LEMMA OpeningFits ==
    ASSUME given \in ToSet(Cases), IsSlh, FrameIs, Opening
    PROVE  Stacks
  <1> DEFINE P == Len(BlobPlan(given.p))
             q == Waiting(next)
  <1>1. /\ next \in Nat /\ next < SigElements(given.p)
        /\ Holds(Witness, given.sig, alt, q, next, 0)
        /\ IsSequence(main) /\ Len(main) = Len(frame) /\ Len(frame) <= peak + 1
    BY DEF Opening
  <1>2. q \in Nat /\ P \in Nat /\ q <= P
    <2>1. SigElements(given.p) \in Nat
      BY GivenTypes, ElementsCounted
    <2>2. next <= SigElements(given.p)
      BY <1>1, <2>1
    <2> QED
      BY <1>1, <2>2, WaitingIs
  <1> HIDE DEF P, q
  <1>3. IsSequence(alt) /\ Len(alt) = q + 0
    BY <1>1 DEF Holds
  <1>4. Len(main) \in Nat /\ peak \in Nat
    BY <1>1, SequenceLen DEF FrameIs
  <1>5. Len(main) + Len(alt) <= P + 3 + peak
    BY <1>1, <1>2, <1>3, <1>4
  <1> QED
    BY <1>1, <1>3, <1>4, <1>5 DEF Stacks, Bound, P

LEMMA TakingFits ==
    ASSUME given \in ToSet(Cases), IsSlh, FrameIs, Taking
    PROVE  Stacks
  <1> DEFINE P == Len(BlobPlan(given.p))
             q == Waiting(next + pending)
  <1>1. /\ IsSequence(main) /\ Len(main) = Len(frame) /\ Len(frame) <= peak
        /\ pending \in 1..4 /\ next \in Nat /\ next + pending <= SigElements(given.p)
    BY DEF Taking, Cutting
  <1>2. q \in Nat /\ P \in Nat /\ q <= P - 1
    <2>1. next + pending \in Nat /\ next + pending > 0
      BY <1>1
    <2> QED
      BY <1>1, <2>1, WaitingIs
  <1>3. \E k \in 1..4 : Holds(Witness, given.sig, alt, q, next + k, pending - k)
    <2>1. Peeled(1) \/ \E k \in 1 .. pending - 1, s \in 1..8 : Peeled(IF s <= 5 THEN k + 1 ELSE k)
      BY DEF Taking
    <2>2. \E k \in 1..4 : Peeled(k)
      <3>1. CASE Peeled(1)
        BY <3>1
      <3>2. ASSUME NEW k \in 1 .. pending - 1, NEW s \in 1..8, Peeled(IF s <= 5 THEN k + 1 ELSE k)
            PROVE  \E j \in 1..4 : Peeled(j)
        <4>1. k \in 1..4 /\ k + 1 \in 1..4
          BY <1>1
        <4> QED
          BY <3>2, <4>1
      <3> QED
        BY <2>1, <3>1, <3>2
    <2> QED
      BY <2>2 DEF Peeled
  <1> HIDE DEF P, q
  <1>4. IsSequence(alt) /\ Len(alt) <= q + 3
    BY <1>1, <1>2, <1>3 DEF Holds
  <1>5. Len(main) \in Nat /\ peak \in Nat /\ Len(alt) \in Nat
    BY <1>1, <1>4, SequenceLen DEF FrameIs
  <1>6. Len(main) + Len(alt) <= P + 3 + peak
    BY <1>1, <1>2, <1>4, <1>5
  <1> QED
    BY <1>1, <1>4, <1>5, <1>6 DEF Stacks, Bound, P

\* Wherever the script is, but in a branch not taken.
LEMMA Room ==
    (given \in ToSet(Cases) /\ IsSlh /\ WitnessModes) => (failed \/ skip \/ Stacks)
  <1> SUFFICES ASSUME given \in ToSet(Cases), IsSlh, WitnessModes, ~failed, ~skip
               PROVE  Stacks
    OBVIOUS
  <1>1. FrameIs
    BY DEF WitnessModes, Broken
  <1>2. CASE Reading
    BY <1>1, <1>2, ReadingFits DEF Reading
  <1>3. CASE Branched
    <2>1. PICK n : Len(main) = Len(frame) + (IF skip THEN n ELSE 0)
      BY <1>3 DEF Branched
    <2>2. Len(frame) \in Nat
      BY <1>1, SequenceLen DEF FrameIs
    <2>3. Len(main) = Len(frame)
      BY <2>1, <2>2
    <2> QED
      BY <1>1, <1>3, <2>3, ReadingFits DEF Branched
  <1> QED
    BY <1>1, <1>2, <1>3, DigestingFits, OpeningFits, TakingFits DEF WitnessModes, Broken

\* An opcode that refuses, or is not run, or tests, puts nothing on the stacks.
LEMMA NothingPut ==
    ASSUME Executes \/ OpIf \/ OpEndIf \/ MachineStays, Stacks, failed' \/ skip', ~failed
    PROVE  /\ IsSequence(main') /\ Len(main') <= Len(main) /\ alt' = alt
  <1>0. IsSequence(main) /\ Len(main) \in Nat
    BY SequenceLen DEF Stacks
  <1>1. CASE Executes
    <2>1. PICK accepts, stack, other : Execute(accepts, stack, other)
      BY <1>1 DEF Executes
    <2>2. ~(~skip /\ accepts)
      BY <2>1 DEF Execute
    <2>3. main' = main /\ alt' = alt
      BY <2>1, <2>2, Zenon DEF Execute
    <2> QED
      BY <1>0, <2>3
  <1>2. CASE OpIf
    <2>1. alt' = alt /\ (main' = main \/ (Depth >= 1 /\ main' = Below(1)))
      BY <1>2 DEF OpIf
    <2>2. Depth = Len(main)
      BY DEF Depth
    <2>3. Depth >= 1 => IsSequence(Below(1)) /\ Len(Below(1)) = Depth - 1
      BY <1>0, <2>2, BelowIs
    <2> QED
      BY <1>0, <2>1, <2>2, <2>3
  <1>3. CASE OpEndIf \/ MachineStays
    <2>1. main' = main /\ alt' = alt
      BY <1>3 DEF OpEndIf, MachineStays
    <2> QED
      BY <1>0, <2>1
  <1> QED
    BY <1>1, <1>2, <1>3

LEMMA HighIs ==
    ASSUME Executes \/ OpIf \/ OpEndIf \/ MachineStays
    PROVE  high' = high \/ high' = Max({high, Len(main') + Len(alt')})
  <1>1. CASE Executes
    <2>1. PICK accepts, stack, other : Execute(accepts, stack, other)
      BY <1>1 DEF Executes
    <2> QED
      BY <2>1, Zenon DEF Execute
  <1> QED
    BY <1>1 DEF OpIf, OpEndIf, MachineStays

-----------------------------------------------------------------------------
(* Which call is next. *)

LEMMA QueueingCall ==
    ASSUME given \in ToSet(Cases), Queueing
    PROVE  todo # <<>> /\ Current.op = "queue"
  <1>1. PICK k \in 0 .. Len(Witness) - 1 : todo = Moves(Len(Witness) - k) \o (HeaderCode \o AfterHeader)
    BY DEF Queueing
  <1>2. Len(Witness) \in Nat /\ IsSequence(HeaderCode) /\ IsSequence(AfterHeader)
    BY WitnessIs, HeaderIs, WhatFollows
  <1> DEFINE n == Len(Witness) - k
             r == HeaderCode \o AfterHeader
  <1>3. n \in Nat \ {0} /\ IsSequence(r)
    BY <1>2, SequenceConcat
  <1> HIDE DEF n, r
  <1>4. FirstThen(Moves(n) \o r, [op |-> "queue"], Moves(n - 1) \o r)
    BY <1>3, NextMove
  <1>5. todo # <<>> /\ Head(todo) = [op |-> "queue"]
    BY <1>1, <1>4, Zenon DEF FirstThen, n, r
  <1> QED
    BY <1>5 DEF Current

\* Every field is written opcode by opcode, and the digest is what they led to.
LEMMA DigestingCall ==
    ASSUME given \in ToSet(Cases), Digesting
    PROVE  /\ todo # <<>>
           /\ \/ Current.op = "write"
              \/ AtVerify /\ Current.op = IF IsSlh THEN "message" ELSE "lms_verify"
  <1>1. CASE \E k \in 1..15 : AtHeader(k)
    <2> PICK k \in 1..15 : AtHeader(k)
      BY <1>1
    <2>1. IsSequence(HeaderCode) /\ Len(HeaderCode) = 15 /\ IsSequence(AfterHeader)
      BY HeaderIs, WhatFollows
    <2>2. /\ Left(HeaderCode, k, AfterHeader) # <<>>
          /\ FirstThen(Left(HeaderCode, k, AfterHeader), HeaderCode[k], Left(HeaderCode, k + 1, AfterHeader))
      BY <2>1, LeftNext
    <2>3. todo # <<>> /\ Head(todo) = HeaderCode[k]
      BY <2>2, Zenon DEF FirstThen, AtHeader
    <2>4. HeaderCode[k].op = "write"
      BY HeaderCodes
    <2> QED
      BY <2>3, <2>4 DEF Current
  <1>2. CASE \E o \in 1..2, k \in 1..13 : AtOutput(o, k)
    <2> PICK o \in 1..2, k \in 1..13 : AtOutput(o, k)
      BY <1>2
    <2> DEFINE code == OutputCode(o)
               after == AfterOutput(o)
    <2>1. IsSequence(code) /\ Len(code) = 13 /\ IsSequence(after)
      <3>1. o = 1 \/ o = 2
        OBVIOUS
      <3> QED
        BY <3>1, OutputIs, WhatFollows
    <2>2. code[k].op = "write"
      BY OutputCodes
    <2>3. todo = Left(code, k, after)
      BY DEF AtOutput
    <2> HIDE DEF code, after
    <2>4. /\ Left(code, k, after) # <<>>
          /\ FirstThen(Left(code, k, after), code[k], Left(code, k + 1, after))
      BY <2>1, LeftNext
    <2>5. todo # <<>> /\ Head(todo) = code[k]
      BY <2>3, <2>4, Zenon DEF FirstThen
    <2> QED
      BY <2>2, <2>5 DEF Current
  <1>3. CASE AtDigest
    <2> DEFINE c == Writing("sha256")
    <2>1. todo = <<c>> \o Verify /\ IsSequence(Verify)
      BY <1>3, WhatFollows, VerifyIs DEF AtDigest
    <2>2. c.op = "write"
      BY DEF Writing, Writes
    <2> HIDE DEF c
    <2>3. <<c>> \o Verify # <<>> /\ Head(<<c>> \o Verify) = c
      BY <2>1, CallFirst
    <2> QED
      BY <2>1, <2>2, <2>3 DEF Current
  <1>4. CASE AtVerify
    <2>1. todo = Verify
      BY <1>4 DEF AtVerify
    <2>2. CASE IsSlh
      <3>1. todo # <<>> /\ Current = [op |-> "message"]
        BY <2>1, <2>2, VerifyIs DEF Current
      <3>2. Current.op = "message"
        BY <3>1
      <3> QED
        BY <1>4, <2>2, <3>1, <3>2
    <2>3. CASE ~IsSlh
      <3>1. todo # <<>> /\ Current = [op |-> "lms_verify", i |-> 0]
        BY <2>1, <2>3, VerifyIs DEF Current
      <3>2. Current.op = "lms_verify"
        BY <3>1
      <3> QED
        BY <1>4, <2>3, <3>1, <3>2
    <2> QED
      BY <2>2, <2>3
  <1> QED
    BY <1>1, <1>2, <1>3, <1>4 DEF Digesting

LEMMA BranchedCall ==
    ASSUME Branched
    PROVE  todo # <<>> /\ Current.op \in Branchable \cup {"endif"}
  <1>1. PICK n : Closes(todo, n)
    BY DEF Branched
  <1> QED
    BY <1>1, ClosesStep DEF Current

LEMMA OpeningCall ==
    ASSUME given \in ToSet(Cases), IsSlh, Opening
    PROVE  todo # <<>> /\ Current.op = "takeblob"
  <1> PICK after : Ready(after) /\ todo = <<[op |-> "takeblob"]>> \o Rest(pending, after)
    BY DEF Opening
  <1>1. WellFormed(given.p)
    BY GivenTypes
  <1>2. /\ next \in Nat /\ next < SigElements(given.p) /\ next % 4 = 0
        /\ pending = BlobPlan(given.p)[Locate(next)]
    BY DEF Opening
  <1>3. pending \in 1..4
    BY <1>1, <1>2, NextBlob
  <1>4. IsSequence(Rest(pending, after))
    BY <1>3, ReadyIs, RestIs
  <1>5. todo # <<>> /\ Current = [op |-> "takeblob"]
    BY <1>4, CallFirst DEF Current
  <1> QED
    BY <1>5

LEMMA TakingCall ==
    ASSUME Taking
    PROVE  todo # <<>> /\ Current.op \in {"dup", "num", "calc", "toalt"}
  <1>1. PICK b, after :
          /\ IsSequence(b) /\ Ready(after)
          /\ \/ PieceShape(todo, main, b, after, given.sig, next, 1) /\ Peeled(1)
             \/ \E k \in 1 .. pending - 1, s \in 1..8 :
                  /\ CutShape(todo, main, b, after, given.sig, next, k, s)
                  /\ Peeled(IF s <= 5 THEN k + 1 ELSE k)
    BY DEF Taking
  <1>2. IsSequence(after)
    BY <1>1, ReadyIs
  <1>3. CASE PieceShape(todo, main, b, after, given.sig, next, 1)
    <2>1. todo = <<[op |-> "toalt"]>> \o after
      BY <1>2, <1>3, RestIs, Zenon DEF PieceShape
    <2>2. todo # <<>> /\ Current = [op |-> "toalt"]
      BY <1>2, <2>1, CallFirst DEF Current
    <2> QED
      BY <2>2
  <1>4. CASE \E k \in 1 .. pending - 1, s \in 1..8 : CutShape(todo, main, b, after, given.sig, next, k, s)
    <2>1. PICK k \in 1 .. pending - 1, s \in 1..8 : CutShape(todo, main, b, after, given.sig, next, k, s)
      BY <1>4
    <2>2. k \in 1..3
      <3>1. pending \in 1..4
        BY DEF Taking, Cutting
      <3> QED
        BY <3>1
    <2> DEFINE rest == Rest(k, after)
    <2>3. IsSequence(rest)
      <3>1. k \in 1..4
        BY <2>2
      <3> QED
        BY <1>2, <3>1, RestIs
    <2>4. todo = Left(SliceCode(k), s, rest)
      BY <2>1, Zenon DEF CutShape
    <2> HIDE DEF rest
    <2>5. IsSequence(SliceCode(k)) /\ Len(SliceCode(k)) = 8
      BY SliceCodeIs
    <2>6. s \in 1..Len(SliceCode(k))
      BY <2>5
    <2>7. /\ Left(SliceCode(k), s, rest) # <<>>
          /\ FirstThen(Left(SliceCode(k), s, rest), SliceCode(k)[s], Left(SliceCode(k), s + 1, rest))
      BY <2>3, <2>5, <2>6, LeftNext
    <2>8. todo # <<>> /\ Current = SliceCode(k)[s]
      BY <2>4, <2>7, Zenon DEF FirstThen, Current
    <2>9. s = 1 \/ s = 4 \/ s = 5 \/ s = 8 \/ s \in {2, 3, 6, 7}
      OBVIOUS
    <2> QED
      BY <2>2, <2>8, <2>9, SliceCalls
  <1> QED
    BY <1>1, <1>3, <1>4
-----------------------------------------------------------------------------
(* The invariant. *)

\* The LMS script is given its digest and then makes the calls of its own
\* emitter; the SLH-DSA one keeps its witness in order and its stacks low.
LmsModes == Stopped \/ Digesting \/ Verifying
ScriptInv == given \in ToSet(Cases) /\ (IF IsSlh THEN WitnessModes /\ Fits ELSE LmsModes)

LEMMA ScriptInvInit ==
    ASSUME Init
    PROVE  ScriptInv
  <1>1. given \in ToSet(Cases) /\ (IF IsSlh THEN Queueing ELSE Digesting)
    BY PrologueFirst
  <1>2. CASE IsSlh
    <2>1. WitnessModes
      BY <1>1, <1>2, FreshFrame DEF WitnessModes
    <2>2. Stacks
      BY <1>1, <1>2, DigestingFits
    <2>3. high = Len(main)
      BY DEF Init
    <2>4. Len(main) \in Nat /\ Len(alt) \in Nat /\ Len(main) + Len(alt) <= Bound
      BY <2>2, SequenceLen DEF Stacks
    <2>5. Bound \in Int
      <3>1. Len(BlobPlan(given.p)) \in Nat
        BY <1>1, <1>2, WitnessIs
      <3> QED
        BY <2>2, <3>1 DEF Bound, Stacks
    <2>6. high \in Nat /\ high <= Bound
      BY <2>3, <2>4, <2>5
    <2> QED
      BY <1>1, <1>2, <2>1, <2>2, <2>6 DEF ScriptInv, Fits
  <1>3. CASE ~IsSlh
    BY <1>1, <1>3 DEF ScriptInv, LmsModes
  <1> QED
    BY <1>2, <1>3

LEMMA StacksStill ==
    ASSUME given' = given, main' = main, alt' = alt, peak' = peak, high' = high, Fits
    PROVE  Fits'
  <1>1. Bound' = Bound
    BY DEF Bound
  <1> QED
    BY <1>1 DEF Fits, Stacks

LEMMA FitsStep ==
    ASSUME given \in ToSet(Cases), IsSlh, WitnessModes, Fits, Next
    PROVE  Fits'
  <1>1. CASE failed \/ todo = <<>>
    <2>1. UNCHANGED vars
      BY <1>1, Halted
    <2>2. given' = given /\ main' = main /\ alt' = alt /\ peak' = peak /\ high' = high
      BY <2>1 DEF vars, emitter, machine
    <2> QED
      BY <2>2, StacksStill
  <1>2. CASE ~failed /\ todo # <<>>
    <2>1. FrameIs
      BY <1>2 DEF WitnessModes, Broken
    <2>2. peak \in Nat /\ peak' \in Nat /\ peak' >= peak /\ given' = given
      BY <2>1, PeakKept, GivenStays DEF FrameIs
    <2>3. Len(BlobPlan(given.p)) \in Nat
      BY WitnessIs
    <2>4. Bound \in Int /\ Bound' \in Int /\ Bound' >= Bound
      <3>1. Bound' = Len(BlobPlan(given.p)) + 3 + peak'
        BY <2>2 DEF Bound
      <3> QED
        BY <2>2, <2>3, <3>1 DEF Bound
    <2>5. Executes \/ OpIf \/ OpEndIf \/ MachineStays
      BY MachineMoves
    <2>6. Stacks'
      <3>1. CASE failed' \/ skip'
        <4>1. IsSequence(main') /\ Len(main') <= Len(main) /\ alt' = alt
          BY <1>2, <2>5, <3>1, NothingPut DEF Fits
        <4>2. IsSequence(alt) /\ Len(main) + Len(alt) <= Bound
          BY DEF Fits, Stacks
        <4>3. Len(main) \in Nat /\ Len(main') \in Nat /\ Len(alt) \in Nat
          BY <4>1, SequenceLen DEF Fits, Stacks
        <4>4. Len(main') + Len(alt') <= Bound'
          BY <2>4, <4>1, <4>2, <4>3
        <4> QED
          BY <2>2, <4>1, <4>2, <4>4 DEF Stacks
      <3>2. CASE ~failed' /\ ~skip'
        <4>1. (given \in ToSet(Cases) /\ IsSlh /\ WitnessModes)'
          BY <2>2, ModesStep, Kept
        <4>2. ((given \in ToSet(Cases) /\ IsSlh /\ WitnessModes) => (failed \/ skip \/ Stacks))'
          BY Room, PTL
        <4> QED
          BY <3>2, <4>1, <4>2
      <3> QED
        BY <3>1, <3>2
    <2>7. IsSequence(main') /\ IsSequence(alt') /\ Len(main') + Len(alt') <= Bound'
      BY <2>6 DEF Stacks
    <2>8. Len(main') \in Nat /\ Len(alt') \in Nat
      BY <2>7, SequenceLen
    <2>9. high \in Nat /\ high <= Bound
      BY DEF Fits
    <2> DEFINE n == Len(main') + Len(alt')
    <2>10. n \in Nat /\ n <= Bound'
      BY <2>7, <2>8
    <2>11. high' = high \/ high' = Max({high, n})
      BY <2>5, HighIs
    <2> HIDE DEF n
    <2>12. Max({high, n}) = IF high >= n THEN high ELSE n
      BY <2>9, <2>10, GreaterOf
    <2>13. high' = high \/ high' = n
      BY <2>11, <2>12
    <2>14. high' \in Nat /\ high' <= Bound'
      BY <2>4, <2>9, <2>10, <2>13
    <2> QED
      BY <2>6, <2>14 DEF Fits
  <1> QED
    BY <1>1, <1>2

LEMMA LmsModesStep ==
    ASSUME given \in ToSet(Cases), ~IsSlh, LmsModes, Next
    PROVE  LmsModes'
  <1>1. CASE Stopped
    <2>1. UNCHANGED vars
      BY <1>1, Halted DEF Stopped
    <2>2. failed' = failed /\ todo' = todo
      BY <2>1 DEF vars, emitter, machine
    <2> QED
      BY <1>1, <2>2 DEF Stopped, LmsModes
  <1>2. CASE Digesting
    <2>0. Fresh /\ alt = Queue
      BY <1>2 DEF Digesting
    <2>1. CASE \E k \in 1..15 : AtHeader(k)
      BY <2>0, <2>1, HeaderStep DEF LmsModes
    <2>2. CASE \E o \in 1..2, k \in 1..13 : AtOutput(o, k)
      BY <2>0, <2>2, OutputStep DEF LmsModes
    <2>3. CASE AtDigest
      BY <2>0, <2>3, DigestStep DEF LmsModes
    <2>4. CASE AtVerify
      BY <2>0, <2>4, VerifyStart DEF LmsModes
    <2> QED
      BY <1>2, <2>1, <2>2, <2>3, <2>4 DEF Digesting
  <1>3. CASE Verifying
    BY <1>3, VerifyingStep DEF LmsModes
  <1> QED
    BY <1>1, <1>2, <1>3 DEF LmsModes

LEMMA ScriptInvStep ==
    ASSUME ScriptInv, [Next]_vars
    PROVE  ScriptInv'
  <1>0. given \in ToSet(Cases)
    BY DEF ScriptInv
  <1>1. CASE Next
    <2>1. given' = given /\ IsSlh' = IsSlh
      BY <1>1, GivenStays, Kept
    <2>2. CASE IsSlh
      <3>1. WitnessModes /\ Fits
        BY <2>2 DEF ScriptInv
      <3>2. WitnessModes' /\ Fits'
        BY <1>0, <1>1, <2>2, <3>1, ModesStep, FitsStep
      <3> QED
        BY <1>0, <2>1, <2>2, <3>2 DEF ScriptInv
    <2>3. CASE ~IsSlh
      <3>1. LmsModes
        BY <2>3 DEF ScriptInv
      <3>2. LmsModes'
        BY <1>0, <1>1, <2>3, <3>1, LmsModesStep
      <3> QED
        BY <1>0, <2>1, <2>3, <3>2 DEF ScriptInv
    <2> QED
      BY <2>2, <2>3
  <1>2. CASE UNCHANGED vars
    <2>1. /\ given' = given /\ todo' = todo /\ peak' = peak
          /\ main' = main /\ alt' = alt /\ failed' = failed /\ high' = high
      BY <1>2 DEF vars, emitter, machine
    <2>2. IsSlh' = IsSlh
      BY <2>1, Kept
    <2>3. CASE IsSlh
      <3>1. WitnessModes /\ Fits
        BY <2>3 DEF ScriptInv
      <3>2. WitnessModes' /\ Fits'
        BY <1>2, <2>1, <3>1, ModesStill, StacksStill
      <3> QED
        BY <1>0, <2>1, <2>2, <2>3, <3>2 DEF ScriptInv
    <2>4. CASE ~IsSlh
      <3>1. LmsModes
        BY <2>4 DEF ScriptInv
      <3>2. LmsModes'
        <4>1. CASE Digesting
          <5>1. Queueing' \/ Digesting'
            BY <1>2, <4>1, PrologueStill
          <5>2. ~Queueing'
            BY <2>2, <2>4 DEF Queueing
          <5> QED
            BY <5>1, <5>2 DEF LmsModes
        <4>2. CASE Stopped
          BY <2>1, <4>2 DEF Stopped, LmsModes
        <4>3. CASE Verifying
          <5>1. Calls(todo', LmsOps)
            BY <2>1, <4>3 DEF Verifying
          <5>2. Verifying'
            BY <2>2, <2>4, <5>1 DEF Verifying
          <5> QED
            BY <5>2 DEF LmsModes
        <4> QED
          BY <3>1, <4>1, <4>2, <4>3 DEF LmsModes
      <3> QED
        BY <1>0, <2>1, <2>2, <2>4, <3>2 DEF ScriptInv
    <2> QED
      BY <2>3, <2>4
  <1> QED
    BY <1>1, <1>2
-----------------------------------------------------------------------------
(* The digest. *)

LEMMA WhereTheDigestIs ==
    ASSUME ScriptInv, Emits("message") \/ Emits("lms_verify")
    PROVE  AtVerify
  <1>0. given \in ToSet(Cases)
    BY DEF ScriptInv
  <1>1. ~failed /\ todo # <<>> /\ Current.op \in {"message", "lms_verify"}
    BY DEF Emits, Emitted
  <1>2. CASE Queueing
    BY <1>0, <1>1, <1>2, QueueingCall
  <1>3. CASE Digesting
    BY <1>0, <1>1, <1>3, DigestingCall
  <1>4. CASE IsSlh
    <2>1. Queueing \/ Digesting \/ Reading \/ Branched \/ Opening \/ Taking
      BY <1>1, <1>4 DEF ScriptInv, WitnessModes, Broken
    <2>2. CASE Reading
      <3>1. Current.op \in Simple \cup SlhPhases \cup {"if"}
        BY <1>1, <2>2, ReadyStep DEF Reading, Current
      <3> QED
        BY <1>1, <3>1 DEF Simple, Branchable, SlhPhases
    <2>3. CASE Branched
      BY <1>1, <2>3, BranchedCall DEF Branchable
    <2>4. CASE Opening
      BY <1>0, <1>1, <1>4, <2>4, OpeningCall
    <2>5. CASE Taking
      BY <1>1, <2>5, TakingCall
    <2> QED
      BY <1>2, <1>3, <2>1, <2>2, <2>3, <2>4, <2>5
  <1>5. CASE ~IsSlh
    <2>1. Digesting \/ Verifying
      BY <1>1, <1>5 DEF ScriptInv, LmsModes, Stopped
    <2>2. CASE Verifying
      <3>1. Current.op \in LmsOps
        BY <1>1, <2>2, CallsTail DEF Verifying, Current
      <3> QED
        BY <1>1, <3>1 DEF LmsOps
    <2> QED
      BY <1>3, <2>1, <2>2
  <1> QED
    BY <1>4, <1>5

LEMMA DigestFromInv ==
    ASSUME ScriptInv
    PROVE  DigestIsTheWallets
  <1> SUFFICES ASSUME Emits("message") \/ Emits("lms_verify"),
                      Len(given.tx.outputs) = CANONICAL_OUTPUT_COUNT
               PROVE  Signable(given.tx) /\ Top = BindingDigest(given.tx)
    BY DEF DigestIsTheWallets
  <1>1. given \in ToSet(Cases) /\ Len(Tx.outputs) = 2 /\ Tx = given.tx
    BY DEF ScriptInv, CANONICAL_OUTPUT_COUNT, Tx
  <1>2. /\ main = Below0 \o <<Sha256(Gathered)>>
        /\ HeaderFits(15) /\ OutputFits(1) /\ OutputFits(2)
    BY WhereTheDigestIs DEF AtVerify
  <1>3. Top = BindingDigest(given.tx)
    <2> DEFINE x == Sha256(Gathered)
    <2>1. x = BindingDigest(given.tx)
      BY <1>1, GatheredIs DEF BindingDigest
    <2>2. IsSequence(Below0)
      BY <1>1, Below0Is
    <2> HIDE DEF x
    <2>3. Len(Below0 \o <<x>>) = Len(Below0) + 1 /\ (Below0 \o <<x>>)[Len(Below0) + 1] = x
      BY <2>2, Stacked1
    <2>4. main = Below0 \o <<x>>
      BY <1>2 DEF x
    <2> QED
      BY <2>1, <2>3, <2>4 DEF Top, Depth
  <1>4. Signable(given.tx)
    <2>1. Tx \in SpendView /\ DOMAIN Tx.outputs = 1..2
      BY <1>1, GivenTypes, TxFields
    <2>2. Tx.version <= MAX_TX_VERSION /\ Len(Tx.outputs) <= MAX_OUTPUT_COUNT
      BY <1>2 DEF HeaderFits
    <2>3. ASSUME NEW o \in 1..2
          PROVE  Len(SpkWireBytes(Tx.outputs[o])) <= MAX_SPK_LEN /\ Len(SpkWireBytes(Tx.outputs[o])) \in Int
      <3>1. Spk(o) = SpkWireBytes(Tx.outputs[o]) /\ Len(Spk(o)) \in Word
        BY <1>1, <2>1, WireForm
      <3>2. o = 1 \/ o = 2
        OBVIOUS
      <3>3. Len(Spk(o)) <= MAX_SPK_LEN
        BY <1>2, <3>2 DEF OutputFits
      <3>4. Len(Spk(o)) \in Int
        BY <3>1, SMT DEF Word
      <3> QED
        BY <3>1, <3>3, <3>4
    <2>4. Tx.version \in Int
      <3>1. Tx.version \in Word
        BY <2>1, TxFields
      <3> QED
        BY <3>1, SMT DEF Word
    <2>5. ~Refused(Tx)
      <3>1. Len(Tx.outputs) \in 1..MAX_OUTPUT_COUNT
        BY <1>1 DEF MAX_OUTPUT_COUNT
      <3>2. ~(Tx.version > MAX_TX_VERSION)
        BY <2>2, <2>4 DEF MAX_TX_VERSION
      <3>3. \A o \in 1..2 : ~(Len(SpkWireBytes(Tx.outputs[o])) > MAX_SPK_LEN)
        BY <2>3 DEF MAX_SPK_LEN
      <3> QED
        BY <2>1, <3>1, <3>2, <3>3, Zenon DEF Refused
    <2> QED
      BY <1>1, <2>5 DEF Signable, CANONICAL_OUTPUT_COUNT
  <1> QED
    BY <1>3, <1>4

\* The bytes a script digests are the bytes the wallet signed, whatever the
\* transaction: any version, outpoint, amounts and output scripts the fields of
\* a transaction hold.  A field the wallet refuses stops the script before the
\* digest is made.  (binding_preimage, emit_binding_digest)
THEOREM ScriptDigestsWhatTheWalletSigned == Spec => []DigestIsTheWallets
  <1>1. Init => ScriptInv
    BY ScriptInvInit
  <1>2. ScriptInv /\ [Next]_vars => ScriptInv'
    BY ScriptInvStep
  <1>3. ScriptInv => DigestIsTheWallets
    BY DigestFromInv
  <1> QED
    BY <1>1, <1>2, <1>3, PTL DEF Spec
-----------------------------------------------------------------------------
(* The order of the elements, and the height of the stacks. *)

LEMMA WhereElementsAre ==
    ASSUME ScriptInv, IsSlh, AtFetch \/ Emitted
    PROVE  WitnessAt
  <1>0. given \in ToSet(Cases) /\ WitnessModes
    BY DEF ScriptInv
  <1>1. CASE Broken
    <2>1. todo = <<>>
      BY <1>1 DEF Broken, AtFetch, Emits, Emitted
    <2> QED
      BY <1>1, <2>1 DEF Broken
  <1>2. CASE Reading \/ Branched
    BY <1>2 DEF Reading, Branched
  <1>3. todo = <<>> \/ Current.op = "fetch"
    BY DEF AtFetch, Emits, Emitted
  <1>4. ~Queueing
    BY <1>0, <1>3, QueueingCall
  <1>5. ~Digesting
    BY <1>0, <1>3, DigestingCall
  <1>6. ~Opening
    BY <1>0, <1>3, OpeningCall
  <1>7. ~Taking
    BY <1>3, TakingCall
  <1> QED
    BY <1>0, <1>1, <1>2, <1>4, <1>5, <1>6, <1>7 DEF WitnessModes

LEMMA OrderFromInv ==
    ASSUME ScriptInv
    PROVE  WitnessInOrder
  <1> SUFFICES ASSUME IsSlh, AtFetch \/ Emitted
               PROVE  LET queued == Len(alt) - pending
                      IN  /\ queued = Len(BlobPlan(given.p)) - CeilDiv(next + pending, BLOB_ELEMS)
                          /\ \A b \in 1..queued : alt[b] = Witness[Len(Witness) + 1 - b]
                          /\ \A j \in 1..pending : alt[Len(alt) + 1 - j] = given.sig[next + j]
    BY DEF WitnessInOrder
  <1> DEFINE q == Waiting(next + pending)
  <1>1. /\ given \in ToSet(Cases)
        /\ pending \in 0..4 /\ next \in Nat /\ next + pending <= SigElements(given.p)
        /\ Holds(Witness, given.sig, alt, q, next, pending)
    BY WhereElementsAre DEF ScriptInv, WitnessAt
  <1>2. q \in Nat
    <2>1. next + pending \in Nat
      BY <1>1
    <2> QED
      BY <1>1, <2>1, WaitingIs
  <1>3. q = Len(BlobPlan(given.p)) - CeilDiv(next + pending, BLOB_ELEMS)
    BY DEF Waiting, BLOB_ELEMS
  <1> HIDE DEF q
  <1>4. Len(alt) = q + pending
    BY <1>1 DEF Holds
  <1>5. Len(alt) - pending = q
    BY <1>1, <1>2, <1>4
  <1>6. \A b \in 1..q : alt[b] = Witness[Len(Witness) + 1 - b]
    BY <1>1, Zenon DEF Holds
  <1>7. \A j \in 1..pending : alt[Len(alt) + 1 - j] = given.sig[next + j]
    BY <1>1, <1>4, Zenon DEF Holds
  <1> QED
    BY <1>3, <1>5, <1>6, <1>7

LEMMA EstimateFromInv ==
    ASSUME ScriptInv
    PROVE  StackWithinEstimate
  <1> SUFFICES ASSUME IsSlh
               PROVE  high <= PeakStackEstimate(BlobPlan(given.p), peak)
    BY DEF StackWithinEstimate
  <1>1. given \in ToSet(Cases) /\ high <= Bound /\ high \in Nat /\ peak \in Nat
    BY DEF ScriptInv, Fits, Stacks
  <1>2. PeakStackEstimate(BlobPlan(given.p), peak) = Len(BlobPlan(given.p)) - 1 + 4 + peak
    BY <1>1, GivenTypes, EstimateIs
  <1>3. Len(BlobPlan(given.p)) \in Nat
    BY <1>1, WitnessIs
  <1>4. Bound = Len(BlobPlan(given.p)) - 1 + 4 + peak
    BY <1>1, <1>3 DEF Bound
  <1> QED
    BY <1>1, <1>2, <1>4

\* For every well-formed parameter set, the elements reach the emitter's fetches
\* in the order of the signature: whatever has been queued, cut up, stashed and
\* taken back, the one fetched next is on top, the rest of its blob lies under
\* it, and under that the blobs not yet opened.  So it is after the last call.
\* (prologue, slice_blob, fetch)
THEOREM ElementsComeInOrder == Spec => []WitnessInOrder
  <1>1. Init => ScriptInv
    BY ScriptInvInit
  <1>2. ScriptInv /\ [Next]_vars => ScriptInv'
    BY ScriptInvStep
  <1>3. ScriptInv => WitnessInOrder
    BY OrderFromInv
  <1> QED
    BY <1>1, <1>2, <1>3, PTL DEF Spec

\* For every well-formed parameter set, the two stacks together have never held
\* more than the number of blobs, the elements of one cut up, and the largest
\* frame so far allow, in branches taken and not taken: what for_params checks
\* the engine's limit against is an upper bound.
\* (peak_stack_estimate, note_peak)
THEOREM ScriptStaysWithinEstimate == Spec => []StackWithinEstimate
  <1>1. Init => ScriptInv
    BY ScriptInvInit
  <1>2. ScriptInv /\ [Next]_vars => ScriptInv'
    BY ScriptInvStep
  <1>3. ScriptInv => StackWithinEstimate
    BY EstimateFromInv
  <1> QED
    BY <1>1, <1>2, <1>3, PTL DEF Spec
-----------------------------------------------------------------------------
(* The frame is as high as the stack. *)

\* Outside of the branches not taken, every slot of the frame is an item.
\* (Frame, every primitive wrapper of Emitter)
FrameIsAsHigh == IsSlh /\ frame # <<>> /\ ~skip /\ ~failed => Len(frame) = Len(main)

LEMMA HeightFromInv ==
    ASSUME ScriptInv
    PROVE  FrameIsAsHigh
  <1> SUFFICES ASSUME IsSlh, frame # <<>>, ~skip, ~failed
               PROVE  Len(frame) = Len(main)
    BY DEF FrameIsAsHigh
  <1>1. Queueing \/ Digesting \/ Reading \/ Branched \/ Opening \/ Taking
    BY DEF ScriptInv, WitnessModes, Broken
  <1>2. CASE Queueing \/ Digesting
    BY <1>2 DEF Queueing, Digesting, Fresh
  <1>3. CASE Reading
    BY <1>3 DEF Reading
  <1>4. CASE Branched
    <2>1. PICK n : Closes(todo, n) /\ Len(main) = Len(frame) + (IF skip THEN n ELSE 0)
      BY <1>4 DEF Branched
    <2>2. IsSequence(frame)
      BY DEF ScriptInv, WitnessModes, FrameIs, Broken
    <2>3. Len(frame) \in Nat
      BY <2>2, SequenceLen
    <2> QED
      BY <2>1, <2>3
  <1>5. CASE Opening
    BY <1>5 DEF Opening
  <1>6. CASE Taking
    BY <1>6 DEF Taking, Cutting
  <1> QED
    BY <1>1, <1>2, <1>3, <1>4, <1>5, <1>6

\* For every well-formed parameter set, every key, signature and transaction,
\* the emitter's frame has a slot for every item of the stack and no other,
\* whenever the calls made have been run: after each primitive, while a blob is
\* cut up, and inside and after the branches that are taken.
\* (Frame, every primitive wrapper of Emitter)
THEOREM FrameIsAsHighAsStack == Spec => []FrameIsAsHigh
  <1>1. Init => ScriptInv
    BY ScriptInvInit
  <1>2. ScriptInv /\ [Next]_vars => ScriptInv'
    BY ScriptInvStep
  <1>3. ScriptInv => FrameIsAsHigh
    BY HeightFromInv
  <1> QED
    BY <1>1, <1>2, <1>3, PTL DEF Spec
=============================================================================

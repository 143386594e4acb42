------------------------- MODULE ParallelMapProofs --------------------------
(***************************************************************************)
(* Proofs about ParallelMap, for every number of threads, elements and     *)
(* elements per chunk, and every mapped function.                          *)
(***************************************************************************)
EXTENDS ParallelMap, TLAPS

(***************************************************************************)
(* The inductive invariant.  The counter is past every claimed chunk, the  *)
(* claimed chunks lie apart, and below the counter nothing is unclaimed; a *)
(* thread ends only when the counter has passed the end.  So once all have *)
(* ended the buffers cover the result, and a merged buffer is in it.       *)
(***************************************************************************)
ClaimedBelowNext == \A t \in Thread : \A s \in Claimed(t) : s + Chunk <= next

ClaimedApart ==
    \A t, u \in Thread : \A r \in Claimed(t), s \in Claimed(u) :
        (t # u \/ r # s) => (r + Chunk <= s \/ s + Chunk <= r)

AllClaimedBelowNext ==
    \A i \in Index : i < next =>
        \E t \in Thread : \E s \in Claimed(t) : i \in Block(s)

DoneAtTheEnd == \A t \in Thread : pc[t] = "done" => Count <= next

MergedAfterJoin == merged > 0 => \A t \in Thread : pc[t] = "done"

MergedIsMapped ==
    \A t \in Thread : t <= merged =>
        \A s \in mine[t] : \A i \in Block(s) : out[i] = f[i]

IInv ==
    /\ TypeOK
    /\ ClaimedBelowNext
    /\ ClaimedApart
    /\ AllClaimedBelowNext
    /\ DoneAtTheEnd
    /\ MergedAfterJoin
    /\ MergedIsMapped

USE DEF Thread

-----------------------------------------------------------------------------
\* Claimed chunks are natural numbers, whatever thread claimed them.
LEMMA ClaimedNat ==
    ASSUME TypeOK, NEW t \in Thread
    PROVE  Claimed(t) \subseteq Nat
BY DEF TypeOK, Claimed

LEMMA InitIInv == Init => IInv
<1> SUFFICES ASSUME Init PROVE IInv
    OBVIOUS
<1>1. TypeOK
    BY CountAssumption DEF Init, TypeOK
<1>2. \A t \in Thread : Claimed(t) = {}
    BY DEF Init, Claimed
<1>3. AllClaimedBelowNext
    BY DEF Init, AllClaimedBelowNext, Index
<1>4. MergedIsMapped
    BY DEF Init, MergedIsMapped
<1>5. DoneAtTheEnd /\ MergedAfterJoin
    BY DEF Init, DoneAtTheEnd, MergedAfterJoin
<1> QED BY <1>1, <1>2, <1>3, <1>4, <1>5
        DEF IInv, ClaimedBelowNext, ClaimedApart

\* A claim adds the chunk at the counter, or ends the thread past the end.
LEMMA ClaimIInv ==
    ASSUME IInv, NEW t \in Thread, Claim(t)
    PROVE  IInv'
<1> USE DEF IInv
<1>0. Chunk \in Nat \ {0} /\ Count \in Nat /\ next \in Nat /\ next' = next + Chunk
    BY CountAssumption DEF TypeOK, Claim
<1>1. TypeOK'
    BY <1>0 DEF TypeOK, Claim
<1>2. ASSUME NEW u \in Thread
      PROVE  Claimed(u)' = IF u = t /\ next < Count
                           THEN Claimed(u) \cup {next} ELSE Claimed(u)
    BY DEF TypeOK, Claim, Claimed
<1>3. \A u \in Thread : Claimed(u) \subseteq Nat
    BY ClaimedNat
<1>4. ClaimedBelowNext'
    BY <1>0, <1>2, <1>3 DEF ClaimedBelowNext
<1>5. ClaimedApart'
  <2> SUFFICES ASSUME NEW u \in Thread, NEW v \in Thread,
                      NEW r \in Claimed(u)', NEW s \in Claimed(v)',
                      u # v \/ r # s
               PROVE  r + Chunk <= s \/ s + Chunk <= r
      BY DEF ClaimedApart
  <2>1. CASE r \in Claimed(u) /\ s \in Claimed(v)
      BY <2>1 DEF ClaimedApart
  <2>2. CASE r \notin Claimed(u) /\ s \in Claimed(v)
      BY <2>2, <1>2 DEF ClaimedBelowNext
  <2>3. CASE r \in Claimed(u) /\ s \notin Claimed(v)
      BY <2>3, <1>2 DEF ClaimedBelowNext
  <2>4. CASE r \notin Claimed(u) /\ s \notin Claimed(v)
      BY <2>4, <1>2
  <2> QED BY <2>1, <2>2, <2>3, <2>4
<1>6. AllClaimedBelowNext'
  <2> SUFFICES ASSUME NEW i \in Index, i < next'
               PROVE  \E u \in Thread : \E s \in Claimed(u)' : i \in Block(s)
      BY DEF AllClaimedBelowNext, Block
  <2>1. CASE i < next
    <3>1. PICK u \in Thread : \E s \in Claimed(u) : i \in Block(s)
        BY <2>1 DEF AllClaimedBelowNext
    <3> QED BY <3>1, <1>2
  <2>2. CASE ~(i < next)
    <3>1. next < Count /\ i \in Block(next)
        BY <2>2, <1>0 DEF Index, Block
    <3>2. next \in Claimed(t)'
        BY <3>1, <1>2
    <3> QED BY <3>1, <3>2
  <2> QED BY <2>1, <2>2
<1>7. DoneAtTheEnd'
    BY <1>0 DEF DoneAtTheEnd, Claim, TypeOK
<1>8. MergedAfterJoin'
    BY DEF MergedAfterJoin, Claim, TypeOK
<1>9. MergedIsMapped'
    BY DEF MergedIsMapped, Claim, Block
<1> QED BY <1>1, <1>4, <1>5, <1>6, <1>7, <1>8, <1>9

\* Mapping a chunk moves it from the thread's hands into its buffer.
LEMMA MapChunkIInv ==
    ASSUME IInv, NEW t \in Thread, MapChunk(t)
    PROVE  IInv'
<1> USE DEF IInv
<1>1. TypeOK'
    BY DEF TypeOK, MapChunk
<1>2. ASSUME NEW u \in Thread PROVE Claimed(u)' = Claimed(u)
    BY DEF TypeOK, MapChunk, Claimed
<1>3. ClaimedBelowNext' /\ ClaimedApart'
    BY <1>2 DEF ClaimedBelowNext, ClaimedApart, MapChunk
<1>4. AllClaimedBelowNext'
    BY <1>2 DEF AllClaimedBelowNext, MapChunk, Block
<1>5. DoneAtTheEnd'
    BY DEF DoneAtTheEnd, MapChunk, TypeOK
<1>6. merged = 0
    BY DEF MergedAfterJoin, MapChunk, TypeOK
<1>7. MergedAfterJoin' /\ MergedIsMapped'
    BY <1>6 DEF MergedAfterJoin, MergedIsMapped, MapChunk
<1> QED BY <1>1, <1>3, <1>4, <1>5, <1>7

\* A merge overwrites nothing but elements with the value they have anyway.
LEMMA MergeIInv ==
    ASSUME IInv, Merge
    PROVE  IInv'
<1> USE DEF IInv
<1>0. merged \in Nat /\ merged' = merged + 1 /\ merged' \in Thread
    BY CountAssumption DEF TypeOK, Merge
<1>1. TypeOK'
    BY <1>0, FunctionAssumption DEF TypeOK, Merge
<1>2. ClaimedBelowNext' /\ ClaimedApart'
    BY DEF ClaimedBelowNext, ClaimedApart, Claimed, Merge
<1>3. AllClaimedBelowNext' /\ DoneAtTheEnd' /\ MergedAfterJoin'
    BY DEF AllClaimedBelowNext, DoneAtTheEnd, MergedAfterJoin, Claimed, Block, Merge
<1>4. MergedIsMapped'
  <2> SUFFICES ASSUME NEW t \in Thread, t <= merged + 1, NEW s \in mine[t],
                      NEW i \in Block(s)
               PROVE  out'[i] = f[i]
      BY <1>0 DEF MergedIsMapped, Merge, Block
  <2>1. i \in Index
      BY DEF Block
  <2>2. CASE t = merged + 1
      BY <2>1, <2>2, <1>0 DEF Merge
  <2>3. CASE t # merged + 1
    <3>1. out[i] = f[i]
        BY <2>3, <1>0 DEF MergedIsMapped
    <3> QED BY <3>1, <2>1 DEF Merge
  <2> QED BY <2>2, <2>3
<1> QED BY <1>1, <1>2, <1>3, <1>4

LEMMA StutterIInv ==
    ASSUME IInv, UNCHANGED vars
    PROVE  IInv'
<1> USE DEF IInv, vars
<1>1. TypeOK'
    BY DEF TypeOK
<1>2. ClaimedBelowNext' /\ ClaimedApart'
    BY DEF ClaimedBelowNext, ClaimedApart, Claimed
<1>3. AllClaimedBelowNext' /\ DoneAtTheEnd'
    BY DEF AllClaimedBelowNext, DoneAtTheEnd, Claimed, Block
<1>4. MergedAfterJoin' /\ MergedIsMapped'
    BY DEF MergedAfterJoin, MergedIsMapped, Block
<1> QED BY <1>1, <1>2, <1>3, <1>4

LEMMA NextIInv == IInv /\ [Next]_vars => IInv'
<1> SUFFICES ASSUME IInv, [Next]_vars PROVE IInv'
    OBVIOUS
<1>1. CASE \E t \in Thread : Claim(t)
    BY <1>1, ClaimIInv
<1>2. CASE \E t \in Thread : MapChunk(t)
    BY <1>2, MapChunkIInv
<1>3. CASE Merge
    BY <1>3, MergeIInv
<1>4. CASE UNCHANGED vars
    BY <1>4, StutterIInv
<1> QED BY <1>1, <1>2, <1>3, <1>4 DEF Next, Returned

THEOREM Invariance == Spec => []IInv
BY InitIInv, NextIInv, PTL DEF Spec

-----------------------------------------------------------------------------
\* Chunks that lie apart share no element.
LEMMA ApartDisjoint == IInv => NoElementTwice
<1> SUFFICES ASSUME IInv, NEW t \in Thread, NEW u \in Thread,
                    NEW r \in Claimed(t), NEW s \in Claimed(u),
                    t # u \/ r # s
             PROVE  Block(r) \cap Block(s) = {}
    BY DEF NoElementTwice
<1>1. r \in Nat /\ s \in Nat /\ Chunk \in Nat /\ Count \in Nat
    BY ClaimedNat, CountAssumption DEF IInv
<1>2. r + Chunk <= s \/ s + Chunk <= r
    BY DEF IInv, ClaimedApart
<1> QED BY <1>1, <1>2 DEF Block, Index

\* When every buffer is merged, every element was claimed, mapped and copied.
LEMMA MergedIsSerial == IInv => SameAsSerial
<1> SUFFICES ASSUME IInv, merged = Threads PROVE out = f
    BY DEF SameAsSerial
<1> USE DEF IInv
<1>1. \A t \in Thread : pc[t] = "done" /\ Claimed(t) = mine[t]
    BY CountAssumption DEF MergedAfterJoin, Claimed
<1>2. Count <= next
    BY <1>1, CountAssumption DEF DoneAtTheEnd
<1>3. ASSUME NEW i \in Index PROVE out[i] = f[i]
  <2>1. i < next
      BY <1>2, CountAssumption DEF Index, TypeOK
  <2>2. PICK t \in Thread : \E s \in Claimed(t) : i \in Block(s)
      BY <2>1 DEF AllClaimedBelowNext
  <2>3. \E s \in mine[t] : i \in Block(s)
      BY <2>2, <1>1
  <2>4. t <= merged
      BY CountAssumption
  <2> QED BY <2>3, <2>4 DEF MergedIsMapped
<1>4. out \in [Index -> Value \cup {Zero}]
    BY DEF TypeOK
<1> QED BY <1>3, <1>4, FunctionAssumption

\* The variables of parallel_map keep their types.
THEOREM MapTypeCorrect == Spec => []TypeOK
BY Invariance, PTL DEF IInv

\* No leaf of a tree is computed by two workers, however they interleave.
THEOREM NoElementTwiceHolds == Spec => []NoElementTwice
BY Invariance, ApartDisjoint, PTL

\* The parallel map returns what the serial one returns: for any number of
\* workers, elements and elements per chunk, and any function.
THEOREM SameAsSerialHolds == Spec => []SameAsSerial
BY Invariance, MergedIsSerial, PTL

=============================================================================

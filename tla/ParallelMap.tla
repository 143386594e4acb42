---------------------------- MODULE ParallelMap -----------------------------
(***************************************************************************)
(* parallel_map of the SLH-DSA signer (slh-script/src/signer.rs): worker   *)
(* threads claim chunks of 0..Count-1 from a shared atomic counter, map    *)
(* them into buffers of their own, and the caller, once it has joined all  *)
(* of them, copies the buffers into the result.  It computes every leaf    *)
(* of an XMSS tree, so one wrong or missing element is a wrong address.    *)
(*                                                                         *)
(* The mapped function is pure, so a buffer is represented by the starts   *)
(* of the chunks in it.                                                    *)
(***************************************************************************)
EXTENDS Naturals

CONSTANTS
    Threads,  \* worker threads, available_parallelism
    Count,    \* elements to map
    Chunk,    \* elements claimed at a time
    Value,    \* what f returns
    f,        \* the mapped function
    Zero      \* the all-zero element the result is filled with

Index  == 0..(Count - 1)
Thread == 1..Threads

ASSUME CountAssumption ==
    Threads \in Nat \ {0} /\ Count \in Nat /\ Chunk \in Nat \ {0}
ASSUME FunctionAssumption == f \in [Index -> Value]

VARIABLES
    next,    \* the shared counter
    pc,      \* pc[t]: "claim", "map" or "done"
    start,   \* start[t]: the chunk thread t claimed last
    mine,    \* mine[t]: the starts of the chunks in t's buffer
    merged,  \* the threads, the first so many, whose buffers are in out
    out      \* the result

vars == <<next, pc, start, mine, merged, out>>

\* The indices of the chunk at s, clamped to Count.
Block(s) == {i \in Index : s <= i /\ i < s + Chunk}

TypeOK ==
    /\ next \in Nat
    /\ pc \in [Thread -> {"claim", "map", "done"}]
    /\ start \in [Thread -> Nat]
    /\ mine \in [Thread -> SUBSET Nat]
    /\ merged \in 0..Threads
    /\ out \in [Index -> Value \cup {Zero}]

Init ==
    /\ next = 0
    /\ pc = [t \in Thread |-> "claim"]
    /\ start = [t \in Thread |-> 0]
    /\ mine = [t \in Thread |-> {}]
    /\ merged = 0
    /\ out = [i \in Index |-> Zero]

\* Seeded fault: the counter is read and written back in two steps.
Claim_ReadThenWrite(t) ==
    \/ /\ pc[t] = "claim"
       /\ start[t] # next
       /\ start' = [start EXCEPT ![t] = next]
       /\ UNCHANGED <<next, pc, mine, merged, out>>
    \/ /\ pc[t] = "claim"
       /\ start[t] <= next
       /\ next' = start[t] + Chunk
       /\ pc' = [pc EXCEPT ![t] = IF start[t] < Count THEN "map" ELSE "done"]
       /\ UNCHANGED <<start, mine, merged, out>>

\* Seeded fault: the counter moves past one element of the next chunk.
Claim_SkipsOne(t) ==
    /\ pc[t] = "claim"
    /\ start' = [start EXCEPT ![t] = next]
    /\ next' = next + Chunk + 1
    /\ pc' = [pc EXCEPT ![t] = IF next < Count THEN "map" ELSE "done"]
    /\ UNCHANGED <<mine, merged, out>>

\* fetch_add, and the test that ends the thread.
Claim(t) ==
    /\ pc[t] = "claim"
    /\ start' = [start EXCEPT ![t] = next]
    /\ next' = next + Chunk
    /\ pc' = [pc EXCEPT ![t] = IF next < Count THEN "map" ELSE "done"]
    /\ UNCHANGED <<mine, merged, out>>

\* Seeded fault: a worker maps one chunk and ends.
MapChunk_Stuck(t) ==
    /\ pc[t] = "map"
    /\ mine' = [mine EXCEPT ![t] = @ \cup {start[t]}]
    /\ UNCHANGED <<next, pc, start, merged, out>>

\* The chunk is mapped and pushed to the thread's own buffer.
MapChunk(t) ==
    /\ pc[t] = "map"
    /\ mine' = [mine EXCEPT ![t] = @ \cup {start[t]}]
    /\ pc' = [pc EXCEPT ![t] = "claim"]
    /\ UNCHANGED <<next, start, merged, out>>

\* Seeded fault: the loop over the handles advances by two.
Merge_EveryOther ==
    /\ \A t \in Thread : pc[t] = "done"
    /\ merged < Threads
    /\ merged' = merged + 2
    /\ out' = [i \in Index |->
           IF \E s \in mine[merged + 1] : i \in Block(s) THEN f[i] ELSE out[i]]
    /\ UNCHANGED <<next, pc, start, mine>>

\* All threads are joined; the buffers are copied in the order of the handles.
Merge ==
    /\ \A t \in Thread : pc[t] = "done"
    /\ merged < Threads
    /\ merged' = merged + 1
    /\ out' = [i \in Index |->
           IF \E s \in mine[merged'] : i \in Block(s) THEN f[i] ELSE out[i]]
    /\ UNCHANGED <<next, pc, start, mine>>

\* parallel_map has returned.
Returned == merged = Threads /\ UNCHANGED vars

Next == (\E t \in Thread : Claim(t) \/ MapChunk(t)) \/ Merge \/ Returned

Spec == Init /\ [][Next]_vars

\* The operating system runs every thread, and the caller after them.
Fairness ==
    /\ \A t \in Thread : WF_vars(Claim(t)) /\ WF_vars(MapChunk(t))
    /\ WF_vars(Merge)

LiveSpec == Spec /\ Fairness

-----------------------------------------------------------------------------
(***************************************************************************)
(* Properties.                                                             *)
(***************************************************************************)

\* The chunks thread t has claimed, mapped or not.
Claimed(t) == mine[t] \cup (IF pc[t] = "map" THEN {start[t]} ELSE {})

\* No element is mapped twice: chunks claimed by different threads, and two
\* chunks of one thread, have no element in common.
NoElementTwice ==
    \A t, u \in Thread : \A r \in Claimed(t), s \in Claimed(u) :
        (t # u \/ r # s) => Block(r) \cap Block(s) = {}

\* The parallel map returns exactly what a serial one would.
SameAsSerial == merged = Threads => out = f

\* parallel_map returns.
Returns == <>(merged = Threads)

=============================================================================

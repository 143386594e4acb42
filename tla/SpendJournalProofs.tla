------------------------- MODULE SpendJournalProofs -------------------------
(***************************************************************************)
(* Proofs about SpendJournal, for any number of leaves, digests and writes *)
(* and the faults the wallet survives: one wallet process at a time, and   *)
(* in each execution either no power loss or no other fault.  Both         *)
(* conditions are needed: the runs journal_two_wallets and                 *)
(* journal_unsynced_reload break SignOnce without them.                    *)
(***************************************************************************)
EXTENDS SpendJournal, TLAPS

SingleWriter == \A p, q \in Process : p = q
PowerLossAlone == \A F \in FaultSets : "power" \in F => F = {"power"}

-----------------------------------------------------------------------------
(***************************************************************************)
(* The inductive invariant.  The first n writes of file f record that leaf *)
(* l signed d: one of them carries the record, and no later write of the   *)
(* file carries another for the leaf.                                      *)
(***************************************************************************)
RecordAt(f, n, l, d, i) ==
    /\ f[i].leaf = l
    /\ f[i].digest = d
    /\ f[i].cut \in {"line", "full", "sig"}
    /\ \A j \in (i + 1)..Len(f) : f[j].leaf = l => f[j].cut = "head"
    /\ i <= n

HasRecord(f, n, l, d) == \E i \in 1..Len(f) : RecordAt(f, n, l, d, i)

\* How many of the writes in the file no fault of this execution takes away.
Firm == IF "power" \in faults THEN synced ELSE Len(file)

\* Everything given away is recorded.
ReleasedRecorded ==
    \A r \in released : HasRecord(file, Firm, r.leaf, r.digest)

\* So is everything a process would answer from memory.
MemoryRecorded ==
    \A p \in Process, l \in Leaf :
        entries[p][l] # None =>
            HasRecord(file, Firm, l, entries[p][l].digest)

\* An open process knows every leaf that has given a signature away.
MemoryKnowsReleased ==
    \A p \in Process : \A r \in released :
        pc[p] # "closed" => entries[p][r.leaf] # None

\* A closed process remembers nothing.
ClosedForgets ==
    \A p \in Process : pc[p] = "closed" => \A l \in Leaf : entries[p][l] = None

\* A signature on its way to the file is for a leaf without an entry, and
\* once written it is the last write of the file.
InFlight ==
    \A p \in Process :
        /\ request[p] # None => entries[p][request[p].leaf] = None
        /\ pc[p] \in {"written", "synced"} =>
              /\ Len(file) > 0
              /\ file[Len(file)] = [leaf   |-> request[p].leaf,
                                    digest |-> request[p].digest,
                                    cut    |-> "line"]

\* Where power may fail, all but the line being written is synced.
SyncedUpToDate ==
    "power" \in faults =>
        /\ \A p \in Process : pc[p] # "written" => synced = Len(file)
        /\ \A i \in (synced + 1)..Len(file) : file[i].cut = "line"

IInv ==
    /\ TypeOK
    /\ ReleasedRecorded
    /\ MemoryRecorded
    /\ MemoryKnowsReleased
    /\ ClosedForgets
    /\ InFlight
    /\ SyncedUpToDate

-----------------------------------------------------------------------------
(***************************************************************************)
(* Lemmas about reading a file.                                            *)
(***************************************************************************)

\* A leaf is recorded for at most one digest: of two records the later one
\* would be a further write for the leaf.
LEMMA RecordIsUnique ==
    ASSUME NEW f \in Seq(Write), NEW n, NEW l, NEW d, NEW e,
           HasRecord(f, n, l, d), HasRecord(f, n, l, e)
    PROVE  d = e
<1>1. PICK i \in 1..Len(f) : RecordAt(f, n, l, d, i)
  BY DEF HasRecord
<1>2. PICK j \in 1..Len(f) : RecordAt(f, n, l, e, j)
  BY DEF HasRecord
<1>3. ~(i < j) /\ ~(j < i)
  BY <1>1, <1>2 DEF RecordAt
<1>4. i = j
  BY <1>3
<1> QED
  BY <1>1, <1>2, <1>4 DEF RecordAt

\* What open loads for a leaf is recorded in the file: no line after the one
\* loaded is for the leaf, and what is glued to a line names no leaf.
LEMMA LoadedIsRecorded ==
    ASSUME NEW f \in Seq(Write), NEW n \in Nat, NEW l \in Leaf,
           Loadable(f), Loaded(f, l) # None, n = Len(f)
    PROVE  HasRecord(f, n, l, Loaded(f, l).digest)
<1> DEFINE last == Last(LinesOf(f, l))
           i    == CHOOSE j \in last : TRUE
<1>1. last # {}
  BY DEF Loaded
<1>2. i \in last
  BY <1>1
<1>3. /\ i \in 1..Len(f)
      /\ f[i].leaf = l
      /\ StartsLine(f, i)
      /\ \A j \in LinesOf(f, l) : j <= i
  BY <1>2 DEF Last, LinesOf
<1>4. f[i].cut \in {"line", "full", "sig"}
  BY <1>3 DEF Loadable
<1>5. ASSUME NEW j \in (i + 1)..Len(f), f[j].leaf = l
      PROVE  f[j].cut = "head"
  <2>1. j \in 1..Len(f) /\ ~(j <= i)
    BY <1>3
  <2>2. ~StartsLine(f, j)
    BY <1>3, <1>5, <2>1 DEF LinesOf
  <2> QED
    BY <2>1, <2>2 DEF Loadable
<1>6. Loaded(f, l).digest = f[i].digest
  BY <1>1 DEF Loaded
<1>7. i <= n
  BY <1>3
<1>8. RecordAt(f, n, l, Loaded(f, l).digest, i)
  BY <1>3, <1>4, <1>5, <1>6, <1>7 DEF RecordAt
<1> QED
  BY <1>3, <1>8 DEF HasRecord

\* What is recorded is loaded, if open succeeds at all.
LEMMA RecordedIsLoaded ==
    ASSUME NEW f \in Seq(Write), NEW n, NEW l \in Leaf, NEW d,
           Loadable(f), HasRecord(f, n, l, d)
    PROVE  Loaded(f, l) # None /\ Loaded(f, l).digest = d
<1>1. PICK i \in 1..Len(f) : RecordAt(f, n, l, d, i)
  BY DEF HasRecord
<1> DEFINE last == Last(LinesOf(f, l))
           k    == CHOOSE j \in last : TRUE
<1>2. i \in LinesOf(f, l)
  BY <1>1 DEF RecordAt, LinesOf, Loadable
<1>3. ASSUME NEW j \in LinesOf(f, l), i < j
      PROVE  FALSE
  <2>1. /\ j \in (i + 1)..Len(f)
        /\ j \in 1..Len(f)
        /\ f[j].leaf = l
        /\ StartsLine(f, j)
    BY <1>3 DEF LinesOf
  <2>2. f[j].cut = "head"
    BY <1>1, <2>1 DEF RecordAt
  <2> QED
    BY <2>1, <2>2 DEF Loadable
<1>4. \A j \in LinesOf(f, l) : j <= i
  BY <1>3 DEF LinesOf
<1>5. i \in last
  BY <1>2, <1>4 DEF Last
<1>6. k \in last
  BY <1>5
<1>7. k = i
  BY <1>2, <1>4, <1>6 DEF Last, LinesOf
<1>8. Loaded(f, l) = [digest |-> f[i].digest,
                      whole  |-> f[i].cut = "line" \/ (f[i].cut = "full" /\ i = Len(f))]
  <2> HIDE DEF last
  <2>1. last # {}
    BY <1>5
  <2> QED
    BY <1>7, <2>1 DEF Loaded, last
<1>9. Loaded(f, l) \in Entry
  <2> HIDE DEF last, k
  <2>1. f[i] \in Write
    OBVIOUS
  <2>2. f[i].digest \in Digest
    BY <2>1 DEF Write
  <2> QED
    BY <1>8, <2>2 DEF Entry
<1> QED
  BY <1>1, <1>8, <1>9, NoneAssumption DEF RecordAt

\* A write for another leaf at the end of the file takes nothing away.
LEMMA AppendKeepsRecord ==
    ASSUME NEW f \in Seq(Write), NEW n \in Nat, NEW m \in Nat, NEW l, NEW d,
           NEW w \in Write, HasRecord(f, n, l, d), w.leaf # l, n <= m
    PROVE  HasRecord(Append(f, w), m, l, d)
<1> DEFINE g == Append(f, w)
<1>1. PICK i \in 1..Len(f) : RecordAt(f, n, l, d, i)
  BY DEF HasRecord
<1>2. /\ Len(g) = Len(f) + 1
      /\ \A j \in 1..Len(f) : g[j] = f[j]
      /\ g[Len(f) + 1] = w
  OBVIOUS
<1> HIDE DEF g
<1>3. \A j \in (i + 1)..Len(g) : g[j].leaf = l => g[j].cut = "head"
  <2> SUFFICES ASSUME NEW j \in (i + 1)..Len(g), g[j].leaf = l
               PROVE  g[j].cut = "head"
    OBVIOUS
  <2>1. j # Len(f) + 1
    BY <1>2
  <2>2. j \in (i + 1)..Len(f) /\ j \in 1..Len(f)
    BY <1>2, <2>1
  <2> QED
    BY <1>1, <1>2, <2>2 DEF RecordAt
<1>4. RecordAt(g, m, l, d, i)
  BY <1>1, <1>2, <1>3 DEF RecordAt
<1>5. i \in 1..Len(g)
  BY <1>2
<1> QED
  BY <1>4, <1>5 DEF HasRecord, g

\* More of the file synced takes nothing away.
LEMMA SyncKeepsRecord ==
    ASSUME NEW f \in Seq(Write), NEW n \in Nat, NEW m \in Nat, NEW l, NEW d,
           n <= m, HasRecord(f, n, l, d)
    PROVE  HasRecord(f, m, l, d)
BY DEF HasRecord, RecordAt

\* A file a power loss leaves: a prefix of the old one, or a prefix and one
\* write cut short.
LEMMA PowerLossShape ==
    ASSUME NEW f \in Seq(Write), synced \in 0..Len(f), NEW g \in PowerLossLeaves(f)
    PROVE  /\ g \in Seq(Write)
           /\ \E n \in synced..Len(f) :
                 /\ \A j \in 1..n : g[j] = f[j]
                 /\ \/ Len(g) = n
                    \/ /\ n < Len(f)
                       /\ Len(g) = n + 1
                       /\ g[n + 1].leaf = f[n + 1].leaf
                       /\ g[n + 1].digest = f[n + 1].digest
<1>1. CASE g \in {SubSeq(f, 1, n) : n \in synced..Len(f)}
  <2>1. PICK n \in synced..Len(f) : g = SubSeq(f, 1, n)
    BY <1>1
  <2>2. /\ g \in Seq(Write)
        /\ Len(g) = n
        /\ \A j \in 1..n : g[j] = f[j]
    BY <2>1
  <2> QED
    BY <2>2
<1>2. CASE g \in UNION {{Append(SubSeq(f, 1, n), [f[n + 1] EXCEPT !.cut = c]) :
                            c \in ShorterCut(f[n + 1].cut)} : n \in synced..(Len(f) - 1)}
  <2>0. PICK n \in synced..(Len(f) - 1) :
            g \in {Append(SubSeq(f, 1, n), [f[n + 1] EXCEPT !.cut = c]) :
                       c \in ShorterCut(f[n + 1].cut)}
    BY <1>2
  <2>1. PICK c \in ShorterCut(f[n + 1].cut) :
            g = Append(SubSeq(f, 1, n), [f[n + 1] EXCEPT !.cut = c])
    BY <2>0
  <2> DEFINE h == SubSeq(f, 1, n)
             w == [f[n + 1] EXCEPT !.cut = c]
  <2>2. /\ h \in Seq(Write)
        /\ Len(h) = n
        /\ \A j \in 1..n : h[j] = f[j]
    OBVIOUS
  <2>3. c \in Cut
    BY DEF ShorterCut, Cut
  <2>4. f[n + 1] \in Write
    OBVIOUS
  <2>5. /\ w \in Write
        /\ w.leaf = f[n + 1].leaf
        /\ w.digest = f[n + 1].digest
    BY <2>3, <2>4 DEF Write
  <2> HIDE DEF h, w
  <2>6. g = Append(h, w)
    BY <2>1 DEF h, w
  <2>7. /\ g \in Seq(Write)
        /\ Len(g) = n + 1
        /\ \A j \in 1..n : g[j] = h[j]
        /\ g[n + 1] = w
    BY <2>2, <2>5, <2>6
  <2>8. n \in synced..Len(f) /\ n < Len(f)
    OBVIOUS
  <2> QED
    BY <2>2, <2>5, <2>7, <2>8
<1> QED
  BY <1>1, <1>2 DEF PowerLossLeaves

\* Power loss spares what is recorded and synced.
LEMMA PowerLossKeepsRecord ==
    ASSUME NEW f \in Seq(Write), synced \in 0..Len(f),
           \A i \in (synced + 1)..Len(f) : f[i].cut = "line",
           NEW g \in PowerLossLeaves(f), NEW l, NEW d, HasRecord(f, synced, l, d)
    PROVE  HasRecord(g, Len(g), l, d)
<1>1. PICK i \in 1..Len(f) : RecordAt(f, synced, l, d, i)
  BY DEF HasRecord
<1>2. PICK n \in synced..Len(f) :
          /\ \A j \in 1..n : g[j] = f[j]
          /\ \/ Len(g) = n
             \/ /\ n < Len(f)
                /\ Len(g) = n + 1
                /\ g[n + 1].leaf = f[n + 1].leaf
                /\ g[n + 1].digest = f[n + 1].digest
  BY PowerLossShape
<1>3. i \in 1..n /\ Len(g) >= n /\ Len(g) \in Nat
  BY <1>1, <1>2 DEF RecordAt
<1>4. \A j \in (i + 1)..Len(g) : g[j].leaf = l => g[j].cut = "head"
  <2> SUFFICES ASSUME NEW j \in (i + 1)..Len(g), g[j].leaf = l
               PROVE  g[j].cut = "head"
    OBVIOUS
  <2>1. CASE j \in 1..n
    <3>1. g[j] = f[j] /\ j \in (i + 1)..Len(f)
      BY <1>2, <1>3, <2>1
    <3> QED
      BY <1>1, <3>1 DEF RecordAt
  <2>2. CASE j = n + 1 /\ n < Len(f)
    <3>1. j \in (i + 1)..Len(f) /\ j \in (synced + 1)..Len(f) /\ f[j].leaf = l
      BY <1>2, <1>3, <2>2
    <3>2. f[j].cut = "head" /\ f[j].cut = "line"
      BY <1>1, <3>1 DEF RecordAt
    <3> QED
      BY <3>2
  <2> QED
    BY <1>2, <1>3, <2>1, <2>2
<1>5. RecordAt(g, Len(g), l, d, i)
  BY <1>1, <1>2, <1>3, <1>4 DEF RecordAt
<1> QED
  BY <1>3, <1>5 DEF HasRecord

-----------------------------------------------------------------------------
(***************************************************************************)
(* Type correctness, for any processes and faults.                         *)
(***************************************************************************)
LEMMA LoadedType ==
    ASSUME NEW f \in Seq(Write), NEW l
    PROVE  Loaded(f, l) \in Entry \cup {None}
<1> DEFINE last == Last(LinesOf(f, l))
           i    == CHOOSE j \in last : TRUE
<1>1. CASE last = {}
  BY <1>1 DEF Loaded
<1>2. CASE last # {}
  <2>1. i \in last
    BY <1>2
  <2>2. f[i] \in Write
    BY <2>1 DEF Last, LinesOf
  <2>3. f[i].digest \in Digest
    BY <2>2 DEF Write
  <2> HIDE DEF i
  <2>4. Loaded(f, l) = [digest |-> f[i].digest,
                        whole  |-> f[i].cut = "line" \/ (f[i].cut = "full" /\ i = Len(f))]
    BY <1>2 DEF Loaded, i
  <2> QED
    BY <2>3, <2>4 DEF Entry
<1> QED
  BY <1>1, <1>2

LEMMA TypeOKStep == TypeOK /\ [Next]_vars => TypeOK'
<1> SUFFICES ASSUME TypeOK, [Next]_vars
             PROVE  TypeOK'
  OBVIOUS
<1> USE DEF TypeOK
<1>1. ASSUME NEW p \in Process, Open(p)
      PROVE  TypeOK'
  <2>1. \A l \in Leaf : Loaded(file, l) \in Entry \cup {None}
    BY LoadedType
  <2> QED
    BY <1>1, <2>1 DEF Open
<1>2. ASSUME NEW p \in Process, NEW l \in Leaf, ReturnStored(p, l)
      PROVE  TypeOK'
  <2>1. entries[p][l] \in Entry
    BY <1>2 DEF ReturnStored
  <2>2. released' \subseteq Record
    BY <1>2, <2>1 DEF ReturnStored, Entry, Record
  <2> QED
    BY <1>2, <2>2 DEF ReturnStored
<1>3. ASSUME NEW p \in Process, NEW l \in Leaf, NEW d \in Digest, Sign(p, l, d)
      PROVE  TypeOK'
  <2>1. [leaf |-> l, digest |-> d] \in Request
    BY DEF Request
  <2>2. [leaf |-> l, digest |-> d] # None
    BY <2>1, NoneAssumption
  <2>3. request' \in [Process -> Request \cup {None}]
    BY <1>3, <2>1 DEF Sign
  <2>4. pc' \in [Process -> {"closed", "ready", "signed", "written", "synced"}]
    BY <1>3 DEF Sign
  <2>5. \A q \in Process : request'[q] # None <=> pc'[q] \in {"signed", "written", "synced"}
    BY <1>3, <2>2 DEF Sign
  <2> QED
    BY <1>3, <2>3, <2>4, <2>5 DEF Sign
<1>4. ASSUME NEW p \in Process, WriteLine(p)
      PROVE  TypeOK'
  <2>1. request[p] \in Request
    BY <1>4 DEF WriteLine
  <2>2. [leaf |-> request[p].leaf, digest |-> request[p].digest, cut |-> "line"] \in Write
    BY <2>1 DEF Write, Request, Cut
  <2>3. file' \in Seq(Write) /\ Len(file') = Len(file) + 1
    BY <1>4, <2>2 DEF WriteLine
  <2> QED
    BY <1>4, <2>3 DEF WriteLine
<1>5. ASSUME NEW p \in Process, WriteFails(p)
      PROVE  TypeOK'
  <2>1. request[p] \in Request
    BY <1>5 DEF WriteFails
  <2>2. file' \in Seq(Write) /\ Len(file') >= Len(file)
    <3>1. CASE UNCHANGED file
      BY <3>1
    <3>2. ASSUME NEW c \in ShorterCut("line"),
                 file' = Append(file, [leaf   |-> request[p].leaf,
                                       digest |-> request[p].digest,
                                       cut    |-> c])
          PROVE  file' \in Seq(Write) /\ Len(file') >= Len(file)
      <4>1. [leaf |-> request[p].leaf, digest |-> request[p].digest, cut |-> c] \in Write
        BY <2>1 DEF Write, Request, Cut, ShorterCut
      <4> QED
        BY <3>2, <4>1
    <3> QED
      BY <1>5, <3>1, <3>2 DEF WriteFails
  <2> QED
    BY <1>5, <2>2 DEF WriteFails, PutFails
<1>6. ASSUME NEW p \in Process, SyncAll(p)
      PROVE  TypeOK'
  BY <1>6 DEF SyncAll
<1>7. ASSUME NEW p \in Process, SyncFails(p)
      PROVE  TypeOK'
  BY <1>7 DEF SyncFails, PutFails
<1>8. ASSUME NEW p \in Process, ReturnSigned(p)
      PROVE  TypeOK'
  <2>1. request[p] \in Request
    BY <1>8 DEF ReturnSigned
  <2>2. /\ request[p].leaf \in Leaf
        /\ [digest |-> request[p].digest, whole |-> TRUE] \in Entry
        /\ [leaf |-> request[p].leaf, digest |-> request[p].digest, whole |-> TRUE] \in Record
    BY <2>1 DEF Request, Entry, Record
  <2>3. released' \subseteq Record
    BY <1>8, <2>2 DEF ReturnSigned
  <2>4. entries' \in [Process -> [Leaf -> Entry \cup {None}]]
    BY <1>8, <2>2 DEF ReturnSigned
  <2> QED
    BY <1>8, <2>3, <2>4 DEF ReturnSigned
<1>9. ASSUME NEW p \in Process, End(p)
      PROVE  TypeOK'
  BY <1>9 DEF End
<1>10. ASSUME PowerLoss
       PROVE  TypeOK'
  <2>1. file' \in Seq(Write)
    BY <1>10, PowerLossShape DEF PowerLoss
  <2> QED
    BY <1>10, <2>1 DEF PowerLoss
<1>11. ASSUME UNCHANGED vars
       PROVE  TypeOK'
  BY <1>11 DEF vars
<1> QED
  BY <1>1, <1>2, <1>3, <1>4, <1>5, <1>6, <1>7, <1>8, <1>9, <1>10, <1>11 DEF Next

\* The journal's variables keep their types, whatever the processes and the
\* faults: in particular no more is synced than was written, and a process has
\* a call in hand exactly while it is inside put.
THEOREM TypeCorrect == Spec => []TypeOK
<1>1. Init => TypeOK
  BY DEF Init, TypeOK
<1> QED
  BY <1>1, TypeOKStep, PTL DEF Spec

-----------------------------------------------------------------------------
(***************************************************************************)
(* The inductive invariant, one step per action.                           *)
(***************************************************************************)

\* Appending a write for a leaf that p has no entry for, when p is the only
\* process: the records of everything released and remembered are untouched.
LEMMA AppendKeepsInvariant ==
    ASSUME SingleWriter, IInv, NEW p \in Process, pc[p] # "closed",
           NEW w \in Write, entries[p][w.leaf] = None, file' = Append(file, w),
           UNCHANGED <<faults, synced, entries, released>>
    PROVE  ReleasedRecorded' /\ MemoryRecorded'
<1> USE DEF IInv, TypeOK
<1>0. Firm \in Nat /\ Firm' \in Nat /\ Firm <= Firm'
  BY DEF Firm
<1>1. ASSUME NEW r \in released
      PROVE  HasRecord(file', Firm', r.leaf, r.digest)
  <2>1. r.leaf # w.leaf
    BY DEF MemoryKnowsReleased
  <2>2. HasRecord(file, Firm, r.leaf, r.digest)
    BY DEF ReleasedRecorded
  <2> QED
    BY <1>0, <2>1, <2>2, AppendKeepsRecord
<1>2. ASSUME NEW q \in Process, NEW l \in Leaf, entries[q][l] # None
      PROVE  HasRecord(file', Firm', l, entries[q][l].digest)
  <2>1. q = p
    BY DEF SingleWriter
  <2>2. l # w.leaf
    BY <1>2, <2>1
  <2>3. HasRecord(file, Firm, l, entries[q][l].digest)
    BY <1>2 DEF MemoryRecorded
  <2> QED
    BY <1>0, <2>2, <2>3, AppendKeepsRecord
<1> QED
  BY <1>1, <1>2 DEF ReleasedRecorded, MemoryRecorded

LEMMA OpenStep ==
    ASSUME PowerLossAlone, IInv, NEW p \in Process, Open(p), TypeOK'
    PROVE  IInv'
<1> USE DEF IInv, TypeOK
<1>1. Firm = Len(file) /\ Firm' = Firm
  BY DEF Open, SyncedUpToDate, Firm
<1>2. \A l \in Leaf : entries'[p][l] = Loaded(file, l)
  BY DEF Open
<1>3. \A q \in Process : q # p => entries'[q] = entries[q] /\ pc'[q] = pc[q]
  BY DEF Open
<1>4. ReleasedRecorded'
  BY <1>1 DEF Open, ReleasedRecorded
<1>5. MemoryRecorded'
  <2> SUFFICES ASSUME NEW q \in Process, NEW l \in Leaf, entries'[q][l] # None
               PROVE  HasRecord(file, Firm, l, entries'[q][l].digest)
    BY <1>1 DEF MemoryRecorded, Open
  <2>1. CASE q = p
    BY <1>1, <1>2, <2>1, LoadedIsRecorded DEF Open
  <2>2. CASE q # p
    BY <1>3, <2>2 DEF MemoryRecorded
  <2> QED
    BY <2>1, <2>2
<1>6. MemoryKnowsReleased'
  <2> SUFFICES ASSUME NEW q \in Process, NEW r \in released, pc'[q] # "closed"
               PROVE  entries'[q][r.leaf] # None
    BY DEF MemoryKnowsReleased, Open
  <2>1. r.leaf \in Leaf
    BY DEF Record
  <2>2. CASE q = p
    <3>1. HasRecord(file, Firm, r.leaf, r.digest)
      BY DEF ReleasedRecorded
    <3>2. Loaded(file, r.leaf) # None
      BY <2>1, <3>1, RecordedIsLoaded DEF Open
    <3> QED
      BY <1>2, <2>1, <2>2, <3>2
  <2>3. CASE q # p
    BY <1>3, <2>3 DEF MemoryKnowsReleased
  <2> QED
    BY <2>2, <2>3
<1>7. ClosedForgets'
  BY <1>3 DEF ClosedForgets, Open
<1>8. InFlight'
  BY <1>3 DEF InFlight, Open
<1>9. SyncedUpToDate'
  BY <1>3 DEF SyncedUpToDate, Open
<1> QED
  BY <1>4, <1>5, <1>6, <1>7, <1>8, <1>9

LEMMA ReturnStoredStep ==
    ASSUME SingleWriter, IInv, NEW p \in Process, NEW l \in Leaf,
           ReturnStored(p, l), TypeOK'
    PROVE  IInv'
<1> USE DEF IInv, TypeOK
<1> DEFINE new == [leaf |-> l, digest |-> entries[p][l].digest,
                   whole |-> entries[p][l].whole]
<1>1. released' = released \cup {new} /\ UNCHANGED <<faults, file, synced, pc, request, entries>>
  BY DEF ReturnStored
<1>2. new.leaf = l /\ new.digest = entries[p][l].digest
  OBVIOUS
<1>3. entries[p][l] # None
  BY DEF ReturnStored
<1> HIDE DEF new
<1>4. HasRecord(file, Firm, new.leaf, new.digest)
  BY <1>2, <1>3 DEF MemoryRecorded
<1>5. ReleasedRecorded'
  BY <1>1, <1>4 DEF ReleasedRecorded, Firm
<1>6. MemoryKnowsReleased'
  <2> SUFFICES ASSUME NEW q \in Process, NEW r \in released', pc[q] # "closed"
               PROVE  entries[q][r.leaf] # None
    BY <1>1 DEF MemoryKnowsReleased
  <2>1. CASE r = new
    BY <1>2, <1>3, <2>1 DEF SingleWriter
  <2>2. CASE r \in released
    BY <2>2 DEF MemoryKnowsReleased
  <2> QED
    BY <1>1, <2>1, <2>2
<1>7. MemoryRecorded' /\ ClosedForgets' /\ InFlight' /\ SyncedUpToDate'
  BY <1>1 DEF MemoryRecorded, ClosedForgets, InFlight, SyncedUpToDate, Firm
<1> QED
  BY <1>5, <1>6, <1>7

LEMMA SignStep ==
    ASSUME IInv, NEW p \in Process, NEW l \in Leaf, NEW d \in Digest,
           Sign(p, l, d), TypeOK'
    PROVE  IInv'
<1> USE DEF IInv, TypeOK
<1>1. /\ UNCHANGED <<faults, file, synced, entries, released>>
      /\ pc[p] = "ready" /\ pc'[p] = "signed"
      /\ request'[p] = [leaf |-> l, digest |-> d]
      /\ \A q \in Process : q # p => pc'[q] = pc[q] /\ request'[q] = request[q]
  BY DEF Sign
<1>2. ReleasedRecorded' /\ MemoryRecorded' /\ MemoryKnowsReleased' /\ ClosedForgets'
  BY <1>1 DEF ReleasedRecorded, MemoryRecorded, MemoryKnowsReleased, ClosedForgets, Firm
<1>3. InFlight'
  BY <1>1 DEF InFlight, Sign
<1>4. SyncedUpToDate'
  BY <1>1 DEF SyncedUpToDate
<1> QED
  BY <1>2, <1>3, <1>4

LEMMA WriteLineStep ==
    ASSUME SingleWriter, IInv, NEW p \in Process, WriteLine(p), TypeOK'
    PROVE  IInv'
<1> USE DEF IInv, TypeOK
<1> DEFINE w == [leaf |-> request[p].leaf, digest |-> request[p].digest, cut |-> "line"]
<1>1. request[p] \in Request /\ entries[p][request[p].leaf] = None
  BY DEF WriteLine, InFlight
<1>2. w \in Write /\ w.leaf = request[p].leaf /\ w.cut = "line"
  BY <1>1 DEF Request, Write, Cut
<1>3. /\ file' = Append(file, w)
      /\ UNCHANGED <<faults, synced, request, entries, released>>
      /\ pc[p] = "signed" /\ pc'[p] = "written"
  BY DEF WriteLine
<1> HIDE DEF w
<1>4. ReleasedRecorded' /\ MemoryRecorded'
  BY <1>1, <1>2, <1>3, AppendKeepsInvariant
<1>5. /\ Len(file') = Len(file) + 1
      /\ file'[Len(file')] = w
      /\ \A i \in 1..Len(file) : file'[i] = file[i]
  BY <1>2, <1>3
<1>6. MemoryKnowsReleased' /\ ClosedForgets'
  BY <1>3 DEF MemoryKnowsReleased, ClosedForgets, SingleWriter
<1>7. InFlight'
  BY <1>1, <1>3, <1>5 DEF InFlight, SingleWriter, w
<1>8. SyncedUpToDate'
  BY <1>2, <1>3, <1>5 DEF SyncedUpToDate, SingleWriter
<1> QED
  BY <1>4, <1>6, <1>7, <1>8

LEMMA WriteFailsStep ==
    ASSUME SingleWriter, PowerLossAlone, IInv, NEW p \in Process,
           WriteFails(p), TypeOK'
    PROVE  IInv'
<1> USE DEF IInv, TypeOK
<1>1. /\ request[p] \in Request /\ entries[p][request[p].leaf] = None
      /\ "power" \notin faults
      /\ UNCHANGED <<faults, synced, entries, released>>
      /\ pc[p] = "signed" /\ pc'[p] = "ready" /\ request'[p] = None
  <2>1. "power" \notin faults
    BY DEF WriteFails, PowerLossAlone
  <2>2. pc[p] = "signed" /\ pc'[p] = "ready" /\ request'[p] = None
    BY DEF WriteFails, PutFails
  <2>3. UNCHANGED <<faults, synced, entries, released>>
    BY DEF WriteFails
  <2>4. request[p] # None
    BY <2>2
  <2> QED
    BY <2>1, <2>2, <2>3, <2>4 DEF InFlight
<1>2. ReleasedRecorded' /\ MemoryRecorded'
  <2>1. CASE UNCHANGED file
    BY <1>1, <2>1 DEF ReleasedRecorded, MemoryRecorded, Firm
  <2>2. ASSUME NEW c \in ShorterCut("line"),
               file' = Append(file, [leaf   |-> request[p].leaf,
                                     digest |-> request[p].digest,
                                     cut    |-> c])
        PROVE  ReleasedRecorded' /\ MemoryRecorded'
    <3> DEFINE w == [leaf |-> request[p].leaf, digest |-> request[p].digest, cut |-> c]
    <3>1. w \in Write /\ w.leaf = request[p].leaf
      BY <1>1 DEF Request, Write, Cut, ShorterCut
    <3>2. file' = Append(file, w)
      BY <2>2
    <3> HIDE DEF w
    <3> QED
      BY <1>1, <3>1, <3>2, AppendKeepsInvariant
  <2> QED
    BY <2>1, <2>2 DEF WriteFails
<1>3. MemoryKnowsReleased' /\ ClosedForgets' /\ InFlight' /\ SyncedUpToDate'
  BY <1>1 DEF MemoryKnowsReleased, ClosedForgets, InFlight, SyncedUpToDate, SingleWriter
<1> QED
  BY <1>2, <1>3

LEMMA SyncAllStep ==
    ASSUME SingleWriter, IInv, NEW p \in Process, SyncAll(p), TypeOK'
    PROVE  IInv'
<1> USE DEF IInv, TypeOK
<1>1. /\ synced' = Len(file) /\ pc[p] = "written" /\ pc'[p] = "synced"
      /\ UNCHANGED <<faults, file, request, entries, released>>
  BY DEF SyncAll
<1>0. Firm \in Nat /\ Firm' \in Nat /\ Firm <= Firm'
  BY <1>1 DEF Firm
<1>2. ReleasedRecorded'
  BY <1>0, <1>1, SyncKeepsRecord DEF ReleasedRecorded
<1>3. MemoryRecorded'
  BY <1>0, <1>1, SyncKeepsRecord DEF MemoryRecorded
<1>4. MemoryKnowsReleased' /\ ClosedForgets' /\ InFlight' /\ SyncedUpToDate'
  BY <1>1 DEF MemoryKnowsReleased, ClosedForgets, InFlight, SyncedUpToDate, SingleWriter
<1> QED
  BY <1>2, <1>3, <1>4

LEMMA SyncFailsStep ==
    ASSUME SingleWriter, PowerLossAlone, IInv, NEW p \in Process,
           SyncFails(p), TypeOK'
    PROVE  IInv'
<1> USE DEF IInv, TypeOK
<1>1. "power" \notin faults
  BY DEF SyncFails, PowerLossAlone
<1>2. /\ pc[p] = "written" /\ pc'[p] = "ready" /\ request'[p] = None
      /\ UNCHANGED <<faults, file, synced, entries, released>>
  BY DEF SyncFails, PutFails
<1>3. ReleasedRecorded' /\ MemoryRecorded'
  BY <1>2 DEF ReleasedRecorded, MemoryRecorded, Firm
<1>4. MemoryKnowsReleased' /\ ClosedForgets' /\ InFlight' /\ SyncedUpToDate'
  BY <1>1, <1>2 DEF MemoryKnowsReleased, ClosedForgets, InFlight, SyncedUpToDate, SingleWriter
<1> QED
  BY <1>3, <1>4

LEMMA ReturnSignedStep ==
    ASSUME SingleWriter, IInv, NEW p \in Process, ReturnSigned(p), TypeOK'
    PROVE  IInv'
<1> USE DEF IInv, TypeOK
<1> DEFINE l   == request[p].leaf
           d   == request[p].digest
           new == [leaf |-> l, digest |-> d, whole |-> TRUE]
           e   == [digest |-> d, whole |-> TRUE]
<1>1. pc[p] = "synced" /\ pc'[p] = "ready" /\ request'[p] = None
  BY DEF ReturnSigned
<1>2. request[p] \in Request /\ entries[p][l] = None
  BY <1>1 DEF InFlight
<1>3. l \in Leaf /\ d \in Digest /\ e \in Entry /\ e.digest = d
  BY <1>2 DEF Request, Entry
<1>4. e # None
  BY <1>3, NoneAssumption
<1>5. /\ UNCHANGED <<faults, file, synced>>
      /\ released' = released \cup {new}
      /\ new.leaf = l /\ new.digest = d
  BY DEF ReturnSigned
<1>6. /\ entries'[p][l] = e
      /\ \A k \in Leaf : k # l => entries'[p][k] = entries[p][k]
  BY <1>3 DEF ReturnSigned
<1>7. HasRecord(file, Firm, l, d)
  <2>1. /\ Len(file) > 0
        /\ file[Len(file)] = [leaf |-> l, digest |-> d, cut |-> "line"]
    BY <1>1 DEF InFlight
  <2>2. Len(file) <= Firm
    BY <1>1 DEF SyncedUpToDate, Firm
  <2>3. RecordAt(file, Firm, l, d, Len(file))
    BY <2>1, <2>2 DEF RecordAt
  <2> QED
    BY <2>1, <2>3 DEF HasRecord
<1> HIDE DEF l, d, new, e
<1>8. ReleasedRecorded'
  BY <1>5, <1>7 DEF ReleasedRecorded, Firm
<1>9. MemoryRecorded'
  <2> SUFFICES ASSUME NEW q \in Process, NEW k \in Leaf, entries'[q][k] # None
               PROVE  HasRecord(file, Firm, k, entries'[q][k].digest)
    BY <1>5 DEF MemoryRecorded, Firm
  <2>1. q = p
    BY DEF SingleWriter
  <2>2. CASE k = l
    BY <1>3, <1>6, <1>7, <2>1, <2>2
  <2>3. CASE k # l
    BY <1>6, <2>1, <2>3 DEF MemoryRecorded
  <2> QED
    BY <2>2, <2>3
<1>10. MemoryKnowsReleased'
  <2> SUFFICES ASSUME NEW q \in Process, NEW r \in released'
               PROVE  entries'[q][r.leaf] # None
    BY DEF MemoryKnowsReleased
  <2>1. q = p
    BY DEF SingleWriter
  <2>2. CASE r.leaf = l
    BY <1>4, <1>6, <2>1, <2>2
  <2>3. CASE r.leaf # l
    <3>1. r \in released /\ r.leaf \in Leaf
      BY <1>5, <2>3 DEF Record
    <3>2. entries[p][r.leaf] # None
      BY <1>1, <3>1 DEF MemoryKnowsReleased
    <3> QED
      BY <1>6, <2>1, <2>3, <3>1, <3>2
  <2> QED
    BY <2>2, <2>3
<1>11. ClosedForgets' /\ InFlight' /\ SyncedUpToDate'
  BY <1>1, <1>5 DEF ClosedForgets, InFlight, SyncedUpToDate, SingleWriter
<1> QED
  BY <1>8, <1>9, <1>10, <1>11

LEMMA EndStep ==
    ASSUME SingleWriter, PowerLossAlone, IInv, NEW p \in Process, End(p), TypeOK'
    PROVE  IInv'
<1> USE DEF IInv, TypeOK
<1>1. /\ UNCHANGED <<faults, file, synced, released>>
      /\ pc'[p] = "closed" /\ request'[p] = None
      /\ \A l \in Leaf : entries'[p][l] = None
  BY DEF End
<1>2. "power" \in faults => pc[p] = "ready"
  BY DEF End, PowerLossAlone
<1>3. ReleasedRecorded' /\ MemoryRecorded'
  BY <1>1 DEF ReleasedRecorded, MemoryRecorded, SingleWriter, Firm
<1>4. MemoryKnowsReleased' /\ ClosedForgets' /\ InFlight'
  BY <1>1 DEF MemoryKnowsReleased, ClosedForgets, InFlight, SingleWriter
<1>5. SyncedUpToDate'
  BY <1>1, <1>2 DEF SyncedUpToDate, SingleWriter
<1> QED
  BY <1>3, <1>4, <1>5

LEMMA PowerLossStep ==
    ASSUME IInv, PowerLoss, TypeOK'
    PROVE  IInv'
<1> USE DEF IInv, TypeOK
<1>1. /\ "power" \in faults
      /\ file' \in PowerLossLeaves(file)
      /\ synced' = Len(file')
      /\ UNCHANGED <<faults, released>>
      /\ \A p \in Process : pc'[p] = "closed" /\ request'[p] = None
      /\ \A p \in Process, l \in Leaf : entries'[p][l] = None
  BY DEF PowerLoss
<1>2. ReleasedRecorded'
  <2> SUFFICES ASSUME NEW r \in released
               PROVE  HasRecord(file', Len(file'), r.leaf, r.digest)
    BY <1>1 DEF ReleasedRecorded, Firm
  <2>1. HasRecord(file, synced, r.leaf, r.digest)
    BY <1>1 DEF ReleasedRecorded, Firm
  <2> QED
    BY <1>1, <2>1, PowerLossKeepsRecord DEF SyncedUpToDate
<1>3. MemoryRecorded' /\ MemoryKnowsReleased' /\ ClosedForgets' /\ InFlight'
  BY <1>1 DEF MemoryRecorded, MemoryKnowsReleased, ClosedForgets, InFlight
<1>4. SyncedUpToDate'
  BY <1>1 DEF SyncedUpToDate
<1> QED
  BY <1>2, <1>3, <1>4

LEMMA IInvStep ==
    ASSUME SingleWriter, PowerLossAlone, IInv, [Next]_vars
    PROVE  IInv'
<1>1. TypeOK'
  BY TypeOKStep DEF IInv
<1>2. CASE UNCHANGED vars
  BY <1>2 DEF vars, IInv, TypeOK, ReleasedRecorded, MemoryRecorded,
              MemoryKnowsReleased, ClosedForgets, InFlight, SyncedUpToDate, Firm
<1>3. CASE Next
  BY <1>1, <1>3, OpenStep, ReturnStoredStep, SignStep, WriteLineStep,
     WriteFailsStep, SyncAllStep, SyncFailsStep, ReturnSignedStep, EndStep,
     PowerLossStep DEF Next
<1> QED
  BY <1>2, <1>3

LEMMA InvariantHolds ==
    ASSUME SingleWriter, PowerLossAlone
    PROVE  Spec => []IInv
<1>1. Init => IInv
  BY DEF Init, IInv, TypeOK, ReleasedRecorded, MemoryRecorded,
         MemoryKnowsReleased, ClosedForgets, InFlight, SyncedUpToDate
<1>2. IInv /\ [Next]_vars => IInv'
  BY IInvStep
<1> QED
  BY <1>1, <1>2, PTL DEF Spec

-----------------------------------------------------------------------------
(***************************************************************************)
(* The results.                                                            *)
(***************************************************************************)

\* A one-time key signs once, for every number of leaves, digests and writes,
\* through every restart: sign_once never returns signatures over two digests
\* for one leaf.
THEOREM SignOnceHolds ==
    ASSUME SingleWriter, PowerLossAlone
    PROVE  Spec => []SignOnce
<1>1. IInv => SignOnce
  BY RecordIsUnique DEF IInv, TypeOK, ReleasedRecorded, SignOnce
<1> QED
  BY <1>1, InvariantHolds, PTL

\* Durable before the signature escapes: whatever file a restart finds, after
\* a kill or after a power loss, open reports every returned signature or
\* refuses.
THEOREM RecordedBeforeReleaseHolds ==
    ASSUME SingleWriter, PowerLossAlone
    PROVE  Spec => []RecordedBeforeRelease
<1>1. ASSUME IInv
      PROVE  RecordedBeforeRelease
  <2> USE DEF IInv, TypeOK
  <2> SUFFICES ASSUME NEW r \in released, NEW f \in FilesAfterRestart, Loadable(f)
               PROVE  Loaded(f, r.leaf) # None /\ Loaded(f, r.leaf).digest = r.digest
    BY <1>1 DEF RecordedBeforeRelease
  <2>1. r.leaf \in Leaf
    BY <1>1 DEF Record
  <2>2. HasRecord(file, Firm, r.leaf, r.digest)
    BY <1>1 DEF ReleasedRecorded
  <2>3. CASE f = file
    BY <1>1, <2>1, <2>2, <2>3, RecordedIsLoaded
  <2>4. CASE "power" \in faults /\ f \in PowerLossLeaves(file)
    <3>1. f \in Seq(Write)
      BY <1>1, <2>4, PowerLossShape
    <3>2. HasRecord(file, synced, r.leaf, r.digest)
      BY <2>2, <2>4 DEF Firm
    <3>3. HasRecord(f, Len(f), r.leaf, r.digest)
      BY <1>1, <2>4, <3>2, PowerLossKeepsRecord DEF SyncedUpToDate
    <3> QED
      BY <2>1, <3>1, <3>3, RecordedIsLoaded
  <2> QED
    BY <2>3, <2>4 DEF FilesAfterRestart
<1> QED
  BY <1>1, InvariantHolds, PTL

\* A process never answers from memory what the file does not say.
THEOREM MemoryMatchesFileHolds ==
    ASSUME SingleWriter, PowerLossAlone
    PROVE  Spec => []MemoryMatchesFile
<1>1. IInv => MemoryMatchesFile
  BY RecordedIsLoaded DEF IInv, TypeOK, MemoryRecorded, MemoryMatchesFile
<1> QED
  BY <1>1, InvariantHolds, PTL

-----------------------------------------------------------------------------
(***************************************************************************)
(* Refinement of OneTimeKey.                                               *)
(***************************************************************************)

LEMMA BoundDigestType ==
    ASSUME NEW f \in Seq(Write), NEW l
    PROVE  BoundDigest(f, l) \in Digest \cup {None}
<1> DEFINE last == Last({i \in 1..Len(f) : f[i].leaf = l /\ f[i].cut # "head"})
           i    == CHOOSE j \in last : TRUE
<1>1. CASE last = {}
  BY <1>1 DEF BoundDigest
<1>2. CASE last # {}
  <2>1. i \in last
    BY <1>2
  <2>2. f[i] \in Write
    BY <2>1 DEF Last
  <2>3. f[i].digest \in Digest
    BY <2>2 DEF Write
  <2>4. BoundDigest(f, l) = f[i].digest
    BY <1>2 DEF BoundDigest
  <2> QED
    BY <2>3, <2>4
<1> QED
  BY <1>1, <1>2

\* A recorded leaf is bound to the digest recorded for it.
LEMMA RecordedIsBound ==
    ASSUME NEW f \in Seq(Write), NEW n, NEW l, NEW d, HasRecord(f, n, l, d)
    PROVE  BoundDigest(f, l) = d
<1>1. PICK i \in 1..Len(f) : RecordAt(f, n, l, d, i)
  BY DEF HasRecord
<1> DEFINE S    == {j \in 1..Len(f) : f[j].leaf = l /\ f[j].cut # "head"}
           last == Last(S)
           k    == CHOOSE j \in last : TRUE
<1>2. i \in S
  BY <1>1 DEF RecordAt
<1>3. \A j \in S : j <= i
  BY <1>1 DEF RecordAt
<1>4. i \in last
  BY <1>2, <1>3 DEF Last
<1>5. k \in last
  BY <1>4
<1>6. k = i
  BY <1>2, <1>3, <1>5 DEF Last
<1>7. BoundDigest(f, l) = f[k].digest
  BY <1>4 DEF BoundDigest
<1> QED
  BY <1>1, <1>6, <1>7 DEF RecordAt

\* A step that gives nothing away only rebinds unused leaves.
LEMMA RebindStep ==
    ASSUME IInv, IInv', UNCHANGED released
    PROVE  Keys!Rebind
<1> USE DEF IInv, TypeOK
<1> DEFINE b == [l \in Leaf |-> BoundDigest(file, l)]
<1>1. b' = [l \in Leaf |-> BoundDigest(file', l)]
  OBVIOUS
<1>2. b' \in [Leaf -> Digest \cup {None}]
  BY <1>1, BoundDigestType
<1>3. ASSUME NEW r \in released
      PROVE  BoundDigest(file', r.leaf) = BoundDigest(file, r.leaf)
  <2>1. BoundDigest(file, r.leaf) = r.digest
    BY RecordedIsBound DEF ReleasedRecorded
  <2>2. BoundDigest(file', r.leaf) = r.digest
    BY RecordedIsBound DEF ReleasedRecorded
  <2> QED
    BY <2>1, <2>2
<1>4. ASSUME NEW l \in Leaf, Keys!Used(l)
      PROVE  b'[l] = b[l]
  <2>1. PICK r \in released : r.leaf = l
    BY <1>4 DEF Keys!Used
  <2> QED
    BY <1>1, <1>3, <2>1
<1> QED
  BY <1>2, <1>4 DEF Keys!Rebind

\* A step that gives a record away releases the digest its leaf is bound to.
LEMMA ReleaseStep ==
    ASSUME IInv, IInv', NEW new \in Record,
           released' = released \cup {new}, UNCHANGED file
    PROVE  Keys!Release(new.leaf)
<1> USE DEF IInv, TypeOK
<1>1. new.leaf \in Leaf /\ new.digest \in Digest
  BY DEF Record
<1>2. BoundDigest(file, new.leaf) = new.digest
  BY RecordedIsBound DEF ReleasedRecorded
<1>3. {<<r.leaf, r.digest>> : r \in released}' =
          {<<r.leaf, r.digest>> : r \in released} \cup {<<new.leaf, new.digest>>}
  OBVIOUS
<1> QED
  BY <1>1, <1>2, <1>3 DEF Keys!Release

\* The journal implements the one-time key specification: every step of every
\* process, and every crash, is a rebinding of leaves that have given nothing
\* away or the release of a signature over the digest its leaf is bound to.
THEOREM JournalImplementsOneTimeKey ==
    ASSUME SingleWriter, PowerLossAlone
    PROVE  Spec => ImplementsOneTimeKey
<1>1. Init => Keys!Init
  <2>1. ASSUME Init, NEW l \in Leaf
        PROVE  BoundDigest(file, l) = None
    BY <2>1 DEF Init, BoundDigest, Last
  <2> QED
    BY <2>1 DEF Init, Keys!Init
<1>2. ASSUME IInv, IInv', [Next]_vars
      PROVE  [Keys!Next]_(Keys!vars)
  <2>1. CASE UNCHANGED released
    BY <1>2, <2>1, RebindStep DEF Keys!Next
  <2>2. ASSUME NEW p \in Process, NEW l \in Leaf, ReturnStored(p, l)
        PROVE  Keys!Next
    <3> DEFINE new == [leaf |-> l, digest |-> entries[p][l].digest,
                       whole |-> entries[p][l].whole]
    <3>1. new \in Record /\ new.leaf = l
      BY <1>2, <2>2 DEF ReturnStored, IInv, TypeOK, Entry, Record
    <3>2. released' = released \cup {new} /\ UNCHANGED file
      BY <2>2 DEF ReturnStored
    <3> QED
      BY <1>2, <3>1, <3>2, ReleaseStep DEF Keys!Next
  <2>3. ASSUME NEW p \in Process, ReturnSigned(p)
        PROVE  Keys!Next
    <3> DEFINE new == [leaf |-> request[p].leaf, digest |-> request[p].digest,
                       whole |-> TRUE]
    <3>1. request[p] \in Request
      BY <1>2, <2>3 DEF ReturnSigned, IInv, TypeOK
    <3>2. new \in Record /\ new.leaf \in Leaf
      BY <3>1 DEF Request, Record
    <3>3. released' = released \cup {new} /\ UNCHANGED file
      BY <2>3 DEF ReturnSigned
    <3> QED
      BY <1>2, <3>2, <3>3, ReleaseStep DEF Keys!Next
  <2>4. Next => \/ UNCHANGED released
                \/ \E p \in Process, l \in Leaf : ReturnStored(p, l)
                \/ \E p \in Process : ReturnSigned(p)
    BY DEF Next, Open, Sign, WriteLine, WriteFails, SyncAll, SyncFails, End, PowerLoss
  <2>5. UNCHANGED vars => UNCHANGED released
    BY DEF vars
  <2> QED
    BY <1>2, <2>1, <2>2, <2>3, <2>4, <2>5
<1> QED
  BY <1>1, <1>2, InvariantHolds, PTL DEF Spec, ImplementsOneTimeKey, Keys!Spec

=============================================================================

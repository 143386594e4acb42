---------------------------- MODULE SpendJournal ----------------------------
(***************************************************************************)
(* The spend journal of the LMS wallet (lms-wallet/src/journal.rs):        *)
(* FileJournal, an append-only file with an in-memory copy, and sign_once, *)
(* the only route to a one-time signature.                                 *)
(*                                                                         *)
(* Any number of wallet processes use one journal file.  A process opens   *)
(* the file, answers sign_once calls one at a time and ends.  The          *)
(* environment may kill a process, fail or cut short a write, fail an      *)
(* fsync, or cut the power of the machine.  Which of these may happen in   *)
(* an execution is chosen at its start, from the combinations FaultSets.   *)
(***************************************************************************)
EXTENDS Naturals, Sequences

CONSTANTS
    Process,    \* wallet processes sharing the journal file
    Leaf,       \* LeafId: a vault id and a leaf number, i.e. a one-time key
    Digest,     \* binding digests a leaf may be asked to sign
    FaultSets,  \* the combinations of faults an execution may meet
    MaxWrites,  \* bound: writes that reach the file
    None        \* absence of an entry or of a request

FaultKind == {"kill", "write_error", "sync_error", "power"}

(***************************************************************************)
(* How much of the bytes of one record write reached the file:             *)
(*   "line"   all of them, the newline included                            *)
(*   "full"   everything except the newline                                *)
(*   "sig"    cut inside the signature, leaving a non-empty even number of *)
(*            hex digits, which parse_line accepts                         *)
(*   "head"   cut inside the vault id after an even number of hex digits   *)
(*   "other"  cut anywhere else                                            *)
(***************************************************************************)
Cut == {"line", "full", "sig", "head", "other"}

Request == [leaf: Leaf, digest: Digest]
Write   == [leaf: Leaf, digest: Digest, cut: Cut]
Entry   == [digest: Digest, whole: BOOLEAN]
Record  == [leaf: Leaf, digest: Digest, whole: BOOLEAN]

ASSUME FaultsAssumption == FaultSets \subseteq SUBSET FaultKind
ASSUME BoundAssumption  == MaxWrites \in Nat
ASSUME NoneAssumption   == None \notin Entry /\ None \notin Request

VARIABLES
    faults,   \* the faults this execution may meet
    file,     \* the journal file: the writes that reached it, in file order
    synced,   \* how many of those writes are known to be on the disk
    pc,       \* pc[p]: where process p is
    request,  \* request[p]: the sign_once call p is executing
    entries,  \* entries[p]: p's in-memory copy of the journal
    released  \* what sign_once has returned to its callers, ever

vars == <<faults, file, synced, pc, request, entries, released>>

-----------------------------------------------------------------------------
(***************************************************************************)
(* Reading the file.  A write starts a text line when it is the first one  *)
(* or follows a newline; otherwise its bytes continue the line before it.  *)
(***************************************************************************)
StartsLine(f, i) == i = 1 \/ f[i - 1].cut = "line"

\* Every line parses, so open succeeds.  A line that starts with enough of a
\* record stays parseable only if what was glued to it is more hex digits.
Loadable(f) ==
    \A i \in 1..Len(f) :
        IF StartsLine(f, i) THEN f[i].cut \in {"line", "full", "sig"}
                            ELSE f[i].cut = "head"

LinesOf(f, l) == {i \in 1..Len(f) : f[i].leaf = l /\ StartsLine(f, i)}

\* The last of a set of positions, as a set of one or no elements.
Last(S) == {i \in S : \A j \in S : j <= i}

\* Seeded fault: the first line for a leaf wins instead of the last.
Loaded_FirstLineWins(f, l) ==
    LET first == {i \in LinesOf(f, l) : \A j \in LinesOf(f, l) : i <= j}
        i     == CHOOSE j \in first : TRUE
    IN  IF first = {}
        THEN None
        ELSE [digest |-> f[i].digest,
              whole  |-> f[i].cut = "line" \/ (f[i].cut = "full" /\ i = Len(f))]

\* The entry open builds for a leaf: entries.insert lets the last line win,
\* and parse_line does not check the length of the signature.
Loaded(f, l) ==
    LET last == Last(LinesOf(f, l))
        i    == CHOOSE j \in last : TRUE
    IN  IF last = {}
        THEN None
        ELSE [digest |-> f[i].digest,
              whole  |-> f[i].cut = "line" \/ (f[i].cut = "full" /\ i = Len(f))]

-----------------------------------------------------------------------------
(***************************************************************************)
(* What a power cut leaves of the file: everything synced, and any prefix  *)
(* of the bytes after that.                                                *)
(***************************************************************************)
ShorterCut(c) ==
    CASE c = "line" -> {"full", "sig", "head", "other"}
      [] c \in {"full", "sig"} -> {"sig", "head", "other"}
      [] OTHER -> {"head", "other"}

PowerLossLeaves(f) ==
    {SubSeq(f, 1, n) : n \in synced..Len(f)} \cup
    UNION {{Append(SubSeq(f, 1, n), [f[n + 1] EXCEPT !.cut = c]) :
                c \in ShorterCut(f[n + 1].cut)} : n \in synced..(Len(f) - 1)}

-----------------------------------------------------------------------------
TypeOK ==
    /\ faults \in FaultSets
    /\ file \in Seq(Write)
    /\ synced \in 0..Len(file)
    /\ pc \in [Process -> {"closed", "ready", "signed", "written", "synced"}]
    /\ request \in [Process -> Request \cup {None}]
    /\ \A p \in Process :
          request[p] # None <=> pc[p] \in {"signed", "written", "synced"}
    /\ entries \in [Process -> [Leaf -> Entry \cup {None}]]
    /\ released \subseteq Record

Init ==
    /\ faults \in FaultSets
    /\ file = <<>>
    /\ synced = 0
    /\ pc = [p \in Process |-> "closed"]
    /\ request = [p \in Process |-> None]
    /\ entries = [p \in Process |-> [l \in Leaf |-> None]]
    /\ released = {}

\* The put in progress ends with an error and sign_once passes it on.
PutFails(p) ==
    /\ pc' = [pc EXCEPT ![p] = "ready"]
    /\ request' = [request EXCEPT ![p] = None]

\* FileJournal::open.  On an unreadable line it fails and nothing changes.
Open(p) ==
    /\ pc[p] = "closed"
    /\ Loadable(file)
    /\ pc' = [pc EXCEPT ![p] = "ready"]
    /\ entries' = [entries EXCEPT ![p] = [l \in Leaf |-> Loaded(file, l)]]
    /\ UNCHANGED <<faults, file, synced, request, released>>

\* sign_once on a leaf that has signed this digest: the stored record.
ReturnStored(p, l) ==
    LET e == entries[p][l]
    IN  /\ pc[p] = "ready"
        /\ e # None
        /\ released' = released \cup
               {[leaf |-> l, digest |-> e.digest, whole |-> e.whole]}
        /\ UNCHANGED <<faults, file, synced, pc, request, entries>>

\* Seeded fault: sign_once does not look the leaf up first.
Sign_WithoutLookup(p, l, d) ==
    /\ pc[p] = "ready"
    /\ pc' = [pc EXCEPT ![p] = "signed"]
    /\ request' = [request EXCEPT ![p] = [leaf |-> l, digest |-> d]]
    /\ UNCHANGED <<faults, file, synced, entries, released>>

\* Seeded fault: the in-memory copy is updated before the file.
Sign_RemembersAtOnce(p, l, d) ==
    /\ pc[p] = "ready"
    /\ entries[p][l] = None
    /\ entries' = [entries EXCEPT ![p][l] = [digest |-> d, whole |-> TRUE]]
    /\ pc' = [pc EXCEPT ![p] = "signed"]
    /\ request' = [request EXCEPT ![p] = [leaf |-> l, digest |-> d]]
    /\ UNCHANGED <<faults, file, synced, released>>

\* sign_once on a leaf without a record: the key signs, put is next.
Sign(p, l, d) ==
    /\ pc[p] = "ready"
    /\ entries[p][l] = None
    /\ pc' = [pc EXCEPT ![p] = "signed"]
    /\ request' = [request EXCEPT ![p] = [leaf |-> l, digest |-> d]]
    /\ UNCHANGED <<faults, file, synced, entries, released>>

\* put: the write_all call, to a file opened for appending.
WriteLine(p) ==
    /\ pc[p] = "signed"
    /\ Len(file) < MaxWrites
    /\ file' = Append(file, [leaf   |-> request[p].leaf,
                             digest |-> request[p].digest,
                             cut    |-> "line"])
    /\ pc' = [pc EXCEPT ![p] = "written"]
    /\ UNCHANGED <<faults, synced, request, entries, released>>

\* put: open or write_all fails, with nothing or some bytes in the file.
WriteFails(p) ==
    /\ "write_error" \in faults
    /\ pc[p] = "signed"
    /\ \/ UNCHANGED file
       \/ \E c \in ShorterCut("line") :
            /\ Len(file) < MaxWrites
            /\ file' = Append(file, [leaf   |-> request[p].leaf,
                                     digest |-> request[p].digest,
                                     cut    |-> c])
    /\ PutFails(p)
    /\ UNCHANGED <<faults, synced, entries, released>>

\* Seeded fault: the write is handed to the system and not synced.
SyncAll_FlushesOnly(p) ==
    /\ pc[p] = "written"
    /\ pc' = [pc EXCEPT ![p] = "synced"]
    /\ UNCHANGED <<faults, file, synced, request, entries, released>>

\* put: sync_all makes the whole file durable.
SyncAll(p) ==
    /\ pc[p] = "written"
    /\ synced' = Len(file)
    /\ pc' = [pc EXCEPT ![p] = "synced"]
    /\ UNCHANGED <<faults, file, request, entries, released>>

\* put: sync_all fails; the written line stays in the file.
SyncFails(p) ==
    /\ "sync_error" \in faults
    /\ pc[p] = "written"
    /\ PutFails(p)
    /\ UNCHANGED <<faults, file, synced, entries, released>>

\* Seeded fault: the call stays in hand after sign_once has returned.
ReturnSigned_KeepsCall(p) ==
    LET r == request[p]
    IN  /\ pc[p] = "synced"
        /\ entries' = [entries EXCEPT ![p][r.leaf] =
               [digest |-> r.digest, whole |-> TRUE]]
        /\ released' = released \cup
               {[leaf |-> r.leaf, digest |-> r.digest, whole |-> TRUE]}
        /\ pc' = [pc EXCEPT ![p] = "ready"]
        /\ UNCHANGED <<faults, file, synced, request>>

\* put updates the in-memory copy and sign_once returns the signature.
ReturnSigned(p) ==
    LET r == request[p]
    IN  /\ pc[p] = "synced"
        /\ entries' = [entries EXCEPT ![p][r.leaf] =
               [digest |-> r.digest, whole |-> TRUE]]
        /\ released' = released \cup
               {[leaf |-> r.leaf, digest |-> r.digest, whole |-> TRUE]}
        /\ pc' = [pc EXCEPT ![p] = "ready"]
        /\ request' = [request EXCEPT ![p] = None]
        /\ UNCHANGED <<faults, file, synced>>

\* The process ends: of its own accord between calls, by a kill anywhere.
End(p) ==
    /\ pc[p] # "closed"
    /\ pc[p] = "ready" \/ "kill" \in faults
    /\ pc' = [pc EXCEPT ![p] = "closed"]
    /\ request' = [request EXCEPT ![p] = None]
    /\ entries' = [entries EXCEPT ![p] = [l \in Leaf |-> None]]
    /\ UNCHANGED <<faults, file, synced, released>>

\* Power is lost: every process ends and unsynced bytes may be gone.
PowerLoss ==
    /\ "power" \in faults
    /\ file' \in PowerLossLeaves(file)
    /\ synced' = Len(file')
    /\ pc' = [p \in Process |-> "closed"]
    /\ request' = [p \in Process |-> None]
    /\ entries' = [p \in Process |-> [l \in Leaf |-> None]]
    /\ UNCHANGED <<faults, released>>

Next ==
    \/ \E p \in Process :
        \/ Open(p)
        \/ \E l \in Leaf : ReturnStored(p, l)
        \/ \E l \in Leaf, d \in Digest : Sign(p, l, d)
        \/ WriteLine(p) \/ WriteFails(p)
        \/ SyncAll(p) \/ SyncFails(p)
        \/ ReturnSigned(p)
        \/ End(p)
    \/ PowerLoss

Spec == Init /\ [][Next]_vars

-----------------------------------------------------------------------------
(***************************************************************************)
(* Properties.                                                             *)
(***************************************************************************)

\* A one-time key signs once: no two signatures sign_once ever returned for
\* one leaf cover different digests, whatever was restarted in between.
SignOnce ==
    \A r, s \in released : r.leaf = s.leaf => r.digest = s.digest

\* The files a process may find when it next opens the journal.
FilesAfterRestart ==
    {file} \cup (IF "power" \in faults THEN PowerLossLeaves(file) ELSE {})

\* "Durable before the signature escapes": whatever file the next process
\* finds, open either refuses it or reports every returned signature's digest
\* as the one its leaf has signed.
RecordedBeforeRelease ==
    \A r \in released, f \in FilesAfterRestart :
        Loadable(f) => /\ Loaded(f, r.leaf) # None
                       /\ Loaded(f, r.leaf).digest = r.digest

\* The in-memory copy never promises more than the file: an entry a process
\* answers from is the entry another open of the file would produce.
MemoryMatchesFile ==
    \A p \in Process, l \in Leaf :
        entries[p][l] # None /\ Loadable(file) =>
            /\ Loaded(file, l) # None
            /\ Loaded(file, l).digest = entries[p][l].digest

\* The digest file f holds for a leaf: that of its last write, legible or
\* not, unless so little of it was written that no digest was.
BoundDigest(f, l) ==
    LET last == Last({i \in 1..Len(f) :
                        f[i].leaf = l /\ f[i].cut # "head"})
    IN  IF last = {} THEN None ELSE f[CHOOSE i \in last : TRUE].digest

\* The journal implements the one-time key: what the file holds for a leaf is
\* the binding, what sign_once returns is what is given away.
Keys == INSTANCE OneTimeKey WITH
            bound    <- [l \in Leaf |-> BoundDigest(file, l)],
            released <- {<<r.leaf, r.digest>> : r \in released}

ImplementsOneTimeKey == Keys!Spec

=============================================================================

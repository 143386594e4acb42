----------------------------- MODULE OneTimeKey -----------------------------
(***************************************************************************)
(* What a wallet promises of its one-time keys, without files, processes   *)
(* or faults: a leaf is bound to a digest before a signature over that     *)
(* digest is given away, and from the first time one is given away the     *)
(* binding never changes.  Until then it may come and go, as it does when  *)
(* a record is written, lost in a crash and written again.                 *)
(***************************************************************************)
CONSTANTS Leaf, Digest, None

VARIABLES
    bound,     \* bound[l]: the digest leaf l is bound to, or None
    released   \* the pairs <<leaf, digest>> signatures were given away for

vars == <<bound, released>>

Used(l) == \E d \in Digest : <<l, d>> \in released

Init ==
    /\ bound = [l \in Leaf |-> None]
    /\ released = {}

\* Bindings of unused leaves change; those of used ones stay.
Rebind ==
    /\ bound' \in [Leaf -> Digest \cup {None}]
    /\ \A l \in Leaf : Used(l) => bound'[l] = bound[l]
    /\ UNCHANGED released

\* A signature over the bound digest is given away.
Release(l) ==
    /\ bound[l] \in Digest
    /\ released' = released \cup {<<l, bound[l]>>}
    /\ UNCHANGED bound

Next == Rebind \/ \E l \in Leaf : Release(l)

Spec == Init /\ [][Next]_vars

=============================================================================

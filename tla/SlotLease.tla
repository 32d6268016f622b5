------------------------------ MODULE SlotLease ------------------------------
(***************************************************************************)
(* What the gReadStreams pool promises, stated without streams or threads' *)
(* program counters: each slot is free or leased to exactly one holder, a  *)
(* request thread or the request queue (a handed-off download waiting for  *)
(* a worker); a lease is taken only on a free slot, passed only between    *)
(* holders, and a request thread never leases two slots at once.           *)
(***************************************************************************)
EXTENDS FiniteSets

CONSTANTS
    Slots,      \* the slots of the pool
    Threads,    \* request threads
    Queued,     \* the request queue, as holder of handed-off downloads
    Free        \* a slot no one holds

Holders == Threads \cup {Queued}

VARIABLE lease

LeasedBy(h) == {s \in Slots : lease[s] = h}

\* Only the request queue holds several slots at once.
Unleased(h) == h = Queued \/ LeasedBy(h) = {}

Init == lease = [s \in Slots |-> Free]

Acquire(h, s) ==
    /\ lease[s] = Free /\ h \in Threads /\ Unleased(h)
    /\ lease' = [lease EXCEPT ![s] = h]

Release(h, s) ==
    /\ lease[s] = h
    /\ lease' = [lease EXCEPT ![s] = Free]

Pass(h, g, s) ==
    /\ lease[s] = h /\ g \in Holders \ {h} /\ Unleased(g)
    /\ lease' = [lease EXCEPT ![s] = g]

Next ==
    \E s \in Slots, h \in Holders :
        \/ Acquire(h, s)
        \/ Release(h, s)
        \/ \E g \in Holders : Pass(h, g, s)

Spec == Init /\ [][Next]_lease
=============================================================================

----------------------------- MODULE GpuLeases -----------------------------
(***************************************************************************)
(* What the arbiter promises its workers, and nothing of how: a lease is   *)
(* granted only when all its models are resident, and they stay resident   *)
(* until it is released.  VramArbiter implements this specification.       *)
(***************************************************************************)
CONSTANTS Jobs, Models, NoLease

VARIABLES
    lease,      \* lease[j]: the models job j's lease covers, or NoLease
    resident    \* the models in GPU memory

Covered == UNION {lease[j] : j \in {k \in Jobs : lease[k] # NoLease}}

Init ==
    /\ lease = [j \in Jobs |-> NoLease]
    /\ resident = {}

Load(m) ==
    /\ resident' = resident \cup {m}
    /\ UNCHANGED lease

\* Only a model that no lease covers may leave the card.
Evict(m) ==
    /\ m \in resident \ Covered
    /\ resident' = resident \ {m}
    /\ UNCHANGED lease

Grant(j, S) ==
    /\ lease[j] = NoLease
    /\ S \subseteq resident
    /\ lease' = [lease EXCEPT ![j] = S]
    /\ UNCHANGED resident

Release(j) ==
    /\ lease[j] # NoLease
    /\ lease' = [lease EXCEPT ![j] = NoLease]
    /\ UNCHANGED resident

\* A worker rebuilds processors of its own under its lease and loses the
\* models H with them; no other lease covers any of H.
Recreate(j, H) ==
    /\ lease[j] # NoLease
    /\ \A k \in Jobs \ {j} : lease[k] # NoLease => lease[k] \cap H = {}
    /\ lease' = [lease EXCEPT ![j] = @ \ H]
    /\ resident' = resident \ H

Next ==
    \/ \E m \in Models : Load(m) \/ Evict(m)
    \/ \E j \in Jobs : Release(j) \/ \E S \in SUBSET Models : Grant(j, S) \/ Recreate(j, S)

Spec == Init /\ [][Next]_<<lease, resident>>

\* Whatever a lease covers is in GPU memory.
LeasedIsResident == Covered \subseteq resident
=============================================================================

----------------------------- MODULE VramBudget -----------------------------
(***************************************************************************)
(* The fit arithmetic of one admission decision                            *)
(* (orchestrator/vram_budget.py).  A budget is the immutable record        *)
(* VramBudget: what the driver reports and what the arbiter accounts.      *)
(* All byte counts are natural numbers; Python integers do not overflow.   *)
(***************************************************************************)
EXTENDS Integers

Budgets == [total: Nat, free: Nat, resident: Nat, reservedTransient: Nat, headroom: Nat]

ClampAtZero(n) == IF n < 0 THEN 0 ELSE n

\* Our own view of what is left, from the model estimates and the leases.
ByAccounting(b) == b.total - b.resident - b.reservedTransient

Pessimistic(b) == IF b.free < ByAccounting(b) THEN b.free ELSE ByAccounting(b)

\* Mutated form: no headroom.
AvailableIgnoringHeadroom(b) == ClampAtZero(Pessimistic(b))

Available(b) == ClampAtZero(Pessimistic(b) - b.headroom)

CanFit(b, need) == need <= Available(b)

\* Mutated form: compares with the free bytes and forgets the headroom.
ShortfallOfPessimistic(b, need) == ClampAtZero(need - Pessimistic(b))

Shortfall(b, need) == ClampAtZero(need - Available(b))

(***************************************************************************)
(* Reference meaning.  A need oversubscribes the card when either view     *)
(* says that, with it, less than the headroom would be left.               *)
(***************************************************************************)
Oversubscribes(b, need) ==
    \/ b.free - need < b.headroom
    \/ b.total - b.resident - b.reservedTransient - need < b.headroom

\* The budget after unloading models worth `freed` bytes: both views gain them.
AfterFreeing(b, freed) == [b EXCEPT !.free = @ + freed, !.resident = @ - freed]

\* Over-committed already: even nothing at all does not fit within the headroom.
OverCommitted(b) == Pessimistic(b) < b.headroom
=============================================================================

----------------------------- MODULE MCRoomPlan -----------------------------
(***************************************************************************)
(* One room-making decision over all small inputs: _make_room computes the *)
(* budget's shortfall and lets the policy choose victims among the idle    *)
(* models.  The properties compare the arithmetic and the loop with what   *)
(* they are for.                                                           *)
(***************************************************************************)
EXTENDS VramBudget, EvictionPolicy

CONSTANTS
    MaxCandidates,  \* how many idle models there are at most
    MaxSize,        \* how large one is at most
    MaxAge,         \* distinct last_used values: 0..MaxAge
    CardSize        \* the card's memory

VARIABLES budget, bytes, candidates, victims, decided

Keys == <<"k1", "k2", "k3">>

ASSUME RoomAssumption ==
    /\ MaxCandidates \in 0..Len(Keys)
    /\ MaxSize \in Nat /\ MaxAge \in Nat /\ CardSize \in Nat

CandidateLists ==
    UNION {{[i \in 1..n |-> [key |-> Keys[i], size |-> f[i].size, last_used |-> f[i].last_used]] :
               f \in [1..n -> [size : 1..MaxSize, last_used : 0..MaxAge]]} :
           n \in 0..MaxCandidates}

SizeOf == [i \in DOMAIN candidates |-> candidates[i].size]
AllSize == SumFunction(SizeOf)

Init ==
    /\ candidates \in CandidateLists
    /\ bytes \in 1..(CardSize - 2)
    /\ \E free \in 0..CardSize, pinned \in {0, 2}, leased \in 0..1, headroom \in 0..1 :
          budget = [total |-> CardSize, free |-> free, resident |-> AllSize + pinned,
                    reservedTransient |-> leased, headroom |-> headroom]
    /\ victims = <<>> /\ decided = FALSE

\* The decision of _make_room, without the early return's difference: a need
\* that fits has no shortfall, and no shortfall has no victims.
Decide ==
    /\ ~decided
    /\ victims' = SelectVictims(candidates, Shortfall(budget, bytes))
    /\ decided' = TRUE
    /\ UNCHANGED <<budget, bytes, candidates>>

Next == Decide

Spec == Init /\ [][Next]_<<budget, bytes, candidates, victims, decided>>
-----------------------------------------------------------------------------
Chosen == {i \in DOMAIN candidates : candidates[i].key \in Range(victims)}
Freed(S) == SumFunctionOnSet(SizeOf, S)
Before(i, k) ==
    \/ candidates[i].last_used < candidates[k].last_used
    \/ candidates[i].last_used = candidates[k].last_used /\ i < k
Earlier == [k \in DOMAIN candidates |-> {i \in DOMAIN candidates : Before(i, k)}]

\* The loop of LruEvictionPolicy takes the victims that the arbiter's
\* specification says it takes: oldest first, ties in registration order,
\* until the shortfall is covered (eviction_policy.py:39).
LoopTakesTheOldest ==
    decided => Chosen = Victims(DOMAIN candidates, SizeOf, Shortfall(budget, bytes), Earlier)

\* can_fit admits exactly the needs that keep the headroom on both views, the
\* driver's and the accounting's (vram_budget.py:29 "so we never over-admit").
FitsIffNotOversubscribing ==
    CanFit(budget, bytes) <=> ~Oversubscribes(budget, bytes)

\* When the card is not over-committed already and the idle models are worth
\* the shortfall, evicting the victims makes the need fit.
VictimsMakeRoom ==
    decided /\ ~OverCommitted(budget) /\ AllSize >= Shortfall(budget, bytes)
        => CanFit(AfterFreeing(budget, Freed(Chosen)), bytes)
=============================================================================

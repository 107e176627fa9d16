--------------------------- MODULE EvictionPolicy ---------------------------
(***************************************************************************)
(* The choice of eviction victims (orchestrator/eviction_policy.py).       *)
(* SelectVictims is the loop of LruEvictionPolicy; Victims says which      *)
(* candidates it takes as a set, without the loop, and is the form the     *)
(* arbiter's specification uses.                                           *)
(***************************************************************************)
EXTENDS Integers, Sequences, SequencesExt

\* Mutated form: forgets the sort and takes the candidates as registered.
SortedAsRegistered(candidates) == candidates

(***************************************************************************)
(* The stable sort by last_used: a candidate goes before another when it   *)
(* was used earlier, or at the same time and stands earlier in the input.  *)
(***************************************************************************)
SortedByLastUsed(candidates) ==
    LET Before(i, k) ==
            \/ candidates[i].last_used < candidates[k].last_used
            \/ candidates[i].last_used = candidates[k].last_used /\ i < k
        Ahead(i) == {k \in DOMAIN candidates : Before(k, i)}
    IN  [n \in DOMAIN candidates |->
            candidates[CHOOSE i \in DOMAIN candidates : Cardinality(Ahead(i)) = n - 1]]

\* One turn of the loop over the sorted candidates.
TakeUntilCovered(shortfall, state, candidate) ==
    IF state.freed >= shortfall
    THEN state
    ELSE [victims |-> Append(state.victims, candidate.key),
          freed   |-> state.freed + candidate.size]

SelectVictims(candidates, shortfall) ==
    IF shortfall <= 0
    THEN <<>>
    ELSE FoldLeft(LAMBDA state, c : TakeUntilCovered(shortfall, state, c),
                  [victims |-> <<>>, freed |-> 0],
                  SortedByLastUsed(candidates)).victims

(***************************************************************************)
(* The same choice as a set: candidate c is a victim exactly when those    *)
(* that go before it, earlier[c], do not already cover the shortfall.      *)
(***************************************************************************)
Victims(candidates, size, shortfall, earlier) ==
    {c \in candidates : SumFunctionOnSet(size, earlier[c]) < shortfall}
=============================================================================

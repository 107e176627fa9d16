--------------------------- MODULE DecisionsProofs ---------------------------
(***************************************************************************)
(* The decisions of module MCDecisions for every card, every size of the   *)
(* co-residents and every headroom: the whisper model that runs fits, a    *)
(* need is admitted exactly when both views of the card keep the headroom, *)
(* and the policy's loop takes the oldest models and enough of them.       *)
(***************************************************************************)
EXTENDS MCDecisions, VramBudgetProofs

(* The catalogue of whisper models *)

LEMMA Ranks ==
  /\ Models = {"tiny", "tiny_en", "base", "small", "medium", "large", "large_v3"}
  /\ WHISPER_MODEL_RANK["tiny"] = 1 /\ WHISPER_MODEL_RANK["tiny_en"] = 1
  /\ WHISPER_MODEL_RANK["base"] = 2 /\ WHISPER_MODEL_RANK["small"] = 3
  /\ WHISPER_MODEL_RANK["medium"] = 4 /\ WHISPER_MODEL_RANK["large"] = 5
  /\ WHISPER_MODEL_RANK["large_v3"] = 5
BY DEF Models, WHISPER_MODEL_RANK

LEMMA Sizes ==
  /\ WHISPER_MODEL_VRAM_GB["tiny"] = 5 /\ WHISPER_MODEL_VRAM_GB["tiny_en"] = 5
  /\ WHISPER_MODEL_VRAM_GB["base"] = 7 /\ WHISPER_MODEL_VRAM_GB["small"] = 12
  /\ WHISPER_MODEL_VRAM_GB["medium"] = 25 /\ WHISPER_MODEL_VRAM_GB["large"] = 30
  /\ WHISPER_MODEL_VRAM_GB["large_v3"] = 30
BY DEF WHISPER_MODEL_VRAM_GB

\* A model of a lower rank is no larger, and each rank has a preferred model.
LEMMA RanksOrderSizes ==
  /\ \A m \in Models : WHISPER_MODEL_RANK[m] \in 1..5 /\ WHISPER_MODEL_VRAM_GB[m] \in Nat
  /\ \A m, n \in Models :
        WHISPER_MODEL_RANK[m] <= WHISPER_MODEL_RANK[n]
            => WHISPER_MODEL_VRAM_GB[m] <= WHISPER_MODEL_VRAM_GB[n]
<1>1. \A m \in Models : /\ WHISPER_MODEL_RANK[m] \in 1..5 /\ WHISPER_MODEL_VRAM_GB[m] \in Nat
  BY Ranks, Sizes
<1>2. \A m, n \in Models :
        WHISPER_MODEL_RANK[m] <= WHISPER_MODEL_RANK[n]
            => WHISPER_MODEL_VRAM_GB[m] <= WHISPER_MODEL_VRAM_GB[n]
  BY Ranks, Sizes
<1> QED BY <1>1, <1>2

LEMMA PreferredHasItsRank ==
  \A r \in 1..5 : /\ PREFERRED_BY_RANK[r] \in Models
                  /\ WHISPER_MODEL_RANK[PREFERRED_BY_RANK[r]] = r
<1>1. /\ PREFERRED_BY_RANK[1] = "tiny" /\ PREFERRED_BY_RANK[2] = "base"
      /\ PREFERRED_BY_RANK[3] = "small" /\ PREFERRED_BY_RANK[4] = "medium"
      /\ PREFERRED_BY_RANK[5] = "large_v3"
  BY DEF PREFERRED_BY_RANK
<1>2. \A r \in 1..5 : r = 1 \/ r = 2 \/ r = 3 \/ r = 4 \/ r = 5
  OBVIOUS
<1> QED BY <1>1, <1>2, Ranks

LEMMA MaxOfRanks ==
  ASSUME NEW S \in SUBSET (1..5), S # {}
  PROVE  Max(S) \in S /\ \A r \in S : r <= Max(S)
<1>1. \E x \in S : \A y \in S : x >= y
  <2>1. \A r \in S : r = 1 \/ r = 2 \/ r = 3 \/ r = 4 \/ r = 5
    OBVIOUS
  <2>2. CASE 5 \in S
    BY <2>1, <2>2
  <2>3. CASE 4 \in S /\ 5 \notin S
    BY <2>1, <2>3
  <2>4. CASE 3 \in S /\ 4 \notin S /\ 5 \notin S
    BY <2>1, <2>4
  <2>5. CASE 2 \in S /\ 3 \notin S /\ 4 \notin S /\ 5 \notin S
    BY <2>1, <2>5
  <2>6. CASE 2 \notin S /\ 3 \notin S /\ 4 \notin S /\ 5 \notin S
    <3>1. \A r \in S : r = 1
      BY <2>1, <2>6
    <3>2. PICK r \in S : TRUE
      OBVIOUS
    <3>3. \A y \in S : r >= y
      BY <3>1
    <3> QED BY <3>3
  <2> QED BY <2>2, <2>3, <2>4, <2>5, <2>6
<1> QED BY <1>1 DEF Max
-----------------------------------------------------------------------------
(* The ceiling and what runs under it *)

\* The largest fitting model is of the highest rank that fits, and fits when any
\* model does.
LEMMA LargestFits ==
  ASSUME NEW total \in Int, NEW coresident \in Nat, NEW headroom \in Nat
  PROVE  LET budget_ == total - coresident - headroom
             largest == LargestFittingModel(total, coresident, headroom)
         IN  /\ largest \in Models
             /\ \A m \in Models : WHISPER_MODEL_VRAM_GB[m] <= budget_
                    => /\ WHISPER_MODEL_RANK[m] <= WHISPER_MODEL_RANK[largest]
                       /\ WHISPER_MODEL_VRAM_GB[largest] <= budget_
<1> DEFINE room == total - coresident - headroom
           fitting == {WHISPER_MODEL_RANK[m] :
                          m \in {n \in Models : WHISPER_MODEL_VRAM_GB[n] <= room}}
           ranks == fitting \cup {1}
           largest == LargestFittingModel(total, coresident, headroom)
<1>1. ranks \in SUBSET (1..5) /\ ranks # {}
  BY RanksOrderSizes
<1>2. Max(ranks) \in ranks /\ \A r \in ranks : r <= Max(ranks)
  <2> HIDE DEF ranks
  <2> QED BY <1>1, MaxOfRanks
<1>3. largest = PREFERRED_BY_RANK[Max(ranks)]
  BY DEF LargestFittingModel
<1>4. Max(ranks) \in 1..5
  BY <1>1, <1>2
<1>5. largest \in Models /\ WHISPER_MODEL_RANK[largest] = Max(ranks)
  <2> HIDE DEF ranks, largest
  <2> QED BY <1>3, <1>4, PreferredHasItsRank
<1>6. ASSUME NEW m \in Models, WHISPER_MODEL_VRAM_GB[m] <= room
      PROVE  /\ WHISPER_MODEL_RANK[m] <= WHISPER_MODEL_RANK[largest]
             /\ WHISPER_MODEL_VRAM_GB[largest] <= room
  <2>1. WHISPER_MODEL_RANK[m] \in fitting
    BY <1>6
  <2>2. WHISPER_MODEL_RANK[m] <= WHISPER_MODEL_RANK[largest]
    <3> HIDE DEF largest, fitting
    <3> QED BY <1>2, <1>5, <2>1
  <2>3. PICK n \in Models :
            /\ WHISPER_MODEL_VRAM_GB[n] <= room
            /\ WHISPER_MODEL_RANK[largest] <= WHISPER_MODEL_RANK[n]
    <3>1. CASE Max(ranks) \in fitting
      <4>1. PICK n \in Models : WHISPER_MODEL_VRAM_GB[n] <= room /\ WHISPER_MODEL_RANK[n] = Max(ranks)
        BY <3>1
      <4> HIDE DEF ranks, largest, room
      <4> QED BY <1>5, <4>1, RanksOrderSizes
    <3>2. CASE Max(ranks) = 1
      <4> HIDE DEF ranks, largest, room
      <4> QED BY <1>5, <1>6, <3>2, RanksOrderSizes
    <3> HIDE DEF fitting
    <3> QED BY <1>2, <3>1, <3>2
  <2>4. WHISPER_MODEL_VRAM_GB[largest] <= WHISPER_MODEL_VRAM_GB[n]
    <3> HIDE DEF largest
    <3> QED BY <1>5, <2>3, RanksOrderSizes
  <2>5. room \in Int /\ WHISPER_MODEL_VRAM_GB[largest] \in Nat /\ WHISPER_MODEL_VRAM_GB[n] \in Nat
    <3> HIDE DEF largest
    <3> QED BY <1>5, RanksOrderSizes
  <2> HIDE DEF largest, room
  <2> QED BY <2>2, <2>3, <2>4, <2>5
<1> HIDE DEF largest
<1> QED BY <1>5, <1>6 DEF largest

\* What a request gets is of no higher rank than the ceiling, and what it asks for
\* when that is.
LEMMA ResolvedIsCapped ==
  ASSUME NEW ceiling \in Models, NEW requested
  PROVE  LET run == ResolveEffective(requested, ceiling)
         IN  /\ run \in Models
             /\ WHISPER_MODEL_RANK[run] <= WHISPER_MODEL_RANK[ceiling]
             /\ requested \in Models /\ WHISPER_MODEL_RANK[requested] <= WHISPER_MODEL_RANK[ceiling]
                    => run = requested
BY RanksOrderSizes DEF ResolveEffective

LEMMA AskedFits == ASSUME ask \in Asks PROVE WhisperFits
<1> DEFINE c == ask.configured
           q == ask.requested
           room == ask.total - ask.coresident - ask.headroom
           largest == LargestFittingModel(ask.total, ask.coresident, ask.headroom)
<1>1. /\ c \in Models /\ ask.total \in Int /\ ask.coresident \in Nat /\ ask.headroom \in Nat
  <2>1. /\ ask.configured \in Models /\ ask.total \in CardSizes
        /\ ask.coresident \in Coresidents /\ ask.headroom \in Headrooms
    <3> HIDE DEF c, q, room, largest
    <3> QED BY DEF Asks
  <2>2. ask.total \in Int /\ ask.coresident \in Nat /\ ask.headroom \in Nat
    <3> HIDE DEF c, q, room, largest
    <3>1. ask.total \in Nat \cup {Undetected} /\ ask.coresident \in Nat /\ ask.headroom \in Nat
      BY <2>1, AskAssumption
    <3>2. Nat \cup {Undetected} \subseteq Int
      BY DEF Undetected
    <3> QED BY <3>1, <3>2
  <2> QED BY <2>1, <2>2
<1>2. /\ largest \in Models
      /\ \A m \in Models : WHISPER_MODEL_VRAM_GB[m] <= room
             => /\ WHISPER_MODEL_RANK[m] <= WHISPER_MODEL_RANK[largest]
                /\ WHISPER_MODEL_VRAM_GB[largest] <= room
  BY <1>1, LargestFits
<1>3. \A m \in Models : RoomBeside(m) <=> WHISPER_MODEL_VRAM_GB[m] <= room
  BY <1>1, RanksOrderSizes DEF RoomBeside
<1>4. Ceiling = IF ask.total = Undetected THEN c ELSE ResolveEffective(c, largest)
  BY DEF Ceiling, HardwareCeiling
<1> HIDE DEF c, q, room, largest
<1>5. /\ Ceiling \in Models
      /\ WHISPER_MODEL_RANK[Ceiling] <= WHISPER_MODEL_RANK[c]
      /\ ask.total # Undetected => WHISPER_MODEL_RANK[Ceiling] <= WHISPER_MODEL_RANK[largest]
      /\ \A m \in Models :
            /\ WHISPER_MODEL_RANK[m] <= WHISPER_MODEL_RANK[c]
            /\ ask.total = Undetected \/ WHISPER_MODEL_RANK[m] <= WHISPER_MODEL_RANK[largest]
            => WHISPER_MODEL_RANK[m] <= WHISPER_MODEL_RANK[Ceiling]
  BY <1>1, <1>2, <1>4, RanksOrderSizes DEF ResolveEffective
<1>6. /\ Run \in Models
      /\ WHISPER_MODEL_RANK[Run] <= WHISPER_MODEL_RANK[Ceiling]
      /\ q \in Models /\ WHISPER_MODEL_RANK[q] <= WHISPER_MODEL_RANK[Ceiling] => Run = q
  BY <1>5, ResolvedIsCapped DEF Run, q
<1>7. WHISPER_MODEL_VRAM_GB[Run] <= WHISPER_MODEL_VRAM_GB[c]
  BY <1>1, <1>5, <1>6, RanksOrderSizes
<1>8. ask.total # Undetected /\ RoomBeside("tiny") => RoomBeside(Run)
  <2> SUFFICES ASSUME ask.total # Undetected, RoomBeside("tiny") PROVE RoomBeside(Run)
    OBVIOUS
  <2>1. "tiny" \in Models
    BY Ranks
  <2>2. WHISPER_MODEL_VRAM_GB[largest] <= room
    BY <1>2, <1>3, <2>1
  <2>3. WHISPER_MODEL_VRAM_GB[Run] <= WHISPER_MODEL_VRAM_GB[largest]
    BY <1>2, <1>5, <1>6, RanksOrderSizes
  <2>4. room \in Int
    BY <1>1 DEF room
  <2> QED BY <1>2, <1>3, <1>6, <2>2, <2>3, <2>4, RanksOrderSizes
<1>9. ASSUME NEW m \in {q} \cap Models, WHISPER_MODEL_RANK[m] <= WHISPER_MODEL_RANK[c],
             ask.total = Undetected \/ RoomBeside(m)
      PROVE  Run = m
  <2>1. ask.total = Undetected \/ WHISPER_MODEL_RANK[m] <= WHISPER_MODEL_RANK[largest]
    BY <1>2, <1>3, <1>9
  <2> QED BY <1>5, <1>6, <1>9, <2>1
<1> QED BY <1>7, <1>8, <1>9 DEF WhisperFits, c, q

\* Whatever a client asks for and however large the card is, the whisper model
\* that runs is no larger than what the arbiter reserves for whisper, leaves room
\* for the diarization models when any does, and is the one asked for when the
\* configuration and the card allow it (property WhisperFits,
\* whisper_models.py:10).
THEOREM WhisperAlwaysFits == DecisionSpec => []WhisperFits
<1> DEFINE Asked == ask = NoAsk \/ ask \in Asks
<1>1. DecisionInit => Asked
  BY DEF DecisionInit
<1>2. Asked /\ [DecisionNext]_<<budget, bytes, candidates, victims, decided, ask>> => Asked'
  BY DEF DecisionNext
<1>3. Asked => WhisperFits
  BY AskedFits DEF WhisperFits
<1> QED BY <1>1, <1>2, <1>3, PTL DEF DecisionSpec
-----------------------------------------------------------------------------
(* The room plan *)

BudgetInv == budget \in Budgets /\ bytes \in Nat \ {0}

KeyNames == {"k1", "k2", "k3"}

\* The idle models have distinct keys, and are among what the accounting counts
\* as resident.
ListInv ==
    /\ candidates \in Lists(KeyNames)
    /\ \A i, k \in DOMAIN candidates : candidates[i].key = candidates[k].key => i = k
    /\ AllSize <= budget.resident

LEMMA KeysAreDistinct ==
  /\ Len(Keys) = 3
  /\ \A i \in 1..3 : Keys[i] \in KeyNames
  /\ \A i, k \in 1..3 : Keys[i] = Keys[k] => i = k
<1>1. Len(Keys) = 3 /\ Keys[1] = "k1" /\ Keys[2] = "k2" /\ Keys[3] = "k3"
  BY DEF Keys
<1>2. \A i \in 1..3 : i = 1 \/ i = 2 \/ i = 3
  OBVIOUS
<1> QED BY <1>1, <1>2 DEF KeyNames

LEMMA CandidatesAreAList ==
  ASSUME candidates \in CandidateLists
  PROVE  /\ candidates \in Lists(KeyNames)
         /\ \A i, k \in DOMAIN candidates : candidates[i].key = candidates[k].key => i = k
<1>1. PICK n \in 0..MaxCandidates :
          candidates \in {[i \in 1..n |->
              [key |-> Keys[i], size |-> f[i].size, last_used |-> f[i].last_used]] :
                  f \in [1..n -> [size : 1..MaxSize, last_used : 0..MaxAge]]}
  BY DEF CandidateLists
<1>2. PICK f \in [1..n -> [size : 1..MaxSize, last_used : 0..MaxAge]] :
          candidates = [i \in 1..n |->
              [key |-> Keys[i], size |-> f[i].size, last_used |-> f[i].last_used]]
  BY <1>1
<1>3. n \in Nat /\ n <= 3 /\ \A i \in 1..n : i \in 1..3
  BY RoomAssumption, KeysAreDistinct
<1>4. ASSUME NEW i \in 1..n
      PROVE  candidates[i] \in [key : KeyNames, size : Nat, last_used : Int]
  <2>1. f[i].size \in Nat /\ f[i].last_used \in Int
    BY RoomAssumption
  <2>2. Keys[i] \in KeyNames
    BY <1>3, KeysAreDistinct
  <2> QED BY <1>2, <2>1, <2>2
<1>5. candidates \in Lists(KeyNames)
  <2> DEFINE R == [key : KeyNames, size : Nat, last_used : Int]
  <2>1. candidates \in [1..n -> R]
    BY <1>2, <1>4
  <2> HIDE DEF R
  <2>2. candidates \in Seq(R)
    BY <1>3, <2>1, SeqDef
  <2> QED BY <2>2 DEF Lists, R
<1>6. ASSUME NEW i \in DOMAIN candidates, NEW k \in DOMAIN candidates,
             candidates[i].key = candidates[k].key
      PROVE  i = k
  <2>1. i \in 1..n /\ k \in 1..n /\ candidates[i].key = Keys[i] /\ candidates[k].key = Keys[k]
    BY <1>2
  <2> QED BY <1>3, <1>6, <2>1, KeysAreDistinct
<1> QED BY <1>5, <1>6

LEMMA SizesAreThose ==
  /\ SizeOf = SizesIn(candidates) /\ AllSize = SumFunctionOnSet(SizeOf, DOMAIN candidates)
  /\ Earlier = EarlierIn(candidates)
<1>1. SizeOf = SizesIn(candidates)
  BY DEF SizeOf, SizesIn
<1>2. AllSize = SumFunctionOnSet(SizeOf, DOMAIN candidates)
  BY <1>1 DEF AllSize, SumFunction, SizesIn
<1>3. \A k \in DOMAIN candidates :
          {i \in DOMAIN candidates : Before(i, k)} = AheadOf(candidates, k)
  BY DEF Before, AheadOf, GoesBefore
<1>4. Earlier = EarlierIn(candidates)
  BY <1>3 DEF Earlier, EarlierIn
<1> QED BY <1>1, <1>2, <1>4

LEMMA SumsAreSizes ==
  ASSUME candidates \in Lists(KeyNames)
  PROVE  AllSize \in Nat
<1>1. /\ IsFiniteSet(DOMAIN candidates)
      /\ \A i \in DOMAIN candidates : SizeOf[i] \in Nat
  BY ListFacts DEF SizeOf
<1> QED BY <1>1, SizesAreThose, SumIsNat

LEMMA InitialDecisions == DecisionInit => BudgetInv /\ ListInv /\ LoopTakesTheOldest
<1>1. ASSUME Init PROVE BudgetInv /\ ListInv /\ LoopTakesTheOldest
  <2>1. /\ candidates \in Lists(KeyNames)
        /\ \A i, k \in DOMAIN candidates : candidates[i].key = candidates[k].key => i = k
    BY <1>1, CandidatesAreAList DEF Init
  <2>2. AllSize \in Nat
    BY <2>1, SumsAreSizes
  <2>3. PICK free \in 0..CardSize, pinned \in {0, 2}, leased \in 0..1, headroom \in 0..1 :
            budget = [total |-> CardSize, free |-> free, resident |-> AllSize + pinned,
                      reservedTransient |-> leased, headroom |-> headroom]
    BY <1>1 DEF Init
  <2>4. budget \in Budgets
    BY <2>2, <2>3, RoomAssumption DEF Budgets
  <2>5. bytes \in Nat \ {0}
    BY <1>1, RoomAssumption DEF Init
  <2>6. AllSize <= budget.resident
    <3>1. budget.resident = AllSize + pinned
      BY <2>3
    <3> QED BY <2>2, <3>1
  <2>7. ~decided
    BY <1>1 DEF Init
  <2> QED BY <2>1, <2>4, <2>5, <2>6, <2>7 DEF BudgetInv, ListInv, LoopTakesTheOldest
<1>2. ASSUME NothingToEvict PROVE BudgetInv /\ ListInv /\ LoopTakesTheOldest
  <2>1. BudgetInv /\ budget.resident = 0
    BY <1>2, RoomAssumption DEF NothingToEvict, BudgetInv, Budgets
  <2>2. candidates = <<>> /\ <<>> \in Lists(KeyNames) /\ DOMAIN candidates = {}
    BY <1>2, EmptySeq DEF NothingToEvict, Lists
  <2>3. AllSize = 0
    BY <2>2, SizesAreThose, SumOfNone
  <2>4. ListInv
    BY <2>1, <2>2, <2>3 DEF ListInv
  <2>5. LoopTakesTheOldest
    BY <2>2 DEF LoopTakesTheOldest, Chosen, Victims
  <2> QED BY <2>1, <2>4, <2>5
<1> QED BY <1>1, <1>2 DEF DecisionInit

LEMMA ShortfallsAreNat ==
  ASSUME BudgetInv
  PROVE  Shortfall(budget, bytes) \in Nat
<1>1. /\ budget.total \in Nat /\ budget.free \in Nat /\ budget.resident \in Nat
      /\ budget.reservedTransient \in Nat /\ budget.headroom \in Nat /\ bytes \in Nat
  BY DEF BudgetInv, Budgets
<1> QED BY <1>1 DEF Shortfall, Available, Pessimistic, ByAccounting, ClampAtZero

LEMMA DecidingTakesTheOldest ==
  ASSUME BudgetInv, ListInv, Decide
  PROVE  LoopTakesTheOldest'
<1> DEFINE short == Shortfall(budget, bytes)
<1>1. short \in Nat
  BY ShortfallsAreNat
<1>2. /\ victims' = SelectVictims(candidates, short)
      /\ candidates' = candidates /\ budget' = budget /\ bytes' = bytes
  BY DEF Decide
<1>3. {i \in DOMAIN candidates : candidates[i].key \in Range(SelectVictims(candidates, short))}
          = Victims(DOMAIN candidates, SizesIn(candidates), short, EarlierIn(candidates))
  <2> HIDE DEF short
  <2> QED BY <1>1, LoopTakesTheVictims DEF ListInv
<1>4. Chosen' = {i \in DOMAIN candidates : candidates[i].key \in Range(victims')}
  BY <1>2 DEF Chosen
<1>5. Chosen' = Victims(DOMAIN candidates, SizeOf, short, Earlier)
  <2> HIDE DEF short
  <2> QED BY <1>2, <1>3, <1>4, SizesAreThose, Zenon
<1>6. SizeOf' = SizeOf /\ Earlier' = Earlier /\ short' = short
  BY <1>2 DEF SizeOf, Earlier, Before
<1> QED BY <1>2, <1>5, <1>6 DEF LoopTakesTheOldest

LEMMA StepsDecide ==
  BudgetInv /\ ListInv /\ LoopTakesTheOldest
  /\ [DecisionNext]_<<budget, bytes, candidates, victims, decided, ask>>
      => BudgetInv' /\ ListInv' /\ LoopTakesTheOldest'
<1> SUFFICES ASSUME BudgetInv, ListInv, LoopTakesTheOldest,
                    [DecisionNext]_<<budget, bytes, candidates, victims, decided, ask>>
             PROVE  BudgetInv' /\ ListInv' /\ LoopTakesTheOldest'
  OBVIOUS
<1>1. UNCHANGED <<budget, bytes, candidates>>
  BY DEF DecisionNext, Next, Decide
<1>2. BudgetInv' /\ ListInv'
  BY <1>1 DEF BudgetInv, ListInv, AllSize, SizeOf
<1>3. CASE Decide
  BY <1>2, <1>3, DecidingTakesTheOldest
<1>4. CASE UNCHANGED <<budget, bytes, candidates, victims, decided, ask>>
  <2>1. SizeOf' = SizeOf /\ Earlier' = Earlier /\ Chosen' = Chosen
    BY <1>4 DEF SizeOf, Earlier, Before, Chosen
  <2> DEFINE taken == Victims(DOMAIN candidates, SizeOf, Shortfall(budget, bytes), Earlier)
  <2>2. taken' = taken
    BY <1>4, <2>1
  <2>3. decided => Chosen = taken
    BY DEF LoopTakesTheOldest
  <2>4. decided' => Chosen' = taken'
    <3> HIDE DEF taken
    <3> QED BY <1>4, <2>1, <2>2, <2>3
  <2> QED BY <1>2, <2>4 DEF LoopTakesTheOldest
<1> QED BY <1>2, <1>3, <1>4 DEF DecisionNext, Next

\* A need is admitted exactly when both the driver's view of the card and the
\* accounting's keep the headroom, for any budget (property
\* FitsIffNotOversubscribing, vram_budget.py:29).
THEOREM NeverOverAdmits == DecisionSpec => []FitsIffNotOversubscribing
<1>1. BudgetInv => FitsIffNotOversubscribing
  BY FitsIffHeadroomKept DEF BudgetInv, FitsIffNotOversubscribing
<1> QED BY <1>1, InitialDecisions, StepsDecide, PTL DEF DecisionSpec

\* The policy's loop takes the victims the arbiter's specification takes, for any
\* card, need and budget, and any sizes and ages of the idle models (property
\* LoopTakesTheOldest, eviction_policy.py:39).
THEOREM OldestAreTaken == DecisionSpec => []LoopTakesTheOldest
BY InitialDecisions, StepsDecide, PTL DEF DecisionSpec

\* The victims the loop takes are enough: unless the card was over-committed or
\* the idle models together are too small, the need fits once they are gone
\* (property VictimsMakeRoom, vram_arbiter.py:281).
THEOREM EnoughIsEvicted == DecisionSpec => []VictimsMakeRoom
<1>1. BudgetInv /\ ListInv /\ LoopTakesTheOldest => VictimsMakeRoom
  <2> SUFFICES ASSUME BudgetInv, ListInv, LoopTakesTheOldest,
                      decided, ~OverCommitted(budget), AllSize >= Shortfall(budget, bytes)
               PROVE  CanFit(AfterFreeing(budget, Freed(Chosen)), bytes)
    BY DEF VictimsMakeRoom
  <2> DEFINE D == DOMAIN candidates
             short == Shortfall(budget, bytes)
  <2>1. Chosen = Victims(D, SizeOf, short, Earlier)
    BY DEF LoopTakesTheOldest
  <2>2. /\ IsFiniteSet(D) /\ \A i \in D : SizeOf[i] \in Nat
        /\ AllSize = SumFunctionOnSet(SizeOf, D)
    BY ListFacts, SizesAreThose DEF ListInv, SizeOf
  <2>3. IsOrder(D, Earlier)
    <3>1. \A c \in D : Earlier[c] = AheadOf(candidates, c)
      BY SizesAreThose DEF EarlierIn
    <3>2. \A c \in D : AheadOf(candidates, c) \in SUBSET D /\ c \notin AheadOf(candidates, c)
      BY StrictOrder DEF AheadOf, ListInv
    <3>3. \A c \in D : \A d \in AheadOf(candidates, c) :
              AheadOf(candidates, d) \subseteq AheadOf(candidates, c)
      BY AheadGrows DEF AheadOf, ListInv
    <3> QED BY <3>1, <3>2, <3>3 DEF IsOrder
  <2>4. short \in Nat
    BY ShortfallsAreNat
  <2> HIDE DEF D, short
  <2>5. SumFunctionOnSet(SizeOf, Chosen) >= short
    BY <2>1, <2>2, <2>3, <2>4, VictimsCoverShortfall DEF short
  <2>6. Chosen \in SUBSET D /\ IsFiniteSet(Chosen)
    BY <2>1, <2>2, FS_Subset DEF Victims
  <2>7. /\ SumFunctionOnSet(SizeOf, Chosen) \in Nat
        /\ SumFunctionOnSet(SizeOf, Chosen) <= AllSize
    BY <2>2, <2>6, SumIsNat, SumGrows
  <2>8. Freed(Chosen) \in Nat /\ Freed(Chosen) >= short /\ Freed(Chosen) <= budget.resident
    <3>1. budget.resident \in Nat /\ AllSize \in Nat /\ AllSize <= budget.resident
      BY SumsAreSizes DEF ListInv, BudgetInv, Budgets
    <3> QED BY <2>5, <2>7, <3>1 DEF Freed
  <2> QED BY <2>8, ShortfallMakesRoom DEF BudgetInv, short
<1> QED BY <1>1, InitialDecisions, StepsDecide, PTL DEF DecisionSpec
=============================================================================

----------------------- MODULE SliceController_proofs -----------------------
(***************************************************************************)
(* Proofs about the admission loop, for every set of nodes, every policy   *)
(* and every bound.  The inductive invariant says, beside the types, that  *)
(* a node's limits are always those of its budget and demand, and that     *)
(* what the loop last read of the byte counters is not ahead of them.      *)
(***************************************************************************)
EXTENDS SliceController, TLAPS

-----------------------------------------------------------------------------
(* What one call of Allocate returns, for every policy, rate and demand.   *)

Demands == [Slices -> Nat]

(* A percentage of a rate is a rate. *)
LEMMA PercentNat ==
  ASSUME NEW x \in Nat, NEW p \in Nat
  PROVE  Percent(x, p) \in Nat
<1>1. x * p \in Nat
  OBVIOUS
<1> QED
  BY <1>1 DEF Percent

(* A larger rate or a larger percentage gives no less. *)
LEMMA PercentMonotone ==
  ASSUME NEW x \in Int, NEW y \in Nat, x <= y, NEW p \in Nat
  PROVE  Percent(x, p) <= Percent(y, p)
<1>1. x * p <= y * p /\ x * p \in Int /\ y * p \in Int
  OBVIOUS
<1> QED
  BY <1>1 DEF Percent

(* Two percentages that make up the whole never give more than the whole.  *)
LEMMA PercentSplit ==
  ASSUME NEW x \in Nat, NEW p \in 0..100
  PROVE  Percent(x, p) + Percent(x, 100 - p) <= x
<1>1. x * p \in Nat /\ x * (100 - p) \in Nat /\ x * p + x * (100 - p) = 100 * x
  OBVIOUS
<1> QED
  BY <1>1 DEF Percent

(* ... and neither does one of them. *)
LEMMA PercentAtMost ==
  ASSUME NEW x \in Nat, NEW p \in 0..100
  PROVE  Percent(x, p) <= x
<1>1. p \in Nat /\ 100 - p \in Nat
  OBVIOUS
<1>2. Percent(x, p) \in Nat /\ Percent(x, 100 - p) \in Nat
  BY <1>1, PercentNat
<1> QED
  BY <1>2, PercentSplit

(* Three percentages of at most a hundred together stay within the whole.  *)
LEMMA PercentOfThree ==
  ASSUME NEW x \in Nat, NEW p \in Nat, NEW q \in Nat, NEW r \in Nat, p + q + r <= 100
  PROVE  Percent(x, p) + Percent(x, q) + Percent(x, r) <= x
<1>1. x * p \in Nat /\ x * q \in Nat /\ x * r \in Nat
  OBVIOUS
<1>2. x * p + x * q + x * r = x * (p + q + r)
  OBVIOUS
<1>3. x * (p + q + r) <= x * 100
  OBVIOUS
<1> QED
  BY <1>1, <1>2, <1>3 DEF Percent

(* The clamped policy numbers are in the ranges the arithmetic relies on.  *)
LEMMA PolicyRanges ==
  ASSUME NEW asked \in Demands
  PROVE  /\ H \in Nat /\ H >= 100
         /\ MH \in Nat
         /\ FloorFor(asked) \in 0..100
BY HeadroomAssumption, PolicyAssumption
   DEF H, MH, FloorFor, Clamp, Lesser, Greater, Demands

(* rho* of the budget is within the budget. *)
LEMMA CeilingWithinBudget ==
  ASSUME NEW given \in Nat
  PROVE  UrllcCeiling(given) \in 0..given
<1>1. H \in Nat /\ H >= 100
  BY HeadroomAssumption DEF H, Lesser
<1>2. given * 100 <= given * H /\ given * 100 \in Nat /\ given * H \in Nat
  BY <1>1
<1>3. (given * 100) \div H \in Int /\ H * ((given * 100) \div H) <= given * 100
  BY <1>1, <1>2
<1>4. (given * 100) \div H >= 0
  BY <1>1, <1>2
<1>5. (given * 100) \div H <= given
  <2> SUFFICES ASSUME (given * 100) \div H >= given + 1
               PROVE  FALSE
    BY <1>3
  <2>1. H * ((given * 100) \div H) >= H * (given + 1)
    BY <1>1, <1>3
  <2>2. H * (given + 1) = given * H + H
    BY <1>1
  <2> QED
    BY <1>1, <1>2, <1>3, <2>1, <2>2
<1> QED
  BY <1>3, <1>4, <1>5 DEF UrllcCeiling

(* A value per lane has the three values it was given. *)
LEMMA BySliceValues ==
  ASSUME NEW e \in Nat, NEW u \in Nat, NEW m \in Nat
  PROVE  /\ BySlice(e, u, m) \in Demands
         /\ BySlice(e, u, m)[EMBB] = e
         /\ BySlice(e, u, m)[URLLC] = u
         /\ BySlice(e, u, m)[MMTC] = m
         /\ Total(BySlice(e, u, m)) = e + u + m
BY DEF BySlice, Total, Demands, Slices, EMBB, URLLC, MMTC

LEMMA DemandValues ==
  ASSUME NEW asked \in Demands
  PROVE  asked[EMBB] \in Nat /\ asked[URLLC] \in Nat /\ asked[MMTC] \in Nat
BY DEF Demands, Slices

(* What every lane asks for is a rate. *)
LEMMA NeedType ==
  ASSUME NEW asked \in Demands
  PROVE  /\ Need(asked) \in Demands
         /\ Need(asked)[EMBB] = asked[EMBB]
<1>1. H \in Nat /\ MH \in Nat
  BY PolicyRanges
<1>2. Percent(asked[URLLC], H) \in Nat /\ Percent(asked[MMTC], MH) \in Nat
  BY <1>1, DemandValues, PercentNat
<1> DEFINE e == asked[EMBB]
           u == Percent(asked[URLLC], H)
           m == Percent(asked[MMTC], MH)
<1>3. e \in Nat /\ u \in Nat /\ m \in Nat
  BY <1>2, DemandValues
<1>4. Need(asked) = BySlice(e, u, m)
  BY DEF Need
<1> HIDE DEF e, u, m
<1>5. BySlice(e, u, m) \in Demands /\ BySlice(e, u, m)[EMBB] = e
  BY <1>3, BySliceValues
<1> QED
  BY <1>4, <1>5 DEF e

(* Pass 1, lane by lane: each share is a rate within its need; URLLC's is  *)
(* within rho* of the budget, mMTC's within (1-F) of what URLLC left, and  *)
(* eMBB's within what both left.                                           *)
LEMMA FirstPassShares ==
  ASSUME NEW given \in Nat, NEW asked \in Demands
  PROVE  /\ UrllcShare(given, asked) \in 0..Need(asked)[URLLC]
         /\ UrllcShare(given, asked) <= UrllcCeiling(given)
         /\ LeftByUrllc(given, asked) \in Nat
         /\ LeftByUrllc(given, asked) = given - UrllcShare(given, asked)
         /\ MmtcShare(given, asked) \in 0..Need(asked)[MMTC]
         /\ MmtcShare(given, asked)
              <= Percent(LeftByUrllc(given, asked), 100 - FloorFor(asked))
         /\ MmtcShare(given, asked) <= LeftByUrllc(given, asked)
         /\ EmbbShare(given, asked) \in 0..asked[EMBB]
         /\ EmbbShare(given, asked)
              = Lesser(asked[EMBB],
                       LeftByUrllc(given, asked) - MmtcShare(given, asked))
<1> DEFINE U == UrllcShare(given, asked)
           L == LeftByUrllc(given, asked)
           M == MmtcShare(given, asked)
           part == Percent(L, 100 - FloorFor(asked))
<1>1. /\ Need(asked)[EMBB] = asked[EMBB] /\ asked[EMBB] \in Nat
      /\ Need(asked)[URLLC] \in Nat /\ Need(asked)[MMTC] \in Nat
  BY NeedType, DemandValues
<1>2. U \in 0..Need(asked)[URLLC] /\ U <= UrllcCeiling(given) /\ U <= given
  BY <1>1, CeilingWithinBudget DEF UrllcShare, Lesser
<1>3. L \in Nat /\ L = given - U
  BY <1>1, <1>2 DEF LeftByUrllc, Greater
<1>4. 100 - FloorFor(asked) \in 0..100
  BY PolicyRanges
<1> DEFINE p == 100 - FloorFor(asked)
<1>5. part \in Nat /\ part <= L
  <2> HIDE DEF L, p
  <2>1. L \in Nat /\ p \in 0..100 /\ p \in Nat
    BY <1>3, <1>4 DEF p
  <2>2. Percent(L, p) \in Nat /\ Percent(L, p) <= L
    BY <2>1, PercentNat, PercentAtMost
  <2> QED
    BY <2>2 DEF p
<1>6. M \in 0..Need(asked)[MMTC] /\ M <= part /\ M <= L
  BY <1>1, <1>3, <1>5 DEF MmtcShare, Lesser
<1>7. EmbbShare(given, asked) = Lesser(asked[EMBB], L - M)
  BY <1>1, <1>3, <1>6 DEF EmbbShare, Greater
<1>8. EmbbShare(given, asked) \in 0..asked[EMBB]
  BY <1>1, <1>3, <1>6, <1>7 DEF Lesser
<1> QED
  BY <1>2, <1>3, <1>6, <1>7, <1>8

(* Pass 1 hands out no more than the budget. *)
LEMMA FirstPassWithinBudget ==
  ASSUME NEW given \in Nat, NEW asked \in Demands
  PROVE  /\ FirstPass(given, asked) \in Demands
         /\ FirstPass(given, asked)[EMBB] = EmbbShare(given, asked)
         /\ FirstPass(given, asked)[URLLC] = UrllcShare(given, asked)
         /\ FirstPass(given, asked)[MMTC] = MmtcShare(given, asked)
         /\ Total(FirstPass(given, asked)) <= given
<1>1. /\ EmbbShare(given, asked) \in Nat
      /\ UrllcShare(given, asked) \in Nat
      /\ MmtcShare(given, asked) \in Nat
  BY FirstPassShares, NeedType, DemandValues
<1>2. EmbbShare(given, asked) + UrllcShare(given, asked) + MmtcShare(given, asked)
        <= given
  BY <1>1, FirstPassShares, DemandValues DEF Lesser
<1> DEFINE e == EmbbShare(given, asked)
           u == UrllcShare(given, asked)
           m == MmtcShare(given, asked)
<1>3. FirstPass(given, asked) = BySlice(e, u, m)
  BY DEF FirstPass
<1>4. e \in Nat /\ u \in Nat /\ m \in Nat /\ e + u + m <= given
  BY <1>1, <1>2
<1> HIDE DEF e, u, m
<1>5. /\ BySlice(e, u, m) \in Demands
      /\ BySlice(e, u, m)[EMBB] = e
      /\ BySlice(e, u, m)[URLLC] = u
      /\ BySlice(e, u, m)[MMTC] = m
      /\ Total(BySlice(e, u, m)) = e + u + m
  BY <1>4, BySliceValues
<1> QED
  BY <1>3, <1>4, <1>5 DEF e, u, m

(* A share that exceeds no need has nothing to reclaim, and the second     *)
(* pass returns it unchanged.                                              *)
LEMMA RedistributeInert ==
  ASSUME NEW share \in Demands, NEW need \in Demands,
         \A s \in Slices : share[s] <= need[s]
  PROVE  Redistribute(share, need) = share
<1> DEFINE kept == [s \in Slices |-> Lesser(share[s], need[s])]
           want == [s \in Slices |-> Greater(0, need[s] - kept[s])]
           spare1 == Total(share) - Total(kept)
           giveU == Lesser(want[URLLC], spare1)
           spare2 == spare1 - giveU
           giveM == Lesser(want[MMTC], spare2)
           spare3 == spare2 - giveM
<1>1. \A s \in Slices : share[s] \in Nat /\ need[s] \in Nat
  BY DEF Demands
<1>2. kept = share
  BY <1>1 DEF Lesser, Demands
<1>3. \A s \in Slices : want[s] \in Nat
  BY <1>1, <1>2 DEF Greater
<1>4. spare1 = 0
  BY <1>2, DemandValues DEF Total
<1>5. giveU = 0 /\ spare2 = 0
  BY <1>3, <1>4 DEF Lesser, Slices
<1>6. giveM = 0 /\ spare3 = 0
  BY <1>3, <1>5 DEF Lesser, Slices
<1>7. Redistribute(share, need)
        = BySlice(kept[EMBB] + spare3, kept[URLLC] + giveU, kept[MMTC] + giveM)
  BY DEF Redistribute
<1>8. Redistribute(share, need) = BySlice(share[EMBB], share[URLLC], share[MMTC])
  BY <1>2, <1>5, <1>6, <1>7, DemandValues
<1> QED
  BY <1>8 DEF BySlice, Demands, Slices, EMBB, URLLC, MMTC

(* Allocate returns pass 1, whether the second round is on or off. *)
LEMMA AllocateIsFirstPass ==
  ASSUME NEW given \in Nat, NEW asked \in Demands, NEW secondRound \in BOOLEAN
  PROVE  Allocate(given, asked, secondRound) = FirstPass(given, asked)
<1> DEFINE F == FirstPass(given, asked)
           N == Need(asked)
<1>1. \A s \in Slices : F[s] <= N[s]
  <2>1. N[EMBB] \in Nat /\ N[URLLC] \in Nat /\ N[MMTC] \in Nat
    <3> HIDE DEF N
    <3>1. N \in Demands
      BY NeedType DEF N
    <3> QED
      BY <3>1, DemandValues
  <2>2. /\ F[EMBB] = EmbbShare(given, asked)
        /\ F[URLLC] = UrllcShare(given, asked)
        /\ F[MMTC] = MmtcShare(given, asked)
    BY FirstPassWithinBudget
  <2>3. /\ EmbbShare(given, asked) \in 0..N[EMBB]
        /\ UrllcShare(given, asked) \in 0..N[URLLC]
        /\ MmtcShare(given, asked) \in 0..N[MMTC]
    BY FirstPassShares, NeedType
  <2> HIDE DEF F, N
  <2> QED
    BY <2>1, <2>2, <2>3 DEF Slices
<1>2. Redistribute(FirstPass(given, asked), Need(asked)) = FirstPass(given, asked)
  BY <1>1, FirstPassWithinBudget, NeedType, RedistributeInert
<1> QED
  BY <1>2 DEF Allocate

-----------------------------------------------------------------------------
(* The limits in force are the ones computed from the budget and the       *)
(* demand recorded beside them: no step changes one without the others.    *)
LimitsInForce == \A n \in Nodes : limit[n] = LimitsFor(budget[n], demand[n])

(* The byte counters only grow, so the arrivals of a period are a number.  *)
CountersAhead == \A n \in Nodes, s \in Slices : lastBytes[n][s] <= offered[n][s]

IInv == TypeOK /\ LimitsInForce /\ CountersAhead

-----------------------------------------------------------------------------
LEMMA BudgetNat == BudgetMin..BudgetMax \subseteq Nat
BY RateAssumption

(* The one-packet minimum is a rate. *)
LEMMA MinLimitNat == MinLimit \in Nat
BY TimeAssumption, RateAssumption DEF MinLimit

LEMMA RateOfNat ==
  ASSUME NEW p \in Nat
  PROVE  RateOf(p) \in Nat
BY MinLimitNat DEF RateOf

LEMMA PacketsPerPeriodNat ==
  ASSUME NEW r \in Nat
  PROVE  PacketsPerPeriod(r) \in Nat
<1>1. Mtu \in Nat \ {0} /\ Period \in Nat
  BY TimeAssumption, RateAssumption
<1>2. r * Period \in Nat
  BY <1>1
<1> QED
  BY <1>1, <1>2 DEF PacketsPerPeriod

(* Raising every share to the minimum keeps it a rate. *)
LEMMA EnforcedType ==
  ASSUME NEW share \in Demands
  PROVE  /\ Enforced(share) \in Demands
         /\ \A s \in Slices : Enforced(share)[s] = Greater(share[s], MinLimit)
BY MinLimitNat DEF Enforced, Demands, Greater

LEMMA ConfigType ==
  ASSUME m_cfg \in Arms
  PROVE  m_cfg.fixedShare \in Demands /\ m_cfg.secondRound \in BOOLEAN
BY RateAssumption DEF Demands

LEMMA FixedLimitsType ==
  ASSUME m_cfg \in Arms, NEW b \in Nat
  PROVE  FixedLimits(b) \in Demands
<1>1. \A s \in Slices : m_cfg.fixedShare[s] \in Nat
  BY ConfigType DEF Demands
<1>2. \A s \in Slices : Percent(b, m_cfg.fixedShare[s]) \in Nat
  BY <1>1, PercentNat
<1> QED
  BY <1>2 DEF FixedLimits, Demands

(* What the buckets are retuned to, in either arm. *)
LEMMA LimitsForArm ==
  ASSUME m_cfg \in Arms, NEW b \in Nat, NEW d \in Demands
  PROVE  /\ LimitsFor(b, d) \in Demands
         /\ FixedShareOn => LimitsFor(b, d) = Enforced(FixedLimits(b))
         /\ ~FixedShareOn => LimitsFor(b, d) = Enforced(FirstPass(b, d))
<1>1. Allocate(b, d, m_cfg.secondRound) = FirstPass(b, d)
  BY ConfigType, AllocateIsFirstPass
<1>2. LimitsFor(b, d) = Enforced(IF FixedShareOn THEN FixedLimits(b) ELSE FirstPass(b, d))
  BY <1>1 DEF LimitsFor
<1>3. Enforced(FixedLimits(b)) \in Demands
  BY FixedLimitsType, EnforcedType
<1>4. Enforced(FirstPass(b, d)) \in Demands
  BY FirstPassWithinBudget, EnforcedType
<1> QED
  BY <1>2, <1>3, <1>4

-----------------------------------------------------------------------------
(* The three states of the loop keep the budget in its range. *)
LEMMA NextBudgetRange ==
  ASSUME TypeOK, NEW n \in Nodes
  PROVE  NextBudget(n) \in BudgetMin..BudgetMax
<1>1. budget[n] \in Nat /\ AiStep \in Nat /\ MdPercent \in Nat
  BY RateAssumption DEF TypeOK
<1>2. Percent(budget[n], MdPercent) \in Nat
  <2> DEFINE b == budget[n]
  <2> HIDE DEF b
  <2>1. b \in Nat /\ MdPercent \in Nat
    BY <1>1 DEF b
  <2>2. Percent(b, MdPercent) \in Nat
    BY <2>1, PercentNat
  <2> QED
    BY <2>2 DEF b
<1>7. budget[n] + AiStep \in Nat
  BY <1>1
<1>3. \A x \in Nat : Clamp(x, BudgetMin, BudgetMax) \in BudgetMin..BudgetMax
  BY RateAssumption DEF Clamp, Lesser, Greater
<1>4. CASE Over(n) /\ ~Draining(n)
  BY <1>2, <1>3, <1>4, Zenon DEF NextBudget
<1>5. CASE ~Over(n)
  BY <1>7, <1>3, <1>5, Zenon DEF NextBudget
<1>6. CASE Over(n) /\ Draining(n)
  BY <1>1, <1>3, <1>6, Zenon DEF NextBudget
<1> QED
  BY <1>4, <1>5, <1>6

LEMMA MeasuredDemandType ==
  ASSUME TypeOK, CountersAhead, NEW n \in Nodes
  PROVE  MeasuredDemand(n) \in Demands
<1>1. \A s \in Slices : Greater(offered[n][s] - lastBytes[n][s], held[n][s]) \in Nat
  BY DEF TypeOK, CountersAhead, Greater
<1> QED
  BY <1>1, RateOfNat DEF MeasuredDemand, Demands

-----------------------------------------------------------------------------
LEMMA InitInvariant == Init => IInv
<1> SUFFICES ASSUME Init PROVE IInv
  OBVIOUS
<1>1. TypeOK
  <2>1. clock \in Nat /\ nextTick \in Nat \cup {Never}
    BY TimeAssumption DEF Init, StartDelay
  <2>2. budget \in [Nodes -> BudgetMin..BudgetMax]
    BY RateAssumption DEF Init
  <2>3. limit \in [Nodes -> [Slices -> Nat]]
    <3>1. BudgetMax \in Nat /\ SeedDemand \in Demands
      BY RateAssumption DEF Demands
    <3>2. LimitsFor(BudgetMax, SeedDemand) \in Demands
      BY <3>1, LimitsForArm DEF Init
    <3> QED
      BY <3>2 DEF Init, Demands
  <2> QED
    BY <2>1, <2>2, <2>3, RateAssumption DEF Init, TypeOK
<1>2. LimitsInForce
  BY DEF Init, LimitsInForce
<1>3. CountersAhead
  BY DEF Init, CountersAhead
<1> QED
  BY <1>1, <1>2, <1>3 DEF IInv

(* A retune replaces budget, demand and limits together. *)
LEMMA TickInvariant == IInv /\ Tick => IInv'
<1> SUFFICES ASSUME IInv, Tick PROVE IInv'
  OBVIOUS
<1>1. TypeOK /\ CountersAhead
  BY DEF IInv
<1>2. \A n \in Nodes : NextBudget(n) \in BudgetMin..BudgetMax /\ MeasuredDemand(n) \in Demands
  BY <1>1, NextBudgetRange, MeasuredDemandType
<1>3. \A n \in Nodes : LimitsFor(NextBudget(n), MeasuredDemand(n)) \in Demands
  <2> TAKE n \in Nodes
  <2> DEFINE b == NextBudget(n)
             d == MeasuredDemand(n)
  <2>1. b \in Nat /\ d \in Demands /\ m_cfg \in Arms
    BY <1>1, <1>2, BudgetNat DEF TypeOK
  <2> HIDE DEF b, d
  <2>2. LimitsFor(b, d) \in Demands
    BY <2>1, LimitsForArm
  <2> QED
    BY <2>2 DEF b, d
<1>4. TypeOK'
  <2>1. nextTick' \in Nat \cup {Never} /\ clock' \in Nat /\ ticks' \in Nat
    BY <1>1, TimeAssumption DEF Tick, TypeOK
  <2>2. budget' \in [Nodes -> BudgetMin..BudgetMax]
    BY <1>2 DEF Tick
  <2>3. demand' \in [Nodes -> [Slices -> Nat]] /\ limit' \in [Nodes -> [Slices -> Nat]]
    BY <1>2, <1>3 DEF Tick, Demands
  <2>4. /\ lastBacklog' \in [Nodes -> Nat]
        /\ lastBytes' \in [Nodes -> [Slices -> Nat]]
        /\ UNCHANGED <<m_cfg, offered, held, allowance, radio>>
    BY <1>1 DEF Tick, TypeOK, queues
  <2> QED
    BY <1>1, <2>1, <2>2, <2>3, <2>4 DEF TypeOK
<1>5. LimitsInForce'
  <2>1. m_cfg' = m_cfg
    BY DEF Tick
  <2>2. \A n \in Nodes : limit'[n] = LimitsFor(NextBudget(n), MeasuredDemand(n))
    BY DEF Tick
  <2>3. \A n \in Nodes : budget'[n] = NextBudget(n) /\ demand'[n] = MeasuredDemand(n)
    BY DEF Tick
  <2> QED
    BY <2>1, <2>2, <2>3 DEF LimitsInForce, LimitsFor, FixedShareOn, FixedLimits
<1>6. CountersAhead'
  BY <1>1 DEF CountersAhead, Tick, queues, TypeOK
<1> QED
  BY <1>4, <1>5, <1>6 DEF IInv

(* The other steps leave the loop alone. *)
LEMMA LimitsKept ==
  ASSUME LimitsInForce, UNCHANGED <<m_cfg, loop>>
  PROVE  LimitsInForce'
BY DEF LimitsInForce, loop, LimitsFor, FixedShareOn, FixedLimits

LEMMA AdvanceInvariant == IInv /\ Advance => IInv'
<1> SUFFICES ASSUME IInv, Advance PROVE IInv'
  OBVIOUS
<1>1. TypeOK
  BY DEF IInv
<1>2. clock' \in Nat
  BY <1>1, TimeAssumption, BoundAssumption
     DEF Advance, TypeOK, Horizon, StopAt, StartDelay
<1>3. allowance' \in [Nodes -> [Slices -> Nat]]
  <2>1. \A n \in Nodes, s \in Slices : PacketsPerPeriod(limit[n][s]) \in Nat
    <3> TAKE n \in Nodes, s \in Slices
    <3>1. limit[n][s] \in Nat
      BY <1>1 DEF TypeOK
    <3> QED
      BY <3>1, PacketsPerPeriodNat
  <2> QED
    BY <1>1, <2>1 DEF Advance, TypeOK
<1>4. TypeOK'
  BY <1>1, <1>2, <1>3 DEF Advance, TypeOK, loop
<1>5. LimitsInForce'
  BY LimitsKept DEF Advance, IInv
<1>6. CountersAhead'
  BY DEF IInv, CountersAhead, Advance, loop
<1> QED
  BY <1>4, <1>5, <1>6 DEF IInv

LEMMA ArriveInvariant ==
  ASSUME IInv, NEW n \in Nodes, NEW s \in Slices, Arrive(n, s)
  PROVE  IInv'
<1>1. TypeOK /\ CountersAhead
  BY DEF IInv
<1>2. offered[n][s] \in Nat /\ held[n][s] \in Nat
  BY <1>1 DEF TypeOK
<1>3. offered' \in [Nodes -> [Slices -> Nat]]
  BY <1>1, <1>2 DEF Arrive, TypeOK
<1>4. held' \in [Nodes -> [Slices -> Nat]]
  <2>1. Lesser(held[n][s] + 1, BucketCap) \in Nat
    BY <1>2, BoundAssumption DEF Lesser
  <2> QED
    BY <1>1, <2>1 DEF Arrive, TypeOK
<1>5. TypeOK'
  BY <1>1, <1>3, <1>4 DEF Arrive, TypeOK, loop
<1>6. LimitsInForce'
  BY LimitsKept DEF Arrive, IInv
<1>7. CountersAhead'
  <2>1. \A m \in Nodes, t \in Slices : offered'[m][t] >= offered[m][t]
    BY <1>1, <1>2 DEF Arrive, TypeOK
  <2>2. lastBytes' = lastBytes
    BY DEF Arrive, loop
  <2> QED
    BY <1>1, <1>3, <2>1, <2>2 DEF CountersAhead, TypeOK
<1> QED
  BY <1>5, <1>6, <1>7 DEF IInv

LEMMA ReleaseInvariant ==
  ASSUME IInv, NEW n \in Nodes, NEW s \in Slices, Release(n, s)
  PROVE  IInv'
<1>1. TypeOK /\ CountersAhead
  BY DEF IInv
<1>2. held[n][s] - 1 \in Nat /\ allowance[n][s] - 1 \in Nat /\ radio[n] + 1 \in Nat
  BY <1>1 DEF TypeOK, Release, Eligible
<1>3. TypeOK'
  BY <1>1, <1>2 DEF Release, TypeOK, loop
<1>4. LimitsInForce'
  BY LimitsKept DEF Release, IInv
<1>5. CountersAhead'
  BY <1>1 DEF CountersAhead, Release, loop
<1> QED
  BY <1>3, <1>4, <1>5 DEF IInv

LEMMA DiscardInvariant ==
  ASSUME IInv, NEW n \in Nodes, NEW s \in Slices, Discard(n, s)
  PROVE  IInv'
<1>1. TypeOK /\ CountersAhead
  BY DEF IInv
<1>2. held[n][s] - 1 \in Nat
  BY <1>1 DEF TypeOK, Discard
<1>3. TypeOK'
  BY <1>1, <1>2 DEF Discard, TypeOK, loop
<1>4. LimitsInForce'
  BY LimitsKept DEF Discard, IInv
<1>5. CountersAhead'
  BY <1>1 DEF CountersAhead, Discard, loop
<1> QED
  BY <1>3, <1>4, <1>5 DEF IInv

LEMMA TransmitInvariant ==
  ASSUME IInv, NEW n \in Nodes, Transmit(n)
  PROVE  IInv'
<1>1. TypeOK /\ CountersAhead
  BY DEF IInv
<1>2. TypeOK'
  BY <1>1 DEF Transmit, TypeOK, loop
<1>3. LimitsInForce'
  BY LimitsKept DEF Transmit, IInv
<1>4. CountersAhead'
  BY <1>1 DEF CountersAhead, Transmit, loop
<1> QED
  BY <1>2, <1>3, <1>4 DEF IInv

LEMMA StepInvariant == IInv /\ [Next]_vars => IInv'
<1> SUFFICES ASSUME IInv, [Next]_vars PROVE IInv'
  OBVIOUS
<1>1. CASE Tick
  BY <1>1, TickInvariant
<1>2. CASE Advance
  BY <1>2, AdvanceInvariant
<1>3. ASSUME NEW n \in Nodes, Transmit(n) PROVE IInv'
  BY <1>3, TransmitInvariant
<1>4. ASSUME NEW n \in Nodes, NEW s \in Slices, Arrive(n, s) PROVE IInv'
  BY <1>4, ArriveInvariant
<1>5. ASSUME NEW n \in Nodes, NEW s \in Slices, Release(n, s) PROVE IInv'
  BY <1>5, ReleaseInvariant
<1>7. ASSUME NEW n \in Nodes, NEW s \in Slices, Discard(n, s) PROVE IInv'
  BY <1>7, DiscardInvariant
<1>6. CASE UNCHANGED vars
  <2>1. TypeOK'
    BY <1>6 DEF IInv, TypeOK, vars, loop, queues
  <2>2. LimitsInForce'
    BY <1>6, LimitsKept DEF IInv, vars
  <2>3. CountersAhead'
    BY <1>6 DEF IInv, CountersAhead, vars, loop, queues
  <2> QED
    BY <2>1, <2>2, <2>3 DEF IInv
<1> QED
  BY <1>1, <1>2, <1>3, <1>4, <1>5, <1>6, <1>7 DEF Next

(* The inductive invariant holds in every reachable state. *)
THEOREM Invariance == Spec => []IInv
BY InitInvariant, StepInvariant, PTL DEF Spec

(* Every variable keeps its type; the budget never leaves the range of     *)
(* BudgetMin..BudgetMax (the clamp of Tick).                               *)
THEOREM TypeCorrect == Spec => []TypeOK
BY Invariance, PTL DEF IInv

-----------------------------------------------------------------------------
(* What the arithmetic needs of the state. *)
LEMMA StateFacts ==
  ASSUME IInv, NEW n \in Nodes
  PROVE  /\ m_cfg \in Arms
         /\ budget[n] \in Nat
         /\ demand[n] \in Demands
         /\ limit[n] = LimitsFor(budget[n], demand[n])
BY BudgetNat DEF IInv, TypeOK, LimitsInForce, Demands

(* In the demand-driven arms the limits are pass 1's, raised to the        *)
(* one-packet minimum.                                                     *)
LEMMA DemandDrivenLimits ==
  ASSUME IInv, ~FixedShareOn, NEW n \in Nodes
  PROVE  /\ limit[n] = Enforced(FirstPass(budget[n], demand[n]))
         /\ limit[n][EMBB] = Greater(EmbbShare(budget[n], demand[n]), MinLimit)
         /\ limit[n][URLLC] = Greater(UrllcShare(budget[n], demand[n]), MinLimit)
         /\ limit[n][MMTC] = Greater(MmtcShare(budget[n], demand[n]), MinLimit)
<1> DEFINE b == budget[n]
           d == demand[n]
<1>1. m_cfg \in Arms /\ b \in Nat /\ d \in Demands /\ limit[n] = LimitsFor(b, d)
  BY StateFacts
<1> HIDE DEF b, d
<1>2. limit[n] = Enforced(FirstPass(b, d))
  BY <1>1, LimitsForArm
<1>3. /\ FirstPass(b, d) \in Demands
      /\ FirstPass(b, d)[EMBB] = EmbbShare(b, d)
      /\ FirstPass(b, d)[URLLC] = UrllcShare(b, d)
      /\ FirstPass(b, d)[MMTC] = MmtcShare(b, d)
  BY <1>1, FirstPassWithinBudget
<1>4. \A s \in Slices : limit[n][s] = Greater(FirstPass(b, d)[s], MinLimit)
  BY <1>2, <1>3, EnforcedType
<1>5. EMBB \in Slices /\ URLLC \in Slices /\ MMTC \in Slices
  BY DEF Slices
<1> QED
  BY <1>2, <1>3, <1>4, <1>5 DEF b, d

(* The shares raised to the minimum add no more than the shares did.       *)
LEMMA RaisedWithin ==
  ASSUME NEW share \in Demands, NEW b \in Nat, Total(share) <= b
  PROVE  Total([s \in Slices |-> IF Enforced(share)[s] > MinLimit
                                   THEN Enforced(share)[s] ELSE 0]) <= b
<1> DEFINE part(s) == IF Enforced(share)[s] > MinLimit THEN Enforced(share)[s] ELSE 0
<1>1. \A s \in Slices : part(s) \in Nat /\ part(s) <= share[s]
  BY EnforcedType, MinLimitNat DEF Greater, Demands
<1>2. EMBB \in Slices /\ URLLC \in Slices /\ MMTC \in Slices
  BY DEF Slices
<1>3. Total([s \in Slices |-> part(s)]) = part(EMBB) + part(URLLC) + part(MMTC)
  BY <1>2 DEF Total
<1> HIDE DEF part
<1>4. part(EMBB) + part(URLLC) + part(MMTC) <= b
  BY <1>1, <1>2, DemandValues DEF Total
<1>5. Total([s \in Slices |-> part(s)]) <= b
  BY <1>3, <1>4
<1> QED
  BY <1>5 DEF part

LEMMA FixedLimitsWithin ==
  ASSUME m_cfg \in Arms, NEW b \in Nat, Total(m_cfg.fixedShare) <= 100
  PROVE  Total(FixedLimits(b)) <= b
<1> DEFINE f == m_cfg.fixedShare
<1>1. f \in Demands
  BY ConfigType
<1>2. Total(FixedLimits(b)) = Percent(b, f[EMBB]) + Percent(b, f[URLLC]) + Percent(b, f[MMTC])
  BY DEF FixedLimits, Total, Slices
<1>3. f[EMBB] + f[URLLC] + f[MMTC] <= 100
  BY DEF Total
<1> HIDE DEF f
<1>4. f[EMBB] \in Nat /\ f[URLLC] \in Nat /\ f[MMTC] \in Nat
  BY <1>1, DemandValues
<1> DEFINE p == f[EMBB]
           q == f[URLLC]
           r == f[MMTC]
<1> HIDE DEF p, q, r
<1>5. p \in Nat /\ q \in Nat /\ r \in Nat /\ p + q + r <= 100
  BY <1>3, <1>4 DEF p, q, r
<1>6. Percent(b, p) + Percent(b, q) + Percent(b, r) <= b
  BY <1>5, PercentOfThree
<1> QED
  BY <1>2, <1>6 DEF p, q, r

LEMMA IsolationFromIInv == IInv => SlicesWithinBudget
<1> SUFFICES ASSUME IInv, Total(m_cfg.fixedShare) <= 100, NEW n \in Nodes
             PROVE  Total([s \in Slices |-> IF limit[n][s] > MinLimit
                                              THEN limit[n][s] ELSE 0]) <= budget[n]
  BY DEF SlicesWithinBudget
<1> DEFINE b == budget[n]
           d == demand[n]
<1>1. m_cfg \in Arms /\ b \in Nat /\ d \in Demands /\ limit[n] = LimitsFor(b, d)
  BY StateFacts
<1> HIDE DEF b, d
<1>2. PICK share \in Demands : Total(share) <= b /\ limit[n] = Enforced(share)
  <2>1. CASE FixedShareOn
    BY <1>1, <2>1, LimitsForArm, FixedLimitsType, FixedLimitsWithin
  <2>2. CASE ~FixedShareOn
    BY <1>1, <2>2, LimitsForArm, FirstPassWithinBudget
  <2> QED
    BY <2>1, <2>2
<1> QED
  BY <1>1, <1>2, RaisedWithin DEF b

(* Isolation, in every arm: the buckets of a node that stand above the     *)
(* one-packet minimum admit together no more than its budget.              *)
THEOREM Isolation == Spec => []SlicesWithinBudget
BY Invariance, IsolationFromIInv, PTL

LEMMA CeilingFromIInv == IInv => UrllcUnderCeiling
<1> SUFFICES ASSUME IInv, ~FixedShareOn, NEW n \in Nodes
             PROVE  limit[n][URLLC] <= Greater(MinLimit, UrllcCeiling(budget[n]))
  BY DEF UrllcUnderCeiling
<1> DEFINE b == budget[n]
           d == demand[n]
<1>1. b \in Nat /\ d \in Demands
  BY StateFacts
<1>2. limit[n][URLLC] = Greater(UrllcShare(b, d), MinLimit)
  BY DemandDrivenLimits
<1> HIDE DEF b, d
<1>3. UrllcShare(b, d) \in Int /\ UrllcShare(b, d) <= UrllcCeiling(b)
  BY <1>1, FirstPassShares, NeedType, DemandValues
<1>4. UrllcCeiling(b) \in Nat
  BY <1>1, CeilingWithinBudget
<1>5. limit[n][URLLC] <= Greater(MinLimit, UrllcCeiling(b))
  BY <1>2, <1>3, <1>4, MinLimitNat DEF Greater
<1> QED
  BY <1>5 DEF b

(* However much URLLC asks for, it holds at most rho* of the budget.       *)
THEOREM UrllcReservation == Spec => []UrllcUnderCeiling
BY Invariance, CeilingFromIInv, PTL

LEMMA FloorFromIInv == IInv => EmbbFloorKept
<1> SUFFICES ASSUME IInv, ~FixedShareOn, NEW n \in Nodes
             PROVE  limit[n][EMBB] >=
                      Lesser(demand[n][EMBB],
                             Percent(budget[n] - limit[n][URLLC], FloorFor(demand[n])))
  BY DEF EmbbFloorKept
<1> DEFINE b == budget[n]
           d == demand[n]
           L == LeftByUrllc(b, d)
           M == MmtcShare(b, d)
           F == FloorFor(d)
           u == limit[n][URLLC]
           want == d[EMBB]
<1>1. b \in Nat /\ d \in Demands
  BY StateFacts
<1>2. u = Greater(UrllcShare(b, d), MinLimit) /\ limit[n][EMBB] = Greater(EmbbShare(b, d), MinLimit)
  BY DemandDrivenLimits
<1>3. limit[n][EMBB] >= EmbbShare(b, d) /\ u \in Nat /\ b - u <= L /\ L \in Nat
      /\ M \in Nat /\ M <= Percent(L, 100 - F) /\ want \in Nat
      /\ EmbbShare(b, d) = Lesser(want, L - M)
      /\ F \in 0..100 /\ F \in Nat /\ 100 - F \in Nat
  <2> HIDE DEF b, d
  <2>1. F \in 0..100 /\ want \in Nat
    BY <1>1, PolicyRanges, DemandValues
  <2>2. UrllcShare(b, d) \in Nat /\ EmbbShare(b, d) \in Nat /\ M \in Nat
    BY <1>1, FirstPassShares, NeedType, DemandValues
  <2>3. L \in Nat /\ L = b - UrllcShare(b, d) /\ M <= Percent(L, 100 - F)
        /\ EmbbShare(b, d) = Lesser(want, L - M)
    BY <1>1, FirstPassShares
  <2> HIDE DEF L, M, F, u
  <2> QED
    BY <1>1, <1>2, <2>1, <2>2, <2>3, MinLimitNat DEF Greater
<1> HIDE DEF b, d, L, M, F, u, want
<1>4. Percent(b - u, F) <= Percent(L, F) /\ Percent(b - u, F) \in Int
  BY <1>1, <1>3, PercentMonotone DEF Percent
<1>5. Percent(L, F) + Percent(L, 100 - F) <= L
  BY <1>3, PercentSplit
<1>6. Percent(L, F) \in Nat /\ Percent(L, 100 - F) \in Nat
  BY <1>3, PercentNat
<1>7. EmbbShare(b, d) >= Lesser(want, Percent(b - u, F))
  BY <1>3, <1>4, <1>5, <1>6 DEF Lesser
<1>8. limit[n][EMBB] >= Lesser(want, Percent(b - u, F))
  <2>1. EmbbShare(b, d) \in Int /\ Lesser(want, Percent(b - u, F)) \in Int
    BY <1>3, <1>4 DEF Lesser
  <2>2. limit[n][EMBB] \in Int
    BY <1>2, <2>1, MinLimitNat DEF Greater
  <2> QED
    BY <1>3, <1>7, <2>1, <2>2
<1> QED
  BY <1>8 DEF b, d, F, u, want

(* The eMBB floor is honoured whatever mMTC asks for. *)
THEOREM EmbbFloorHonoured == Spec => []EmbbFloorKept
BY Invariance, FloorFromIInv, PTL

LEMMA InertFromIInv == IInv => RedistributionInert
BY DemandDrivenLimits DEF RedistributionInert

(* The second allocation round never changes a limit. *)
THEOREM SecondRoundInert == Spec => []RedistributionInert
BY Invariance, InertFromIInv, PTL

-----------------------------------------------------------------------------
(* A rate of at least the one that clears h packets in a period does.      *)
LEMMA RateClears ==
  ASSUME NEW h \in Nat, NEW r \in Nat, r >= RateOf(h)
  PROVE  PacketsPerPeriod(r) >= h
<1>1. Mtu \in Nat \ {0} /\ Period \in Nat \ {0} /\ Mtu % Period = 0
  BY TimeAssumption, RateAssumption
<1>2. MinLimit \in Nat /\ MinLimit * Period = Mtu
  BY <1>1 DEF MinLimit
<1>3. (h * MinLimit) * Period = h * Mtu /\ h * MinLimit \in Nat
  BY <1>1, <1>2
<1>4. r >= h * MinLimit
  BY DEF RateOf
<1>5. r * Period >= h * Mtu /\ r * Period \in Nat
  BY <1>1, <1>3, <1>4
<1> DEFINE q == (r * Period) \div Mtu
<1>6. q \in Nat /\ r * Period < Mtu * (q + 1)
  BY <1>1, <1>5
<1> HIDE DEF q
<1>7. q >= h
  <2> SUFFICES ASSUME q + 1 <= h PROVE FALSE
    BY <1>6
  <2>1. Mtu * (q + 1) <= Mtu * h
    BY <1>1, <1>6
  <2> QED
    BY <1>1, <1>5, <1>6, <2>1
<1> QED
  BY <1>7 DEF q, PacketsPerPeriod

(* Headroom is at least one, so what a lane needs is what it asked for or  *)
(* more.                                                                   *)
LEMMA NeedCoversDemand ==
  ASSUME NEW d \in Demands, NEW s \in Slices
  PROVE  Need(d)[s] >= d[s]
<1>1. H \in Nat /\ H >= 100 /\ MH \in Nat /\ MH >= 100
  BY HeadroomAssumption, PolicyAssumption DEF H, MH, Clamp, Lesser, Greater
<1>2. \A x, p \in Nat : p >= 100 => Percent(x, p) \in Nat /\ Percent(x, p) >= x
  <2> SUFFICES ASSUME NEW x \in Nat, NEW p \in Nat, p >= 100
               PROVE  Percent(x, p) \in Nat /\ Percent(x, p) >= x
    OBVIOUS
  <2>1. x * p >= x * 100 /\ x * p \in Nat
    OBVIOUS
  <2> QED
    BY <2>1 DEF Percent
<1>3. d[EMBB] \in Nat /\ d[URLLC] \in Nat /\ d[MMTC] \in Nat
  BY DemandValues
<1>4. /\ Percent(d[URLLC], H) \in Nat /\ Percent(d[URLLC], H) >= d[URLLC]
      /\ Percent(d[MMTC], MH) \in Nat /\ Percent(d[MMTC], MH) >= d[MMTC]
  BY <1>1, <1>2, <1>3
<1>5. /\ Need(d)[EMBB] = d[EMBB]
      /\ Need(d)[URLLC] = Percent(d[URLLC], H)
      /\ Need(d)[MMTC] = Percent(d[MMTC], MH)
  BY <1>3, <1>4 DEF Need, BySlice, Slices, EMBB, URLLC, MMTC
<1> QED
  BY <1>3, <1>4, <1>5 DEF Slices

(* The case of one tick, with the node's new budget b and demand d: each   *)
(* lane has its demand or its bound.                                       *)
LEMMA SharesCover ==
  ASSUME NEW b \in Nat, NEW d \in Demands
  PROVE  /\ \/ UrllcShare(b, d) >= d[URLLC]
            \/ UrllcShare(b, d) = UrllcCeiling(b)
         /\ \/ MmtcShare(b, d) >= d[MMTC]
            \/ MmtcShare(b, d) = Percent(LeftByUrllc(b, d), 100 - FloorFor(d))
         /\ \/ EmbbShare(b, d) >= d[EMBB]
            \/ EmbbShare(b, d) + UrllcShare(b, d) + MmtcShare(b, d) = b
<1>1. Need(d)[URLLC] >= d[URLLC] /\ Need(d)[MMTC] >= d[MMTC]
  BY NeedCoversDemand DEF Slices
<1>2. UrllcShare(b, d) >= d[URLLC] \/ UrllcShare(b, d) = UrllcCeiling(b)
  BY <1>1 DEF UrllcShare, Lesser
<1>3. \/ MmtcShare(b, d) >= d[MMTC]
      \/ MmtcShare(b, d) = Percent(LeftByUrllc(b, d), 100 - FloorFor(d))
  BY <1>1 DEF MmtcShare, Lesser
<1>4. /\ UrllcShare(b, d) \in Nat /\ MmtcShare(b, d) \in Nat
      /\ LeftByUrllc(b, d) = b - UrllcShare(b, d)
      /\ EmbbShare(b, d) = Lesser(d[EMBB], LeftByUrllc(b, d) - MmtcShare(b, d))
      /\ d[EMBB] \in Nat
  BY FirstPassShares, NeedType, DemandValues
<1> QED
  BY <1>2, <1>3, <1>4 DEF Lesser

LEMMA TickCoversBacklog ==
  ASSUME IInv, Tick, ~FixedShareOn, NEW n \in Nodes
  PROVE  /\ Clears(n, URLLC) \/ limit'[n][URLLC] >= UrllcCeiling(budget'[n])
         /\ \/ Clears(n, MMTC)
            \/ limit'[n][MMTC] >= Percent(budget'[n] - limit'[n][URLLC],
                                          100 - FloorFor(demand'[n]))
         /\ Clears(n, EMBB) \/ Total(limit'[n]) >= budget'[n]
<1> DEFINE b == NextBudget(n)
           d == MeasuredDemand(n)
<1>1. TypeOK /\ CountersAhead /\ m_cfg \in Arms
  BY DEF IInv, TypeOK
<1>2. b \in Nat /\ d \in Demands
  BY <1>1, NextBudgetRange, MeasuredDemandType, BudgetNat
<1>3. budget'[n] = b /\ demand'[n] = d /\ limit'[n] = LimitsFor(b, d)
  BY DEF Tick
<1>4. \A s \in Slices : held[n][s] \in Nat /\ d[s] >= RateOf(held[n][s])
  <2> TAKE s \in Slices
  <2> DEFINE arrived == offered[n][s] - lastBytes[n][s]
  <2>1. held[n][s] \in Nat /\ arrived \in Nat
    BY <1>1 DEF TypeOK, CountersAhead
  <2>2. d[s] = RateOf(Greater(arrived, held[n][s]))
    BY DEF MeasuredDemand
  <2> HIDE DEF d, arrived
  <2>3. Greater(arrived, held[n][s]) >= held[n][s] /\ Greater(arrived, held[n][s]) \in Nat
    BY <2>1 DEF Greater
  <2>4. \A x, y \in Nat : x >= y => RateOf(x) >= RateOf(y)
    BY MinLimitNat DEF RateOf
  <2> QED
    BY <2>1, <2>2, <2>3, <2>4
<1> HIDE DEF b, d
<1> DEFINE e == EmbbShare(b, d)
           u == UrllcShare(b, d)
           m == MmtcShare(b, d)
<1>5. limit'[n] = Enforced(FirstPass(b, d))
  BY <1>1, <1>2, <1>3, LimitsForArm
<1>6. /\ FirstPass(b, d) \in Demands
      /\ FirstPass(b, d)[EMBB] = e
      /\ FirstPass(b, d)[URLLC] = u
      /\ FirstPass(b, d)[MMTC] = m
  BY <1>2, FirstPassWithinBudget
<1>7. e \in Nat /\ u \in Nat /\ m \in Nat
  BY <1>6, DemandValues
<1>8. /\ limit'[n][EMBB] = Greater(e, MinLimit)
      /\ limit'[n][URLLC] = Greater(u, MinLimit)
      /\ limit'[n][MMTC] = Greater(m, MinLimit)
  BY <1>5, <1>6, EnforcedType DEF Slices
<1> HIDE DEF e, u, m
<1>9. /\ limit'[n][EMBB] \in Nat /\ limit'[n][EMBB] >= e
      /\ limit'[n][URLLC] \in Nat /\ limit'[n][URLLC] >= u
      /\ limit'[n][MMTC] \in Nat /\ limit'[n][MMTC] >= m
  BY <1>7, <1>8, MinLimitNat DEF Greater
<1>10. ASSUME NEW s \in Slices, limit'[n][s] \in Nat, limit'[n][s] >= d[s]
       PROVE  Clears(n, s)
  <2>1. d[s] \in Nat /\ RateOf(held[n][s]) \in Nat
    BY <1>2, <1>4, RateOfNat DEF Demands
  <2>2. limit'[n][s] >= RateOf(held[n][s])
    BY <1>4, <1>10, <2>1
  <2> QED
    BY <1>4, <1>10, <2>2, RateClears DEF Clears
<1>11. d[EMBB] \in Nat /\ d[URLLC] \in Nat /\ d[MMTC] \in Nat
  BY <1>2, DemandValues
<1>12. Clears(n, URLLC) \/ limit'[n][URLLC] >= UrllcCeiling(b)
  <2>1. u >= d[URLLC] \/ u = UrllcCeiling(b)
    BY <1>2, SharesCover DEF u
  <2>2. limit'[n][URLLC] >= d[URLLC] \/ limit'[n][URLLC] >= UrllcCeiling(b)
    BY <1>7, <1>9, <1>11, <2>1
  <2> QED
    BY <1>9, <1>10, <2>2 DEF Slices
<1>13. Clears(n, MMTC) \/ limit'[n][MMTC] >= Percent(b - limit'[n][URLLC], 100 - FloorFor(d))
  <2> DEFINE p == 100 - FloorFor(d)
             rest == b - limit'[n][URLLC]
             left == LeftByUrllc(b, d)
  <2>1. p \in Nat
    BY <1>2, PolicyRanges
  <2>2. left \in Nat /\ rest \in Int /\ rest <= left
    <3>1. left \in Nat /\ left = b - u
      BY <1>2, FirstPassShares DEF u
    <3> HIDE DEF left
    <3> QED
      BY <1>2, <1>7, <1>9, <3>1
  <2>3. m >= d[MMTC] \/ m = Percent(left, p)
    BY <1>2, SharesCover DEF m
  <2> HIDE DEF p, rest, left
  <2>4. Percent(rest, p) <= Percent(left, p) /\ Percent(rest, p) \in Int
    BY <2>1, <2>2, PercentMonotone DEF Percent
  <2>5. Percent(left, p) \in Nat
    BY <2>1, <2>2, PercentNat
  <2>6. limit'[n][MMTC] >= d[MMTC] \/ limit'[n][MMTC] >= Percent(rest, p)
    BY <1>7, <1>9, <1>11, <2>3, <2>4, <2>5
  <2> QED
    BY <1>9, <1>10, <2>6 DEF Slices, p, rest
<1>14. Clears(n, EMBB) \/ Total(limit'[n]) >= b
  <2>1. e >= d[EMBB] \/ e + u + m = b
    BY <1>2, SharesCover DEF e, u, m
  <2>2. Total(limit'[n]) = limit'[n][EMBB] + limit'[n][URLLC] + limit'[n][MMTC]
    BY DEF Total
  <2>3. limit'[n][EMBB] >= d[EMBB] \/ Total(limit'[n]) >= b
    BY <1>2, <1>7, <1>9, <1>11, <2>1, <2>2
  <2> QED
    BY <1>9, <1>10, <2>3 DEF Slices
<1> QED
  BY <1>3, <1>12, <1>13, <1>14

(* No retune of the demand-driven arms leaves a bucket a rate under which  *)
(* its backlog outlasts the period, unless the slice is at its bound.      *)
THEOREM RetunesCoverBacklog == Spec => BacklogCovered
<1> DEFINE A == ticks' # ticks /\ ~FixedShareOn => \A n \in Nodes :
       /\ \/ Clears(n, URLLC)
          \/ limit'[n][URLLC] >= UrllcCeiling(budget'[n])
       /\ \/ Clears(n, MMTC)
          \/ limit'[n][MMTC] >= Percent(budget'[n] - limit'[n][URLLC],
                                        100 - FloorFor(demand'[n]))
       /\ Clears(n, EMBB) \/ Total(limit'[n]) >= budget'[n]
<1>1. IInv /\ [Next]_vars => [A]_vars
  <2> SUFFICES ASSUME IInv, Next PROVE A
    OBVIOUS
  <2>1. Tick \/ ticks' = ticks
    BY DEF Next, Advance, Transmit, Arrive, Release, Discard, loop
  <2> QED
    BY <2>1, TickCoversBacklog
<1> QED
  BY <1>1, Invariance, PTL DEF Spec, BacklogCovered

-----------------------------------------------------------------------------
(* The ticks that fired, the one that is due and m_stop, related: a tick   *)
(* is due at its place in the series until the series passes m_stop.       *)
TickAt(k) == Base + StartDelay + k * Period

Series ==
  /\ nextTick # Never => /\ nextTick = TickAt(ticks)
                         /\ clock <= nextTick
                         /\ ticks = 0 \/ nextTick < StopAt
  /\ nextTick = Never => /\ ticks > 0
                         /\ TickAt(ticks) >= StopAt
                         /\ ticks = 1 \/ TickAt(ticks - 1) < StopAt

LEMMA TickAtNat ==
  ASSUME NEW k \in Nat
  PROVE  /\ TickAt(k) \in Nat
         /\ TickAt(k + 1) = TickAt(k) + Period
         /\ TickAt(0) = Base + StartDelay
         /\ StopAt \in Nat /\ StopAt = Base + StartDelay + TrafficSec
BY TimeAssumption DEF TickAt, StartDelay, StopAt

LEMMA SeriesInit == Init => Series
<1> SUFFICES ASSUME Init PROVE Series
  OBVIOUS
<1>1. nextTick = Base + StartDelay /\ ticks = 0 /\ clock = Base /\ nextTick \in Nat
  BY TimeAssumption DEF Init, StartDelay
<1>2. nextTick = TickAt(ticks)
  BY <1>1, TickAtNat
<1>3. nextTick # Never /\ clock <= nextTick
  BY <1>1, TimeAssumption DEF Never, StartDelay
<1> QED
  BY <1>1, <1>2, <1>3 DEF Series

LEMMA SeriesStep == TypeOK /\ Series /\ [Next]_vars => Series'
<1> SUFFICES ASSUME TypeOK, Series, [Next]_vars PROVE Series'
  OBVIOUS
<1>1. clock \in Nat /\ ticks \in Nat /\ nextTick \in Nat \cup {Never} /\ Never \notin Nat
  BY DEF TypeOK, Never
<1>2. CASE Tick
  <2>1. nextTick = clock /\ nextTick # Never /\ clock' = clock /\ ticks' = ticks + 1
    BY <1>1, <1>2 DEF Tick
  <2>2. clock = TickAt(ticks) /\ (ticks = 0 \/ clock < StopAt)
    BY <2>1 DEF Series
  <2>3. TickAt(ticks') = clock + Period /\ TickAt(ticks' - 1) = clock /\ StopAt \in Nat
    BY <1>1, <2>1, <2>2, TickAtNat
  <2>4. Period \in Nat \ {0}
    BY TimeAssumption
  <2>5. CASE clock + Period < StopAt
    <3>1. nextTick' = clock + Period
      BY <1>2, <2>5 DEF Tick
    <3>2. nextTick' # Never
      BY <1>1, <2>4, <3>1 DEF Never
    <3> QED
      BY <1>1, <2>1, <2>3, <2>4, <2>5, <3>1, <3>2 DEF Series
  <2>6. CASE ~(clock + Period < StopAt)
    <3>1. nextTick' = Never
      BY <1>2, <2>6 DEF Tick
    <3>2. ticks' = 1 \/ TickAt(ticks' - 1) < StopAt
      BY <1>1, <2>1, <2>2, <2>3
    <3>3. ticks' > 0 /\ TickAt(ticks') >= StopAt
      BY <1>1, <2>1, <2>3, <2>4, <2>6
    <3> QED
      BY <3>1, <3>2, <3>3 DEF Series
  <2> QED
    BY <2>5, <2>6
<1>3. CASE Advance
  <2>1. nextTick # clock /\ UNCHANGED <<nextTick, ticks>>
    BY <1>3 DEF Advance, loop
  <2>2. CASE nextTick = Never
    BY <2>1, <2>2 DEF Series
  <2>3. CASE nextTick # Never
    <3>1. nextTick = TickAt(ticks) /\ clock <= nextTick /\ (ticks = 0 \/ nextTick < StopAt)
      BY <2>3 DEF Series
    <3>2. nextTick <= StopAt /\ StopAt <= Horizon /\ nextTick \in Nat
      BY <1>1, <2>3, <3>1, TickAtNat, TimeAssumption DEF Horizon
    <3>3. clock < Horizon /\ clock + 1 <= nextTick
      BY <1>1, <2>1, <3>1, <3>2, TickAtNat, TimeAssumption DEF Horizon
    <3>4. clock' = clock + 1
      BY <1>3, <3>3 DEF Advance
    <3> QED
      BY <2>1, <2>3, <3>1, <3>3, <3>4 DEF Series
  <2> QED
    BY <2>2, <2>3
<1>4. CASE UNCHANGED <<clock, nextTick, ticks>>
  BY <1>4 DEF Series
<1>5. Tick \/ Advance \/ UNCHANGED <<clock, nextTick, ticks>>
  BY DEF Next, Transmit, Arrive, Release, Discard, vars, loop
<1> QED
  BY <1>2, <1>3, <1>4, <1>5

(* The number of whole periods, the last one perhaps cut short, in T. *)
LEMMA CeilingOfQuotient ==
  ASSUME NEW k \in Nat, NEW P \in Nat \ {0}, NEW T \in Nat,
         k > 0, k * P >= T, (k - 1) * P < T
  PROVE  (T + P - 1) \div P = k
<1> DEFINE q == (T + P - 1) \div P
<1>1. k * P \in Nat /\ (k - 1) * P = k * P - P
  OBVIOUS
<1>2. q \in Nat /\ P * q <= T + P - 1 /\ T + P - 1 < P * (q + 1) /\ P * q \in Nat
  OBVIOUS
<1> HIDE DEF q
<1>3. q >= k
  <2> SUFFICES ASSUME q + 1 <= k PROVE FALSE
    BY <1>2
  <2>1. P * (q + 1) <= P * k /\ P * k = k * P
    BY <1>2
  <2> QED
    BY <1>1, <1>2, <2>1
<1>4. q <= k
  <2> SUFFICES ASSUME q >= k + 1 PROVE FALSE
    BY <1>2
  <2>1. P * q >= P * (k + 1) /\ P * (k + 1) = k * P + P
    BY <1>2
  <2> QED
    BY <1>1, <1>2, <2>1
<1> QED
  BY <1>2, <1>3, <1>4 DEF q

LEMMA SeriesCovers == TypeOK /\ Series => TicksCoverTraffic
<1> SUFFICES ASSUME TypeOK, Series, clock > StopAt
             PROVE  ticks = IF TrafficSec = 0 THEN 1
                            ELSE (TrafficSec + Period - 1) \div Period
  BY DEF TicksCoverTraffic
<1>1. clock \in Nat /\ ticks \in Nat /\ Period \in Nat \ {0} /\ TrafficSec \in Nat
  BY TimeAssumption DEF TypeOK
<1>2. nextTick = Never
  <2> SUFFICES ASSUME nextTick # Never PROVE FALSE
    OBVIOUS
  <2>1. nextTick = TickAt(ticks) /\ clock <= nextTick /\ (ticks = 0 \/ nextTick < StopAt)
    BY DEF Series
  <2> QED
    BY <1>1, <2>1, TickAtNat
<1>3. /\ ticks > 0 /\ TickAt(ticks) >= StopAt
      /\ ticks = 1 \/ TickAt(ticks - 1) < StopAt
  BY <1>2 DEF Series
<1>4. Base + StartDelay \in Nat /\ ticks * Period \in Nat /\ (ticks - 1) * Period \in Nat
  BY <1>1, <1>3, TimeAssumption DEF StartDelay
<1>5. ticks * Period >= TrafficSec /\ (ticks = 1 \/ (ticks - 1) * Period < TrafficSec)
  BY <1>1, <1>3, <1>4 DEF TickAt, StopAt, StartDelay
<1>6. CASE TrafficSec = 0
  BY <1>1, <1>3, <1>4, <1>5, <1>6
<1>7. CASE TrafficSec # 0
  <2>1. (ticks - 1) * Period < TrafficSec
    BY <1>1, <1>5, <1>7
  <2> QED
    BY <1>1, <1>3, <1>5, <1>7, <2>1, CeilingOfQuotient
<1> QED
  BY <1>6, <1>7

(* The loop ticks once per period of the whole traffic phase, whatever the *)
(* clock read when it was started.                                         *)
THEOREM LoopOutlivesWarmup == Spec => []TicksCoverTraffic
BY TypeCorrect, SeriesInit, SeriesStep, SeriesCovers, PTL DEF Spec
=============================================================================

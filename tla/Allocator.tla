----------------------------- MODULE Allocator -----------------------------
(***************************************************************************)
(* The per-slice rate allocation of ofdma/allocator.cc: pure arithmetic    *)
(* that cuts one node's admit budget into a limit per slice.               *)
(*                                                                         *)
(* Rates are natural numbers in a unit of the reader's choice, the three   *)
(* policy numbers are percentages, and each product is rounded down: the   *)
(* code works in doubles, and nothing below depends on the rounding but    *)
(* for the last unit.                                                      *)
(*                                                                         *)
(* A definition named D_Variant is D with a plausible mistake in it; the   *)
(* runs use it to show that a property does depend on D.                   *)
(***************************************************************************)
EXTENDS Integers

CONSTANTS
  UrllcHeadroom,   \* H in percent; 1/H is rho*, the fullest a lane may run
  MmtcHeadroom,    \* in percent
  EmbbFloor        \* F in percent, the eMBB share of what URLLC leaves

(* Allocate throws invalid_argument unless the headroom is at least 1. *)
ASSUME HeadroomAssumption == UrllcHeadroom \in Nat /\ UrllcHeadroom >= 100
ASSUME PolicyAssumption == MmtcHeadroom \in Nat /\ EmbbFloor \in Nat

EMBB == 0
URLLC == 1
MMTC == 2
Slices == {EMBB, URLLC, MMTC}

Lesser(a, b) == IF a <= b THEN a ELSE b
Greater(a, b) == IF a >= b THEN a ELSE b
Clamp(x, lo, hi) == Lesser(Greater(x, lo), hi)

(* A value per lane. *)
BySlice(embb, urllc, mmtc) ==
  [s \in Slices |-> IF s = EMBB THEN embb ELSE IF s = URLLC THEN urllc ELSE mmtc]

Total(share) == share[EMBB] + share[URLLC] + share[MMTC]

(* The policy numbers after the clamps at the head of Allocate. *)
H == Lesser(UrllcHeadroom, 2000)
MH == Clamp(MmtcHeadroom, 100, 2000)
FloorFor(demand) == IF demand[EMBB] <= 0 THEN 0 ELSE Clamp(EmbbFloor, 0, 100)

Percent(x, p) == (x * p) \div 100

(* rho* x B, the most of the budget URLLC may hold. *)
UrllcCeiling(budget) == (budget * 100) \div H

(* What each lane asks for: the quantity its share is capped at. *)
Need(demand) ==
  BySlice(demand[EMBB], Percent(demand[URLLC], H), Percent(demand[MMTC], MH))

(* Pass 1: URLLC first, then mMTC out of the (1-F) part of what is left,   *)
(* then eMBB, each held to its own need.                                   *)
UrllcShare_BlankCheque(budget, demand) == Lesser(Need(demand)[URLLC], budget)
UrllcShare(budget, demand) == Lesser(Need(demand)[URLLC], UrllcCeiling(budget))

LeftByUrllc(budget, demand) == Greater(0, budget - UrllcShare(budget, demand))

MmtcShare_NoFloor(budget, demand) ==
  Lesser(Need(demand)[MMTC], LeftByUrllc(budget, demand))
MmtcShare(budget, demand) ==
  Lesser(Need(demand)[MMTC],
         Percent(LeftByUrllc(budget, demand), 100 - FloorFor(demand)))

EmbbShare_MmtcIgnored(budget, demand) ==
  Lesser(Need(demand)[EMBB], LeftByUrllc(budget, demand))
EmbbShare_Residual(budget, demand) ==
  Greater(0, LeftByUrllc(budget, demand) - MmtcShare(budget, demand))
EmbbShare(budget, demand) ==
  Lesser(Need(demand)[EMBB],
         Greater(0, LeftByUrllc(budget, demand) - MmtcShare(budget, demand)))

FirstPass(budget, demand) ==
  BySlice(EmbbShare(budget, demand), UrllcShare(budget, demand), MmtcShare(budget, demand))

(* Pass 2: reclaim what a share exceeds its need by, offer it to URLLC,    *)
(* mMTC and eMBB in that order, and leave the rest with eMBB.              *)
Redistribute(share, need) ==
  LET kept   == [s \in Slices |-> Lesser(share[s], need[s])]
      want   == [s \in Slices |-> Greater(0, need[s] - kept[s])]
      spare1 == Total(share) - Total(kept)
      giveU  == Lesser(want[URLLC], spare1)
      spare2 == spare1 - giveU
      giveM  == Lesser(want[MMTC], spare2)
      spare3 == spare2 - giveM
  IN  BySlice(kept[EMBB] + spare3, kept[URLLC] + giveU, kept[MMTC] + giveM)

Allocate(budget, demand, secondRound) ==
  IF secondRound THEN Redistribute(FirstPass(budget, demand), Need(demand))
                 ELSE FirstPass(budget, demand)
=============================================================================

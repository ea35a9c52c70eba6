--------------------------- MODULE MCOpticalSender ---------------------------
(***************************************************************************)
(* The pages of the optical sender, and beside them the order in which      *)
(* their loops show frames: with numbers that are exact only up to          *)
(* ExactTo, small totals already meet every rounding and every coprime.     *)
(***************************************************************************)
EXTENDS OpticalSender, TLC

CONSTANT ExactTo     \* MAX_SAFE_INTEGER of the schedule

Order == INSTANCE OpticalSchedule WITH MaxSafe <- ExactTo
ASSUME OrderConstants == Order!OpticalScheduleAssumption

TabSymmetry == Permutations(Tabs)

Totals == 1 .. ExactTo
Passes == { 0, 1, ExactTo - 1, ExactTo }
SomeKeys == Order!Keys({ 0, 3, ExactTo - 1, ExactTo + 5 })

\* The greatest common divisor is one exactly if no number above one divides both.
ASSUME CoprimeIsMeant ==
  \A l, r \in 1 .. 2 * ExactTo :
    Order!GreatestCommonDivisor[l, r] = 1
      <=> \A d \in 2 .. l : l % d # 0 \/ r % d # 0

\* Every pass, for every total up to the largest that is allowed, is a
\* permutation, restarts exactly and starts elsewhere than the one before.
ASSUME PassesArePermutations ==
  \A total \in Totals, pass \in Passes, key \in SomeKeys :
    LET schedule == Order!OpticalPassSchedule(total, pass, key) IN
    /\ Order!EveryChunkOnce(schedule)
    /\ Order!RestartsExactly(schedule)
    /\ pass < ExactTo => \A later \in { 0, 4 } : Order!StartsElsewhere(total, pass, key, later)

\* The manifest is near everywhere, for every interval.
ASSUME ManifestsAreNear ==
  \A total \in 0 .. 7, interval \in 1 .. 8, key \in Order!Keys({ 2 }) :
    Order!ManifestIsNear(total, 1, key, interval)
=============================================================================

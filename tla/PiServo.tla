------------------------------- MODULE PiServo -------------------------------
(***************************************************************************)
(* tap::sr::async::pi_servo (async/include/tap/sr/async/pi_servo.h): the   *)
(* PI loop with its three stages, acquire, track and quiet.                *)
(*                                                                         *)
(* The two smoothed errors of an update, e_fast and e_quiet, are inputs:   *)
(* the smoothers are linear filters of a measurement this module knows     *)
(* nothing about.  Everything after them is here: the hold window, the     *)
(* promotions and demotions, the integrator and its clamps.  Errors,       *)
(* gains, deviations and times are small integers; the running average of  *)
(* eps_hat, a convex combination, is any integer between its operands.     *)
(***************************************************************************)
EXTENDS Integers

CONSTANTS
  Limit,       \* 1.5 * max_deviation_ppm
  LockBelow,   \* lock_threshold_frames
  UnlockAbove, \* unlock_threshold_frames
  LockHold,    \* lock_hold_seconds
  QuietHold,   \* quiet_hold_seconds
  Kp, Ki,      \* m_kp_*, m_ki_*: functions of the stage
  Errors,      \* bound: the errors an update may see
  Dts          \* bound: the block durations; 0 is a pull() of no frames

Stages == {"acquire", "track", "quiet"}

ASSUME ServoAssumption ==
  /\ Limit \in Nat /\ LockBelow \in Nat /\ UnlockAbove \in Nat
  /\ LockHold \in Nat \ {0} /\ QuietHold \in Nat \ {0}
  /\ Kp \in [Stages -> Nat] /\ Ki \in [Stages -> Nat]
  /\ Errors \subseteq Int /\ Dts \subseteq Nat

VARIABLES
  stage,     \* m_stage
  holdTimer, \* m_hold_timer
  epsAvg,    \* m_eps_avg
  integ,     \* m_integ
  epsHat,    \* m_eps_hat
  calmFor,   \* history: how long the error this stage watches has stayed calm, up to
             \* more than any hold lasts
  seen,      \* history: the eps_hat in force at those updates
  calm       \* history: the last call was an update of positive length, both errors calm

state == <<stage, holdTimer, epsAvg, integ, epsHat>>
servoVars == <<state, calmFor, seen, calm>>

Abs(x) == IF x < 0 THEN -x ELSE x

Clamped(x) == IF x < -Limit THEN -Limit ELSE IF x > Limit THEN Limit ELSE x
Between(a, b) == IF a < b THEN a..b ELSE b..a

ServoInit ==
  /\ stage = "acquire" /\ holdTimer = 0 /\ epsAvg = 0 /\ integ = 0 /\ epsHat = 0
  /\ calmFor = 0 /\ seen = {} /\ calm = FALSE

-----------------------------------------------------------------------------
(* reset(keep_integrator).                                                  *)
Reset(keep) ==
  /\ integ' = IF keep THEN integ ELSE 0
  /\ epsHat' = integ'
  /\ stage' = "acquire"
  /\ holdTimer' = 0
  /\ UNCHANGED epsAvg
  /\ calmFor' = 0 /\ seen' = {} /\ calm' = FALSE

Excited(e) == Abs(e) >= LockBelow

(* advance_hold(e, ., hold, dt): an error over the threshold starts the     *)
(* hold over; below it eps_hat is averaged while the timer runs, and when   *)
(* the hold is complete the stage below takes over.                         *)
Averaged(dt) ==
  \/ holdTimer = 0 /\ epsAvg' = epsHat
  \/ holdTimer # 0 /\ dt = 0 /\ UNCHANGED epsAvg
  \/ holdTimer # 0 /\ dt # 0 /\ epsAvg' \in Between(epsAvg, epsHat)

(* Fault: the timer survives an excursion.                                  *)
BreakHoldKeepsTimer(e) ==
  /\ Excited(e)
  /\ UNCHANGED <<stage, holdTimer, epsAvg>>

BreakHold(e) ==
  /\ Excited(e)
  /\ holdTimer' = 0
  /\ UNCHANGED <<stage, epsAvg>>

(* Fault: only the last block counts.                                       *)
HoldForgets(e, hold, dt) ==
  /\ ~Excited(e)
  /\ holdTimer + dt < hold
  /\ Averaged(dt)
  /\ holdTimer' = dt
  /\ UNCHANGED stage

Hold(e, hold, dt) ==
  /\ ~Excited(e)
  /\ holdTimer + dt < hold
  /\ Averaged(dt)
  /\ holdTimer' = holdTimer + dt
  /\ UNCHANGED stage

Promote(e, hold, dt, to) ==
  /\ ~Excited(e)
  /\ holdTimer + dt >= hold
  /\ Averaged(dt)
  /\ holdTimer' = 0
  /\ stage' = to

AdvanceHold(e, hold, dt, to) == BreakHold(e) \/ Hold(e, hold, dt) \/ Promote(e, hold, dt, to)

(* Fault: the timer survives a demotion.                                    *)
DemoteKeepsTimer(to) ==
  /\ stage' = to
  /\ UNCHANGED <<holdTimer, epsAvg>>

Demote(to) ==
  /\ stage' = to
  /\ holdTimer' = 0
  /\ UNCHANGED epsAvg

(* The stage machine of update().                                           *)
StageStep(eFast, eQuiet, dt) ==
  \/ stage = "acquire" /\ AdvanceHold(eFast, LockHold, dt, "track")
  \/ stage = "track" /\ Abs(eFast) > UnlockAbove /\ Demote("acquire")
  \/ stage = "track" /\ Abs(eFast) <= UnlockAbove /\ AdvanceHold(eQuiet, QuietHold, dt, "quiet")
  \/ stage = "quiet" /\ Abs(eQuiet) > UnlockAbove /\ Demote("track")
  \/ stage = "quiet" /\ Abs(eQuiet) <= UnlockAbove /\ UNCHANGED <<stage, holdTimer, epsAvg>>

(* The promotions load the integrator; then one PI step with the gains and  *)
(* the error of the stage now in force.                                     *)
Promoted == <<stage, stage'>> \in {<<"acquire", "track">>, <<"track", "quiet">>}

Output(eFast, eQuiet, dt) ==
  LET e    == IF stage' = "quiet" THEN eQuiet ELSE eFast
      from == IF Promoted THEN Clamped(epsAvg') ELSE integ
  IN /\ integ' = Clamped(from + Ki[stage'] * e * dt)
     /\ epsHat' = Clamped(Kp[stage'] * e + integ')

(* The hold as an observer of the calls would time it: consecutive updates  *)
(* in one stay in a stage, the error the stage watches calm in each.        *)
Watched(eFast, eQuiet) == IF stage = "acquire" THEN eFast ELSE eQuiet
ObserveHold(eFast, eQuiet, dt) ==
  /\ IF stage' = stage /\ stage # "quiet" /\ ~Excited(Watched(eFast, eQuiet))
     THEN /\ calmFor' = IF calmFor + dt < LockHold + QuietHold THEN calmFor + dt
                        ELSE LockHold + QuietHold
          /\ seen' = IF calmFor = 0 THEN {epsHat} ELSE seen \union {epsHat}
     ELSE calmFor' = 0 /\ seen' = {}
  /\ calm' = (dt > 0 /\ ~Excited(eFast) /\ ~Excited(eQuiet))

Update(eFast, eQuiet, dt) ==
  /\ StageStep(eFast, eQuiet, dt)
  /\ Output(eFast, eQuiet, dt)
  /\ ObserveHold(eFast, eQuiet, dt)

ServoNext ==
  \/ \E keep \in BOOLEAN : Reset(keep)
  \/ \E eFast \in Errors, eQuiet \in Errors, dt \in Dts : Update(eFast, eQuiet, dt)

ServoSpec == ServoInit /\ [][ServoNext]_servoVars

(* pull() keeps being called with blocks of at least one frame.             *)
FairServo ==
  ServoSpec /\ WF_servoVars(\E eFast \in Errors, eQuiet \in Errors, dt \in Dts \ {0} :
                    Update(eFast, eQuiet, dt))

-----------------------------------------------------------------------------
(* The deviation handed to the resampler and the integrator never leave the *)
(* clamp.                                                                   *)
ServoTypeOK ==
  /\ stage \in Stages /\ holdTimer \in Nat
  /\ {epsAvg, integ, epsHat} \subseteq -Limit..Limit
  /\ calmFor \in Nat /\ seen \subseteq -Limit..Limit /\ calm \in BOOLEAN

(* A promotion is earned: the timer counts exactly the time the error the   *)
(* stage watches has been calm without a break in this stay, whatever       *)
(* demotions, resets and excursions came before.                            *)
HoldIsHonest == stage # "quiet" => holdTimer = calmFor

(* The estimate a promotion hands to the narrower stage is an average over  *)
(* the hold window alone: nothing a wider stage or an earlier window        *)
(* produced is left in it.                                                  *)
AverageOfHold ==
  holdTimer > 0 =>
    \E lo \in seen, hi \in seen : lo <= epsAvg /\ epsAvg <= hi

(* A promotion rests on a hold of its own, and hands over that hold's       *)
(* average.                                                                 *)
PromotionIsEarned == HoldIsHonest /\ AverageOfHold

(* Once both errors stay calm the servo reaches the quiet stage and stays.  *)
SettlesQuiet == <>[]calm => <>[](stage = "quiet")

=============================================================================

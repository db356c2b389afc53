------------------------------ MODULE FixedWalk ------------------------------
(***************************************************************************)
(* A walk of given segments (FixedWalk), and the optimiser that has one    *)
(* walked for each of its samples of the engine's parameters, counts the   *)
(* getups in it and calls off a trial with too many (WalkOptimiser).       *)
(* Their handlers are in a Sync group each, but for those of ExecuteGetup  *)
(* and KillGetup.                                                          *)
(***************************************************************************)
EXTENDS WalkEngine

CONSTANTS
  Samples,      (* number_of_samples                                        *)
  Segments,     (* how many segments a walk has                             *)
  Duration,     (* of a segment, in ticks of FixedWalk                      *)
  MaxElapsed,   (* bound on the ticks counted                               *)
  Threshold     (* getup_cancel_trial_threshold                             *)

(* The optimiser and FixedWalk each get the two messages about a getup.      *)
FixedWalkLetter ==
  { "FixedWalkCommand", "CancelFixedWalk", "FixedWalkFinished",
    "ExecuteGetup", "KillGetup", "RecordGetup", "GetupFinished" }

ASSUME FixedWalkAssumption ==
  /\ FixedWalkLetter \subseteq Letter
  /\ Samples \in Nat \ {0} /\ Segments \in Nat \ {0} /\ Duration \in Nat \ {0}
  /\ MaxElapsed \in Nat /\ MaxElapsed > Duration
  /\ Threshold \in Nat \ {0}

VARIABLES
  walking,      (* FixedWalk's `active'                                     *)
  fallen,
  segments,     (* walkSegments still to be walked                          *)
  elapsed,      (* now - segmentStart                                       *)
  elapsedBeforeFall,
  currentSample, (* 0 before the first                                      *)
  numberOfGetups,
  fitnesses,    (* the samples whose fitness is known                       *)
  onGround,     (* the robot                                                *)
  walked,       (* history: ticks walked upright in this trial              *)
  whole         (* history: the trial began upright and was not called off  *)

fixedWalkVars == <<walking, fallen, segments, elapsed, elapsedBeforeFall>>
optimiserVars == <<currentSample, numberOfGetups, fitnesses>>
trialVars == <<fixedWalkVars, optimiserVars, onGround, walked, whole>>

TrialInit ==
  /\ walking = FALSE /\ fallen = FALSE /\ segments = 0
  /\ elapsed = 0 /\ elapsedBeforeFall = 0
  /\ currentSample = 0 /\ numberOfGetups = 0 /\ fitnesses = {}
  /\ onGround = FALSE
  /\ walked = 0 /\ whole = FALSE

Cap(n, max) == IF n < max THEN n ELSE max
-----------------------------------------------------------------------------
(* FixedWalk.                                                                *)
FixedWalkCommand ==
  /\ Answer("FixedWalkCommand", IF walking THEN {} ELSE {"WalkStartCommand"})
  /\ walking' = TRUE
  /\ elapsed' = IF walking THEN elapsed ELSE 0
  /\ segments' = segments + Segments
  /\ walked' = 0
  /\ whole' = ~onGround
  /\ UNCHANGED <<engineVars, claimVars, fallen, elapsedBeforeFall, optimiserVars,
                 onGround>>

(* Mutant: a segment is also over while the robot is on the ground.          *)
SegmentOverRegardless(now) == walking /\ now > Duration

SegmentOver(now) == walking /\ now > Duration /\ ~fallen

(* Mutant: notices one tick late that there is no segment left.              *)
LastGoneBelow(left) == left < 0

LastGone(left) == left = 0

(* The manager, thirty times a second.                                       *)
FixedWalkTick ==
  LET now == Cap(elapsed + 1, MaxElapsed) IN
  /\ IF SegmentOver(now)
     THEN /\ segments' = segments - 1
          /\ elapsed' = now - Duration
          /\ IF LastGone(segments')
             THEN walking' = FALSE /\ Send({"WalkStopCommand"})
             ELSE UNCHANGED <<walking, mail>>
     ELSE elapsed' = now /\ UNCHANGED <<segments, walking, mail>>
  /\ walked' = IF walking /\ ~onGround THEN Cap(walked + 1, Segments * Duration) ELSE walked
  /\ UNCHANGED <<engineVars, claimVars, fallen, elapsedBeforeFall, optimiserVars,
                 onGround, whole>>

(* Mutant: the finish is reported at once.                                   *)
CancelAndFinish ==
  /\ Answer("CancelFixedWalk", {"WalkStopCommand", "FixedWalkFinished"})
  /\ walking' = FALSE
  /\ segments' = 0
  /\ whole' = FALSE
  /\ UNCHANGED <<engineVars, claimVars, fallen, elapsed, elapsedBeforeFall, optimiserVars,
                 onGround, walked>>

CancelFixedWalk ==
  /\ Answer("CancelFixedWalk", {"WalkStopCommand"})
  /\ walking' = FALSE
  /\ segments' = 0
  /\ whole' = FALSE
  /\ UNCHANGED <<engineVars, claimVars, fallen, elapsed, elapsedBeforeFall,
                 optimiserVars, onGround, walked>>

(* If it is still walking it only warns.                                     *)
WalkStopped ==
  /\ Answer("WalkStopped", IF walking THEN {} ELSE {"FixedWalkFinished"})
  /\ UNCHANGED <<engineVars, claimVars, trialVars>>

ExecuteGetup ==
  /\ Answer("ExecuteGetup", {})
  /\ elapsedBeforeFall' = elapsed
  /\ fallen' = TRUE
  /\ UNCHANGED <<engineVars, claimVars, walking, segments, elapsed, optimiserVars,
                 onGround, walked, whole>>

(* Mutant: only the time is restored.                                        *)
KillGetupFallen ==
  /\ Answer("KillGetup", {})
  /\ elapsed' = elapsedBeforeFall
  /\ UNCHANGED <<engineVars, claimVars, walking, fallen, segments, elapsedBeforeFall,
                 optimiserVars, onGround, walked, whole>>

KillGetup ==
  /\ Answer("KillGetup", {})
  /\ elapsed' = elapsedBeforeFall
  /\ fallen' = FALSE
  /\ UNCHANGED <<engineVars, claimVars, walking, segments, elapsedBeforeFall,
                 optimiserVars, onGround, walked, whole>>
-----------------------------------------------------------------------------
(* WalkOptimiser.                                                            *)
OptimiseWalk ==
  /\ currentSample = 0
  /\ currentSample' = 1
  /\ Send({"WalkOptimiserCommand"})
  /\ UNCHANGED <<engineVars, claimVars, fixedWalkVars, numberOfGetups, fitnesses,
                 onGround, walked, whole>>

(* It sleeps for two seconds, in which all other messages are handled.       *)
WalkConfigSaved ==
  /\ updates = <<>> /\ \A m \in Letter \ {"WalkConfigSaved"} : mail[m] = 0
  /\ Answer("WalkConfigSaved", {"FixedWalkCommand"})
  /\ UNCHANGED <<engineVars, claimVars, trialVars>>

RecordGetup ==
  /\ Answer("RecordGetup", {})
  /\ numberOfGetups' = Cap(numberOfGetups + 1, Threshold)
  /\ UNCHANGED <<engineVars, claimVars, fixedWalkVars, currentSample, fitnesses,
                 onGround, walked, whole>>

GetupFinished ==
  /\ Answer("GetupFinished",
            IF numberOfGetups >= Threshold THEN {"CancelFixedWalk"} ELSE {})
  /\ UNCHANGED <<engineVars, claimVars, trialVars>>

(* After the last sample the results are combined and saved.                 *)
RoutineFinished ==
  /\ numberOfGetups' = 0
  /\ fitnesses' = fitnesses \cup {currentSample}
  /\ IF currentSample = Samples
     THEN Answer("FixedWalkFinished", {}) /\ UNCHANGED currentSample
     ELSE /\ Answer("FixedWalkFinished", {"WalkOptimiserCommand"})
          /\ currentSample' = currentSample + 1
  /\ UNCHANGED <<engineVars, claimVars, fixedWalkVars, onGround, walked, whole>>
-----------------------------------------------------------------------------
(* The robot falls, and the getup gets the legs; when it is up, Getup emits  *)
(* KillGetup for the completion and for the kill that follows.               *)
Fall ==
  /\ ~onGround /\ active
  /\ onGround' = TRUE
  /\ Send({"ExecuteGetup", "RecordGetup"})
  /\ SetRival(TRUE)
  /\ UNCHANGED <<fixedWalkVars, optimiserVars, walked, whole>>

GetUp ==
  /\ onGround
  /\ onGround' = FALSE
  /\ mail' = [mail EXCEPT !["KillGetup"] = 2, !["GetupFinished"] = 2]
  /\ SetRival(FALSE)
  /\ UNCHANGED <<fixedWalkVars, optimiserVars, walked, whole>>
-----------------------------------------------------------------------------
TrialTypeOK ==
  /\ walking \in BOOLEAN /\ fallen \in BOOLEAN /\ segments \in Nat
  /\ elapsed \in 0..MaxElapsed /\ elapsedBeforeFall \in 0..MaxElapsed
  /\ currentSample \in 0..Samples /\ numberOfGetups \in 0..Threshold
  /\ fitnesses \subseteq 1..Samples
  /\ onGround \in BOOLEAN /\ walked \in 0..(Segments * Duration) /\ whole \in BOOLEAN
=============================================================================

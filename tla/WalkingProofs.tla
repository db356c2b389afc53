---------------------------- MODULE WalkingProofs ----------------------------
(***************************************************************************)
(* Theorems about the walk, for any number of ticks in a step, any number  *)
(* of samples, segments, their length and tolerated getups, and any number *)
(* of messages in flight: the engine stands with its feet together; every  *)
(* variable keeps its type; a fitness is only reported for the sample the  *)
(* engine was configured for; and a trial that is finished was walked.     *)
(***************************************************************************)
EXTENDS Walking, TLAPS

(* The last step before the engine halts, which has been told to close,      *)
(* leads the feet together and has done so when it is over.                  *)
Closed ==
  stopRequest = 2 =>
    destined /\ (newStep \/ tick = TicksPerStep => together)

FeetInv == (~active => together) /\ (active => Closed)

LEMMA FeetInit == Init => FeetInv
BY DEF Init, WalkInit, FeetInv, Closed

(* What the priorities do to the feet: nothing, or both are put down.        *)
LEMMA ToldKeeps ==
  ASSUME FeetInv, NEW value, NEW other, Told(value, other)
  PROVE  FeetInv'
<1>1. UNCHANGED <<active, stopRequest>>
  BY DEF Told
<1>2. CASE StanceReset
  BY <1>1, <1>2 DEF StanceReset, FeetInv, Closed
<1>3. CASE UNCHANGED <<newStep, tick, destined, together>>
  BY <1>1, <1>3 DEF FeetInv, Closed
<1>. QED  BY <1>2, <1>3 DEF Told

LEMMA UpdateKeeps ==
  ASSUME FeetInv, Update \/ Proceed
  PROVE  FeetInv'
<1>0. TicksPerStep \in Nat \ {0}
  BY WalkAssumption DEF WalkAssumption
<1>1. CASE Halt
  <2>1. together
    BY <1>1 DEF Halt, AtBoundary, FeetInv, Closed
  <2>. QED  BY <1>1, <2>1 DEF Halt, FeetInv
<1>2. CASE ReportStopped
  BY <1>2 DEF ReportStopped, stepVars, FeetInv, Closed
<1>3. CASE NextStep
  BY <1>3 DEF NextStep, FeetInv, Closed
<1>4. CASE ReadStopRequest
  BY <1>4 DEF ReadStopRequest, stepVars, FeetInv, Closed
<1>5. CASE ClosingStep
  <2>1. /\ active' = active /\ destined' /\ ~newStep' /\ tick' = 1
        /\ together' = IF TicksPerStep = 1 THEN TRUE ELSE together /\ TRUE
    BY <1>5 DEF ClosingStep, StepBegins
  <2>2. tick' = TicksPerStep => together'
    BY <1>0, <2>1
  <2>3. ~active' => together'
    BY <2>1 DEF FeetInv
  <2>. QED  BY <2>1, <2>2, <2>3 DEF FeetInv, Closed
<1>6. CASE Swing
  <2>1. /\ active /\ active' /\ ~newStep /\ UNCHANGED <<stopRequest, newStep, destined>>
        /\ together' = IF tick' = TicksPerStep THEN destined ELSE together
    BY <1>6 DEF Swing, AtBoundary
  <2>. QED  BY <2>1 DEF FeetInv, Closed
<1>. QED  BY <1>1, <1>2, <1>3, <1>4, <1>5, <1>6 DEF Update, Proceed

LEMMA FeetNext == FeetInv /\ [Next]_vars => FeetInv'
<1>. SUFFICES ASSUME FeetInv, [Next]_vars  PROVE FeetInv'
  OBVIOUS
<1>1. ASSUME UNCHANGED <<active, stopRequest, stepVars>>  PROVE FeetInv'
  BY <1>1 DEF stepVars, FeetInv, Closed
<1>2. CASE WalkStart
  BY <1>2 DEF WalkStart, FeetInv, Closed
<1>3. CASE WalkStop
  BY <1>3 DEF WalkStop, stepVars, FeetInv, Closed
<1>4. CASE UpdatePriority
  BY <1>4, ToldKeeps DEF UpdatePriority
<1>5. ASSUME NEW other, SetRival(other)  PROVE FeetInv'
  BY <1>5, ToldKeeps DEF SetRival
<1>6. CASE Configure
  BY <1>1, <1>6 DEF Configure, ConfigureWalk
<1>7. CASE DeliverToTrial
  BY <1>1, <1>7 DEF DeliverToTrial, FixedWalkCommand, CancelFixedWalk, WalkStopped,
     ExecuteGetup, KillGetup, RecordGetup, GetupFinished, RoutineFinished, WalkConfigSaved,
     engineVars
<1>8. CASE KickFinished \/ StopIgnored \/ Plan
  BY <1>1, <1>8 DEF KickFinished, StopIgnored, Plan, engineVars
<1>9. CASE EngineUpdate \/ EngineProceeds
  BY <1>9, UpdateKeeps DEF EngineUpdate, EngineProceeds
<1>10. CASE Command
  <2>1. UNCHANGED <<active, stopRequest, newStep, tick, destined, together>>
    BY <1>10 DEF Command, SetVelocity
  <2>. QED  BY <2>1 DEF FeetInv, Closed
<1>11. CASE ManageWalk \/ BeginTrials \/ WalkStrategy
  BY <1>1, <1>11 DEF ManageWalk, FixedWalkTick, BeginTrials, OptimiseWalk, WalkStrategy,
     walkVars, engineVars
<1>12. CASE Falls \/ GetsUp \/ KickBegins \/ KickEnds
  BY <1>5, <1>12 DEF Falls, Fall, GetsUp, GetUp, KickBegins, KickEnds
<1>13. CASE UNCHANGED vars
  BY <1>1, <1>13 DEF vars, walkVars, engineVars
<1>. QED
  BY <1>2, <1>3, <1>4, <1>6, <1>7, <1>8, <1>9, <1>10, <1>11, <1>12, <1>13
  DEF Next, Conduct, Regard

(* The engine never stands with the feet apart, wherever a start, a stop, or *)
(* the loss or return of the legs falls between the statements of update():  *)
(* for any length of a step (WalkEngine.cpp:352, 386).                       *)
THEOREM StandsWithFeetTogether == Spec => []FeetTogether
<1>1. FeetInv => FeetTogether
  BY DEF FeetInv, FeetTogether
<1>. QED  BY <1>1, FeetInit, FeetNext, PTL DEF Spec
-----------------------------------------------------------------------------
(* Letters.                                                                  *)
MailOK == mail \in [Letter -> Nat]

LEMMA Letters ==
  /\ FixedWalkLetter \subseteq Letter
  /\ {"WalkStartCommand", "WalkStopCommand", "WalkOptimiserCommand", "WalkConfigSaved",
      "WalkStopped", "KickFinished"} \subseteq Letter
  /\ {"FixedWalkCommand", "CancelFixedWalk", "FixedWalkFinished", "ExecuteGetup", "KillGetup",
      "RecordGetup", "GetupFinished"} \subseteq Letter
BY WalkAssumption, FixedWalkAssumption, SessionAssumption
DEF WalkAssumption, FixedWalkAssumption, SessionAssumption, FixedWalkLetter

LEMMA SendCounts ==
  ASSUME MailOK, NEW letters, Send(letters)
  PROVE  /\ MailOK'
         /\ \A m \in Letter : mail'[m] = IF m \in letters THEN mail[m] + 1 ELSE mail[m]
BY DEF MailOK, Send, Post

(* The letter that is handled is not among those it is answered with.        *)
LEMMA AnswerCounts ==
  ASSUME MailOK, NEW letter \in Letter, NEW letters, letter \notin letters,
         Answer(letter, letters)
  PROVE  /\ MailOK' /\ mail[letter] > 0
         /\ \A m \in Letter : mail'[m] = IF m = letter THEN mail[m] - 1
                                         ELSE IF m \in letters THEN mail[m] + 1 ELSE mail[m]
<1>1. mail[letter] \in Nat /\ mail[letter] > 0
  BY DEF MailOK, Answer
<1>2. \A m \in Letter : Post(letters)[m] = IF m \in letters THEN mail[m] + 1 ELSE mail[m]
  BY DEF MailOK, Post
<1>3. Post(letters) \in [Letter -> Nat]
  BY DEF MailOK, Post
<1>4. mail' = [Post(letters) EXCEPT ![letter] = mail[letter] - 1]
  <2>1. Post(letters)[letter] = mail[letter]
    BY <1>2
  <2>. QED  BY <2>1, <1>3 DEF Answer
<1>. QED  BY <1>1, <1>2, <1>3, <1>4 DEF MailOK
-----------------------------------------------------------------------------
(* Types.                                                                    *)
FlagsOK ==
  /\ active \in BOOLEAN /\ started \in BOOLEAN /\ newStep \in BOOLEAN
  /\ velCommand \in BOOLEAN /\ velCurrent \in BOOLEAN
  /\ destined \in BOOLEAN /\ together \in BOOLEAN
  /\ updating \in {"no", "halted", "closing"}
  /\ newStep \/ started
CountsOK ==
  /\ stopRequest \in 0..2 /\ tick \in 0..TicksPerStep /\ initialStep \in 0..2
  /\ config \in Nat
EngineOK == FlagsOK /\ CountsOK
ClaimOK ==
  /\ priority \in {0, Priority} /\ updates \in Seq({0, Priority})
  /\ Len(updates) <= MaxUpdates
  /\ rival \in BOOLEAN
TrialOK == TrialTypeOK /\ (walking => segments > 0)
PlanOK ==
  /\ planType \in {"StandStill", "WalkToPoint"} /\ kicking \in BOOLEAN
  /\ session \in Sessions

(* A swing only follows the beginning of a step, and a walk that goes on has *)
(* a segment to be walked.                                                   *)
TypeInv == MailOK /\ EngineOK /\ ClaimOK /\ TrialOK /\ PlanOK

LEMMA TypesOK == TypeInv => TypeOK
BY DEF TypeInv, MailOK, EngineOK, FlagsOK, CountsOK, ClaimOK, TrialOK, PlanOK, TypeOK, WalkTypeOK

LEMMA TypesInit == Init => TypeInv
<1>. SUFFICES ASSUME Init  PROVE TypeInv
  OBVIOUS
<1>1. MailOK
  BY DEF Init, WalkInit, MailOK
<1>2. EngineOK
  <2>1. FlagsOK
    BY Zenon DEF Init, WalkInit, FlagsOK
  <2>2. stopRequest = 2 /\ tick = 0 /\ initialStep = 2 /\ config = 0
    BY DEF Init, WalkInit
  <2>3. CountsOK
    BY <2>2, WalkAssumption DEF CountsOK, WalkAssumption
  <2>. QED  BY <2>1, <2>3 DEF EngineOK
<1>3. ClaimOK
  <2>1. updates = <<>> /\ priority = 0
    BY DEF Init, WalkInit
  <2>2. rival \in BOOLEAN
    BY Zenon DEF Init, WalkInit
  <2>3. MaxUpdates \in Nat
    BY WalkAssumption DEF WalkAssumption
  <2>. QED  BY <2>1, <2>2, <2>3 DEF ClaimOK
<1>4. TrialOK
  <2>1. 0 \in 0..MaxElapsed /\ 0 \in 0..Samples /\ 0 \in 0..Threshold
    BY FixedWalkAssumption DEF FixedWalkAssumption
  <2>2. Segments * Duration \in Nat /\ 0 \in 0..(Segments * Duration)
    BY FixedWalkAssumption DEF FixedWalkAssumption
  <2>. QED  BY <2>1, <2>2 DEF Init, TrialInit, TrialOK, TrialTypeOK
<1>5. PlanOK
  BY DEF Init, PlanOK
<1>. QED  BY <1>1, <1>2, <1>3, <1>4, <1>5 DEF TypeInv

(* What a step leaves alone keeps its type.                                  *)
LEMMA Frames ==
  ASSUME TypeInv
  PROVE  /\ UNCHANGED mail => MailOK'
         /\ UNCHANGED engineVars => EngineOK'
         /\ UNCHANGED claimVars => ClaimOK'
         /\ UNCHANGED trialVars => TrialOK'
         /\ UNCHANGED planVars => PlanOK'
<1>1. UNCHANGED mail => MailOK'
  BY DEF TypeInv, MailOK
<1>2. UNCHANGED engineVars => EngineOK'
  BY DEF TypeInv, EngineOK, FlagsOK, CountsOK, engineVars, stepVars
<1>3. UNCHANGED claimVars => ClaimOK'
  BY DEF TypeInv, ClaimOK, claimVars
<1>4. UNCHANGED trialVars => TrialOK'
  BY DEF TypeInv, TrialOK, TrialTypeOK, trialVars, fixedWalkVars, optimiserVars
<1>5. UNCHANGED planVars => PlanOK'
  BY DEF TypeInv, PlanOK, planVars
<1>. QED  BY <1>1, <1>2, <1>3, <1>4, <1>5

LEMMA AskedTypes ==
  ASSUME ClaimOK, NEW value \in {0, Priority}, Ask(value), UNCHANGED <<priority, rival>>
  PROVE  ClaimOK'
<1>1. /\ updates \in Seq({0, Priority}) /\ Len(updates) \in Nat /\ MaxUpdates \in Nat
      /\ Len(updates) < MaxUpdates
  BY WalkAssumption DEF ClaimOK, Ask, WalkAssumption
<1>2. updates' \in Seq({0, Priority}) /\ Len(updates') = Len(updates) + 1
  BY <1>1 DEF Ask
<1>. QED  BY <1>1, <1>2 DEF ClaimOK

LEMMA ToldTypes ==
  ASSUME EngineOK, NEW value, NEW other, Told(value, other)
  PROVE  EngineOK'
<1>1. CASE StanceReset /\ UNCHANGED <<active, started, stopRequest, initialStep, velCommand,
                                      velCurrent, updating, config>>
  <2>1. FlagsOK'
    BY <1>1, Zenon DEF StanceReset, EngineOK, FlagsOK
  <2>2. CountsOK'
    BY <1>1, WalkAssumption DEF StanceReset, EngineOK, CountsOK, WalkAssumption
  <2>. QED  BY <2>1, <2>2 DEF EngineOK
<1>2. CASE UNCHANGED <<newStep, tick, destined, together, active, started, stopRequest,
                       initialStep, velCommand, velCurrent, updating, config>>
  BY <1>2 DEF EngineOK, FlagsOK, CountsOK
<1>. QED  BY <1>1, <1>2 DEF Told

LEMMA RivalTypes ==
  ASSUME EngineOK, ClaimOK, NEW other \in BOOLEAN, SetRival(other)
  PROVE  EngineOK' /\ ClaimOK'
<1>1. EngineOK'
  BY ToldTypes DEF SetRival
<1>2. ClaimOK'
  BY DEF SetRival, ClaimOK
<1>. QED  BY <1>1, <1>2

(* The statements of update().                                               *)
LEMMA BeginsTypes ==
  ASSUME EngineOK, NEW velocity \in BOOLEAN, NEW destination \in BOOLEAN,
         StepBegins(velocity, destination), stopRequest' \in 0..2, velCommand' \in BOOLEAN,
         updating' = "no", UNCHANGED <<active, config>>
  PROVE  EngineOK'
<1>1. tick' \in 0..TicksPerStep
  BY WalkAssumption DEF StepBegins, WalkAssumption
<1>2. initialStep' \in 0..2
  BY DEF EngineOK, CountsOK, StepBegins
<1>3. together' \in BOOLEAN
  BY Zenon DEF EngineOK, FlagsOK, StepBegins
<1>4. FlagsOK'
  BY <1>3, Zenon DEF EngineOK, FlagsOK, StepBegins
<1>5. CountsOK'
  BY <1>1, <1>2 DEF EngineOK, CountsOK
<1>. QED  BY <1>4, <1>5 DEF EngineOK

LEMMA UpdateTypes ==
  ASSUME TypeInv, Update \/ Proceed
  PROVE  MailOK' /\ EngineOK' /\ ClaimOK'
<1>0. MailOK /\ EngineOK /\ ClaimOK
  BY DEF TypeInv
<1>1. CASE Halt
  <2>1. FlagsOK'
    BY <1>0, <1>1, Zenon DEF Halt, EngineOK, FlagsOK
  <2>2. CountsOK'
    BY <1>0, <1>1 DEF Halt, EngineOK, CountsOK
  <2>. QED  BY <1>1, <2>1, <2>2, Frames DEF Halt, EngineOK
<1>2. CASE ReportStopped
  <2>1. EngineOK'
    BY <1>0, <1>2 DEF ReportStopped, EngineOK, FlagsOK, CountsOK, stepVars
  <2>2. ClaimOK'
    BY <1>0, <1>2, AskedTypes DEF ReportStopped
  <2>. QED  BY <1>0, <1>2, <2>1, <2>2, SendCounts DEF ReportStopped
<1>3. CASE NextStep
  <2>0. PICK velocity \in Accelerated :
          \E destination \in Destinations(velocity) : StepBegins(velocity, destination)
    BY <1>3 DEF NextStep
  <2>1. PICK destination \in Destinations(velocity) : StepBegins(velocity, destination)
    BY <2>0
  <2>2. velocity \in BOOLEAN
    BY <1>0, <2>0 DEF Accelerated, EngineOK, FlagsOK
  <2>3. destination \in BOOLEAN
    BY <1>0, <2>1, <2>2 DEF Destinations, EngineOK, FlagsOK
  <2>4. EngineOK'
    BY <1>0, <1>3, <2>1, <2>2, <2>3, BeginsTypes DEF NextStep, EngineOK, FlagsOK, CountsOK
  <2>. QED  BY <1>3, <2>4, Frames DEF NextStep
<1>4. CASE ReadStopRequest
  <2>1. EngineOK'
    BY <1>0, <1>4 DEF ReadStopRequest, EngineOK, FlagsOK, CountsOK, stepVars
  <2>. QED  BY <1>4, <2>1, Frames DEF ReadStopRequest
<1>5. CASE ClosingStep
  <2>1. EngineOK'
    <3>1. FALSE \in BOOLEAN /\ TRUE \in BOOLEAN /\ velCommand' \in BOOLEAN
      BY <1>5, Zenon DEF ClosingStep
    <3>2. stopRequest' \in 0..2
      BY <1>5 DEF ClosingStep
    <3>3. StepBegins(FALSE, TRUE) /\ updating' = "no" /\ UNCHANGED <<active, config>>
      BY <1>5 DEF ClosingStep
    <3>. QED  BY <1>0, <3>1, <3>2, <3>3, BeginsTypes, Zenon
  <2>. QED  BY <1>5, <2>1, Frames DEF ClosingStep
<1>6. CASE Swing
  <2>1. tick \in 0..TicksPerStep /\ tick # TicksPerStep /\ TicksPerStep \in Nat
    BY <1>0, <1>6, WalkAssumption DEF Swing, AtBoundary, EngineOK, FlagsOK, CountsOK, WalkAssumption
  <2>2. tick' \in 0..TicksPerStep
    BY <1>6, <2>1 DEF Swing
  <2>3. EngineOK'
    BY <1>0, <1>6, <2>2 DEF Swing, EngineOK, FlagsOK, CountsOK
  <2>. QED  BY <1>6, <2>3, Frames DEF Swing
<1>. QED  BY <1>1, <1>2, <1>3, <1>4, <1>5, <1>6 DEF Update, Proceed
-----------------------------------------------------------------------------
(* A trial is in one place at a time: on its way as one of the messages that *)
(* hand it on, with the engine, or nowhere.                                  *)
Led == IF active THEN 1 ELSE 0
Ending == IF updating = "halted" THEN 1 ELSE 0
Trials ==
  mail["WalkOptimiserCommand"] + mail["WalkConfigSaved"] + mail["FixedWalkCommand"]
  + mail["WalkStartCommand"] + Led + Ending
  + mail["WalkStopped"] + mail["FixedWalkFinished"]

(* The engine is configured for the sample before it walks, and the sample   *)
(* is counted when its trial is over. In play no trial is ever finished.     *)
OwnInv ==
  IF session.leads = "play" THEN mail["FixedWalkFinished"] = 0
  ELSE /\ Trials <= 1
       /\ currentSample = 0 => Trials = 0
       /\ fitnesses \subseteq 1..currentSample
       /\ Trials = 1 => currentSample \notin fitnesses
       /\ Trials = 1 /\ mail["WalkOptimiserCommand"] = 0 => config = currentSample

(* The places, as numbers.                                                   *)
Numbered ==
  /\ mail["WalkOptimiserCommand"] \in Nat /\ mail["WalkConfigSaved"] \in Nat
  /\ mail["FixedWalkCommand"] \in Nat /\ mail["WalkStartCommand"] \in Nat
  /\ mail["WalkStopped"] \in Nat /\ mail["FixedWalkFinished"] \in Nat
  /\ Led \in {0, 1} /\ Ending \in {0, 1}

LEMMA Numbers == (MailOK => Numbered) /\ (MailOK' => Numbered')
BY Letters DEF MailOK, Numbered, Led, Ending

LEMMA OneTrial ==
  ASSUME MailOK, Trials <= 1
  PROVE  /\ \A m \in {"WalkOptimiserCommand", "WalkConfigSaved", "FixedWalkCommand",
                      "WalkStartCommand", "WalkStopped", "FixedWalkFinished"} :
              mail[m] > 0 => Trials = 1
         /\ active \/ updating = "halted" => Trials = 1
<1>1. Numbered
  BY Numbers
<1>2. (active => Led = 1) /\ (updating = "halted" => Ending = 1)
  BY DEF Led, Ending
<1>. DEFINE a == mail["WalkOptimiserCommand"]
            b == mail["WalkConfigSaved"]
            c == mail["FixedWalkCommand"]
            d == mail["WalkStartCommand"]
            e == Led
            f == Ending
            g == mail["WalkStopped"]
            h == mail["FixedWalkFinished"]
<1>3. /\ {a, b, c, d, e, f, g, h} \subseteq Nat
      /\ a + b + c + d + e + f + g + h <= 1 /\ Trials = a + b + c + d + e + f + g + h
  BY <1>1 DEF Trials, Numbered
<1>. HIDE DEF a, b, c, d, e, f, g, h
<1>4. a > 0 \/ b > 0 \/ c > 0 \/ d > 0 \/ e > 0 \/ f > 0 \/ g > 0 \/ h > 0 => Trials = 1
  BY <1>3
<1>5. (active => e > 0) /\ (updating = "halted" => f > 0)
  BY <1>2 DEF e, f
<1>. QED  BY <1>4, <1>5 DEF a, b, c, d, g, h

(* The handlers of the trial, and the robot.                                 *)
LEMMA TickTypes ==
  ASSUME TypeInv, FixedWalkTick
  PROVE  MailOK' /\ TrialOK'
<1>. DEFINE now == Cap(elapsed + 1, MaxElapsed)
            whole_walk == Segments * Duration
<1>0. MailOK /\ TrialOK
  BY DEF TypeInv
<1>1. /\ Duration \in Nat \ {0} /\ MaxElapsed \in Nat /\ whole_walk \in Nat
      /\ elapsed \in 0..MaxElapsed /\ segments \in Nat /\ walked \in 0..whole_walk
  BY <1>0, FixedWalkAssumption DEF FixedWalkAssumption, TrialOK, TrialTypeOK
<1>2. now \in 0..MaxElapsed
  BY <1>1 DEF Cap
<1>3. walked' \in 0..whole_walk
  <2>1. walked' = walked \/ walked' = Cap(walked + 1, whole_walk)
    BY DEF FixedWalkTick
  <2>. HIDE DEF whole_walk
  <2>. QED  BY <1>1, <2>1 DEF Cap
<1>4. /\ walking' \in BOOLEAN /\ segments' \in Nat /\ elapsed' \in 0..MaxElapsed /\ MailOK'
      /\ walking' => segments' > 0
  <2>1. CASE SegmentOver(now)
    <3>1. walking /\ now > Duration /\ segments > 0
      BY <1>0, <2>1 DEF SegmentOver, TrialOK
    <3>2. segments' = segments - 1 /\ elapsed' = now - Duration
      BY <2>1 DEF FixedWalkTick
    <3>3. segments' \in Nat /\ elapsed' \in 0..MaxElapsed
      <4>. HIDE DEF now
      <4>. QED  BY <1>1, <1>2, <3>1, <3>2
    <3>4. CASE segments' = 0
      <4>1. walking' = FALSE /\ Send({"WalkStopCommand"})
        BY <2>1, <3>4 DEF FixedWalkTick, LastGone
      <4>. QED  BY <1>0, <3>3, <4>1, SendCounts
    <3>5. CASE segments' # 0
      <4>1. UNCHANGED <<walking, mail>>
        BY <2>1, <3>5 DEF FixedWalkTick, LastGone
      <4>2. segments' > 0
        BY <3>3, <3>5
      <4>. QED  BY <1>0, <3>1, <3>3, <4>1, <4>2 DEF MailOK
    <3>. QED  BY <3>4, <3>5
  <2>2. CASE ~SegmentOver(now)
    <3>1. elapsed' = now /\ UNCHANGED <<segments, walking, mail>>
      BY <2>2 DEF FixedWalkTick
    <3>. QED  BY <1>0, <1>2, <3>1 DEF TrialOK, TrialTypeOK, MailOK
  <2>. QED  BY <2>1, <2>2
<1>. QED  BY <1>0, <1>3, <1>4 DEF FixedWalkTick, TrialOK, TrialTypeOK, optimiserVars

LEMMA TrialTypes ==
  ASSUME TypeInv, OwnInv, DeliverToTrial
  PROVE  TypeInv'
<1>0. MailOK /\ EngineOK /\ ClaimOK /\ TrialOK /\ PlanOK
  BY DEF TypeInv
<1>t. MailOK' /\ TrialOK' => TypeInv'
  <2>1. UNCHANGED <<engineVars, claimVars, planVars>>
    BY DEF DeliverToTrial, Trial, FixedWalkCommand, CancelFixedWalk, WalkStopped, ExecuteGetup,
       KillGetup, RecordGetup, GetupFinished, RoutineFinished, WalkConfigSaved
  <2>. QED  BY <2>1, Frames DEF TypeInv
<1>1. CASE FixedWalkCommand
  <2>1. MailOK'
    BY <1>0, <1>1, AnswerCounts, Letters DEF FixedWalkCommand
  <2>2. segments' \in Nat /\ segments' > 0
    BY <1>0, <1>1, FixedWalkAssumption DEF FixedWalkCommand, FixedWalkAssumption, TrialOK, TrialTypeOK
  <2>3. elapsed' \in 0..MaxElapsed
    BY <1>0, <1>1, FixedWalkAssumption DEF FixedWalkCommand, FixedWalkAssumption, TrialOK, TrialTypeOK
  <2>4. walked' \in 0..(Segments * Duration) /\ whole' \in BOOLEAN
    <3>1. Segments * Duration \in Nat
      BY FixedWalkAssumption DEF FixedWalkAssumption
    <3>. QED  BY <1>1, <3>1 DEF FixedWalkCommand
  <2>5. TrialOK'
    BY <1>0, <1>1, <2>2, <2>3, <2>4 DEF FixedWalkCommand, TrialOK, TrialTypeOK, optimiserVars
  <2>. QED  BY <1>t, <2>1, <2>5
<1>2. CASE CancelFixedWalk
  <2>1. MailOK'
    BY <1>0, <1>2, AnswerCounts, Letters DEF CancelFixedWalk
  <2>2. TrialOK'
    BY <1>0, <1>2 DEF CancelFixedWalk, TrialOK, TrialTypeOK, optimiserVars
  <2>. QED  BY <1>t, <2>1, <2>2
<1>3. CASE WalkStopped
  <2>1. MailOK'
    BY <1>0, <1>3, AnswerCounts, Letters DEF WalkStopped
  <2>. QED  BY <1>3, <1>t, <2>1, Frames DEF WalkStopped
<1>4. CASE ExecuteGetup
  <2>1. MailOK'
    BY <1>0, <1>4, AnswerCounts, Letters DEF ExecuteGetup
  <2>2. TrialOK'
    BY <1>0, <1>4 DEF ExecuteGetup, TrialOK, TrialTypeOK, optimiserVars
  <2>. QED  BY <1>t, <2>1, <2>2
<1>5. CASE KillGetup
  <2>1. MailOK'
    BY <1>0, <1>5, AnswerCounts, Letters DEF KillGetup
  <2>2. TrialOK'
    BY <1>0, <1>5 DEF KillGetup, TrialOK, TrialTypeOK, optimiserVars
  <2>. QED  BY <1>t, <2>1, <2>2
<1>6. CASE RecordGetup
  <2>1. MailOK'
    BY <1>0, <1>6, AnswerCounts, Letters DEF RecordGetup
  <2>2. numberOfGetups' \in 0..Threshold
    BY <1>0, <1>6, FixedWalkAssumption DEF RecordGetup, Cap, FixedWalkAssumption, TrialOK, TrialTypeOK
  <2>3. TrialOK'
    BY <1>0, <1>6, <2>2 DEF RecordGetup, TrialOK, TrialTypeOK, fixedWalkVars
  <2>. QED  BY <1>t, <2>1, <2>3
<1>7. CASE GetupFinished
  <2>1. MailOK'
    BY <1>0, <1>7, AnswerCounts, Letters DEF GetupFinished
  <2>. QED  BY <1>7, <1>t, <2>1, Frames DEF GetupFinished
<1>8. CASE RoutineFinished
  <2>1. MailOK' /\ mail["FixedWalkFinished"] > 0
    BY <1>0, <1>8, AnswerCounts, Letters DEF RoutineFinished
  <2>2. currentSample \in 1..Samples
    <3>1. session.leads # "play"
      BY <2>1, <1>0 DEF OwnInv, DeliverToTrial, Trial
    <3>2. currentSample # 0
      BY <1>0, <2>1, <3>1, OneTrial, Letters DEF OwnInv
    <3>. QED  BY <1>0, <3>2, FixedWalkAssumption DEF FixedWalkAssumption, TrialOK, TrialTypeOK
  <2>3. currentSample' \in 0..Samples
    BY <1>8, <2>2, FixedWalkAssumption DEF RoutineFinished, FixedWalkAssumption
  <2>4. fitnesses' \subseteq 1..Samples
    BY <1>0, <1>8, <2>2 DEF RoutineFinished, TrialOK, TrialTypeOK
  <2>5. numberOfGetups' \in 0..Threshold
    BY <1>8, FixedWalkAssumption DEF RoutineFinished, FixedWalkAssumption
  <2>6. TrialOK'
    BY <1>0, <1>8, <2>3, <2>4, <2>5 DEF RoutineFinished, TrialOK, TrialTypeOK, fixedWalkVars
  <2>. QED  BY <1>t, <2>1, <2>6
<1>9. CASE WalkConfigSaved
  <2>1. MailOK'
    BY <1>0, <1>9, AnswerCounts, Letters DEF WalkConfigSaved
  <2>. QED  BY <1>9, <1>t, <2>1, Frames DEF WalkConfigSaved
<1>. QED  BY <1>1, <1>2, <1>3, <1>4, <1>5, <1>6, <1>7, <1>8, <1>9 DEF DeliverToTrial

LEMMA TypesNext == TypeInv /\ OwnInv /\ [Next]_vars => TypeInv'
<1>. SUFFICES ASSUME TypeInv, OwnInv, [Next]_vars  PROVE TypeInv'
  OBVIOUS
<1>0. MailOK /\ EngineOK /\ ClaimOK /\ TrialOK /\ PlanOK
  BY DEF TypeInv
<1>1. CASE Lead /\ WalkStart
  <2>1. MailOK'
    BY <1>0, <1>1, AnswerCounts, Letters DEF WalkStart
  <2>2. EngineOK'
    <3>1. 0 \in 0..TicksPerStep
      BY WalkAssumption DEF WalkAssumption
    <3>2. FlagsOK'
      BY <1>0, <1>1, Zenon DEF WalkStart, EngineOK, FlagsOK
    <3>3. CountsOK'
      BY <1>0, <1>1, <3>1 DEF WalkStart, EngineOK, CountsOK
    <3>. QED  BY <3>2, <3>3 DEF EngineOK
  <2>3. ClaimOK'
    BY <1>0, <1>1, AskedTypes DEF WalkStart
  <2>. QED  BY <1>1, <2>1, <2>2, <2>3, Frames DEF Lead, TypeInv
<1>2. CASE Lead /\ WalkStop
  <2>1. MailOK'
    BY <1>0, <1>2, AnswerCounts, Letters DEF WalkStop
  <2>2. EngineOK'
    BY <1>0, <1>2 DEF WalkStop, EngineOK, FlagsOK, CountsOK, stepVars
  <2>. QED  BY <1>2, <2>1, <2>2, Frames DEF Lead, TypeInv, WalkStop
<1>3. CASE Regard
  <2>1. updates \in Seq({0, Priority}) /\ updates # <<>>
    BY <1>0, <1>3 DEF Regard, UpdatePriority, ClaimOK
  <2>2. ClaimOK'
    BY <1>0, <1>3, <2>1, WalkAssumption DEF Regard, UpdatePriority, ClaimOK, WalkAssumption
  <2>3. EngineOK'
    BY <1>0, <1>3, ToldTypes DEF Regard, UpdatePriority
  <2>. QED  BY <1>3, <2>2, <2>3, Frames DEF Regard, UpdatePriority, Lead, TypeInv
<1>4. CASE Configure
  <2>1. MailOK'
    BY <1>0, <1>4, AnswerCounts, Letters DEF Configure, ConfigureWalk
  <2>2. EngineOK'
    <3>1. currentSample \in Nat
      BY <1>0, FixedWalkAssumption DEF FixedWalkAssumption, TrialOK, TrialTypeOK
    <3>. QED  BY <1>0, <1>4, <3>1 DEF Configure, ConfigureWalk, EngineOK, FlagsOK, CountsOK, stepVars
  <2>. QED  BY <1>4, <2>1, <2>2, Frames DEF Configure, ConfigureWalk, Lead, TypeInv
<1>5. CASE DeliverToTrial
  BY <1>5, TrialTypes
<1>6. CASE KickFinished \/ StopIgnored \/ Plan
  <2>1. MailOK'
    <3>1. CASE KickFinished
      BY <1>0, <3>1, AnswerCounts, Letters DEF KickFinished
    <3>2. CASE StopIgnored
      BY <1>0, <3>2, AnswerCounts, Letters DEF StopIgnored
    <3>3. CASE Plan
      BY <1>0, <3>3, SendCounts DEF Plan
    <3>. QED  BY <1>6, <3>1, <3>2, <3>3
  <2>2. UNCHANGED <<engineVars, claimVars, trialVars, planVars>>
    BY <1>6 DEF KickFinished, StopIgnored, Plan, Play, planVars
  <2>. QED  BY <2>1, <2>2, Frames DEF TypeInv
<1>7. CASE EngineUpdate \/ EngineProceeds
  BY <1>7, UpdateTypes, Frames DEF EngineUpdate, EngineProceeds, Lead, TypeInv
<1>8. CASE Command
  <2>1. PICK velocity \in BOOLEAN : SetVelocity(velocity)
    <3>1. (segments > 0) \in BOOLEAN
      OBVIOUS
    <3>. QED  BY <1>8, <3>1 DEF Command
  <2>2. EngineOK'
    BY <1>0, <2>1 DEF SetVelocity, EngineOK, FlagsOK, CountsOK
  <2>3. UNCHANGED <<mail, claimVars, trialVars, planVars>>
    BY <1>8, <2>1 DEF Command, SetVelocity, Lead
  <2>. QED  BY <2>2, <2>3, Frames DEF TypeInv
<1>9. CASE ManageWalk
  <2>1. UNCHANGED <<engineVars, claimVars, planVars>>
    BY <1>9 DEF ManageWalk, FixedWalkTick, Trial
  <2>2. MailOK' /\ TrialOK'
    BY <1>9, TickTypes DEF ManageWalk
  <2>. QED  BY <2>1, <2>2, Frames DEF TypeInv
<1>10. CASE BeginTrials
  <2>1. MailOK'
    BY <1>0, <1>10, SendCounts DEF BeginTrials, OptimiseWalk
  <2>2. TrialOK'
    <3>1. 1 \in 0..Samples
      BY FixedWalkAssumption DEF FixedWalkAssumption
    <3>. QED  BY <1>0, <1>10, <3>1 DEF BeginTrials, OptimiseWalk, TrialOK, TrialTypeOK, fixedWalkVars
  <2>. QED  BY <1>10, <2>1, <2>2, Frames DEF BeginTrials, OptimiseWalk, Trial, TypeInv
<1>11. CASE Falls
  <2>1. MailOK'
    BY <1>0, <1>11, SendCounts DEF Falls, Fall
  <2>2. EngineOK' /\ ClaimOK'
    BY <1>0, <1>11, RivalTypes DEF Falls, Fall
  <2>3. TrialOK'
    BY <1>0, <1>11 DEF Falls, Fall, TrialOK, TrialTypeOK, fixedWalkVars, optimiserVars
  <2>. QED  BY <1>11, <2>1, <2>2, <2>3, Frames DEF Falls, Trial, TypeInv
<1>12. CASE GetsUp
  <2>1. MailOK'
    BY <1>0, <1>12 DEF GetsUp, GetUp, MailOK
  <2>2. EngineOK' /\ ClaimOK'
    BY <1>0, <1>12, RivalTypes DEF GetsUp, GetUp
  <2>3. TrialOK'
    BY <1>0, <1>12 DEF GetsUp, GetUp, TrialOK, TrialTypeOK, fixedWalkVars, optimiserVars
  <2>. QED  BY <1>12, <2>1, <2>2, <2>3, Frames DEF GetsUp, Trial, TypeInv
<1>13. CASE WalkStrategy
  <2>1. PlanOK'
    BY <1>0, <1>13 DEF WalkStrategy, Play, PlanOK
  <2>. QED  BY <1>13, <2>1, Frames DEF WalkStrategy, Play, walkVars, TypeInv
<1>14. CASE KickBegins \/ KickEnds
  <2>1. MailOK'
    BY <1>0, <1>14, SendCounts DEF KickBegins, KickEnds
  <2>2. EngineOK' /\ ClaimOK'
    BY <1>0, <1>14, RivalTypes DEF KickBegins, KickEnds
  <2>3. PlanOK'
    BY <1>0, <1>14 DEF KickBegins, KickEnds, Play, PlanOK
  <2>. QED  BY <1>14, <2>1, <2>2, <2>3, Frames DEF KickBegins, KickEnds, Play, TypeInv
<1>15. CASE UNCHANGED vars
  BY <1>15, Frames DEF vars, walkVars, TypeInv
<1>. QED
  BY <1>1, <1>2, <1>3, <1>4, <1>5, <1>6, <1>7, <1>8, <1>9, <1>10, <1>11, <1>12, <1>13, <1>14,
     <1>15
  DEF Next, Conduct
-----------------------------------------------------------------------------
(* The place of the trial.                                                   *)
Places == {"WalkOptimiserCommand", "WalkConfigSaved", "FixedWalkCommand", "WalkStartCommand",
           "WalkStopped", "FixedWalkFinished"}

LEMMA PlacesAreLetters == Places \subseteq Letter
BY Letters DEF Places

LEMMA OwnInit == Init => OwnInv
<1>. SUFFICES ASSUME Init  PROVE OwnInv
  OBVIOUS
<1>1. mail = [m \in Letter |-> 0] /\ currentSample = 0 /\ fitnesses = {}
  BY DEF Init, WalkInit, TrialInit
<1>2. Led = 0 /\ Ending = 0
  <2>1. ~active /\ updating # "halted"
    BY Zenon DEF Init, WalkInit
  <2>. QED  BY <2>1 DEF Led, Ending
<1>3. \A m \in Places : mail[m] = 0
  BY <1>1, PlacesAreLetters
<1>4. Trials = 0
  BY <1>2, <1>3 DEF Trials, Places
<1>. QED  BY <1>1, <1>3, <1>4 DEF OwnInv, Places

(* A step that leaves the sample alone and moves the trial on.               *)
LEMMA MovesOn ==
  ASSUME MailOK, MailOK', OwnInv, UNCHANGED <<session, currentSample, fitnesses>>,
         session.leads = "play" => mail'["FixedWalkFinished"] = mail["FixedWalkFinished"],
         session.leads # "play" =>
           /\ Trials' <= Trials
           /\ Trials' = 1 /\ mail'["WalkOptimiserCommand"] = 0 =>
                \/ config' = config /\ mail["WalkOptimiserCommand"] = 0
                \/ config' = currentSample
  PROVE  OwnInv'
<1>1. Trials \in Nat /\ Trials' \in Nat
  <2>1. Numbered /\ Numbered'
    BY Numbers
  <2>. QED  BY <2>1 DEF Trials, Numbered
<1>2. CASE session.leads = "play"
  BY <1>2 DEF OwnInv
<1>3. CASE session.leads # "play"
  <2>1. /\ Trials <= 1 /\ (currentSample = 0 => Trials = 0) /\ fitnesses \subseteq 1..currentSample
        /\ Trials = 1 => currentSample \notin fitnesses
        /\ Trials = 1 /\ mail["WalkOptimiserCommand"] = 0 => config = currentSample
    BY <1>3 DEF OwnInv
  <2>2. Trials' <= 1 /\ (Trials' = 1 => Trials = 1) /\ (Trials = 0 => Trials' = 0)
    BY <1>1, <1>3, <2>1
  <2>3. Trials' = 1 /\ mail'["WalkOptimiserCommand"] = 0 => config' = currentSample
    BY <1>3, <2>1, <2>2
  <2>. QED  BY <1>3, <2>1, <2>2, <2>3 DEF OwnInv
<1>. QED  BY <1>2, <1>3

(* Most steps leave it where it is.                                          *)
LEMMA StaysThere ==
  ASSUME MailOK, MailOK', OwnInv, UNCHANGED <<session, currentSample, fitnesses, config, active>>,
         \A m \in Places : mail'[m] = mail[m],
         updating' = "halted" <=> updating = "halted"
  PROVE  OwnInv'
<1>1. /\ mail'["WalkOptimiserCommand"] = mail["WalkOptimiserCommand"]
      /\ mail'["WalkConfigSaved"] = mail["WalkConfigSaved"]
      /\ mail'["FixedWalkCommand"] = mail["FixedWalkCommand"]
      /\ mail'["WalkStartCommand"] = mail["WalkStartCommand"]
      /\ mail'["WalkStopped"] = mail["WalkStopped"]
      /\ mail'["FixedWalkFinished"] = mail["FixedWalkFinished"]
  BY DEF Places
<1>2. Led' = Led /\ Ending' = Ending
  BY DEF Led, Ending
<1>3. Trials' = Trials /\ Trials \in Nat
  <2>1. Numbered
    BY Numbers
  <2>. QED  BY <1>1, <1>2, <2>1 DEF Trials, Numbered
<1>. QED  BY <1>1, <1>3, MovesOn

(* It is taken from one place and put at another one, or nowhere.            *)
LEMMA Handed ==
  ASSUME MailOK, OwnInv, NEW letter \in Places, NEW letters, letter \notin letters,
         \A m \in letters \cap Places : \A n \in letters \cap Places : m = n,
         Answer(letter, letters), UNCHANGED <<active, updating>>
  PROVE  /\ MailOK' /\ Trials' <= Trials
         /\ \A m \in Places : mail'[m] = IF m = letter THEN mail[m] - 1
                                         ELSE IF m \in letters THEN mail[m] + 1 ELSE mail[m]
<1>1. /\ MailOK' /\ mail[letter] > 0
      /\ \A m \in Places : mail'[m] = IF m = letter THEN mail[m] - 1
                                      ELSE IF m \in letters THEN mail[m] + 1 ELSE mail[m]
  BY AnswerCounts, PlacesAreLetters
<1>2. Led' = Led /\ Ending' = Ending
  BY DEF Led, Ending
<1>3. Numbered /\ Numbered'
  BY <1>1, Numbers
<1>. DEFINE moved(m) == IF m = letter THEN -1 ELSE IF m \in letters THEN 1 ELSE 0
<1>4. \A m \in Places : mail'[m] = mail[m] + moved(m)
  <2>1. \A m \in Places : mail[m] \in Nat
    BY PlacesAreLetters DEF MailOK
  <2>. QED  BY <1>1, <2>1
<1>5. Trials' = Trials + moved("WalkOptimiserCommand") + moved("WalkConfigSaved")
                + moved("FixedWalkCommand") + moved("WalkStartCommand")
                + moved("WalkStopped") + moved("FixedWalkFinished")
  <2>1. \A m \in Places : moved(m) \in Int
    OBVIOUS
  <2>. HIDE DEF moved
  <2>2. /\ mail'["WalkOptimiserCommand"] = mail["WalkOptimiserCommand"] + moved("WalkOptimiserCommand")
        /\ mail'["WalkConfigSaved"] = mail["WalkConfigSaved"] + moved("WalkConfigSaved")
        /\ mail'["FixedWalkCommand"] = mail["FixedWalkCommand"] + moved("FixedWalkCommand")
        /\ mail'["WalkStartCommand"] = mail["WalkStartCommand"] + moved("WalkStartCommand")
        /\ mail'["WalkStopped"] = mail["WalkStopped"] + moved("WalkStopped")
        /\ mail'["FixedWalkFinished"] = mail["FixedWalkFinished"] + moved("FixedWalkFinished")
    BY <1>4 DEF Places
  <2>. DEFINE a == moved("WalkOptimiserCommand")
              b == moved("WalkConfigSaved")
              c == moved("FixedWalkCommand")
              d == moved("WalkStartCommand")
              e == moved("WalkStopped")
              f == moved("FixedWalkFinished")
  <2>3. a \in Int /\ b \in Int /\ c \in Int /\ d \in Int /\ e \in Int /\ f \in Int
    BY <2>1 DEF Places
  <2>4. Trials' = (mail["WalkOptimiserCommand"] + a) + (mail["WalkConfigSaved"] + b)
                  + (mail["FixedWalkCommand"] + c) + (mail["WalkStartCommand"] + d) + Led + Ending
                  + (mail["WalkStopped"] + e) + (mail["FixedWalkFinished"] + f)
    BY <1>2, <2>2 DEF Trials
  <2>. HIDE DEF a, b, c, d, e, f
  <2>5. Trials' = Trials + a + b + c + d + e + f
    BY <1>3, <2>3, <2>4 DEF Trials, Numbered
  <2>. QED  BY <2>5 DEF a, b, c, d, e, f
<1>6. moved("WalkOptimiserCommand") + moved("WalkConfigSaved")
      + moved("FixedWalkCommand") + moved("WalkStartCommand")
      + moved("WalkStopped") + moved("FixedWalkFinished") <= 0
  BY DEF Places
<1>7. Trials \in Nat
  BY <1>3 DEF Trials, Numbered
<1>8. \A m \in Places : moved(m) \in Int
  OBVIOUS
<1>. HIDE DEF moved
<1>9. Trials' <= Trials
  BY <1>5, <1>6, <1>7, <1>8 DEF Places
<1>. QED  BY <1>1, <1>9

LEMMA TrialMovesOn ==
  ASSUME TypeInv, TypeInv', OwnInv, DeliverToTrial
  PROVE  OwnInv'
<1>0. MailOK /\ MailOK' /\ TrialOK
  BY DEF TypeInv
<1>1. /\ session.leads = "trial" /\ UNCHANGED <<session, config, active, updating>>
  BY DEF DeliverToTrial, Trial, planVars, FixedWalkCommand, CancelFixedWalk, WalkStopped,
     ExecuteGetup, KillGetup, RecordGetup, GetupFinished, RoutineFinished, WalkConfigSaved,
     engineVars
<1>2. ASSUME NEW letter \in Letter \ Places, NEW letters, Answer(letter, letters),
             letters \cap Places = {}, letter \notin letters, UNCHANGED <<currentSample, fitnesses>>
      PROVE  OwnInv'
  <2>1. \A m \in Places : mail'[m] = mail[m]
    BY <1>0, <1>2, AnswerCounts, PlacesAreLetters
  <2>. QED  BY <1>0, <1>1, <1>2, <2>1, StaysThere
<1>3. ASSUME NEW letter \in Places \ {"WalkOptimiserCommand"}, NEW letters, Answer(letter, letters),
             letter \notin letters, "WalkOptimiserCommand" \notin letters,
             \A m, n \in letters : m = n, UNCHANGED <<currentSample, fitnesses>>
      PROVE  OwnInv'
  <2>1. letter \in Places /\ \A m \in letters \cap Places : \A n \in letters \cap Places : m = n
    BY <1>3
  <2>2. /\ Trials' <= Trials
        /\ \A m \in Places : mail'[m] = IF m = letter THEN mail[m] - 1
                                        ELSE IF m \in letters THEN mail[m] + 1 ELSE mail[m]
    BY <1>0, <1>1, <1>3, <2>1, Handed
  <2>3. mail'["WalkOptimiserCommand"] = mail["WalkOptimiserCommand"]
    BY <1>3, <2>2 DEF Places
  <2>. QED  BY <1>0, <1>1, <1>3, <2>2, <2>3, MovesOn
<1>4. CASE FixedWalkCommand
  <2>. DEFINE letters == IF walking THEN {} ELSE {"WalkStartCommand"}
  <2>1. /\ Answer("FixedWalkCommand", letters) /\ UNCHANGED <<currentSample, fitnesses>>
        /\ "FixedWalkCommand" \notin letters /\ "WalkOptimiserCommand" \notin letters
        /\ \A m, n \in letters : m = n
    BY <1>4 DEF FixedWalkCommand, optimiserVars
  <2>2. "FixedWalkCommand" \in Places \ {"WalkOptimiserCommand"}
    BY DEF Places
  <2>. HIDE DEF letters
  <2>. QED  BY <1>3, <2>1, <2>2
<1>5. CASE CancelFixedWalk
  BY <1>2, <1>5, Letters DEF CancelFixedWalk, Places, optimiserVars
<1>6. CASE WalkStopped
  <2>. DEFINE letters == IF walking THEN {} ELSE {"FixedWalkFinished"}
  <2>1. /\ Answer("WalkStopped", letters) /\ UNCHANGED <<currentSample, fitnesses>>
        /\ "WalkStopped" \notin letters /\ "WalkOptimiserCommand" \notin letters
        /\ \A m, n \in letters : m = n
    BY <1>6 DEF WalkStopped, trialVars, optimiserVars
  <2>2. "WalkStopped" \in Places \ {"WalkOptimiserCommand"}
    BY DEF Places
  <2>. HIDE DEF letters
  <2>. QED  BY <1>3, <2>1, <2>2
<1>7. CASE ExecuteGetup
  BY <1>2, <1>7, Letters DEF ExecuteGetup, Places, optimiserVars
<1>8. CASE KillGetup
  BY <1>2, <1>8, Letters DEF KillGetup, Places, optimiserVars
<1>9. CASE RecordGetup
  BY <1>2, <1>9, Letters DEF RecordGetup, Places
<1>10. CASE GetupFinished
  <2>. DEFINE letters == IF numberOfGetups >= Threshold THEN {"CancelFixedWalk"} ELSE {}
  <2>1. /\ Answer("GetupFinished", letters) /\ UNCHANGED <<currentSample, fitnesses>>
        /\ letters \cap Places = {} /\ "GetupFinished" \notin letters
    BY <1>10 DEF GetupFinished, trialVars, optimiserVars, Places
  <2>2. "GetupFinished" \in Letter \ Places
    BY Letters DEF Places
  <2>. HIDE DEF letters
  <2>. QED  BY <1>2, <2>1, <2>2
<1>11. CASE WalkConfigSaved
  <2>. DEFINE letters == {"FixedWalkCommand"}
  <2>1. /\ Answer("WalkConfigSaved", letters) /\ UNCHANGED <<currentSample, fitnesses>>
        /\ "WalkConfigSaved" \notin letters /\ "WalkOptimiserCommand" \notin letters
        /\ \A m, n \in letters : m = n
    BY <1>11 DEF WalkConfigSaved, trialVars, optimiserVars
  <2>2. "WalkConfigSaved" \in Places \ {"WalkOptimiserCommand"}
    BY DEF Places
  <2>. HIDE DEF letters
  <2>. QED  BY <1>3, <2>1, <2>2
<1>12. CASE RoutineFinished
  <2>. DEFINE letters == IF currentSample = Samples THEN {} ELSE {"WalkOptimiserCommand"}
  <2>1. /\ Answer("FixedWalkFinished", letters) /\ "FixedWalkFinished" \notin letters
        /\ \A m, n \in letters : m = n
        /\ fitnesses' = fitnesses \cup {currentSample}
        /\ currentSample' = IF currentSample = Samples THEN currentSample ELSE currentSample + 1
    BY <1>12 DEF RoutineFinished
  <2>2. "FixedWalkFinished" \in Places /\ \A m \in letters \cap Places : \A n \in letters \cap Places : m = n
    BY <2>1 DEF Places
  <2>3. /\ mail["FixedWalkFinished"] > 0 /\ Trials' <= Trials
        /\ \A m \in Places : mail'[m] = IF m = "FixedWalkFinished" THEN mail[m] - 1
                                        ELSE IF m \in letters THEN mail[m] + 1 ELSE mail[m]
    <3>1. mail["FixedWalkFinished"] > 0
      BY <2>1 DEF Answer
    <3>. HIDE DEF letters
    <3>. QED  BY <1>0, <1>1, <2>1, <2>2, <3>1, Handed
  <2>4. session.leads # "play" /\ Trials <= 1 /\ fitnesses \subseteq 1..currentSample
        /\ (currentSample = 0 => Trials = 0)
    BY <1>1 DEF OwnInv
  <2>5. Trials = 1 /\ Trials' \in Nat
    <3>1. Numbered /\ Numbered'
      BY <1>0, Numbers
    <3>. QED  BY <2>3, <2>4, <3>1 DEF Trials, Numbered
  <2>6. currentSample \in Nat \ {0}
    BY <1>0, <2>4, <2>5 DEF TrialOK, TrialTypeOK
  <2>7. CASE currentSample = Samples
    <3>1. Led' = Led /\ Ending' = Ending
      BY <1>1 DEF Led, Ending
    <3>2. Trials' = Trials - 1
      <4>1. Numbered
        BY <1>0, Numbers
      <4>. QED  BY <2>3, <2>7, <3>1, <4>1 DEF Trials, Numbered, Places
    <3>3. currentSample' = currentSample /\ fitnesses' \subseteq 1..currentSample'
      BY <2>1, <2>4, <2>6, <2>7
    <3>4. Trials' = 0 /\ session'.leads # "play"
      BY <1>1, <2>4, <2>5, <3>2
    <3>. QED  BY <3>3, <3>4 DEF OwnInv
  <2>8. CASE currentSample # Samples
    <3>1. currentSample' = currentSample + 1 /\ fitnesses' \subseteq 1..currentSample
      BY <2>1, <2>4, <2>6, <2>8
    <3>2. fitnesses' \subseteq 1..currentSample' /\ currentSample' \notin fitnesses' /\ currentSample' # 0
      BY <2>6, <3>1
    <3>3. mail'["WalkOptimiserCommand"] = mail["WalkOptimiserCommand"] + 1
          /\ mail["WalkOptimiserCommand"] \in Nat
      <4>1. Numbered
        BY <1>0, Numbers
      <4>. QED  BY <2>3, <2>8, <4>1 DEF Places, Numbered
    <3>4. mail'["WalkOptimiserCommand"] # 0
      BY <3>3
    <3>5. Trials' <= 1
      BY <2>3, <2>5
    <3>6. session'.leads # "play"
      BY <1>1
    <3>. QED  BY <3>2, <3>4, <3>5, <3>6 DEF OwnInv
  <2>. QED  BY <2>7, <2>8
<1>. QED
  BY <1>4, <1>5, <1>6, <1>7, <1>8, <1>9, <1>10, <1>11, <1>12 DEF DeliverToTrial

LEMMA OwnNext == TypeInv /\ OwnInv /\ [Next]_vars => OwnInv'
<1>. SUFFICES ASSUME TypeInv, TypeInv', OwnInv, [Next]_vars  PROVE OwnInv'
  BY TypesNext
<1>0. MailOK /\ MailOK' /\ EngineOK /\ TrialOK /\ PlanOK
  BY DEF TypeInv
<1>p. session.leads = "play" \/ session.leads = "trial"
  BY <1>0, SessionAssumption DEF SessionAssumption, PlanOK
<1>s. ASSUME NEW letters, Send(letters), letters \cap Places = {}
      PROVE  \A m \in Places : mail'[m] = mail[m]
  BY <1>0, <1>s, SendCounts, PlacesAreLetters
<1>a. ASSUME NEW letter \in Letter \ Places, NEW letters, Answer(letter, letters),
             letters \cap Places = {}, letter \notin letters
      PROVE  \A m \in Places : mail'[m] = mail[m]
  BY <1>0, <1>a, AnswerCounts, PlacesAreLetters
<1>1. CASE Lead /\ WalkStart
  <2>1. /\ mail["WalkStartCommand"] > 0 /\ mail'["WalkStartCommand"] = mail["WalkStartCommand"] - 1
        /\ \A m \in Places \ {"WalkStartCommand"} : mail'[m] = mail[m]
    BY <1>0, <1>1, AnswerCounts, PlacesAreLetters DEF WalkStart, Places
  <2>2. Led' = 1 /\ Ending' = Ending
    <3>1. active' /\ updating' = updating
      BY <1>1, Zenon DEF WalkStart
    <3>. QED  BY <3>1 DEF Led, Ending
  <2>3. Trials' <= Trials
    <3>1. Numbered
      BY <1>0, Numbers
    <3>. QED  BY <2>1, <2>2, <3>1 DEF Trials, Numbered, Places
  <2>4. UNCHANGED <<session, currentSample, fitnesses, config>>
    BY <1>1 DEF Lead, WalkStart, trialVars, optimiserVars, planVars
  <2>. QED  BY <1>0, <2>1, <2>3, <2>4, MovesOn DEF Places
<1>2. CASE Lead /\ WalkStop
  <2>1. \A m \in Places : mail'[m] = mail[m]
    BY <1>2, <1>a, Letters DEF WalkStop, Places
  <2>2. UNCHANGED <<session, currentSample, fitnesses, config, active, updating>>
    BY <1>2 DEF Lead, WalkStop, trialVars, optimiserVars, planVars
  <2>. QED  BY <1>0, <2>1, <2>2, StaysThere
<1>3. CASE Regard
  BY <1>0, <1>3, StaysThere DEF Regard, UpdatePriority, Told, Lead, trialVars, optimiserVars, planVars
<1>4. CASE Configure
  <2>. DEFINE letters == {"WalkConfigSaved"}
  <2>1. /\ "WalkOptimiserCommand" \in Places /\ "WalkOptimiserCommand" \notin letters
        /\ \A m \in letters \cap Places : \A n \in letters \cap Places : m = n
    BY DEF Places
  <2>2. Answer("WalkOptimiserCommand", letters) /\ config' = currentSample
        /\ UNCHANGED <<session, currentSample, fitnesses, active, updating>>
    BY <1>4 DEF Configure, ConfigureWalk, Lead, trialVars, optimiserVars, planVars
  <2>3. /\ Trials' <= Trials
        /\ \A m \in Places : mail'[m] = IF m = "WalkOptimiserCommand" THEN mail[m] - 1
                                        ELSE IF m \in letters THEN mail[m] + 1 ELSE mail[m]
    BY <1>0, <2>1, <2>2, Handed
  <2>4. mail'["FixedWalkFinished"] = mail["FixedWalkFinished"]
    BY <2>3 DEF Places
  <2>. QED  BY <1>0, <2>2, <2>3, <2>4, MovesOn
<1>5. CASE DeliverToTrial
  BY <1>0, <1>5, TrialMovesOn DEF TypeInv
<1>6. CASE KickFinished \/ StopIgnored \/ Plan
  <2>1. /\ session.leads = "play" /\ UNCHANGED <<session, currentSample, fitnesses>>
    BY <1>6 DEF KickFinished, StopIgnored, Plan, Play, trialVars, optimiserVars
  <2>2. mail'["FixedWalkFinished"] = mail["FixedWalkFinished"]
    <3>1. CASE KickFinished
      BY <1>0, <3>1, AnswerCounts, Letters DEF KickFinished
    <3>2. CASE StopIgnored
      BY <1>0, <3>2, AnswerCounts, Letters DEF StopIgnored
    <3>3. CASE Plan
      BY <1>0, <3>3, SendCounts, Letters DEF Plan
    <3>. QED  BY <1>6, <3>1, <3>2, <3>3
  <2>. QED  BY <1>0, <2>1, <2>2, MovesOn
<1>7. CASE EngineUpdate \/ EngineProceeds
  <2>1. UNCHANGED <<session, currentSample, fitnesses>>
    BY <1>7 DEF EngineUpdate, EngineProceeds, Lead, trialVars, optimiserVars, planVars
  <2>2. CASE Halt
    <3>1. /\ active /\ ~active' /\ updating = "no" /\ updating' = "halted"
          /\ UNCHANGED <<mail, config>>
      BY <2>2, Zenon DEF Halt
    <3>2. /\ Led = 1 /\ Led' = 0 /\ Ending = 0
          /\ Ending' = 1
      BY <3>1 DEF Led, Ending
    <3>3. Trials' <= Trials
      <4>1. Numbered
        BY <1>0, Numbers
      <4>. QED  BY <3>1, <3>2, <4>1 DEF Trials, Numbered
    <3>. QED  BY <1>0, <2>1, <3>1, <3>3, MovesOn
  <2>3. CASE ReportStopped
    <3>1. /\ updating = "halted" /\ updating' = "no" /\ UNCHANGED <<active, config>>
          /\ Send({"WalkStopped"})
      BY <2>3 DEF ReportStopped
    <3>2. /\ Led' = Led /\ Ending = 1
          /\ Ending' = 0
      BY <3>1 DEF Led, Ending
    <3>3. /\ mail'["WalkStopped"] = mail["WalkStopped"] + 1
          /\ \A m \in Places \ {"WalkStopped"} : mail'[m] = mail[m]
      BY <1>0, <3>1, SendCounts, PlacesAreLetters DEF Places
    <3>4. Trials' <= Trials
      <4>1. Numbered
        BY <1>0, Numbers
      <4>. QED  BY <3>2, <3>3, <4>1 DEF Trials, Numbered, Places
    <3>. QED  BY <1>0, <2>1, <3>1, <3>3, <3>4, MovesOn DEF Places
  <2>4. CASE NextStep \/ ReadStopRequest \/ Swing
    BY <1>0, <2>1, <2>4, StaysThere DEF NextStep, ReadStopRequest, Swing
  <2>5. CASE ClosingStep
    BY <1>0, <2>1, <2>5, StaysThere DEF ClosingStep
  <2>. QED  BY <1>7, <2>2, <2>3, <2>4, <2>5 DEF EngineUpdate, EngineProceeds, Update, Proceed
<1>8. CASE Command
  BY <1>0, <1>8, StaysThere DEF Command, SetVelocity, Lead, trialVars, optimiserVars, planVars
<1>9. CASE ManageWalk
  <2>1. UNCHANGED <<session, currentSample, fitnesses, config, active, updating>>
    BY <1>9 DEF ManageWalk, FixedWalkTick, Trial, planVars, optimiserVars, engineVars
  <2>2. \A m \in Places : mail'[m] = mail[m]
    <3>1. UNCHANGED mail \/ Send({"WalkStopCommand"})
      BY <1>9 DEF ManageWalk, FixedWalkTick
    <3>. QED  BY <1>s, <3>1 DEF Places
  <2>. QED  BY <1>0, <2>1, <2>2, StaysThere
<1>10. CASE BeginTrials
  <2>1. /\ session.leads = "trial" /\ currentSample = 0 /\ currentSample' = 1
        /\ Send({"WalkOptimiserCommand"})
        /\ UNCHANGED <<session, fitnesses, active, updating>>
    BY <1>10 DEF BeginTrials, OptimiseWalk, Trial, planVars, engineVars
  <2>2. Trials = 0 /\ fitnesses = {}
    BY <2>1 DEF OwnInv
  <2>3. Led' = Led /\ Ending' = Ending
    BY <2>1 DEF Led, Ending
  <2>4. /\ mail'["WalkOptimiserCommand"] = mail["WalkOptimiserCommand"] + 1
        /\ \A m \in Places \ {"WalkOptimiserCommand"} : mail'[m] = mail[m]
    BY <1>0, <2>1, SendCounts, PlacesAreLetters DEF Places
  <2>5. Trials' = 1 /\ mail'["WalkOptimiserCommand"] > 0
    <3>1. Numbered
      BY <1>0, Numbers
    <3>. QED  BY <2>2, <2>3, <2>4, <3>1 DEF Trials, Numbered, Places
  <2>. QED  BY <2>1, <2>2, <2>5 DEF OwnInv
<1>11. CASE Falls \/ GetsUp
  <2>1. UNCHANGED <<session, currentSample, fitnesses, config, active, updating>>
    BY <1>11 DEF Falls, GetsUp, Fall, GetUp, SetRival, Told, Trial, planVars, optimiserVars
  <2>2. \A m \in Places : mail'[m] = mail[m]
    <3>1. CASE Falls
      BY <1>s, <3>1 DEF Falls, Fall, Places
    <3>2. CASE GetsUp
      BY <1>0, <3>2, PlacesAreLetters DEF GetsUp, GetUp, Places, MailOK
    <3>. QED  BY <1>11, <3>1, <3>2
  <2>. QED  BY <1>0, <2>1, <2>2, StaysThere
<1>12. CASE WalkStrategy
  BY <1>0, <1>12, StaysThere DEF WalkStrategy, Play, walkVars, engineVars, trialVars, optimiserVars
<1>13. CASE KickBegins \/ KickEnds
  <2>1. /\ session.leads = "play" /\ UNCHANGED <<session, currentSample, fitnesses>>
        /\ Send({"WalkStopCommand"}) \/ Send({"KickFinished"})
    BY <1>13 DEF KickBegins, KickEnds, Play, trialVars, optimiserVars
  <2>2. mail'["FixedWalkFinished"] = mail["FixedWalkFinished"]
    BY <1>s, <2>1 DEF Places
  <2>. QED  BY <1>0, <2>1, <2>2, MovesOn
<1>14. CASE UNCHANGED vars
  BY <1>0, <1>14, StaysThere DEF vars, walkVars, engineVars, trialVars, optimiserVars, planVars
<1>. QED
  BY <1>1, <1>2, <1>3, <1>4, <1>5, <1>6, <1>7, <1>8, <1>9, <1>10, <1>11, <1>12, <1>13, <1>14
  DEF Next, Conduct

(* Whatever becomes of the trial, its finish is only reported for the sample *)
(* the engine was configured for, and once (WalkOptimiser.cpp:135, 142): for *)
(* any number of samples and messages, however they are delayed or reordered.*)
THEOREM FitnessIsOfOwnParameters == Spec => []OwnParameters
<1>1. TypeInv /\ OwnInv => OwnParameters
  <2>. SUFFICES ASSUME TypeInv, OwnInv, mail["FixedWalkFinished"] > 0
                PROVE  config = currentSample /\ currentSample \notin fitnesses
    BY DEF OwnParameters
  <2>1. MailOK /\ Numbered
    BY Numbers DEF TypeInv
  <2>2. session.leads # "play"
    BY DEF OwnInv
  <2>3. Trials = 1 /\ mail["WalkOptimiserCommand"] = 0
    <3>. DEFINE first == mail["WalkOptimiserCommand"]
                last == mail["FixedWalkFinished"]
                rest == mail["WalkConfigSaved"] + mail["FixedWalkCommand"]
                        + mail["WalkStartCommand"] + Led + Ending + mail["WalkStopped"]
    <3>1. Trials <= 1
      BY <2>2 DEF OwnInv
    <3>2. Trials = first + rest + last
      BY <2>1 DEF Trials, Numbered
    <3>3. first \in Nat /\ rest \in Nat /\ last \in Nat /\ last > 0
      BY <2>1 DEF Numbered
    <3>. HIDE DEF first, rest, last
    <3>4. Trials = 1 /\ first = 0
      BY <3>1, <3>2, <3>3
    <3>. QED  BY <3>4 DEF first
  <2>. QED  BY <2>2, <2>3 DEF OwnInv
<1>. QED  BY <1>1, TypesInit, OwnInit, TypesNext, OwnNext, PTL DEF Spec

(* What the trials and the engine keep is of its type for any parameters: no *)
(* segment is counted below zero, no sample above the last                   *)
(* (FixedWalk.cpp:52, WalkOptimiser.cpp:158).                                *)
THEOREM WalkTypes == Spec => []TypeOK
BY TypesInit, OwnInit, TypesNext, OwnNext, TypesOK, PTL DEF Spec
-----------------------------------------------------------------------------
(* The time of a trial, when messages are handled before the robot moves.    *)
Watched == {"FixedWalkCommand", "WalkStartCommand", "WalkStopCommand", "KillGetup", "ExecuteGetup",
            "CancelFixedWalk", "GetupFinished"}
Stale == Watched \ {"FixedWalkCommand", "WalkStartCommand"}

(* A fall and a getup reach FixedWalk before time passes.                    *)
FallInv ==
  /\ mail["ExecuteGetup"] > 0 => onGround /\ ~fallen
  /\ mail["ExecuteGetup"] <= 1
  /\ mail["KillGetup"] > 0 => ~onGround /\ mail["ExecuteGetup"] = 0
  /\ onGround /\ mail["ExecuteGetup"] = 0 => fallen
  /\ fallen /\ ~onGround => mail["KillGetup"] > 0
  /\ mail["KillGetup"] > 0 /\ ~fallen => elapsed = elapsedBeforeFall

(* While it walks, the engine is about to, or does, and is not asked to stop. *)
LeadInv ==
  /\ updating = "closing" => active
  /\ mail["FixedWalkCommand"] > 0 => \A m \in Stale : mail[m] = 0
  /\ walking => /\ mail["WalkStopCommand"] = 0 /\ updating = "no"
                /\ mail["WalkStartCommand"] > 0 \/ (active /\ stopRequest = 0)
  /\ ~walking => segments = 0

(* The part of the present segment that was walked upright.                  *)
Upright == IF fallen THEN elapsedBeforeFall ELSE elapsed

TimeInv ==
  /\ ~walking /\ whole => walked = Segments * Duration
  /\ walking /\ whole => /\ segments <= Segments /\ Upright <= Duration
                         /\ walked = (Segments - segments) * Duration + Upright

FullInv == session.calm /\ session.leads = "trial" => FallInv /\ LeadInv /\ TimeInv

LEMMA WatchedAreLetters == Watched \subseteq Letter
BY Letters DEF Watched

LEMMA FullInit == Init => FullInv
<1>. SUFFICES ASSUME Init  PROVE FallInv /\ LeadInv /\ TimeInv
  BY DEF FullInv
<1>1. \A m \in Watched : mail[m] = 0
  BY WatchedAreLetters DEF Init, WalkInit
<1>2. /\ ~walking /\ ~fallen /\ ~onGround /\ ~whole /\ updating # "closing"
  BY Zenon DEF Init, WalkInit, TrialInit
<1>3. segments = 0
  BY DEF Init, TrialInit
<1>4. FallInv
  BY <1>1, <1>2 DEF FallInv, Watched
<1>5. LeadInv
  BY <1>1, <1>2, <1>3 DEF LeadInv, Watched
<1>. QED  BY <1>2, <1>4, <1>5 DEF TimeInv

(* Most messages say nothing of time.                                        *)
LEMMA TimeStands ==
  ASSUME FallInv, LeadInv, TimeInv, UNCHANGED <<fixedWalkVars, onGround, walked, whole>>,
         UNCHANGED <<active, stopRequest, updating>>,
         \A m \in Watched : mail'[m] = mail[m]
  PROVE  FallInv' /\ LeadInv' /\ TimeInv'
<1>1. UNCHANGED <<walking, fallen, segments, elapsed, elapsedBeforeFall>>
  BY DEF fixedWalkVars
<1>2. FallInv'
  BY <1>1 DEF FallInv, Watched
<1>3. LeadInv'
  BY <1>1 DEF LeadInv, Watched, Stale
<1>4. TimeInv'
  BY <1>1 DEF TimeInv, Upright
<1>. QED  BY <1>2, <1>3, <1>4

LEMMA FullWalks ==
  ASSUME NEW d \in Nat \ {0}, NEW all \in Nat, NEW left \in 1..all
  PROVE  /\ (all - left) * d \in Nat /\ all * d \in Nat
         /\ (all - (left - 1)) * d = (all - left) * d + d
         /\ (all - left) * d + d <= all * d
         /\ left - 1 > 0 => (all - left) * d + d + d <= all * d
         /\ left - 1 = 0 => (all - left) * d + d = all * d
<1>1. all * d = (all - left) * d + left * d
  OBVIOUS
<1>2. left * d = (left - 1) * d + d /\ (left - 1) * d \in Nat
  OBVIOUS
<1>3. (all - left) * d \in Nat /\ all * d \in Nat /\ (all - (left - 1)) * d = (all - left) * d + d
  OBVIOUS
<1>4. left - 1 > 0 => (left - 1) * d = (left - 2) * d + d /\ (left - 2) * d \in Nat
  OBVIOUS
<1>5. left - 1 = 0 => (left - 1) * d = 0
  OBVIOUS
<1>. DEFINE p == (all - left) * d
            q == left * d
            r == (left - 1) * d
            s == (left - 2) * d
            t == all * d
<1>6. /\ t = p + q /\ q = r + d /\ r \in Nat /\ p \in Nat /\ t \in Nat
      /\ left - 1 > 0 => r = s + d /\ s \in Nat
      /\ left - 1 = 0 => r = 0
  BY <1>1, <1>2, <1>3, <1>4, <1>5
<1>. HIDE DEF p, q, r, s, t
<1>7. /\ p + d <= t /\ (left - 1 > 0 => p + d + d <= t) /\ (left - 1 = 0 => p + d = t)
  BY <1>6
<1>. QED  BY <1>3, <1>7 DEF p, t

(* A tick.                                                                   *)
LEMMA TimePasses ==
  ASSUME TypeInv, FallInv, LeadInv, TimeInv, FixedWalkTick, Quiet
  PROVE  FallInv' /\ LeadInv' /\ TimeInv'
<1>. DEFINE now == Cap(elapsed + 1, MaxElapsed)
            all == Segments * Duration
<1>0. MailOK /\ TrialOK
  BY DEF TypeInv
<1>1. /\ \A m \in Watched : mail[m] = 0
      /\ updating = "no"
  BY WatchedAreLetters DEF Quiet
<1>2. /\ walking \in BOOLEAN /\ segments \in Nat /\ elapsed \in Nat /\ elapsedBeforeFall \in Nat
      /\ walked \in Nat /\ Duration \in Nat \ {0} /\ Segments \in Nat \ {0}
      /\ MaxElapsed \in Nat /\ MaxElapsed > Duration
      /\ walking => segments > 0
  BY <1>0, FixedWalkAssumption DEF TrialOK, TrialTypeOK, FixedWalkAssumption
<1>3. fallen <=> onGround
  BY <1>0, <1>1 DEF FallInv, Watched
<1>4. UNCHANGED <<active, stopRequest, updating, fallen, elapsedBeforeFall, onGround, whole>>
  BY DEF FixedWalkTick, engineVars
<1>5. /\ walking' = walking /\ segments' = segments /\ mail' = mail
      \/ /\ SegmentOver(now) /\ segments' = segments - 1 /\ segments' # 0 /\ walking' = walking
         /\ mail' = mail
      \/ /\ SegmentOver(now) /\ segments' = segments - 1 /\ segments' = 0 /\ walking' = FALSE
         /\ Send({"WalkStopCommand"})
  BY DEF FixedWalkTick, LastGone
<1>6. \A m \in Watched \ {"WalkStopCommand"} : mail'[m] = 0
  <2>1. CASE mail' = mail
    BY <1>1, <2>1
  <2>2. CASE Send({"WalkStopCommand"})
    BY <1>0, <1>1, <2>2, SendCounts, WatchedAreLetters
  <2>. QED  BY <1>5, <2>1, <2>2
<1>7. FallInv'
  BY <1>3, <1>4, <1>6 DEF FallInv, Watched
<1>8. LeadInv'
  <2>1. mail'["FixedWalkCommand"] = 0 /\ updating' = "no"
    BY <1>1, <1>4, <1>6 DEF Watched
  <2>2. walking' => active' /\ stopRequest' = 0 /\ mail'["WalkStopCommand"] = 0
    <3>1. walking => active /\ stopRequest = 0
      BY <1>1 DEF LeadInv, Watched
    <3>2. walking' => walking /\ mail' = mail
      BY <1>5
    <3>. QED  BY <1>1, <1>4, <3>1, <3>2 DEF Watched
  <2>3. ~walking' => segments' = 0
    BY <1>2, <1>5 DEF LeadInv, SegmentOver
  <2>. QED  BY <2>1, <2>2, <2>3 DEF LeadInv
<1>9. TimeInv'
  <2>1. CASE ~walking
    <3>1. ~walking' /\ walked' = walked
      BY <1>5, <2>1 DEF FixedWalkTick, SegmentOver
    <3>. QED  BY <1>4, <2>1, <3>1 DEF TimeInv
  <2>2. CASE walking /\ onGround
    <3>1. walked' = walked /\ segments' = segments /\ walking' = walking
      BY <1>3, <1>5, <2>2 DEF FixedWalkTick, SegmentOver
    <3>. QED  BY <1>3, <1>4, <2>2, <3>1 DEF TimeInv, Upright
  <2>3. CASE walking /\ ~onGround /\ whole
    <3>1. /\ segments \in 1..Segments /\ elapsed <= Duration /\ ~fallen
          /\ walked = (Segments - segments) * Duration + elapsed
      BY <1>2, <1>3, <2>3 DEF TimeInv, Upright
    <3>. DEFINE before == (Segments - segments) * Duration
    <3>2. /\ before \in Nat /\ all \in Nat
          /\ (Segments - (segments - 1)) * Duration = before + Duration
          /\ before + Duration <= all
          /\ segments - 1 > 0 => before + Duration + Duration <= all
          /\ segments - 1 = 0 => before + Duration = all
      BY <1>2, <3>1, FullWalks
    <3>3. now = elapsed + 1
      BY <1>2, <3>1 DEF Cap
    <3>4. walked = before + elapsed /\ walked' = Cap(walked + 1, all)
      BY <2>3, <3>1 DEF FixedWalkTick
    <3>5. CASE ~SegmentOver(now)
      <4>1. elapsed' = elapsed + 1 /\ segments' = segments /\ walking' = walking
        BY <3>3, <3>5 DEF FixedWalkTick
      <4>2. elapsed + 1 <= Duration
        BY <1>2, <2>3, <3>1, <3>3, <3>5 DEF SegmentOver
      <4>3. (Segments - segments') * Duration = before
        BY <4>1
      <4>. HIDE DEF before, all, now
      <4>4. walked' = before + elapsed'
        BY <1>2, <3>2, <3>4, <4>1, <4>2 DEF Cap
      <4>5. segments' <= Segments /\ Upright' <= Duration /\ Upright' = elapsed'
        BY <1>4, <3>1, <4>1, <4>2 DEF Upright
      <4>. QED  BY <2>3, <4>1, <4>3, <4>4, <4>5 DEF TimeInv
    <3>6. CASE SegmentOver(now)
      <4>1. segments' = segments - 1 /\ elapsed' = now - Duration /\ now > Duration
        BY <3>6 DEF FixedWalkTick, SegmentOver
      <4>2. elapsed = Duration /\ elapsed' = 1
        BY <1>2, <3>1, <3>3, <4>1
      <4>3. (Segments - segments') * Duration = before + Duration
        BY <3>2, <4>1
      <4>. DEFINE total == Segments * Duration
      <4>4. all = total
        OBVIOUS
      <4>. HIDE DEF before, all, now, total
      <4>5. CASE segments' = 0
        <5>1. ~walking' /\ walked' = all
          BY <1>2, <1>5, <3>2, <3>4, <4>1, <4>2, <4>5 DEF Cap
        <5>. QED  BY <4>4, <5>1 DEF TimeInv, total
      <4>6. CASE segments' # 0
        <5>0. walking'
          BY <1>5, <2>3, <4>6, Zenon
        <5>a. segments - 1 > 0
          BY <3>1, <4>1, <4>6
        <5>1. walking' /\ segments - 1 > 0
          BY <5>0, <5>a, Zenon
        <5>2. walked' = (before + Duration) + elapsed'
          BY <1>2, <3>2, <3>4, <4>2, <5>1 DEF Cap
        <5>3. segments' <= Segments /\ Upright' <= Duration /\ Upright' = elapsed'
          BY <1>2, <1>4, <3>1, <4>1, <4>2 DEF Upright
        <5>. QED  BY <4>3, <5>1, <5>2, <5>3 DEF TimeInv
      <4>. QED  BY <4>5, <4>6
    <3>. QED  BY <3>5, <3>6
  <2>4. CASE ~whole
    BY <1>4, <2>4 DEF TimeInv
  <2>. QED  BY <2>1, <2>2, <2>3, <2>4
<1>. QED  BY <1>7, <1>8, <1>9

(* Nor is anything lost when the engine stops that does not walk a trial.    *)
LEMMA TimeStandsIdle ==
  ASSUME FallInv, LeadInv, TimeInv, UNCHANGED <<fixedWalkVars, onGround, walked, whole>>,
         ~walking, updating' = "closing" => active',
         \A m \in Watched : mail'[m] = mail[m]
  PROVE  FallInv' /\ LeadInv' /\ TimeInv'
<1>1. UNCHANGED <<walking, fallen, segments, elapsed, elapsedBeforeFall>>
  BY DEF fixedWalkVars
<1>2. FallInv'
  BY <1>1 DEF FallInv, Watched
<1>3. LeadInv'
  BY <1>1 DEF LeadInv, Watched, Stale
<1>4. TimeInv'
  BY <1>1 DEF TimeInv
<1>. QED  BY <1>2, <1>3, <1>4

(* The trial that is to be walked is the only one.                           *)
LEMMA NotYetWalked ==
  ASSUME MailOK, Trials <= 1, mail["FixedWalkCommand"] > 0
  PROVE  /\ mail["FixedWalkCommand"] = 1 /\ mail["WalkStartCommand"] = 0
         /\ ~active /\ updating # "halted"
<1>1. Numbered
  BY Numbers
<1>2. (active => Led = 1) /\ (updating = "halted" => Ending = 1)
  BY DEF Led, Ending
<1>. DEFINE c == mail["FixedWalkCommand"]
            d == mail["WalkStartCommand"]
            e == Led
            f == Ending
            rest == mail["WalkOptimiserCommand"] + mail["WalkConfigSaved"]
                    + mail["WalkStopped"] + mail["FixedWalkFinished"]
<1>3. /\ {c, d, e, f, rest} \subseteq Nat /\ c > 0
      /\ c + d + e + f + rest <= 1
  BY <1>1 DEF Trials, Numbered
<1>. HIDE DEF c, d, e, f, rest
<1>4. c = 1 /\ d = 0 /\ e = 0 /\ f = 0
  BY <1>3
<1>5. c = 1 /\ d = 0
  BY <1>4
<1>6. Led # 1 /\ Ending # 1
  BY <1>4 DEF e, f
<1>7. ~active /\ updating # "halted"
  BY <1>2, <1>6, Zenon
<1>. QED  BY <1>5, <1>7 DEF c, d

LEMMA Finished ==
  ASSUME MailOK, Trials <= 1, mail["FixedWalkFinished"] > 0
  PROVE  mail["WalkStartCommand"] = 0 /\ ~active
<1>1. Numbered
  BY Numbers
<1>2. active => Led = 1
  BY DEF Led
<1>. DEFINE h == mail["FixedWalkFinished"]
            d == mail["WalkStartCommand"]
            e == Led
            rest == mail["WalkOptimiserCommand"] + mail["WalkConfigSaved"]
                    + mail["FixedWalkCommand"] + Ending + mail["WalkStopped"]
<1>3. {d, e, h, rest} \subseteq Nat /\ h > 0 /\ d + e + h + rest <= 1
  BY <1>1 DEF Trials, Numbered
<1>. HIDE DEF d, e, h, rest
<1>4. d = 0 /\ e # 1
  BY <1>3
<1>5. d = 0 /\ Led # 1
  BY <1>4 DEF e
<1>. QED  BY <1>2, <1>5 DEF d

(* FixedWalk and the optimiser handle a message.                             *)
LEMMA TrialKeepsTime ==
  ASSUME TypeInv, Trials <= 1, FallInv, LeadInv, TimeInv, DeliverToTrial
  PROVE  FallInv' /\ LeadInv' /\ TimeInv'
<1>0. MailOK /\ TrialOK /\ \A m \in Watched : mail[m] \in Nat
  BY WatchedAreLetters DEF TypeInv, MailOK
<1>1. UNCHANGED <<active, stopRequest, updating, onGround>>
  BY DEF DeliverToTrial, FixedWalkCommand, CancelFixedWalk, WalkStopped,
     ExecuteGetup, KillGetup, RecordGetup, GetupFinished, RoutineFinished, WalkConfigSaved,
     engineVars, trialVars
<1>2. ASSUME NEW letter \in Letter, NEW letters, Answer(letter, letters), letter \notin letters
      PROVE  /\ mail[letter] > 0
             /\ \A m \in Watched : mail'[m] = IF m = letter THEN mail[m] - 1
                                              ELSE IF m \in letters THEN mail[m] + 1 ELSE mail[m]
  BY <1>0, <1>2, AnswerCounts, WatchedAreLetters
<1>3. CASE FixedWalkCommand
  <2>1. mail["FixedWalkCommand"] > 0
    BY <1>3 DEF FixedWalkCommand, Answer
  <2>2. /\ mail["FixedWalkCommand"] = 1 /\ mail["WalkStartCommand"] = 0
        /\ ~active /\ updating # "halted"
    BY <1>0, <2>1, NotYetWalked
  <2>3. /\ \A m \in Stale : mail[m] = 0
        /\ ~walking /\ updating = "no" /\ segments = 0
    <3>1. ~walking
      BY <2>2 DEF LeadInv
    <3>2. updating \in {"no", "halted", "closing"}
      BY DEF TypeInv, EngineOK, FlagsOK
    <3>. QED  BY <2>1, <2>2, <3>1, <3>2 DEF LeadInv
  <2>4. Answer("FixedWalkCommand", {"WalkStartCommand"})
    BY <1>3, <2>3 DEF FixedWalkCommand
  <2>5. /\ mail'["FixedWalkCommand"] = 0 /\ mail'["WalkStartCommand"] = 1
        /\ \A m \in Stale : mail'[m] = 0
    BY <1>2, <2>2, <2>3, <2>4, Letters DEF Watched, Stale
  <2>6. /\ walking' /\ UNCHANGED <<fallen, elapsedBeforeFall>>
    BY <1>3, Zenon DEF FixedWalkCommand
  <2>7. /\ Segments \in Nat \ {0} /\ Duration \in Nat \ {0}
    BY FixedWalkAssumption DEF FixedWalkAssumption
  <2>8. elapsed' = 0 /\ segments' = Segments /\ walked' = 0
    BY <1>3, <2>3, <2>7 DEF FixedWalkCommand
  <2>9. whole' => ~onGround
    BY <1>3, Zenon DEF FixedWalkCommand
  <2>10. FallInv'
    BY <1>1, <2>3, <2>5, <2>6 DEF FallInv, Stale, Watched
  <2>11. LeadInv'
    BY <1>1, <2>3, <2>5, <2>6 DEF LeadInv, Stale, Watched
  <2>12. TimeInv'
    <3>1. whole' => ~fallen
      BY <2>3, <2>9 DEF FallInv, Stale, Watched
    <3>2. whole' => Upright' = 0
      BY <2>6, <2>8, <3>1 DEF Upright
    <3>3. (Segments - segments') * Duration = 0
      BY <2>7, <2>8
    <3>4. whole' => segments' <= Segments /\ Upright' <= Duration
                    /\ walked' = (Segments - segments') * Duration + Upright'
      BY <2>7, <2>8, <3>2, <3>3
    <3>. QED  BY <2>6, <3>4, Zenon DEF TimeInv
  <2>. QED  BY <2>10, <2>11, <2>12
<1>4. CASE CancelFixedWalk
  <2>1. Answer("CancelFixedWalk", {"WalkStopCommand"})
    BY <1>4 DEF CancelFixedWalk
  <2>2. /\ mail["CancelFixedWalk"] > 0
        /\ \A m \in Watched : mail'[m] = IF m = "CancelFixedWalk" THEN mail[m] - 1
                                         ELSE IF m \in {"WalkStopCommand"} THEN mail[m] + 1 ELSE mail[m]
    BY <1>2, <2>1, Letters
  <2>3. ~walking' /\ ~whole' /\ UNCHANGED <<fallen, elapsed, elapsedBeforeFall>>
    BY <1>4, Zenon DEF CancelFixedWalk
  <2>4. segments' = 0
    BY <1>4 DEF CancelFixedWalk
  <2>5. mail'["FixedWalkCommand"] = 0
    BY <1>0, <2>2 DEF LeadInv, Stale, Watched
  <2>6. FallInv'
    BY <1>1, <2>2, <2>3 DEF FallInv, Watched
  <2>7. LeadInv'
    BY <1>1, <2>3, <2>4, <2>5 DEF LeadInv
  <2>. QED  BY <2>3, <2>6, <2>7 DEF TimeInv
<1>5. CASE WalkStopped
  <2>1. \A m \in Watched : mail'[m] = mail[m]
    <3>1. CASE walking
      BY <1>2, <1>5, <3>1, Letters DEF WalkStopped, Watched
    <3>2. CASE ~walking
      BY <1>2, <1>5, <3>2, Letters DEF WalkStopped, Watched
    <3>. QED  BY <3>1, <3>2
  <2>. QED  BY <1>5, <1>1, <2>1, TimeStands DEF WalkStopped, trialVars
<1>6. CASE ExecuteGetup
  <2>1. Answer("ExecuteGetup", {})
    BY <1>6 DEF ExecuteGetup
  <2>2. /\ mail["ExecuteGetup"] > 0
        /\ mail'["ExecuteGetup"] = mail["ExecuteGetup"] - 1
        /\ \A m \in Watched \ {"ExecuteGetup"} : mail'[m] = mail[m]
    BY <1>2, <2>1, Letters DEF Watched
  <2>3. /\ mail["ExecuteGetup"] = 1 /\ onGround /\ ~fallen /\ mail["KillGetup"] = 0
        /\ mail["FixedWalkCommand"] = 0
    BY <1>0, <2>2 DEF FallInv, LeadInv, Stale, Watched
  <2>4. fallen' /\ UNCHANGED <<walking, segments, elapsed, walked, whole>>
    BY <1>6, Zenon DEF ExecuteGetup
  <2>5. elapsedBeforeFall' = elapsed
    BY <1>6 DEF ExecuteGetup
  <2>6. mail'["ExecuteGetup"] = 0 /\ mail'["KillGetup"] = 0 /\ mail'["FixedWalkCommand"] = 0
    BY <2>2, <2>3 DEF Watched
  <2>7. FallInv'
    BY <1>1, <2>3, <2>4, <2>6 DEF FallInv
  <2>8. LeadInv'
    BY <1>1, <2>2, <2>4, <2>6 DEF LeadInv, Stale, Watched
  <2>9. Upright' = Upright
    BY <2>3, <2>4, <2>5 DEF Upright
  <2>. QED  BY <2>4, <2>7, <2>8, <2>9 DEF TimeInv
<1>7. CASE KillGetup
  <2>1. Answer("KillGetup", {})
    BY <1>7 DEF KillGetup
  <2>2. /\ mail["KillGetup"] > 0
        /\ mail'["KillGetup"] = mail["KillGetup"] - 1
        /\ \A m \in Watched \ {"KillGetup"} : mail'[m] = mail[m]
    BY <1>2, <2>1, Letters DEF Watched
  <2>3. ~onGround /\ mail["ExecuteGetup"] = 0 /\ mail["FixedWalkCommand"] = 0
    BY <1>0, <2>2 DEF FallInv, LeadInv, Stale, Watched
  <2>4. ~fallen' /\ UNCHANGED <<walking, segments, elapsedBeforeFall, walked, whole>>
    BY <1>7, Zenon DEF KillGetup
  <2>5. elapsed' = elapsedBeforeFall
    BY <1>7 DEF KillGetup
  <2>6. FallInv'
    BY <1>1, <2>2, <2>3, <2>4, <2>5 DEF FallInv, Watched
  <2>7. LeadInv'
    BY <1>1, <2>2, <2>3, <2>4 DEF LeadInv, Stale, Watched
  <2>8. Upright' = Upright
    BY <2>2, <2>4, <2>5 DEF Upright, FallInv
  <2>. QED  BY <2>4, <2>6, <2>7, <2>8 DEF TimeInv
<1>8. CASE RecordGetup
  <2>1. \A m \in Watched : mail'[m] = mail[m]
    BY <1>2, <1>8, Letters DEF RecordGetup, Watched
  <2>. QED  BY <1>1, <1>8, <2>1, TimeStands DEF RecordGetup
<1>9. CASE GetupFinished
  <2>. DEFINE letters == IF numberOfGetups >= Threshold THEN {"CancelFixedWalk"} ELSE {}
  <2>1. Answer("GetupFinished", letters) /\ "GetupFinished" \notin letters
        /\ UNCHANGED trialVars
    BY <1>9 DEF GetupFinished
  <2>2. /\ mail["GetupFinished"] > 0
        /\ \A m \in Watched : mail'[m] = IF m = "GetupFinished" THEN mail[m] - 1
                                         ELSE IF m \in letters THEN mail[m] + 1 ELSE mail[m]
    <3>. HIDE DEF letters
    <3>. QED  BY <1>2, <2>1, Letters
  <2>3. \A m \in Watched \ {"GetupFinished", "CancelFixedWalk"} : mail'[m] = mail[m]
    BY <2>2
  <2>4. mail["FixedWalkCommand"] = 0
    BY <1>0, <2>2 DEF LeadInv, Stale, Watched
  <2>5. /\ UNCHANGED <<walking, fallen, segments, elapsed, elapsedBeforeFall, walked, whole>>
    BY <2>1 DEF trialVars, fixedWalkVars
  <2>6. FallInv'
    BY <1>1, <2>3, <2>5 DEF FallInv, Watched
  <2>7. LeadInv'
    BY <1>1, <2>3, <2>4, <2>5 DEF LeadInv, Watched
  <2>. QED  BY <2>5, <2>6, <2>7 DEF TimeInv, Upright
<1>10. CASE RoutineFinished
  <2>. DEFINE letters == IF currentSample = Samples THEN {} ELSE {"WalkOptimiserCommand"}
  <2>1. Answer("FixedWalkFinished", letters) /\ letters \cap Watched = {}
        /\ "FixedWalkFinished" \notin Watched \cup letters
    BY <1>10 DEF RoutineFinished, Watched
  <2>2. \A m \in Watched : mail'[m] = mail[m]
    <3>. HIDE DEF letters
    <3>. QED  BY <1>2, <2>1, Letters
  <2>. QED  BY <1>1, <1>10, <2>2, TimeStands DEF RoutineFinished
<1>11. CASE WalkConfigSaved
  <2>1. Answer("WalkConfigSaved", {"FixedWalkCommand"}) /\ UNCHANGED trialVars
        /\ \A m \in Watched : mail[m] = 0
    BY <1>11, WatchedAreLetters DEF WalkConfigSaved, Watched
  <2>2. \A m \in Watched \ {"FixedWalkCommand"} : mail'[m] = 0
    BY <1>2, <2>1, Letters DEF Watched
  <2>3. UNCHANGED <<walking, fallen, segments, elapsed, elapsedBeforeFall, walked, whole>>
    BY <2>1 DEF trialVars, fixedWalkVars
  <2>4. FallInv'
    BY <1>1, <2>1, <2>2, <2>3 DEF FallInv, Watched
  <2>5. LeadInv'
    BY <1>1, <2>1, <2>2, <2>3 DEF LeadInv, Stale, Watched
  <2>. QED  BY <2>3, <2>4, <2>5 DEF TimeInv, Upright
<1>. QED
  BY <1>3, <1>4, <1>5, <1>6, <1>7, <1>8, <1>9, <1>10, <1>11 DEF DeliverToTrial

(* The robot falls, or gets up, when all messages are handled.               *)
LEMMA FallsKeepTime ==
  ASSUME MailOK, FallInv, LeadInv, TimeInv, Quiet, Fall \/ GetUp
  PROVE  FallInv' /\ LeadInv' /\ TimeInv'
<1>0. \A m \in Watched : mail[m] = 0
  BY WatchedAreLetters DEF Quiet
<1>1. UNCHANGED <<walking, fallen, segments, elapsed, elapsedBeforeFall, walked, whole,
                  active, stopRequest, updating>>
  BY DEF Fall, GetUp, SetRival, Told, fixedWalkVars
<1>2. TimeInv'
  BY <1>1 DEF TimeInv, Upright
<1>3. \A m \in Watched \ {"ExecuteGetup", "KillGetup", "GetupFinished"} : mail'[m] = 0
  <2>1. CASE Fall
    BY <1>0, <2>1, SendCounts, WatchedAreLetters DEF Fall, Watched
  <2>2. CASE GetUp
    BY <1>0, <2>2, WatchedAreLetters DEF GetUp, Watched, MailOK
  <2>. QED  BY <2>1, <2>2
<1>4. LeadInv'
  BY <1>0, <1>1, <1>3 DEF LeadInv, Watched
<1>5. FallInv'
  <2>1. CASE Fall
    <3>1. mail'["ExecuteGetup"] = 1 /\ mail'["KillGetup"] = 0
      BY <1>0, <2>1, SendCounts, Letters DEF Fall, Watched
    <3>2. onGround' /\ ~fallen
      BY <1>0, <2>1 DEF Fall, FallInv, Watched
    <3>. QED  BY <1>1, <3>1, <3>2 DEF FallInv
  <2>2. CASE GetUp
    <3>1. mail'["ExecuteGetup"] = 0 /\ mail'["KillGetup"] = 2
      BY <1>0, <2>2, Letters DEF GetUp, Watched, MailOK
    <3>2. ~onGround' /\ fallen
      BY <1>0, <2>2 DEF GetUp, FallInv, Watched
    <3>. QED  BY <1>1, <3>1, <3>2 DEF FallInv
  <2>. QED  BY <2>1, <2>2
<1>. QED  BY <1>2, <1>4, <1>5

LEMMA FullNext == TypeInv /\ OwnInv /\ FullInv /\ [Next]_vars => FullInv'
<1>1. session' = session \/ ~[Next]_vars
  BY DEF vars, planVars, Next, Conduct, Regard, Configure, DeliverToTrial, KickFinished,
     StopIgnored, EngineUpdate, EngineProceeds, Command, ManageWalk, BeginTrials, Falls, GetsUp,
     WalkStrategy, Plan, KickBegins, KickEnds, Lead, Trial, Play
<1>. SUFFICES ASSUME TypeInv, OwnInv, FallInv, LeadInv, TimeInv, [Next]_vars,
                     session.calm, session.leads = "trial"
              PROVE  FallInv' /\ LeadInv' /\ TimeInv'
  BY <1>1 DEF FullInv
<1>2. MailOK /\ Trials <= 1 /\ \A m \in Watched : mail[m] \in Nat
  BY WatchedAreLetters DEF TypeInv, MailOK, OwnInv
<1>3. Lead => UNCHANGED <<fixedWalkVars, onGround, walked, whole>>
  BY DEF Lead, trialVars
<1>4. CASE Lead /\ WalkStart
  <2>1. /\ \A m \in Watched \ {"WalkStartCommand"} : mail'[m] = mail[m]
    BY <1>2, <1>4, AnswerCounts, WatchedAreLetters, Letters DEF WalkStart
  <2>2. UNCHANGED <<walking, fallen, segments, elapsed, elapsedBeforeFall, onGround, walked, whole>>
    BY <1>3, <1>4 DEF fixedWalkVars
  <2>3. active' /\ updating' = updating
    BY <1>4, Zenon DEF WalkStart
  <2>4. stopRequest' = 0
    BY <1>4 DEF WalkStart
  <2>5. FallInv'
    BY <2>1, <2>2 DEF FallInv, Watched
  <2>6. LeadInv'
    BY <2>1, <2>2, <2>3, <2>4 DEF LeadInv, Watched, Stale
  <2>. QED  BY <2>2, <2>5, <2>6 DEF TimeInv, Upright
<1>5. CASE Lead /\ WalkStop
  <2>1. /\ mail["WalkStopCommand"] > 0
        /\ \A m \in Watched \ {"WalkStopCommand"} : mail'[m] = mail[m]
    BY <1>2, <1>5, AnswerCounts, WatchedAreLetters, Letters DEF WalkStop
  <2>2. UNCHANGED <<walking, fallen, segments, elapsed, elapsedBeforeFall, onGround, walked, whole>>
    BY <1>3, <1>5 DEF fixedWalkVars
  <2>3. active' = active /\ updating' = updating
    BY <1>5, Zenon DEF WalkStop
  <2>4. ~walking /\ mail["FixedWalkCommand"] = 0
    BY <1>2, <2>1 DEF LeadInv, Stale, Watched
  <2>5. FallInv'
    BY <2>1, <2>2 DEF FallInv, Watched
  <2>6. LeadInv'
    BY <2>1, <2>2, <2>3, <2>4 DEF LeadInv, Watched, Stale
  <2>. QED  BY <2>2, <2>5, <2>6 DEF TimeInv, Upright
<1>6. CASE Regard
  BY <1>3, <1>6, TimeStands DEF Regard, UpdatePriority, Told
<1>7. CASE Configure
  <2>1. \A m \in Watched : mail'[m] = mail[m]
    BY <1>2, <1>7, AnswerCounts, WatchedAreLetters, Letters DEF Configure, ConfigureWalk, Watched
  <2>. QED  BY <1>3, <1>7, <2>1, TimeStands DEF Configure, ConfigureWalk
<1>8. CASE DeliverToTrial
  BY <1>2, <1>8, TrialKeepsTime
<1>9. CASE EngineUpdate
  <2>1. \A m \in Watched : mail[m] = 0
    BY <1>9, WatchedAreLetters DEF EngineUpdate, Calm, Quiet
  <2>2. walking => active /\ stopRequest = 0
    BY <2>1 DEF LeadInv, Watched
  <2>3. CASE Halt
    <3>1. ~walking /\ updating' = "halted" /\ UNCHANGED mail
      BY <2>2, <2>3 DEF Halt
    <3>. QED  BY <1>3, <1>9, <3>1, TimeStandsIdle DEF EngineUpdate
  <2>4. CASE ReadStopRequest
    <3>1. ~walking /\ active /\ UNCHANGED <<mail, active>>
      BY <2>2, <2>4 DEF ReadStopRequest
    <3>. QED  BY <1>3, <1>9, <3>1, TimeStandsIdle DEF EngineUpdate
  <2>5. CASE NextStep \/ Swing
    <3>1. UNCHANGED <<mail, active, stopRequest, updating>>
      BY <2>5 DEF NextStep, Swing
    <3>. QED  BY <1>3, <1>9, <3>1, TimeStands DEF EngineUpdate
  <2>. QED  BY <1>9, <2>3, <2>4, <2>5 DEF EngineUpdate, Update
<1>10. CASE EngineProceeds
  <2>1. ~walking
    BY <1>10 DEF EngineProceeds, Proceed, ReportStopped, ClosingStep, LeadInv
  <2>2. updating' = "no"
    BY <1>10 DEF EngineProceeds, Proceed, ReportStopped, ClosingStep
  <2>3. \A m \in Watched : mail'[m] = mail[m]
    <3>1. UNCHANGED mail \/ Send({"WalkStopped"})
      BY <1>10 DEF EngineProceeds, Proceed, ReportStopped, ClosingStep
    <3>2. CASE Send({"WalkStopped"})
      BY <1>2, <3>2, SendCounts, WatchedAreLetters DEF Watched
    <3>. QED  BY <3>1, <3>2
  <2>. QED  BY <1>3, <1>10, <2>1, <2>2, <2>3, TimeStandsIdle DEF EngineProceeds
<1>11. CASE Command
  BY <1>3, <1>11, TimeStands DEF Command, SetVelocity
<1>12. CASE ManageWalk
  BY <1>12, TimePasses DEF ManageWalk, Calm
<1>13. CASE BeginTrials
  <2>1. \A m \in Watched : mail'[m] = mail[m]
    BY <1>2, <1>13, SendCounts, WatchedAreLetters DEF BeginTrials, OptimiseWalk, Watched
  <2>. QED  BY <1>13, <2>1, TimeStands DEF BeginTrials, OptimiseWalk, engineVars
<1>14. CASE Falls \/ GetsUp
  BY <1>2, <1>14, FallsKeepTime DEF Falls, GetsUp, Calm
<1>15. CASE UNCHANGED vars
  BY <1>15, TimeStands DEF vars, walkVars, engineVars, trialVars
<1>16. ~Play
  BY DEF Play
<1>. QED
  BY <1>4, <1>5, <1>6, <1>7, <1>8, <1>9, <1>10, <1>11, <1>12, <1>13, <1>14, <1>15, <1>16
  DEF Next, Conduct, KickFinished, StopIgnored, WalkStrategy, Plan, KickBegins, KickEnds

(* The segments of a trial that began upright and was not called off have    *)
(* all been walked for their time when its finish is reported, for any       *)
(* number and length of segments, however often the robot falls in between   *)
(* and gets up again (FixedWalk.cpp:47, 53, 58).                             *)
THEOREM TrialsAreWalked == Spec => []FullWalk
<1>1. TypeInv /\ OwnInv /\ FullInv => FullWalk
  <2>. SUFFICES ASSUME TypeInv, OwnInv, FullInv, session.calm,
                       mail["FixedWalkFinished"] > 0, whole
                PROVE  walked = Segments * Duration
    BY DEF FullWalk
  <2>1. MailOK /\ session \in Sessions
    BY DEF TypeInv, PlanOK
  <2>2. session.leads = "trial"
    <3>1. session.leads # "play"
      BY DEF OwnInv
    <3>. QED  BY <2>1, <3>1, SessionAssumption DEF SessionAssumption
  <2>3. mail["WalkStartCommand"] = 0 /\ ~active
    BY <2>1, <2>2, Finished DEF OwnInv
  <2>4. ~walking
    BY <2>2, <2>3 DEF FullInv, LeadInv
  <2>. QED  BY <2>2, <2>4 DEF FullInv, TimeInv
<1>. QED
  BY <1>1, TypesInit, OwnInit, FullInit, TypesNext, OwnNext, FullNext, PTL DEF Spec
=============================================================================

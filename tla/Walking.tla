------------------------------- MODULE Walking -------------------------------
(***************************************************************************)
(* Who leads the walk: the optimiser with FixedWalk, or, in play, the path *)
(* planner, which repeats its will twenty times a second, interrupted by   *)
(* kicks.                                                                  *)
(***************************************************************************)
EXTENDS FixedWalk

CONSTANT Sessions \* how the robot may run

ASSUME SessionAssumption ==
  /\ "KickFinished" \in Letter
  /\ Sessions \subseteq [leads : {"trial", "play"}, calm : BOOLEAN]

VARIABLES
  planType,     (* StandStill, or a plan that walks                         *)
  kicking,      (* KickScript has the legs                                  *)
  session       (* calm: messages are handled before the next thing happens *)

planVars == <<planType, kicking, session>>
vars == <<walkVars, trialVars, planVars>>

Init ==
  /\ WalkInit /\ TrialInit
  /\ planType = "StandStill"
  /\ kicking = FALSE
  /\ session \in Sessions

Calm == session.calm => Quiet
Trial == session.leads = "trial" /\ UNCHANGED planVars
Play == session.leads = "play" /\ UNCHANGED <<trialVars, session>>

(* WalkPathPlanner.                                                          *)
WalkStrategy ==
  /\ Play /\ Calm
  /\ planType' \in {"StandStill", "WalkToPoint"} \ {planType}
  /\ UNCHANGED <<walkVars, kicking>>

Plan ==
  /\ Play /\ Calm
  /\ Send({IF planType = "StandStill" THEN "WalkStopCommand" ELSE "WalkStartCommand"})
  /\ UNCHANGED <<engineVars, claimVars, planType, kicking>>

KickFinished ==
  /\ Play
  /\ Answer("KickFinished", {"WalkStartCommand"})
  /\ UNCHANGED <<engineVars, claimVars, planType, kicking>>

(* KickPlanner stops the walk and asks for a kick, which gets the legs.      *)
KickBegins ==
  /\ Play /\ Calm
  /\ ~kicking
  /\ kicking' = TRUE
  /\ Send({"WalkStopCommand"})
  /\ SetRival(TRUE)
  /\ UNCHANGED planType

KickEnds ==
  /\ Play /\ Calm
  /\ kicking
  /\ kicking' = FALSE
  /\ Send({"KickFinished"})
  /\ SetRival(FALSE)
  /\ UNCHANGED planType

Lead == UNCHANGED <<trialVars, planVars>>

(* A message is handled.                                                     *)
Conduct == Lead /\ (WalkStart \/ WalkStop)
Regard == Lead /\ UpdatePriority
Configure == Lead /\ ConfigureWalk(currentSample)

DeliverToTrial ==
  Trial /\ ( \/ FixedWalkCommand \/ CancelFixedWalk \/ WalkStopped \/ ExecuteGetup
             \/ KillGetup \/ RecordGetup \/ GetupFinished \/ RoutineFinished
             \/ WalkConfigSaved )

(* In play nobody listens to WalkStopped but FixedWalk, which has never      *)
(* walked and reports a finish nobody waits for.                             *)
StopIgnored ==
  /\ Play /\ Answer("WalkStopped", {})
  /\ UNCHANGED <<engineVars, claimVars, planType, kicking>>

EngineUpdate == Calm /\ Lead /\ Update
EngineProceeds == Lead /\ Proceed
(* FixedWalk commands the velocity of a segment, and none after the last.    *)
Command ==
  /\ Calm /\ Lead
  /\ \E velocity \in IF session.leads = "trial" THEN {segments > 0} ELSE BOOLEAN :
       SetVelocity(velocity)
ManageWalk == Calm /\ Trial /\ FixedWalkTick
BeginTrials == Calm /\ Trial /\ OptimiseWalk
Falls == Calm /\ Trial /\ Fall
GetsUp == Calm /\ Trial /\ GetUp

Next ==
  \/ Conduct \/ Regard \/ Configure \/ DeliverToTrial \/ KickFinished \/ StopIgnored
  \/ EngineUpdate \/ EngineProceeds \/ Command
  \/ ManageWalk \/ BeginTrials \/ Falls \/ GetsUp
  \/ WalkStrategy \/ Plan \/ KickBegins \/ KickEnds

(* Handlers run, and timers fire whatever else happens meanwhile.            *)
Fairness ==
  /\ WF_vars(DeliverToTrial \/ KickFinished \/ StopIgnored \/ Configure)
  /\ WF_vars(Regard) /\ WF_vars(EngineProceeds)
  /\ SF_vars(Conduct) /\ SF_vars(EngineUpdate)
  /\ SF_vars(ManageWalk) /\ SF_vars(Plan) /\ SF_vars(GetsUp)

Spec == Init /\ [][Next]_vars /\ Fairness
-----------------------------------------------------------------------------
TypeOK ==
  /\ WalkTypeOK /\ TrialTypeOK
  /\ planType \in {"StandStill", "WalkToPoint"} /\ kicking \in BOOLEAN
  /\ session \in Sessions

(* A fitness is stored for the sample whose parameters the engine walked     *)
(* with, and once (WalkOptimiser.cpp:135, 142): over starts, stops, getups   *)
(* and cancellations the two never get out of step.                          *)
OwnParameters ==
  mail["FixedWalkFinished"] > 0 =>
    config = currentSample /\ currentSample \notin fitnesses

(* A trial that begins with an upright robot and is not called off has       *)
(* walked all its segments for their time when it is finished, the time on   *)
(* the ground not counted (FixedWalk.cpp:47, 53, 58), when messages are      *)
(* handled faster than the robot moves.                                      *)
FullWalk ==
  session.calm /\ mail["FixedWalkFinished"] > 0 /\ whole => walked = Segments * Duration

(* All samples are tried, however often the robot falls (ibidem).            *)
TrialsEnd ==
  session.calm /\ currentSample > 0 ~> fitnesses = 1..Samples

(* If the plan is to stand still for good and no more kicks are planned, the *)
(* engine stops for good and gives up the legs, in spite of the starts that  *)
(* finished kicks send (WalkPathPlanner.cpp:115, 132).                       *)
StandsStill ==
  session.leads = "play" /\ <>[](planType = "StandStill" /\ ~kicking)
    => <>[](~active /\ priority = 0)

(* If the plan is to walk for good and no more kicks are planned, the engine *)
(* walks for good and has the legs, whatever stops are still on their way    *)
(* and wherever they meet update() (WalkEngine.cpp:113, 386).                *)
WalksOn ==
  session.leads = "play" /\ <>[](planType = "WalkToPoint" /\ ~kicking)
    => <>[](active /\ priority = Priority)
=============================================================================

--------------------------- MODULE SoccerStrategy ---------------------------
(***************************************************************************)
(* The strategy of a game: thirty times a second a decision from what the  *)
(* referee said and what is seen, to a plan for the walk, to what the head *)
(* follows and, before the kick-off, to where the robot must be.  Its      *)
(* listeners (path planner, the two reactions of the head, localisation)   *)
(* get messages, which the pool may handle in any order.  The              *)
(* GameController appears by what it emits and in which order.             *)
(***************************************************************************)
EXTENDS Integers, FiniteSets

CONSTANTS
  BallCloseDistance,
  BallLastSeenMaxTime, GoalLastSeenMaxTime,
  BallActiveTimeout, ZoneReturnTimeout,
  GameModes,    (* the modes a game may have                                *)
  Scenes,       (* what the referee may say and what may be seen in a game  *)
  MaxInFlight   (* bound: messages left when the next decision is made      *)

(* A packet of the referee.                                                  *)
Packet == [state : {"INITIAL", "READY", "SET", "PLAYING", "FINISHED"},
           timeout : BOOLEAN, penalised : BOOLEAN]

(* What is known of ball and robot: how long ago ball and goal were seen, how*)
(* far the ball is (0 only when it is under the robot), whether the two are  *)
(* in the robot's zone, and whether localisation has said so.                *)
View == [ballAge : Nat, goalAge : Nat, distance : Nat, ballInZone : BOOLEAN,
         selfInZone : BOOLEAN, localised : BOOLEAN]

ASSUME StrategyAssumption ==
  /\ GameModes \subseteq {"NORMAL", "OVERTIME", "PENALTY_SHOOTOUT"}
  /\ Scenes \subseteq [packets : SUBSET Packet, views : SUBSET View \ {{}}]
  /\ MaxInFlight \in Nat
  /\ {BallCloseDistance, BallLastSeenMaxTime, GoalLastSeenMaxTime, BallActiveTimeout,
      ZoneReturnTimeout} \subseteq Int

FieldTarget == {"ball", "goal"}
Walk == {"stand", "ball", "home", "spin"}
Hypotheses == {"baseline", "penalty spot", "entry"}

Message ==
  ({"WalkStrategy"} \X Walk) \cup ({"PanSelection"} \X FieldTarget \X FieldTarget)
    \cup ({"ResetRobotHypotheses"} \X Hypotheses) \cup ({"Penalised"} \X BOOLEAN)

VARIABLES
  lastPacket,    (* GameController: the packet kept                         *)
  newPacket,     (* GameController: the packet in hand, or the one kept     *)
  gamePhase,     (* GameState::phase                                        *)
  phase,         (* the last Phase emitted                                  *)
  gameMode,      (* GameState::mode, of this game                           *)
  scene,         (* what may happen in it                                   *)
  view,
  selfPenalised,
  leaf,          (* what a tick has decided, and not yet said               *)
  inFlight,      (* messages not yet handled                                *)
  plan,          (* WalkPathPlanner: what the walk does                     *)
  looking,       (* LookAtBall, LookAtGoal: the reaction is enabled         *)
  hypotheses,    (* where localisation began                                *)
  entering       (* history: unpenalised in play, no reset being on its way *)

refereeVars == <<lastPacket, newPacket, gamePhase, phase>>
gameVars == <<gameMode, scene>>
listenerVars == <<plan, looking, hypotheses>>
strategyVars == <<refereeVars, gameVars, view, selfPenalised, leaf, inFlight, listenerVars,
                  entering>>

Fresh == [state |-> "INITIAL", timeout |-> FALSE, penalised |-> FALSE]

StrategyInit ==
  /\ lastPacket = Fresh /\ newPacket = Fresh
  /\ gamePhase = "INITIAL" /\ phase = "INITIAL"
  /\ gameMode \in GameModes
  /\ scene \in Scenes
  /\ view \in scene.views
  /\ selfPenalised = FALSE
  /\ leaf = "none"
  /\ inFlight = {}
  /\ plan = "stand"
  /\ looking = [r \in FieldTarget |-> TRUE]
  /\ hypotheses = "baseline"
  /\ entering = FALSE
-----------------------------------------------------------------------------
(***************************************************************************)
(* The GameController.  The message Phase goes out while the packets are   *)
(* compared, and not at the start of a timeout; GameState and the events   *)
(* follow.  A packet comes when our last penalty has been dealt with:      *)
(* packets are half a second apart.                                        *)
(***************************************************************************)
TimeoutBegins(old, new) == ~old.timeout /\ new.timeout
StateChanges(old, new) == old.state # new.state \/ (old.timeout /\ ~new.timeout)

PhaseTold(old, new) == ~TimeoutBegins(old, new) /\ StateChanges(old, new)

Compare(p) ==
  /\ newPacket = lastPacket /\ p # lastPacket
  /\ \A b \in BOOLEAN : <<"Penalised", b>> \notin inFlight
  /\ newPacket' = p
  /\ phase' = IF PhaseTold(lastPacket, p) THEN p.state ELSE phase
  /\ entering' = (entering /\ phase' = "PLAYING" /\ ~p.penalised)
  /\ UNCHANGED <<lastPacket, gamePhase, gameVars, view, selfPenalised, leaf, inFlight,
                 listenerVars>>

Publish ==
  /\ newPacket # lastPacket
  /\ lastPacket' = newPacket
  /\ gamePhase' = IF TimeoutBegins(lastPacket, newPacket) THEN "TIMEOUT"
                  ELSE IF StateChanges(lastPacket, newPacket) THEN newPacket.state
                  ELSE gamePhase
  /\ inFlight' = inFlight \cup {<<"Penalised", b>> : b \in {newPacket.penalised}
                                                          \ {lastPacket.penalised}}
  /\ UNCHANGED <<newPacket, phase, gameVars, view, selfPenalised, leaf, listenerVars,
                 entering>>

(* Ball, goals and robot are seen, or not any more.                          *)
See(v) ==
  /\ view' = v /\ v # view
  /\ UNCHANGED <<refereeVars, gameVars, selfPenalised, leaf, inFlight, listenerVars,
                 entering>>
-----------------------------------------------------------------------------
(* ballDistance returns a bool: every distance but 0 is 1.                   *)
BallDistance(v) == IF v.distance = 0 THEN 0 ELSE 1

BallSeen(v) == v.ballAge < BallActiveTimeout
BallInReach(v) == v.ballInZone \/ BallDistance(v) * 10 <= BallCloseDistance

StandingLeaf == {"Initial", "Set", "Timeout", "Finished", "Playing Penalised"}
Leaf == StandingLeaf \cup
  { "In Zone or Ball Close", "Playing going back to default position", "Find the ball",
    "Spin to Win!", "Player lost, go to default position and find things" }

(* Mutant: looks for the ball before it looks at the penalty.                *)
DecidesBallFirst(l) ==
  CASE l = "Initial" -> phase = "INITIAL"
    [] l = "Set" -> phase \in {"SET", "READY"}
    [] l = "Timeout" -> phase = "TIMEOUT"
    [] l = "Finished" -> phase = "FINISHED"
    [] l = "In Zone or Ball Close" -> phase = "PLAYING" /\ BallSeen(view) /\ view.localised
    [] OTHER -> l = "Playing Penalised" /\ phase = "PLAYING" /\ ~BallSeen(view)

(* The branches of the main loop; a goalie's is no different.  Localisation  *)
(* that has said nothing yet throws out of the tick: it decides nothing.     *)
Decides(l) ==
  LET play == phase = "PLAYING" /\ ~selfPenalised /\ view.localised
      lost == play /\ ~BallSeen(view)
  IN CASE l = "Initial" -> phase = "INITIAL"
       [] l = "Set" -> phase \in {"SET", "READY"}
       [] l = "Timeout" -> phase = "TIMEOUT"
       [] l = "Finished" -> phase = "FINISHED"
       [] l = "Playing Penalised" -> phase = "PLAYING" /\ selfPenalised
       [] l = "In Zone or Ball Close" -> play /\ BallSeen(view) /\ BallInReach(view)
       [] l = "Playing going back to default position" ->
            play /\ BallSeen(view) /\ ~BallInReach(view)
       [] l = "Find the ball" -> lost /\ view.selfInZone
       [] l = "Spin to Win!" ->
            lost /\ ~view.selfInZone /\ view.ballAge < ZoneReturnTimeout
       [] OTHER -> lost /\ ~view.selfInZone /\ view.ballAge >= ZoneReturnTimeout

(* A tick: Options<Single> drops those that come before the last has ended.  *)
Decide ==
  /\ leaf = "none"
  /\ Cardinality(inFlight) <= MaxInFlight
  /\ \E l \in Leaf : Decides(l) /\ leaf' = l
  /\ UNCHANGED <<refereeVars, gameVars, view, selfPenalised, inFlight, listenerVars,
                 entering>>

WalkOf(l) ==
  CASE l \in StandingLeaf -> "stand"
    [] l = "In Zone or Ball Close" -> "ball"
    [] l = "Spin to Win!" -> "spin"
    [] OTHER -> "home"

(* find: with two targets, balls come first.                                 *)
GazeOf(l) ==
  IF \/ l \in {"Set", "In Zone or Ball Close", "Playing going back to default position",
               "Spin to Win!"}
     \/ l \notin StandingLeaf /\ ( \/ view.ballAge > BallLastSeenMaxTime
                               \/ view.goalAge < GoalLastSeenMaxTime )
  THEN "ball" ELSE "goal"

(* Mutant: puts the robot on its base line while it is penalised.            *)
ResetsPenalised(l) ==
  IF l \in {"Initial", "Set", "Playing Penalised"} THEN {"baseline"} ELSE {}

ResetsOf(l) ==
  IF l = "Set" /\ gameMode = "PENALTY_SHOOTOUT" THEN {"penalty spot"}
  ELSE IF l \in {"Initial", "Set"} THEN {"baseline"} ELSE {}

(* The rest of the tick.  Each PanSelection goes to both reactions.          *)
Act ==
  /\ leaf # "none"
  /\ leaf' = "none"
  /\ inFlight' = inFlight
       \cup {<<"WalkStrategy", WalkOf(leaf)>>}
       \cup {<<"PanSelection", r, GazeOf(leaf)>> : r \in FieldTarget}
       \cup {<<"ResetRobotHypotheses", h>> : h \in ResetsOf(leaf)}
  /\ UNCHANGED <<refereeVars, gameVars, view, selfPenalised, listenerVars, entering>>
-----------------------------------------------------------------------------
Handled(m) == m \in inFlight /\ inFlight' = inFlight \ {m}

(* WalkPathPlanner saves the plan.                                           *)
PlanWalk(w) ==
  /\ Handled(<<"WalkStrategy", w>>)
  /\ plan' = w
  /\ UNCHANGED <<refereeVars, gameVars, view, selfPenalised, leaf, looking, hypotheses,
                 entering>>

(* Mutant: LookAtGoal enables itself for either choice.                      *)
SelectPanSticky(r, target) ==
  /\ Handled(<<"PanSelection", r, target>>)
  /\ looking' = [looking EXCEPT ![r] = (r = "goal" \/ target = r)]
  /\ UNCHANGED <<refereeVars, gameVars, view, selfPenalised, leaf, plan, hypotheses,
                 entering>>

(* LookAtBall and LookAtGoal enable or disable their reactions.              *)
SelectPan(r, target) ==
  /\ Handled(<<"PanSelection", r, target>>)
  /\ looking' = [looking EXCEPT ![r] = (target = r)]
  /\ UNCHANGED <<refereeVars, gameVars, view, selfPenalised, leaf, plan, hypotheses,
                 entering>>

(* MMKFRobotLocalisationEngine::Reset replaces all hypotheses.               *)
ResetHypotheses(h) ==
  /\ Handled(<<"ResetRobotHypotheses", h>>)
  /\ hypotheses' = h
  /\ UNCHANGED <<refereeVars, gameVars, view, selfPenalised, leaf, plan, looking, entering>>

SelfPenalisation ==
  /\ Handled(<<"Penalised", TRUE>>)
  /\ selfPenalised' = TRUE
  /\ UNCHANGED <<refereeVars, gameVars, view, leaf, listenerVars, entering>>

NoResetComing ==
  /\ \A h \in Hypotheses : <<"ResetRobotHypotheses", h>> \notin inFlight
  /\ leaf \notin {"Initial", "Set"}

(* Mutant: the robot is told where it enters and stays penalised.            *)
SelfUnpenalisationForgets ==
  /\ <<"Penalised", FALSE>> \in inFlight
  /\ inFlight' = (inFlight \ {<<"Penalised", FALSE>>})
                   \cup {<<"ResetRobotHypotheses", "entry">>}
  /\ entering' = (phase = "PLAYING" /\ NoResetComing)
  /\ UNCHANGED <<refereeVars, gameVars, view, selfPenalised, leaf, listenerVars>>

(* A robot that is no longer penalised enters from a side line, or has been  *)
(* on its base line all the time.                                            *)
SelfUnpenalisation ==
  /\ <<"Penalised", FALSE>> \in inFlight
  /\ inFlight' = (inFlight \ {<<"Penalised", FALSE>>})
                   \cup {<<"ResetRobotHypotheses", "entry">>}
  /\ selfPenalised' = FALSE
  /\ entering' = (phase = "PLAYING" /\ NoResetComing)
  /\ UNCHANGED <<refereeVars, gameVars, view, leaf, listenerVars>>

Listen(m) ==
  \/ \E w \in Walk : m = <<"WalkStrategy", w>> /\ PlanWalk(w)
  \/ \E r, t \in FieldTarget : m = <<"PanSelection", r, t>> /\ SelectPan(r, t)
  \/ \E h \in Hypotheses : m = <<"ResetRobotHypotheses", h>> /\ ResetHypotheses(h)
  \/ m = <<"Penalised", TRUE>> /\ SelfPenalisation
  \/ m = <<"Penalised", FALSE>> /\ SelfUnpenalisation

StrategyNext ==
  \/ \E p \in scene.packets : Compare(p)
  \/ Publish
  \/ \E v \in scene.views : See(v)
  \/ Decide \/ Act
  \/ \E m \in inFlight : Listen(m)

(* Those that listen keep handling what they are sent, not message by        *)
(* message: an old one may wait for as long as there are others of its kind. *)
HearWalk == \E w \in Walk : PlanWalk(w)
HearPan(r) == \E t \in FieldTarget : SelectPan(r, t)
HearReset == \E h \in Hypotheses : ResetHypotheses(h)
HearPenalty == SelfPenalisation \/ SelfUnpenalisation
-----------------------------------------------------------------------------
StrategyTypeOK ==
  /\ {lastPacket, newPacket} \subseteq scene.packets \cup {Fresh}
  /\ gamePhase \in {"INITIAL", "READY", "SET", "TIMEOUT", "PLAYING", "FINISHED"}
  /\ phase \in {"INITIAL", "READY", "SET", "PLAYING", "FINISHED"}
  /\ gameMode \in GameModes /\ scene \in Scenes /\ view \in scene.views
  /\ {selfPenalised, entering} \subseteq BOOLEAN
  /\ leaf \in Leaf \cup {"none"}
  /\ inFlight \subseteq Message
  /\ plan \in Walk /\ looking \in [FieldTarget -> BOOLEAN] /\ hypotheses \in Hypotheses

(* When a game stays where robots stand, or this one stays penalised, the    *)
(* walk is to stand still for good, whatever plans are still on their way    *)
(* (SoccerStrategy.cpp:169, 185, 201, 207): ticks that repeat themselves, a  *)
(* phase that overtakes the GameState, a penalty that the tick has not seen. *)
StopsForTheReferee ==
  \/ <>[](gamePhase \in {"INITIAL", "READY", "SET", "FINISHED"})
  \/ <>[]lastPacket.penalised
    => <>[](plan = "stand")

(* A robot that is free to play, and keeps seeing a ball it may go for, goes *)
(* for it in the end, after penalties and timeouts of any number             *)
(* (SoccerStrategy.cpp:137, 219).                                            *)
FreeToPlay == gamePhase = "PLAYING" /\ ~lastPacket.penalised /\ view.localised
PlaysOn == <>[](FreeToPlay /\ BallSeen(view) /\ BallInReach(view)) => <>[](plan = "ball")

(* What the head is to follow for good is what it follows, and the other     *)
(* reaction is off, though each PanSelection reaches the two reactions apart *)
(* and out of order (LookAtBall.cpp:131, LookAtGoal.cpp:132).                *)
Follows(target) == looking = [r \in FieldTarget |-> r = target]
GazeFollows ==
  /\ <>[](gamePhase \in {"INITIAL", "FINISHED"}) => <>[]Follows("goal")
  /\ <>[](gamePhase = "PLAYING" /\ lastPacket.penalised) => <>[]Follows("goal")
  /\ <>[](gamePhase \in {"READY", "SET"}) => <>[]Follows("ball")
  /\ <>[]FreeToPlay => <>[]Follows("ball")

(* A robot that comes back in play is where it enters, and no tick that      *)
(* decided while it was penalised puts it anywhere else                      *)
(* (SoccerStrategy.cpp:140, 207).                                            *)
EntryHolds ==
  entering /\ (\A h \in Hypotheses : <<"ResetRobotHypotheses", h>> \notin inFlight)
    => hypotheses = "entry"

(* ``Change the game state to timeout'' (GameController.cpp:463): the robot  *)
(* stands still in a timeout, as the branch for it has it                    *)
(* (SoccerStrategy.cpp:196).                                                 *)
TimeoutStandsStill == <>[](gamePhase = "TIMEOUT") => <>[](plan = "stand")
=============================================================================

------------------------------ MODULE MCMachines ------------------------------
(***************************************************************************)
(* Components that share no state and exchange no messages, side by side:  *)
(* each behaviour is one of one of them, the others rest.                  *)
(***************************************************************************)
EXTENDS HardwareIO, ScriptTuner, ConfigSystem, Boat, SoccerStrategy

CONSTANTS
  Broken,       (* how devices may be broken                                *)
  Parts         (* those of the components that behaviours are of           *)

ASSUME PartsAssumption ==
  /\ Broken \subseteq Answer
  /\ Parts \subseteq {"servos", "bus", "editing", "gains", "config", "mission", "link", "strategy"}

VARIABLE part

vars == <<part, busVars, ioVars, tunerVars, configVars, missionVars, linkVars, strategyVars>>

MCPositions == {-1, 0, 1}
MCDirOf == [f \in Files |-> IF f = "walk" THEN "config" ELSE "scripts"]
MCPathOf == [t \in Types |-> IF t = "WalkEngine" THEN "walk" ELSE "scripts"]
(* The mission that is shipped, and one of five tasks.                       *)
MCMissions ==
  { << <<4, 5>>, <<9>> >>, [task \in 1..5 |-> [path \in 1..(6 - task) |-> 1]] }

MCPacket(state, timeout, penalised) ==
  [state |-> state, timeout |-> timeout, penalised |-> penalised]
Set == MCPacket("SET", FALSE, FALSE)
Playing == MCPacket("PLAYING", FALSE, FALSE)

MCView(ballAge, ballInZone, selfInZone, localised) ==
  [ballAge |-> ballAge, goalAge |-> 0, distance |-> 1,
   ballInZone |-> ballInZone, selfInZone |-> selfInZone, localised |-> localised]
Near == MCView(0, TRUE, TRUE, TRUE)

(* A game with penalties and timeouts, one in which the ball gets lost, and  *)
(* a shootout that ends.                                                     *)
Refereed ==
  [packets |-> { Set, Playing, MCPacket("PLAYING", FALSE, TRUE),
                 MCPacket("PLAYING", TRUE, FALSE) },
   views |-> {Near}]
Searching ==
  [packets |-> {Playing},
   views |-> { Near, MCView(0, FALSE, FALSE, TRUE), MCView(2, FALSE, TRUE, TRUE),
               MCView(2, FALSE, FALSE, TRUE), MCView(3, FALSE, FALSE, TRUE),
               MCView(0, TRUE, TRUE, FALSE) }]
Shootout ==
  [packets |-> {Set, Playing, MCPacket("FINISHED", FALSE, FALSE)}, views |-> {Near}]
MCScenes == {Refereed, Searching, Shootout}

(* A component that rests is in one of its initial states.  Gains are for a  *)
(* frame of an upper or a lower servo, and another frame of one of the rest. *)
Rested == SetToSortSeq(Devices, <)

Init ==
  /\ part \in Parts
  /\ DarwinInit(IF part = "bus" THEN Broken ELSE {"ok"})
  /\ part # "bus" => bulkReadCommand = Rested
  /\ IOInit
  /\ part # "servos" => \A s \in Servos, f \in Fields : servoState[s][f] = Least(Values)
  /\ TunerInit
  /\ part # "gains" => script = << << >> >>
  /\ part = "gains" =>
       /\ Len(script) = 2 /\ script[1][1].id \in {0, 2} \ {script[2][1].id}
       /\ \A k \in 1..2 : script[k][1].position = 0 /\ script[k][1].gain = DefaultGain
  /\ ConfigInit
  /\ Cardinality({f \in Files : disk[f].state = "cut"})
       <= IF part = "config" THEN 1 ELSE 0
  /\ MissionInit
  /\ part # "mission" => Len(task_paths) = 2 /\ ~run_autonomous
  /\ LinkInit
  /\ StrategyInit
  /\ gameMode = IF scene = Shootout THEN "PENALTY_SHOOTOUT" ELSE "NORMAL"
  /\ part # "strategy" => scene = Shootout

(* Whose turn it is: nothing else changes.                                   *)
Turn(p) ==
  /\ part = p /\ UNCHANGED part
  /\ p \in {"servos", "bus"} \/ UNCHANGED <<busVars, ioVars>>
  /\ p \in {"editing", "gains"} \/ UNCHANGED tunerVars
  /\ p = "config" \/ UNCHANGED configVars
  /\ p = "mission" \/ UNCHANGED missionVars
  /\ p = "link" \/ UNCHANGED linkVars
  /\ p = "strategy" \/ UNCHANGED strategyVars

ServoLoop == Turn("servos") /\ (Handle \/ Loop) /\ UNCHANGED busVars
BusLoop == Turn("bus") /\ Loop /\ UNCHANGED busVars
Reading == part \in {"servos", "bus"} /\ Turn(part) /\ Report /\ (part = "bus" \/ glitches' = 0)
Link == Turn("link") /\ doWork
Timer == Turn("link") /\ connect
Strategy(A) == Turn("strategy") /\ A
(* Nothing but the game moves in one: what Turn adds goes without saying.    *)
InGame(A) == part = "strategy" /\ A

Next ==
  \/ ServoLoop \/ BusLoop \/ Reading
  \/ Turn("editing") /\ EditKeys
  \/ Turn("gains") /\ GainKeys
  \/ Turn("config") /\ ConfigNext
  \/ Turn("mission") /\ MissionNext
  \/ Turn("link") /\ underflow
  \/ Link \/ Timer
  \/ Turn("strategy") /\ StrategyNext

(* The bus's loop and its reading, the stream's thread and its timer, the    *)
(* strategy's tick and the packets' thread: only one of the components is    *)
(* there in a behaviour, so each of these is fair alone.  Ticks come again   *)
(* whatever happens, and those that listen handle what they are sent.        *)
Fairness ==
  /\ WF_vars(BusLoop \/ Link \/ Strategy(Act))
  /\ WF_vars(Reading \/ Timer \/ Strategy(Publish))
  /\ SF_strategyVars(InGame(Decide))
  /\ WF_strategyVars(InGame(HearWalk)) /\ WF_strategyVars(InGame(HearPenalty))
  /\ WF_strategyVars(InGame(HearReset))
  /\ \A r \in FieldTarget : WF_strategyVars(InGame(HearPan(r)))

Spec == Init /\ [][Next]_vars /\ Fairness

MachinesTypeOK ==
  /\ DarwinTypeOK /\ IOTypeOK /\ TunerTypeOK /\ ConfigTypeOK /\ BoatTypeOK
  /\ StrategyTypeOK

(* The connection's liveness, in the behaviours that are about it            *)
(* (TcpClientStream.cpp:42).                                                 *)
LinkReturns == part = "link" => LinkComesUp

(* What the head follows, in the behaviours of the strategy                  *)
(* (LookAtBall.cpp:131).                                                     *)
HeadFollows == part = "strategy" => GazeFollows
=============================================================================

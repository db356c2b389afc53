------------------------------- MODULE Skills -------------------------------
(***************************************************************************)
(* The skills that play a script of the ScriptEngine with the whole body:  *)
(* Getup, FallingRelax, KickScript, GoalSaver and Stand.  Their handshake  *)
(* with the controller is made of messages: the controller's callbacks     *)
(* emit Execute.. and Kill.. messages, which any thread of the pool may    *)
(* handle in any order, and the skills answer with ActionPriorites, which  *)
(* the group Sync<Controller> handles one by one as they come.  All skills *)
(* claim the legs, so only one has the body.  The controller is modelled   *)
(* by what is proved of it: the body belongs to one of the most important, *)
(* and the callbacks tell who has it.                                      *)
(***************************************************************************)
EXTENDS Integers, Sequences, FiniteSetsExt

CONSTANTS
  Asking,       (* the priority with which a skill asks for the body        *)
  Execution,    (* the priority with which it keeps it                      *)
  KickCommands, (* what may be asked of KickScript                          *)
  DiveCommands, (* what may be asked of GoalSaver                           *)
  Scenes,       (* how the robot may run: a pace, and the skills in use     *)
  InFlight,     (* bound: messages in flight when the next thing happens    *)
  MaxMail,      (* bounds on the letters of each kind in flight             *)
  MaxUpdates    (* bound on the updates that wait for the controller        *)

Skill == {"stand", "getup", "relax", "kick", "dive"}
Scripted == Skill \ {"stand"}  \* Stand ignores all callbacks but the first
Quadrant == {"front", "left", "back", "right"}
Leg == {"LEFT_LEG", "RIGHT_LEG"}

(* What is emitted by the callbacks and, for a skill, by the ScriptEngine.   *)
Kind == {"execute", "kill", "waypoints"}
Letter == Kind \X Scripted

ASSUME SkillAssumption ==
  /\ Asking \in [Skill -> Nat \ {0}] /\ Execution \in [Skill -> Nat \ {0}]
  /\ KickCommands \subseteq [leg : Leg \cup {"other"}, quadrant : Quadrant]
  /\ DiveCommands \subseteq Quadrant
  /\ Scenes \subseteq [pace : {"calm", "busy", "racing"}, skills : SUBSET Scripted]
  /\ InFlight \in Nat /\ MaxMail \in [Kind -> Nat] /\ MaxUpdates \in Nat

VARIABLES
  priority,   (* the controller's priority of each skill                    *)
  holder,     (* who has the body                                           *)
  updates,    (* ActionPriorites not yet handled, in order                  *)
  mail,       (* how often each letter is in flight                         *)
  script,     (* the holder's script: the ticks at which servos will run    *)
              (* out, and whether an ankle will be among them               *)
  gettingUp, fallenCheck, \* Getup: the flag, the reaction enabled
  checking,   (* Getup: the check has emitted and not yet disabled itself   *)
  falling,    (* FallingRelax                                               *)
  kickCommand, diveCommand,
  posture,    (* what the sensors see: up, tilting, down                    *)
  scene       (* pace "calm": nothing new happens to the robot before the   *)
              (* messages of the last thing are handled; "busy": commands   *)
              (* come at any time; "racing": handlers are also interrupted  *)

pace == scene.pace
InUse(s) == s \in scene.skills

getupVars == <<gettingUp, fallenCheck, checking>>
commandVars == <<kickCommand, diveCommand>>
controllerVars == <<priority, holder, script>>
vars == <<controllerVars, updates, mail, getupVars, falling, commandVars, posture, scene>>

Init ==
  /\ priority = [s \in Skill |-> IF s = "stand" THEN Asking[s] ELSE 0]
  /\ holder = "stand"
  /\ updates = <<>>
  /\ mail = [m \in Letter |-> 0]
  /\ script = <<>>
  /\ gettingUp = FALSE
  /\ fallenCheck = TRUE
  /\ checking = FALSE
  /\ falling = FALSE
  /\ kickCommand \in KickCommands
  /\ diveCommand \in DiveCommands
  /\ posture = "up"
  /\ scene \in Scenes

Post(letters) == [m \in Letter |-> mail[m] + (IF m \in letters THEN 1 ELSE 0)]

(* The letter that is handled is gone, those its handler emits are added.    *)
Handled(letter, letters) ==
  [m \in Letter |-> mail[m] + (IF m \in letters THEN 1 ELSE 0)
                            - (IF m = letter THEN 1 ELSE 0)]

Quiet == updates = <<>> /\ ~checking /\ \A m \in Letter : mail[m] = 0

Room == Len(updates) + MapThenSumSet(LAMBDA m : mail[m], Letter) < InFlight

NotTooMany == \A m \in Letter : mail'[m] <= MaxMail[m[1]]

(* When something new may happen to the robot or be asked of it.             *)
News == IF pace = "calm" THEN Quiet ELSE Room

(* updatePriority: the message joins those that wait for the controller.     *)
Ask(s, value) == Len(updates) < MaxUpdates /\ updates' = Append(updates, <<s, value>>)
-----------------------------------------------------------------------------
(***************************************************************************)
(* The controller.  Stand is always in the lists with the smallest positive*)
(* priority, so a skill of priority 0 is never selected.                   *)
(***************************************************************************)
Foremost(p) == {s \in Skill : \A t \in Skill : p[s] >= p[t]}

UpdatePriority ==
  /\ updates # <<>>
  /\ updates' = Tail(updates)
  /\ priority' = [priority EXCEPT ![updates[1][1]] = updates[1][2]]
  /\ \E next \in IF holder \in Foremost(priority') THEN {holder} ELSE Foremost(priority') :
       /\ holder' = next
       /\ IF next = holder
          THEN UNCHANGED <<script, mail>>
          ELSE /\ script' = <<>>
               /\ mail' = Post({<<"kill", holder>>, <<"execute", next>>})
               /\ NotTooMany
  /\ UNCHANGED <<getupVars, falling, commandVars, posture, scene>>

(* The command filter: waypoints of others are ignored.  Servos run out at   *)
(* one tick or at several; the script of a getup moves both ankles.          *)
Endings == {<<TRUE>>, <<FALSE, TRUE>>, <<TRUE, TRUE>>, <<TRUE, FALSE>>}

CommandFilter(s) ==
  /\ mail[<<"waypoints", s>>] > 0
  /\ mail' = Handled(<<"waypoints", s>>, {})
  /\ IF s = holder THEN script' \in Endings ELSE UNCHANGED script
  /\ UNCHANGED <<priority, holder, updates, getupVars, falling, commandVars, posture,
                 scene>>

(* Mutant: Getup waits for a servo that the script does not move last.       *)
CompletedOnLast(s) == IF s = "getup" THEN Len(script) > 1 /\ script[1]
                      ELSE s \in {"kick", "dive"}

(* The completed callbacks: KickScript and GoalSaver finish on any servo,    *)
(* Getup on an ankle; the others ignore it.                                  *)
Completed(s) == IF s = "getup" THEN script[1] ELSE s \in {"kick", "dive"}

(* Servos run out of waypoints.  A getup may have worked.                    *)
ServosRunOut ==
  /\ script # <<>>
  /\ News
  /\ script' = Tail(script)
  /\ mail' = IF Completed(holder) THEN Post({<<"kill", holder>>}) ELSE mail
  /\ NotTooMany
  /\ posture' \in IF holder = "getup" /\ posture = "down" THEN {"up", "down"} ELSE {posture}
  /\ UNCHANGED <<priority, holder, updates, getupVars, falling, commandVars, scene>>
-----------------------------------------------------------------------------
(* Getup.                                                                    *)
FallenCheck ==
  /\ InUse("getup")
  /\ fallenCheck /\ ~checking
  /\ ~gettingUp /\ posture # "up"
  /\ News
  /\ Ask("getup", Asking["getup"])
  /\ IF pace = "racing"
     THEN checking' = TRUE /\ UNCHANGED fallenCheck
     ELSE fallenCheck' = FALSE /\ UNCHANGED checking
  /\ UNCHANGED <<controllerVars, mail, gettingUp, falling, commandVars, posture, scene>>

DisableFallenCheck ==
  /\ checking
  /\ checking' = FALSE
  /\ fallenCheck' = FALSE
  /\ UNCHANGED <<controllerVars, updates, mail, gettingUp, falling, commandVars, posture,
                 scene>>

ExecuteGetup ==
  /\ mail[<<"execute", "getup">>] > 0
  /\ gettingUp' = TRUE
  /\ mail' = Handled(<<"execute", "getup">>, {<<"waypoints", "getup">>})
  /\ NotTooMany
  /\ Ask("getup", Execution["getup"])
  /\ UNCHANGED <<controllerVars, fallenCheck, checking, falling, commandVars, posture,
                 scene>>

(* Mutant: does not enable the check again.                                  *)
KillGetupOnly ==
  /\ mail[<<"kill", "getup">>] > 0
  /\ gettingUp' = FALSE
  /\ mail' = Handled(<<"kill", "getup">>, {})
  /\ Ask("getup", 0)
  /\ UNCHANGED <<controllerVars, fallenCheck, checking, falling, commandVars, posture,
                 scene>>

KillGetup ==
  /\ mail[<<"kill", "getup">>] > 0
  /\ gettingUp' = FALSE
  /\ mail' = Handled(<<"kill", "getup">>, {})
  /\ Ask("getup", 0)
  /\ fallenCheck' = TRUE
  /\ UNCHANGED <<controllerVars, checking, falling, commandVars, posture, scene>>
-----------------------------------------------------------------------------
(* FallingRelax.  In a fall the mean acceleration is small, after it normal. *)
Falls ==
  /\ InUse("relax")
  /\ posture = "tilting" /\ ~falling /\ News
  /\ falling' = TRUE
  /\ Ask("relax", Asking["relax"])
  /\ UNCHANGED <<controllerVars, mail, getupVars, commandVars, posture, scene>>

(* Mutant: only the flag is reset.                                           *)
RecoversSilently ==
  /\ falling /\ posture # "tilting" /\ News
  /\ falling' = FALSE
  /\ UNCHANGED <<controllerVars, updates, mail, getupVars, commandVars, posture, scene>>

Recovers ==
  /\ falling /\ posture # "tilting" /\ News
  /\ falling' = FALSE
  /\ Ask("relax", 0)
  /\ UNCHANGED <<controllerVars, mail, getupVars, commandVars, posture, scene>>

Falling ==
  /\ mail[<<"execute", "relax">>] > 0
  /\ mail' = Handled(<<"execute", "relax">>, {<<"waypoints", "relax">>})
  /\ NotTooMany
  /\ UNCHANGED <<controllerVars, updates, getupVars, falling, commandVars, posture, scene>>

KillFalling ==
  /\ mail[<<"kill", "relax">>] > 0
  /\ falling' = FALSE
  /\ mail' = Handled(<<"kill", "relax">>, {})
  /\ Ask("relax", 0)
  /\ UNCHANGED <<controllerVars, getupVars, commandVars, posture, scene>>
-----------------------------------------------------------------------------
(* KickScript.  The right leg kicks to the front and left, the left leg to   *)
(* the front and right.                                                      *)
ValidKick(c) == \/ c.leg = "RIGHT_LEG" /\ c.quadrant \in {"front", "left"}
                \/ c.leg = "LEFT_LEG" /\ c.quadrant \in {"front", "right"}

KickCommand(c) ==
  /\ InUse("kick") /\ News
  /\ \/ /\ ValidKick(c)
        /\ kickCommand' = c
        /\ Ask("kick", Asking["kick"])
     \/ /\ c.leg \notin Leg
        /\ UNCHANGED kickCommand
        /\ Ask("kick", 0)
  /\ UNCHANGED <<controllerVars, mail, getupVars, falling, diveCommand, posture, scene>>

(* No script is emitted for a command that is not valid, the priority is.    *)
ExecuteKick ==
  /\ mail[<<"execute", "kick">>] > 0
  /\ mail' = Handled(<<"execute", "kick">>,
                     {m \in { <<"waypoints", "kick">> } : ValidKick(kickCommand)})
  /\ NotTooMany
  /\ Ask("kick", Execution["kick"])
  /\ UNCHANGED <<controllerVars, getupVars, falling, commandVars, posture, scene>>

(* FinishKick and FinishDive, which also tell the planners.                  *)
Finish(s) ==
  /\ s \in {"kick", "dive"}
  /\ mail[<<"kill", s>>] > 0
  /\ mail' = Handled(<<"kill", s>>, {})
  /\ Ask(s, 0)
  /\ UNCHANGED <<controllerVars, getupVars, falling, commandVars, posture, scene>>

(* GoalSaver.  There are scripts for the sides only.                         *)
DiveCommand(d) ==
  /\ InUse("dive")
  /\ News
  /\ diveCommand' = d
  /\ Ask("dive", Asking["dive"])
  /\ UNCHANGED <<controllerVars, mail, getupVars, falling, kickCommand, posture, scene>>

ExecuteDive ==
  /\ mail[<<"execute", "dive">>] > 0
  /\ mail' = Handled(<<"execute", "dive">>,
                     {m \in { <<"waypoints", "dive">> } : diveCommand \in {"left", "right"}})
  /\ NotTooMany
  /\ Ask("dive", Execution["dive"])
  /\ UNCHANGED <<controllerVars, getupVars, falling, commandVars, posture, scene>>
-----------------------------------------------------------------------------
(* The robot.                                                                *)
Tilts ==
  /\ posture = "up"
  /\ News
  /\ posture' = "tilting"
  /\ UNCHANGED <<controllerVars, updates, mail, getupVars, falling, commandVars, scene>>

Lands ==
  /\ posture = "tilting"
  /\ News
  /\ posture' = "down"
  /\ UNCHANGED <<controllerVars, updates, mail, getupVars, falling, commandVars, scene>>

(* A message is handled.                                                     *)
Deliver ==
  \/ UpdatePriority \/ \E s \in Scripted : CommandFilter(s) \/ Finish(s)
  \/ ExecuteGetup \/ KillGetup \/ Falling \/ KillFalling \/ ExecuteKick \/ ExecuteDive

Happen ==
  \/ FallenCheck \/ Falls \/ Recovers
  \/ \E c \in KickCommands : KickCommand(c)
  \/ \E d \in DiveCommands : DiveCommand(d)
  \/ Tilts \/ Lands

Next == Deliver \/ DisableFallenCheck \/ ServosRunOut \/ Happen

(* The pool handles what is emitted.  Sensors come sixty times a second and  *)
(* servos move on, whatever else keeps happening in between; a robot that    *)
(* tries often enough gets up.                                               *)
Fairness ==
  /\ WF_vars(Deliver) /\ WF_vars(DisableFallenCheck)
  /\ SF_vars(FallenCheck) /\ SF_vars(Recovers) /\ SF_vars(Lands)
  /\ SF_vars(ServosRunOut) /\ SF_vars(ServosRunOut /\ posture' # posture)

Spec == Init /\ [][Next]_vars /\ Fairness
-----------------------------------------------------------------------------
TypeOK ==
  /\ priority \in [Skill -> Nat] /\ holder \in Skill
  /\ updates \in Seq(Skill \X Nat) /\ Len(updates) <= MaxUpdates
  /\ mail \in [Letter -> Nat]
  /\ script \in Endings \cup {<<FALSE>>, <<>>}
  /\ gettingUp \in BOOLEAN /\ fallenCheck \in BOOLEAN /\ checking \in BOOLEAN
  /\ falling \in BOOLEAN
  /\ kickCommand \in KickCommands /\ diveCommand \in DiveCommands
  /\ posture \in {"up", "tilting", "down"} /\ scene \in Scenes

(* Once all messages are handled, a skill that has the body has a script to  *)
(* play (Getup.cpp:72, KickScript.cpp:86, GoalSaver.cpp:73, completed        *)
(* callbacks): the priority of an execution never outlives it, however the   *)
(* messages of starts, kills and completions overtake one another, and the   *)
(* next skill is not kept waiting for a robot that does nothing.             *)
ExecutionBacked == Quiet /\ holder \in {"getup", "kick", "dive"} => script # <<>>

(* "Executes a getup script if the robot falls over." (Getup.h:30): once all *)
(* messages are handled, a robot on the ground has asked for the body, or    *)
(* the check that will ask is enabled and nothing makes it return early.     *)
FallenIsAnswered ==
  Quiet /\ posture = "down" =>
    \/ priority["getup"] > 0
    \/ fallenCheck /\ ~gettingUp

(* The same where the fallen check runs to its end before a KillGetup is     *)
(* handled: the check that disables itself (Getup.cpp:68) is always enabled  *)
(* again, however kills and executions overtake one another (72, 86).        *)
FallenIsAnsweredInTurn == pace # "racing" => FallenIsAnswered

(* A robot that is down gets up, whichever skills had the body or ask for it *)
(* meanwhile, when messages are handled faster than the robot moves.         *)
GetsUp == pace = "calm" /\ posture = "down" ~> posture = "up"
=============================================================================

----------------------------- MODULE WalkEngine -----------------------------
(***************************************************************************)
(* The walk engine as those who command it see it: starting, stopping at   *)
(* the end of a step, its claim on the legs, and whether the feet are side *)
(* by side.  Its handlers share no Sync group with its sixty updates a     *)
(* second.  Messages are letters in flight, which may be handled in any    *)
(* order; the module is extended by those who send them.                   *)
(***************************************************************************)
EXTENDS Integers, Sequences

CONSTANTS
  TicksPerStep, (* updates in a step; the last one has the swing foot down  *)
  Letter,       (* the kinds of messages                                    *)
  MaxMail,      (* bound on the letters of a kind                           *)
  MaxUpdates    (* bound on the priorities that wait for the controller     *)

ASSUME WalkAssumption ==
  /\ TicksPerStep \in Nat \ {0}
  /\ {"WalkStartCommand", "WalkStopCommand", "WalkOptimiserCommand", "WalkConfigSaved",
      "WalkStopped"} \subseteq Letter
  /\ MaxMail \in Nat \ {0} /\ MaxUpdates \in Nat \ {0}

VARIABLES
  mail,         (* how often each letter is in flight                       *)
  active, started, stopRequest,
  newStep,      (* iStep > iStep0: the next update begins a step            *)
  tick,         (* updates since tLastStep                                  *)
  initialStep,
  velCommand, velCurrent, \* is there a velocity?
  destined,     (* whether the step ends with the feet side by side: the    *)
                (* destinations uLeft2, uRight2                             *)
  together,     (* the feet are: uLeft, uRight                              *)
  updating,     (* where update() stands between two of its statements      *)
  config,       (* the parameters: those of a sample, or 0                  *)
  priority,     (* the legs' priority with the controller                   *)
  updates,      (* ActionPriorites not yet handled                          *)
  rival         (* something more important has the legs                    *)

stepVars == <<newStep, tick, initialStep, velCommand, velCurrent, destined, together>>
engineVars == <<active, started, stopRequest, stepVars, updating, config>>
claimVars == <<priority, updates, rival>>
walkVars == <<mail, engineVars, claimVars>>

Priority == 25  \* of the legs while walking

WalkInit ==
  /\ mail = [m \in Letter |-> 0]
  /\ active = FALSE /\ started = FALSE
  /\ stopRequest = 2
  /\ newStep = TRUE /\ tick = 0 /\ initialStep = 2
  /\ velCommand = FALSE /\ velCurrent = FALSE
  /\ destined = TRUE /\ together = TRUE
  /\ updating = "no"
  /\ config = 0
  /\ priority = 0 /\ updates = <<>> /\ rival = FALSE

Post(letters) == [m \in Letter |-> mail[m] + (IF m \in letters THEN 1 ELSE 0)]

(* A letter is handled and others are posted.                                *)
Answer(letter, letters) ==
  /\ mail[letter] > 0
  /\ mail' = [Post(letters) EXCEPT ![letter] = @ - 1]
  /\ \A m \in letters : mail'[m] <= MaxMail

Send(letters) == mail' = Post(letters) /\ \A m \in letters : mail'[m] <= MaxMail

Quiet == updates = <<>> /\ updating = "no" /\ \A m \in Letter : mail[m] = 0

(* Starts leave a place for the end of a stop.                               *)
Ask(value) ==
  /\ Len(updates) < MaxUpdates - (IF value = 0 THEN 0 ELSE 1)
  /\ updates' = Append(updates, value)
-----------------------------------------------------------------------------
(* Mutant: a walk that is active does not claim the legs again.              *)
WalkStartOnce ==
  /\ Answer("WalkStartCommand", {})
  /\ stopRequest' = 0
  /\ active' = TRUE
  /\ IF active
     THEN UNCHANGED <<started, newStep, tick, initialStep, updates>>
     ELSE started' = FALSE /\ newStep' = TRUE /\ tick' = 0 /\ initialStep' = 2 /\ Ask(Priority)
  /\ UNCHANGED <<velCommand, velCurrent, destined, together, updating, config, priority,
                 rival>>

WalkStart ==
  /\ Answer("WalkStartCommand", {})
  /\ stopRequest' = 0
  /\ active' = TRUE
  /\ IF active
     THEN UNCHANGED <<started, newStep, tick, initialStep>>
     ELSE started' = FALSE /\ newStep' = TRUE /\ tick' = 0 /\ initialStep' = 2
  /\ Ask(Priority)
  /\ UNCHANGED <<velCommand, velCurrent, destined, together, updating, config, priority,
                 rival>>

(* Mutant: a stop that is repeated begins anew.                              *)
WalkStopAnew ==
  /\ Answer("WalkStopCommand", {})
  /\ stopRequest' = 1
  /\ UNCHANGED <<active, started, stepVars, updating, config, claimVars>>

WalkStop ==
  /\ Answer("WalkStopCommand", {})
  /\ stopRequest' = IF stopRequest = 0 THEN 1 ELSE stopRequest
  /\ UNCHANGED <<active, started, stepVars, updating, config, claimVars>>

(* WalkCommands come from whoever leads the walk, many times a second.       *)
SetVelocity(velocity) ==
  /\ velCommand' = velocity
  /\ UNCHANGED <<mail, active, started, stopRequest, newStep, tick, initialStep, velCurrent,
                 destined, together, updating, config, claimVars>>

ConfigureWalk(sample) ==
  /\ Answer("WalkOptimiserCommand", {"WalkConfigSaved"})
  /\ config' = sample
  /\ UNCHANGED <<active, started, stopRequest, stepVars, updating, claimVars>>
-----------------------------------------------------------------------------
(* update(): the step begins with the first update, or when its time is up.  *)
AtBoundary == newStep \/ (started /\ tick = TicksPerStep)

(* Mutant: the feet are not drawn together before stopping.                  *)
ShortHalt ==
  /\ updating = "no" /\ active /\ AtBoundary /\ stopRequest \in {1, 2}
  /\ stopRequest' = 0
  /\ active' = FALSE
  /\ started' = TRUE
  /\ newStep' = TRUE
  /\ updating' = "halted"
  /\ UNCHANGED <<mail, tick, initialStep, velCommand, velCurrent, destined, together,
                 config, claimVars>>

(* The end of a stop, between the statements of which others may run.        *)
Halt ==
  /\ updating = "no" /\ active /\ AtBoundary /\ stopRequest = 2
  /\ stopRequest' = 0
  /\ active' = FALSE
  /\ started' = TRUE
  /\ newStep' = TRUE
  /\ updating' = "halted"
  /\ UNCHANGED <<mail, tick, initialStep, velCommand, velCurrent, destined, together,
                 config, claimVars>>

ReportStopped ==
  /\ updating = "halted"
  /\ updating' = "no"
  /\ Ask(0)
  /\ Send({"WalkStopped"})
  /\ UNCHANGED <<active, started, stopRequest, stepVars, config, priority, rival>>

(* updateVelocity(): velCurrent follows velCommand by limited steps, but not *)
(* in the first two steps.                                                   *)
Accelerated == IF initialStep > 0 THEN {FALSE}
               ELSE IF velCurrent THEN BOOLEAN ELSE {velCommand}

(* stepLeftDestination, stepRightDestination: half of the distance between   *)
(* the feet remains, and one and a half velocities are added.                *)
Destinations(velocity) ==
  IF velocity /\ ~destined THEN BOOLEAN ELSE {destined /\ ~velocity}

(* What every new step does, and where its foot goes.                        *)
StepBegins(velocity, destination) ==
  /\ velCurrent' = velocity
  /\ initialStep' = IF initialStep > 0 THEN initialStep - 1 ELSE 0
  /\ newStep' = FALSE
  /\ started' = TRUE
  /\ tick' = 1
  /\ destined' = destination
  /\ together' = IF TicksPerStep = 1 THEN destination ELSE together /\ destination

NextStep ==
  /\ updating = "no" /\ active /\ AtBoundary /\ stopRequest = 0
  /\ \E velocity \in Accelerated : \E destination \in Destinations(velocity) :
       StepBegins(velocity, destination)
  /\ UNCHANGED <<mail, active, stopRequest, velCommand, updating, config, claimVars>>

(* The closing step: its request has been read, and not yet overwritten.     *)
ReadStopRequest ==
  /\ updating = "no" /\ active /\ AtBoundary /\ stopRequest = 1
  /\ updating' = "closing"
  /\ UNCHANGED <<mail, active, started, stopRequest, stepVars, config, claimVars>>

ClosingStep ==
  /\ updating = "closing"
  /\ updating' = "no"
  /\ stopRequest' = 2
  /\ velCommand' = FALSE
  /\ StepBegins(FALSE, TRUE)
  /\ UNCHANGED <<mail, active, config, claimVars>>

Swing ==
  /\ updating = "no" /\ active /\ ~AtBoundary
  /\ tick' = tick + 1
  /\ together' = IF tick' = TicksPerStep THEN destined ELSE together
  /\ UNCHANGED <<mail, active, started, stopRequest, newStep, initialStep, velCommand,
                 velCurrent, destined, updating, config, claimVars>>

(* An update, from its beginning; while the engine is not active it stands.  *)
Update == Halt \/ NextStep \/ ReadStopRequest \/ Swing
Proceed == ReportStopped \/ ClosingStep
-----------------------------------------------------------------------------
(* stanceReset(), the start callback.                                        *)
StanceReset ==
  /\ newStep' = TRUE /\ tick' = 0
  /\ destined' = TRUE /\ together' = TRUE

Holds(value, other) == value > 0 /\ ~other

(* The engine is told if it gets the legs.                                   *)
Told(value, other) ==
  /\ IF Holds(value, other) /\ ~Holds(priority, rival)
     THEN StanceReset
     ELSE UNCHANGED <<newStep, tick, destined, together>>
  /\ UNCHANGED <<active, started, stopRequest, initialStep, velCommand, velCurrent, updating,
                 config>>

UpdatePriority ==
  /\ updates # <<>>
  /\ updates' = Tail(updates)
  /\ priority' = updates[1]
  /\ Told(updates[1], rival)
  /\ UNCHANGED <<mail, rival>>

(* A more important skill gets the legs, or leaves them.                     *)
SetRival(other) ==
  /\ rival' = other
  /\ Told(priority, other)
  /\ UNCHANGED <<priority, updates>>
-----------------------------------------------------------------------------
WalkTypeOK ==
  /\ mail \in [Letter -> Nat]
  /\ active \in BOOLEAN /\ started \in BOOLEAN /\ stopRequest \in 0..2
  /\ newStep \in BOOLEAN /\ tick \in 0..TicksPerStep /\ initialStep \in 0..2
  /\ velCommand \in BOOLEAN /\ velCurrent \in BOOLEAN
  /\ destined \in BOOLEAN /\ together \in BOOLEAN
  /\ updating \in {"no", "halted", "closing"}
  /\ config \in Nat
  /\ priority \in {0, Priority} /\ updates \in Seq({0, Priority})
  /\ Len(updates) <= MaxUpdates
  /\ rival \in BOOLEAN

(* "always stops with feet together (which helps transition)"                *)
(* (WalkEngine.cpp:352): whenever the engine stands, the feet are side by    *)
(* side, however starts, stops and the loss of the legs fall into its steps. *)
FeetTogether == ~active => together
=============================================================================

------------------------------ MODULE HardwareIO ------------------------------
(***************************************************************************)
(* The servo targets of modules/platform/darwin/HardwareIO: a handler      *)
(* stores them in servoState, and the loop that talks to the bus sends     *)
(* those marked dirty. The two run on different threads with no lock.      *)
(***************************************************************************)
EXTENDS Darwin

CONSTANTS
  Servos, \* the servos whose targets are followed, by their numbers on the bus
  Values  \* the values a gain and a position take

ASSUME ServoAssumption == Servos \subseteq Devices \cap Nat /\ Servos # {}

VARIABLES
  servoState,  (* what the program believes each servo was asked            *)
  storing,     (* the target being stored, and what of it has yet to be     *)
  visiting,    (* the servo the loop looks at, and what it has yet to do    *)
  command,     (* the sync write under construction                         *)
  device,      (* what each servo was last told                             *)
  overlapped,  (* servos stored and visited at once since they were last sent *)
  unmarked     (* those whose torque was enabled again without a dirty mark *)

(* The last two are history: no step of the program depends on them.         *)
ioVars == <<servoState, storing, visiting, command, device, overlapped, unmarked>>

(* The speed is stored and sent with the position.                          *)
Fields == {"gain", "goalPosition"}
Target == [Fields -> Values]
ServoState == [gain : Values, goalPosition : Values, torqueEnabled : BOOLEAN, dirty : BOOLEAN]
Entry(target, torqueEnabled, dirty) ==
  [gain |-> target.gain, goalPosition |-> target.goalPosition,
   torqueEnabled |-> torqueEnabled, dirty |-> dirty]
Commanded(target, torque) ==
  [gain |-> target.gain, goalPosition |-> target.goalPosition, torque |-> torque]

Blank == CHOOSE entry \in ServoState : TRUE

IOInit ==
  /\ \E first \in Target :
       /\ servoState = [s \in Servos |-> Entry(first, FALSE, FALSE)]
       /\ device = [s \in Servos |-> Commanded(first, FALSE)]
  /\ storing = [servo |-> Least(Servos), todo |-> {}, new |-> Blank]
  /\ visiting = [servo |-> Least(Servos), todo |-> {}, left |-> {}, at |-> "waiting"]
  /\ command = << >>
  /\ overlapped = {} /\ unmarked = {}

(* The two threads meet at a servo.                                          *)
Meeting == storing'.todo # {} /\ visiting'.todo # {} /\ storing'.servo = visiting'.servo
Meet == overlapped' = IF Meeting THEN overlapped \cup {storing'.servo} ELSE overlapped

(* The handler stores field by field, and nothing orders its stores for a    *)
(* reader on another thread.                                                 *)
Store(s, fields, new) ==
  /\ storing.todo = {}
  /\ storing' = [servo |-> s, todo |-> fields, new |-> new]
  /\ UNCHANGED <<servoState, visiting, command, device>>
  /\ Meet

(* A target enables the torque, and is stored and marked dirty if it differs *)
(* from the last: a limp servo that is asked for what it was asked before is *)
(* not told to turn its torque on.                                           *)
Goal(s, target) ==
  IF \A f \in Fields : servoState[s][f] = target[f]
  THEN /\ Store(s, {"torqueEnabled"}, Entry(target, TRUE, FALSE))
       /\ unmarked' = IF servoState[s].torqueEnabled \/ servoState[s].dirty
                      THEN unmarked ELSE unmarked \cup {s}
  ELSE /\ Store(s, Fields \cup {"torqueEnabled", "dirty"}, Entry(target, TRUE, TRUE))
       /\ unmarked' = unmarked \ {s}

(* Mutant: the servo is not marked dirty.                                    *)
LimpQuietly(s) ==
  /\ servoState[s].torqueEnabled
  /\ Store(s, {"torqueEnabled"}, Entry(servoState[s], FALSE, FALSE))
  /\ unmarked' = unmarked \ {s}

(* A gain that is not a number disables it, if it is not disabled already.   *)
Limp(s) ==
  /\ servoState[s].torqueEnabled
  /\ Store(s, {"torqueEnabled", "dirty"}, Entry(servoState[s], FALSE, TRUE))
  /\ unmarked' = unmarked \ {s}

StoreField ==
  \E f \in storing.todo :
    /\ servoState' = [servoState EXCEPT ![storing.servo][f] = storing.new[f]]
    /\ storing' = [storing EXCEPT !.todo = @ \ {f},
                                  !.new = IF storing.todo = {f} THEN Blank ELSE @]
    /\ UNCHANGED <<visiting, command, device, unmarked>>
    /\ Meet

(* The loop wakes up sixty times a second.                                   *)
Wake ==
  /\ visiting.at = "waiting"
  /\ visiting' = [visiting EXCEPT !.at = "sending", !.left = Servos]
  /\ UNCHANGED <<servoState, storing, command, device, overlapped, unmarked>>

(* It looks at the next servo: is it dirty, and is its torque to be on?      *)
Visit ==
  /\ visiting.at = "sending" /\ visiting.todo = {} /\ visiting.left # {}
  /\ UNCHANGED <<servoState, storing, command, device, unmarked>>
  /\ LET s == Least(visiting.left)
         todo == IF servoState[s].torqueEnabled THEN {"clean", "copy"} ELSE {"clean", "off"}
     IN /\ visiting' = [visiting EXCEPT
                          !.servo = s, !.left = @ \ {s},
                          !.todo = IF servoState[s].dirty THEN todo ELSE {}]
        /\ overlapped' = IF ~servoState[s].dirty THEN overlapped
                         ELSE IF Meeting THEN overlapped \cup {s} ELSE overlapped \ {s}

Visited(step) ==
  /\ step \in visiting.todo
  /\ visiting' = [visiting EXCEPT !.todo = @ \ {step}]
  /\ UNCHANGED <<storing, unmarked>>
  /\ Meet

(* The flag is cleared and the fields are read, with nothing to order them.  *)
Clean ==
  /\ Visited("clean")
  /\ servoState' = [servoState EXCEPT ![visiting.servo].dirty = FALSE]
  /\ UNCHANGED <<command, device>>

Copy ==
  /\ Visited("copy")
  /\ command' = [s \in DOMAIN command \cup {visiting.servo} |->
                   IF s = visiting.servo THEN Commanded(servoState[s], TRUE) ELSE command[s]]
  /\ UNCHANGED <<servoState, device>>

(* Torque is turned off by a write of its own.                               *)
SwitchOff ==
  /\ Visited("off")
  /\ device' = [device EXCEPT ![visiting.servo].torque = FALSE]
  /\ UNCHANGED <<servoState, command>>

(* The sync write tells all dirty servos at once; a servo that is given a    *)
(* goal turns its torque on by itself. Then the bus is read.                 *)
Send ==
  /\ visiting.at = "sending" /\ visiting.left = {} /\ visiting.todo = {}
  /\ device' = [s \in Servos |-> IF s \in DOMAIN command THEN command[s] ELSE device[s]]
  /\ command' = << >>
  /\ visiting' = [visiting EXCEPT !.at = "reading"]
  /\ UNCHANGED <<servoState, storing, overlapped, unmarked>>

Report ==
  /\ visiting.at = "reading"
  /\ bulkRead
  /\ visiting' = [visiting EXCEPT !.at = "waiting"]
  /\ UNCHANGED <<servoState, storing, command, device, overlapped, unmarked>>

Loop == Wake \/ Visit \/ Clean \/ Copy \/ SwitchOff \/ Send
Handle ==
  \/ \E s \in Servos, target \in Target : Goal(s, target)
  \/ \E s \in Servos : Limp(s)
  \/ StoreField
-----------------------------------------------------------------------------
IOTypeOK ==
  /\ servoState \in [Servos -> ServoState]
  /\ device \in [Servos -> [gain : Values, goalPosition : Values, torque : BOOLEAN]]
  /\ storing \in [servo : Servos, todo : SUBSET (Fields \cup {"torqueEnabled", "dirty"}),
                  new : ServoState]
  /\ visiting \in [servo : Servos, todo : SUBSET {"clean", "copy", "off"},
                   left : SUBSET Servos, at : {"waiting", "sending", "reading"}]
  /\ DOMAIN command \subseteq Servos
  /\ \A s \in DOMAIN command :
       command[s] \in [gain : Values, goalPosition : Values, torque : {TRUE}]
  /\ overlapped \cup unmarked \subseteq Servos

Settled(s) ==
  /\ ~servoState[s].dirty /\ s \notin DOMAIN command
  /\ storing.servo = s => storing.todo = {}
  /\ visiting.servo = s => visiting.todo = {}

(* However the handler and the loop interleave, a servo at rest has its      *)
(* newest target, torque and all: a store that falls anywhere in the loop is *)
(* sent with this pass or the next. There are two exceptions, and no other.  *)
(* The two were at this very servo at once when it was last sent: then       *)
(* anything may be left. Or its torque was off, with nothing left to send,   *)
(* when it was asked for the target it had before: the code enables the      *)
(* torque without the dirty mark, and the servo stays limp for as long as    *)
(* that target is repeated (HardwareIO.cpp:168, 177, 231, 245, 253).         *)
TargetsReachServos ==
  \A s \in Servos \ overlapped :
    Settled(s) =>
      IF servoState[s].torqueEnabled /\ s \notin unmarked
      THEN device[s] = Commanded(servoState[s], TRUE)
      ELSE ~device[s].torque
=============================================================================

--------------------------- MODULE MachinesProofs ---------------------------
(***************************************************************************)
(* Theorems about the components of MCMachines, for any devices, servos,   *)
(* values, scripts, files, missions, games and bounds.                     *)
(***************************************************************************)
EXTENDS MCMachines, FiniteSetTheorems, TLAPS

(* A set of numbers has a least one.                                         *)
LEMMA LeastInSet ==
  ASSUME NEW S \in SUBSET Nat, S # {}
  PROVE  Least(S) \in S
<1>. DEFINE Below == OpToRel(<, Nat)
<1>1. IsWellFoundedOn(Below, Nat)
  BY NatLessThanWellFounded
<1>2. Below = {ss \in Nat \X Nat : ss[1] < ss[2]}
  BY DEF OpToRel
<1>. HIDE DEF Below
<1>3. PICK x \in S : \A y \in S : ~(<<y, x>> \in Below)
  BY <1>1, WFMin
<1>4. ASSUME NEW y \in S  PROVE x <= y
  <2>1. x \in Nat /\ y \in Nat
    OBVIOUS
  <2>2. y < x => <<y, x>> \in Below
    BY <1>2, <2>1
  <2>3. ~(y < x)
    BY <1>3, <2>2
  <2>. QED  BY <2>1, <2>3
<1>. QED  BY <1>4 DEF Least
-----------------------------------------------------------------------------
(* The servos.                                                               *)
Storing(s) == storing.servo = s /\ storing.todo # {}
Visiting(s) == visiting.servo = s /\ visiting.todo # {}

(* What the servo was told, or is about to be told, is what it was asked.    *)
Agrees(s) ==
  IF s \in DOMAIN command
  THEN /\ servoState[s].torqueEnabled /\ s \notin unmarked
       /\ command[s] = Commanded(servoState[s], TRUE)
  ELSE IF servoState[s].torqueEnabled /\ s \notin unmarked
       THEN device[s] = Commanded(servoState[s], TRUE)
       ELSE ~device[s].torque

(* The loop writes to the servos of a pass only when it has seen them all.   *)
PassInv ==
  /\ visiting.at # "sending" => DOMAIN command = {} /\ visiting.todo = {}
  /\ \A s \in visiting.left : s \notin DOMAIN command /\ ~Visiting(s)
  /\ visiting.todo \cap {"copy", "off"} # {} => visiting.servo \notin DOMAIN command
  /\ ~({"copy", "off"} \subseteq visiting.todo)

(* An unmarked servo is not dirty, nor about to be.                          *)
UnmarkedInv ==
  \A s \in unmarked : ~servoState[s].dirty /\ ~(Storing(s) /\ storing.new.dirty)

(* A store that does not mark the servo dirty only turns its torque on: that *)
(* of a servo that has it on, that is dirty anyway, or that is unmarked.     *)
StoreInv(s) ==
  Storing(s) =>
    IF storing.new.dirty
    THEN "dirty" \in storing.todo \/ servoState[s].dirty
    ELSE /\ storing.todo = {"torqueEnabled"} /\ storing.new.torqueEnabled
         /\ servoState[s].torqueEnabled \/ servoState[s].dirty \/ s \in unmarked

VisitInv(s) ==
  Visiting(s) =>
    /\ "copy" \in visiting.todo => servoState[s].torqueEnabled /\ s \notin unmarked
    /\ "off" \in visiting.todo => ~servoState[s].torqueEnabled
    /\ visiting.todo \cap {"copy", "off"} = {} => Agrees(s)

RestInv(s) ==
  ~servoState[s].dirty /\ ~Visiting(s) /\ ~(Storing(s) /\ storing.new.dirty) => Agrees(s)

(* What holds of a servo that was not stored and visited at once.            *)
ApartInv(s) == ~(Storing(s) /\ Visiting(s)) /\ StoreInv(s) /\ VisitInv(s) /\ RestInv(s)

ServosInv ==
  /\ IOTypeOK /\ PassInv /\ UnmarkedInv
  /\ \A s \in Servos \ overlapped : ApartInv(s)

LEMMA ServosInit == Init => ServosInv
<1>. SUFFICES ASSUME IOInit  PROVE ServosInv
  BY DEF Init
<1>1. Least(Servos) \in Servos
  BY LeastInSet, ServoAssumption DEF ServoAssumption
<1>2. PICK first \in Target : /\ servoState = [s \in Servos |-> Entry(first, FALSE, FALSE)]
                              /\ device = [s \in Servos |-> Commanded(first, FALSE)]
  BY DEF IOInit
<1>3. first.gain \in Values /\ first.goalPosition \in Values
  BY <1>2 DEF Target, Fields
<1>4. /\ servoState \in [Servos -> ServoState]
      /\ device \in [Servos -> [gain : Values, goalPosition : Values, torque : BOOLEAN]]
  BY <1>2, <1>3 DEF Entry, Commanded, ServoState
<1>5. Blank \in ServoState
  <2>1. Entry(first, FALSE, FALSE) \in ServoState
    BY <1>3 DEF Entry, ServoState
  <2>. QED  BY <2>1 DEF Blank
<1>6. DOMAIN command = {} /\ IOTypeOK
  <2>1. DOMAIN command = {}
    BY DEF IOInit
  <2>2. storing \in [servo : Servos, todo : SUBSET (Fields \cup {"torqueEnabled", "dirty"}),
                     new : ServoState]
    BY <1>1, <1>5 DEF IOInit
  <2>3. visiting \in [servo : Servos, todo : SUBSET {"clean", "copy", "off"},
                      left : SUBSET Servos, at : {"waiting", "sending", "reading"}]
    BY <1>1 DEF IOInit
  <2>. QED  BY <1>4, <2>1, <2>2, <2>3 DEF IOInit, IOTypeOK
<1>7. PassInv /\ UnmarkedInv
  BY <1>6 DEF IOInit, PassInv, UnmarkedInv
<1>8. ASSUME NEW s \in Servos  PROVE ApartInv(s)
  <2>1. ~Storing(s) /\ ~Visiting(s)
    BY DEF IOInit, Storing, Visiting
  <2>2. ~servoState[s].torqueEnabled /\ ~device[s].torque
    BY <1>2 DEF Entry, Commanded
  <2>. QED  BY <1>6, <2>1, <2>2 DEF ApartInv, StoreInv, VisitInv, RestInv, Agrees
<1>. QED  BY <1>6, <1>7, <1>8 DEF ServosInv

(* Nothing but the loop and the handler touches the servos.                  *)
IOStep == Handle \/ Loop \/ Report

LEMMA IOSteps == [Next]_vars => IOStep \/ UNCHANGED ioVars
BY DEF Next, vars, IOStep, ServoLoop, BusLoop, Reading, Link, Timer, Turn

(* A function keeps its type when one of its values is replaced.             *)
LEMMA Updated ==
  ASSUME NEW D, NEW R, NEW f \in [D -> R], NEW d \in D, NEW r \in R
  PROVE  [f EXCEPT ![d] = r] \in [D -> R]
OBVIOUS

LEMMA DirtyType ==
  ASSUME NEW r \in ServoState, NEW b \in BOOLEAN
  PROVE  [r EXCEPT !.dirty = b] \in ServoState
BY DEF ServoState

LEMMA TorqueType ==
  ASSUME NEW r \in [gain : Values, goalPosition : Values, torque : BOOLEAN], NEW b \in BOOLEAN
  PROVE  [r EXCEPT !.torque = b] \in [gain : Values, goalPosition : Values, torque : BOOLEAN]
OBVIOUS

LEMMA IOTypes == IOTypeOK /\ IOStep => IOTypeOK'
<1>. SUFFICES ASSUME IOTypeOK, IOStep  PROVE IOTypeOK'
  OBVIOUS
<1>. DEFINE StoringType == [servo : Servos, todo : SUBSET (Fields \cup {"torqueEnabled", "dirty"}),
                            new : ServoState]
            VisitingType == [servo : Servos, todo : SUBSET {"clean", "copy", "off"},
                             left : SUBSET Servos, at : {"waiting", "sending", "reading"}]
            CommandOK == /\ DOMAIN command \subseteq Servos
                         /\ \A s \in DOMAIN command :
                              command[s] \in [gain : Values, goalPosition : Values, torque : {TRUE}]
            DeviceType == [Servos -> [gain : Values, goalPosition : Values, torque : BOOLEAN]]
<1>0. /\ servoState \in [Servos -> ServoState] /\ device \in DeviceType
      /\ storing \in StoringType /\ visiting \in VisitingType /\ CommandOK
      /\ overlapped \cup unmarked \subseteq Servos
  BY DEF IOTypeOK
<1>q. ASSUME /\ servoState' \in [Servos -> ServoState] /\ device' \in DeviceType
             /\ storing' \in StoringType /\ visiting' \in VisitingType /\ CommandOK'
             /\ overlapped' \subseteq Servos /\ unmarked' \subseteq Servos
      PROVE IOTypeOK'
  BY <1>q DEF IOTypeOK
<1>m. ASSUME Meet, storing' \in StoringType  PROVE overlapped' \subseteq Servos
  BY <1>0, <1>m DEF Meet
<1>1. ASSUME NEW s \in Servos, NEW fields \in SUBSET (Fields \cup {"torqueEnabled", "dirty"}),
             NEW new \in ServoState, Store(s, fields, new), unmarked' \subseteq Servos
      PROVE IOTypeOK'
  <2>1. storing' \in StoringType
    BY <1>1 DEF Store
  <2>. QED  BY <1>0, <1>1, <1>q, <1>m, <2>1 DEF Store
<1>2. ASSUME NEW s \in Servos, NEW target \in Target, Goal(s, target)  PROVE IOTypeOK'
  <2>1. Entry(target, TRUE, FALSE) \in ServoState /\ Entry(target, TRUE, TRUE) \in ServoState
    BY DEF Target, Fields, Entry, ServoState
  <2>2. unmarked' \in {unmarked, unmarked \cup {s}, unmarked \ {s}}
    BY <1>2 DEF Goal
  <2>3. unmarked' \subseteq Servos
    BY <1>0, <2>2
  <2>. QED  BY <1>1, <1>2, <2>1, <2>3 DEF Goal
<1>3. ASSUME NEW s \in Servos, Limp(s)  PROVE IOTypeOK'
  <2>1. Entry(servoState[s], FALSE, TRUE) \in ServoState
    BY <1>0 DEF Entry, ServoState
  <2>2. unmarked' \subseteq Servos
    BY <1>0, <1>3 DEF Limp
  <2>. QED  BY <1>1, <1>3, <2>1, <2>2 DEF Limp
<1>4. CASE StoreField
  <2>1. PICK f \in storing.todo :
          /\ servoState' = [servoState EXCEPT ![storing.servo][f] = storing.new[f]]
          /\ storing' = [storing EXCEPT !.todo = @ \ {f},
                                        !.new = IF storing.todo = {f} THEN Blank ELSE @]
          /\ UNCHANGED <<visiting, command, device, unmarked>>
          /\ Meet
    BY <1>4 DEF StoreField
  <2>2. f \in {"gain", "goalPosition", "torqueEnabled", "dirty"} /\ storing.servo \in Servos
    BY <1>0, <2>1 DEF Fields
  <2>3. /\ storing.new \in ServoState /\ servoState[storing.servo] \in ServoState
        /\ Blank \in ServoState
    BY <1>0, <2>2 DEF Blank
  <2>4. [servoState[storing.servo] EXCEPT ![f] = storing.new[f]] \in ServoState
    BY <2>2, <2>3 DEF ServoState
  <2>5. servoState' \in [Servos -> ServoState]
    BY <1>0, <2>1, <2>4
  <2>6. storing' \in StoringType
    BY <1>0, <2>1, <2>3
  <2>. QED  BY <1>0, <1>q, <1>m, <2>1, <2>5, <2>6
<1>5. CASE Wake
  <2>1. visiting' \in VisitingType
    BY <1>0, <1>5 DEF Wake
  <2>. QED  BY <1>0, <1>5, <1>q, <2>1 DEF Wake
<1>6. CASE Visit
  <2>. DEFINE s == Least(visiting.left)
  <2>1. s \in Servos
    BY <1>0, <1>6, LeastInSet, ServoAssumption DEF Visit, ServoAssumption
  <2>2. visiting' \in VisitingType
    BY <1>0, <1>6, <2>1 DEF Visit
  <2>3. overlapped' \subseteq Servos
    BY <1>0, <1>6, <2>1 DEF Visit
  <2>. QED  BY <1>0, <1>6, <1>q, <2>2, <2>3 DEF Visit
<1>7. ASSUME NEW step, Visited(step)
      PROVE  /\ visiting' \in VisitingType /\ UNCHANGED <<storing, unmarked>>
             /\ overlapped' \subseteq Servos
  <2>1. visiting' \in VisitingType
    BY <1>0, <1>7 DEF Visited
  <2>. QED  BY <1>0, <1>7, <1>m, <2>1 DEF Visited
<1>8. CASE Clean
  <2>1. visiting.servo \in Servos
    BY <1>0
  <2>2. [servoState[visiting.servo] EXCEPT !.dirty = FALSE] \in ServoState
    BY <1>0, <2>1, DirtyType DEF ServoState
  <2>3. servoState' = [servoState EXCEPT ![visiting.servo] =
                         [servoState[visiting.servo] EXCEPT !.dirty = FALSE]]
    BY <1>8 DEF Clean
  <2>4. servoState' \in [Servos -> ServoState]
    BY <1>0, <2>1, <2>2, <2>3, Updated
  <2>. QED  BY <1>0, <1>7, <1>8, <1>q, <2>4 DEF Clean
<1>9. CASE Copy
  <2>1. visiting.servo \in Servos
    BY <1>0
  <2>2. Commanded(servoState[visiting.servo], TRUE)
          \in [gain : Values, goalPosition : Values, torque : {TRUE}]
    BY <1>0, <2>1 DEF ServoState, Commanded
  <2>3. CommandOK'
    BY <1>0, <1>9, <2>1, <2>2 DEF Copy
  <2>. QED  BY <1>0, <1>7, <1>9, <1>q, <2>3 DEF Copy
<1>10. CASE SwitchOff
  <2>1. visiting.servo \in Servos
    BY <1>0
  <2>2. [device[visiting.servo] EXCEPT !.torque = FALSE]
          \in [gain : Values, goalPosition : Values, torque : BOOLEAN]
    BY <1>0, <2>1, TorqueType
  <2>3. device' = [device EXCEPT ![visiting.servo] =
                     [device[visiting.servo] EXCEPT !.torque = FALSE]]
    BY <1>10 DEF SwitchOff
  <2>4. device' \in DeviceType
    BY <1>0, <2>1, <2>2, <2>3, Updated
  <2>. QED  BY <1>0, <1>7, <1>10, <1>q, <2>4 DEF SwitchOff
<1>11. CASE Send
  <2>1. device' \in DeviceType
    BY <1>0, <1>11 DEF Send
  <2>2. CommandOK'
    <3>1. DOMAIN command' = {}
      BY <1>11 DEF Send
    <3>. QED  BY <3>1
  <2>3. visiting' \in VisitingType
    BY <1>0, <1>11 DEF Send
  <2>. QED  BY <1>0, <1>11, <1>q, <2>1, <2>2, <2>3 DEF Send
<1>12. CASE Report
  <2>1. visiting' \in VisitingType
    BY <1>0, <1>12 DEF Report
  <2>. QED  BY <1>0, <1>12, <1>q, <2>1 DEF Report
<1>. QED
  BY <1>2, <1>3, <1>4, <1>5, <1>6, <1>8, <1>9, <1>10, <1>11, <1>12 DEF IOStep, Handle, Loop

(* Writing is over before the next pass begins.                              *)
LEMMA PassKeeps == IOTypeOK /\ PassInv /\ IOStep => PassInv'
<1>. SUFFICES ASSUME IOTypeOK, PassInv, IOStep  PROVE PassInv'
  OBVIOUS
<1>0. /\ visiting \in [servo : Servos, todo : SUBSET {"clean", "copy", "off"},
                       left : SUBSET Servos, at : {"waiting", "sending", "reading"}]
      /\ DOMAIN command \subseteq Servos
  BY DEF IOTypeOK
<1>1. CASE UNCHANGED <<visiting, command>>
  BY <1>1 DEF PassInv, Visiting
<1>2. CASE Wake
  BY <1>0, <1>2 DEF Wake, PassInv, Visiting
<1>3. CASE Visit
  <2>. DEFINE s == Least(visiting.left)
  <2>1. s \in visiting.left
    BY <1>0, <1>3, LeastInSet, ServoAssumption DEF Visit, ServoAssumption
  <2>2. /\ visiting'.servo = s /\ visiting'.left = visiting.left \ {s} /\ command' = command
        /\ visiting'.at = "sending" /\ visiting.at = "sending"
    BY <1>0, <1>3 DEF Visit
  <2>3. visiting'.todo \in { {"clean", "copy"}, {"clean", "off"}, {} }
    BY <1>0, <1>3 DEF Visit
  <2>. HIDE DEF s
  <2>4. ~({"copy", "off"} \subseteq visiting'.todo)
    BY <2>3
  <2>. QED  BY <2>1, <2>2, <2>4 DEF PassInv, Visiting
<1>4. ASSUME NEW step, Visited(step), \/ UNCHANGED command
                                      \/ step = "copy" /\ DOMAIN command' = DOMAIN command \cup {visiting.servo}
      PROVE  PassInv'
  <2>1. /\ visiting'.servo = visiting.servo /\ visiting'.left = visiting.left
        /\ visiting'.todo = visiting.todo \ {step} /\ visiting'.at = visiting.at
        /\ step \in visiting.todo
    BY <1>0, <1>4 DEF Visited
  <2>2. visiting.at = "sending" /\ Visiting(visiting.servo)
    BY <1>0, <2>1 DEF PassInv, Visiting
  <2>3. visiting.servo \notin visiting.left
    BY <2>2 DEF PassInv
  <2>4. CASE UNCHANGED command
    <3>1. \A s \in visiting'.left : s \notin DOMAIN command' /\ ~Visiting(s)'
      BY <2>1, <2>3, <2>4 DEF PassInv, Visiting
    <3>2. visiting'.todo \cap {"copy", "off"} # {} => visiting'.servo \notin DOMAIN command'
      BY <2>1, <2>4 DEF PassInv
    <3>3. ~({"copy", "off"} \subseteq visiting'.todo)
      BY <2>1 DEF PassInv
    <3>. QED  BY <2>1, <2>2, <3>1, <3>2, <3>3 DEF PassInv
  <2>5. CASE step = "copy" /\ DOMAIN command' = DOMAIN command \cup {visiting.servo}
    <3>1. "off" \notin visiting.todo
      BY <2>1, <2>5 DEF PassInv
    <3>. QED  BY <2>1, <2>2, <2>3, <2>5, <3>1 DEF PassInv, Visiting
  <2>. QED  BY <1>4, <2>4, <2>5
<1>5. CASE Clean \/ SwitchOff
  BY <1>4, <1>5 DEF Clean, SwitchOff
<1>6. CASE Copy
  <2>1. DOMAIN command' = DOMAIN command \cup {visiting.servo}
    BY <1>6 DEF Copy
  <2>. QED  BY <1>4, <1>6, <2>1 DEF Copy
<1>7. CASE Send
  <2>1. DOMAIN command' = {}
    BY <1>7 DEF Send
  <2>. QED  BY <1>0, <1>7, <2>1 DEF Send, PassInv, Visiting
<1>8. CASE Report
  BY <1>0, <1>8 DEF Report, PassInv, Visiting
<1>. QED
  BY <1>1, <1>2, <1>3, <1>5, <1>6, <1>7, <1>8
  DEF IOStep, Handle, Loop, Goal, Limp, Store, StoreField

(* A field of an entry is replaced.                                          *)
LEMMA FieldStored ==
  ASSUME IOTypeOK, NEW f \in storing.todo,
         servoState' = [servoState EXCEPT ![storing.servo][f] = storing.new[f]]
  PROVE  /\ \A s \in Servos : s # storing.servo => servoState'[s] = servoState[s]
         /\ f \in {"gain", "goalPosition", "torqueEnabled", "dirty"} /\ storing.servo \in Servos
         /\ f = "dirty" => servoState'[storing.servo].dirty = storing.new.dirty
         /\ f # "dirty" => servoState'[storing.servo].dirty = servoState[storing.servo].dirty
         /\ f = "torqueEnabled" =>
              /\ servoState'[storing.servo].torqueEnabled = storing.new.torqueEnabled
              /\ servoState'[storing.servo].gain = servoState[storing.servo].gain
              /\ servoState'[storing.servo].goalPosition = servoState[storing.servo].goalPosition
<1>1. storing.servo \in Servos /\ f \in {"gain", "goalPosition", "torqueEnabled", "dirty"}
  BY DEF IOTypeOK, Fields
<1>2. servoState \in [Servos -> ServoState] /\ servoState[storing.servo] \in ServoState
  BY <1>1 DEF IOTypeOK
<1>3. servoState'[storing.servo] = [servoState[storing.servo] EXCEPT ![f] = storing.new[f]]
  BY <1>1, <1>2
<1>4. \A s \in Servos : s # storing.servo => servoState'[s] = servoState[s]
  BY <1>2
<1>. QED  BY <1>1, <1>2, <1>3, <1>4 DEF ServoState

(* A servo that nothing of this step is about stays as it was.               *)
LEMMA Unmoved ==
  ASSUME NEW s \in Servos, ApartInv(s), servoState'[s] = servoState[s], device'[s] = device[s],
         s \in DOMAIN command' <=> s \in DOMAIN command,
         s \in DOMAIN command => command'[s] = command[s],
         (Storing(s)' \/ Storing(s)) => storing'.servo = storing.servo /\ storing'.todo = storing.todo /\ storing'.new = storing.new,
         (Visiting(s)' \/ Visiting(s)) => visiting'.servo = visiting.servo /\ visiting'.todo = visiting.todo,
         s \in unmarked' <=> s \in unmarked
  PROVE  ApartInv(s)'
<1>1. (Agrees(s) <=> Agrees(s)') /\ (Storing(s) <=> Storing(s)') /\ (Visiting(s) <=> Visiting(s)')
  BY DEF Agrees, Storing, Visiting
<1>2. StoreInv(s)'
  BY <1>1 DEF ApartInv, StoreInv
<1>3. VisitInv(s)'
  BY <1>1 DEF ApartInv, VisitInv
<1>4. RestInv(s)'
  BY <1>1 DEF ApartInv, RestInv, Storing
<1>. QED  BY <1>1, <1>2, <1>3, <1>4 DEF ApartInv

(* A servo leaves the unmarked when it is about to be marked.                *)
LEMMA UnmarkedKeeps == IOTypeOK /\ PassInv /\ UnmarkedInv /\ IOStep => UnmarkedInv'
<1>. SUFFICES ASSUME IOTypeOK, PassInv, UnmarkedInv, IOStep, NEW s \in unmarked'
              PROVE  ~servoState'[s].dirty /\ ~(Storing(s)' /\ storing'.new.dirty)
  BY DEF UnmarkedInv, Storing
<1>0. /\ servoState \in [Servos -> ServoState] /\ unmarked \subseteq Servos
      /\ storing \in [servo : Servos, todo : SUBSET (Fields \cup {"torqueEnabled", "dirty"}),
                      new : ServoState]
      /\ visiting.servo \in Servos
  BY DEF IOTypeOK
<1>k. ASSUME unmarked' = unmarked
      PROVE  s \in Servos /\ ~servoState[s].dirty /\ ~(Storing(s) /\ storing.new.dirty)
  BY <1>0, <1>k DEF UnmarkedInv
<1>1. ASSUME NEW t \in Servos, NEW target \in Target, Goal(t, target)
      PROVE  ~servoState'[s].dirty /\ ~(Storing(s)' /\ storing'.new.dirty)
  <2>1. CASE \A f \in Fields : servoState[t][f] = target[f]
    <3>1. ~storing'.new.dirty
      BY <1>1, <2>1 DEF Goal, Store, Entry
    <3>2. ~servoState[s].dirty /\ servoState' = servoState
      BY <1>0, <1>1, <2>1 DEF Goal, Store, UnmarkedInv
    <3>. QED  BY <3>1, <3>2
  <2>2. CASE ~(\A f \in Fields : servoState[t][f] = target[f])
    <3>1. /\ s \in unmarked /\ s # t /\ servoState' = servoState /\ storing'.servo = t
      BY <1>1, <2>2 DEF Goal, Store
    <3>. QED  BY <3>1 DEF UnmarkedInv, Storing
  <2>. QED  BY <2>1, <2>2
<1>2. ASSUME NEW t \in Servos, Limp(t)
      PROVE  ~servoState'[s].dirty /\ ~(Storing(s)' /\ storing'.new.dirty)
  <2>1. /\ s \in unmarked /\ s # t /\ servoState' = servoState /\ storing'.servo = t
    BY <1>2 DEF Limp, Store
  <2>. QED  BY <2>1 DEF UnmarkedInv, Storing
<1>3. CASE StoreField
  <2>1. PICK f \in storing.todo :
          /\ servoState' = [servoState EXCEPT ![storing.servo][f] = storing.new[f]]
          /\ storing' = [storing EXCEPT !.todo = @ \ {f},
                                        !.new = IF storing.todo = {f} THEN Blank ELSE @]
          /\ UNCHANGED <<visiting, command, device, unmarked>>
          /\ Meet
    BY <1>3 DEF StoreField
  <2>2. /\ storing'.servo = storing.servo /\ storing'.todo = storing.todo \ {f}
        /\ storing.todo # {f} => storing'.new = storing.new
    BY <1>0, <2>1
  <2>3. s \in Servos /\ ~servoState[s].dirty /\ ~(Storing(s) /\ storing.new.dirty)
    BY <1>k, <2>1
  <2>4. ~(Storing(s)' /\ storing'.new.dirty)
    BY <2>2, <2>3 DEF Storing
  <2>5. ~servoState'[s].dirty
    <3>1. s = storing.servo => ~storing.new.dirty
      BY <2>1, <2>3 DEF Storing
    <3>. QED  BY <2>1, <2>3, <3>1, FieldStored
  <2>. QED  BY <2>4, <2>5
<1>4. CASE Clean
  <2>1. servoState' = [servoState EXCEPT ![visiting.servo].dirty = FALSE]
        /\ UNCHANGED <<storing, unmarked>>
    BY <1>4 DEF Clean, Visited
  <2>2. ~servoState'[s].dirty
    BY <1>0, <1>k, <2>1 DEF ServoState
  <2>. QED  BY <1>k, <2>1, <2>2 DEF Storing
<1>5. CASE UNCHANGED <<servoState, storing, unmarked>>
  BY <1>k, <1>5 DEF Storing
<1>. QED
  BY <1>1, <1>2, <1>3, <1>4, <1>5
  DEF IOStep, Handle, Loop, Wake, Visit, Copy, SwitchOff, Visited, Send, Report

LEMMA ApartKeeps ==
  ASSUME IOTypeOK, PassInv, UnmarkedInv, IOStep, \A s \in Servos \ overlapped : ApartInv(s),
         NEW s \in Servos \ overlapped'
  PROVE  ApartInv(s)'
<1>0. /\ servoState \in [Servos -> ServoState]
      /\ device \in [Servos -> [gain : Values, goalPosition : Values, torque : BOOLEAN]]
      /\ storing \in [servo : Servos, todo : SUBSET (Fields \cup {"torqueEnabled", "dirty"}),
                      new : ServoState]
      /\ visiting \in [servo : Servos, todo : SUBSET {"clean", "copy", "off"},
                       left : SUBSET Servos, at : {"waiting", "sending", "reading"}]
  BY DEF IOTypeOK
<1>m. ASSUME Meet  PROVE ApartInv(s) /\ ~(Storing(s) /\ Visiting(s))'
  BY <1>m DEF Meet, Meeting, Storing, Visiting
(* The handler begins to store.                                              *)
<1>1. ASSUME NEW t \in Servos, NEW fields, NEW new, Store(t, fields, new), fields # {},
             IF new.dirty
             THEN "dirty" \in fields /\ unmarked' = unmarked \ {t}
             ELSE /\ fields = {"torqueEnabled"} /\ new.torqueEnabled
                  /\ IF servoState[t].torqueEnabled \/ servoState[t].dirty
                     THEN unmarked' = unmarked ELSE unmarked' = unmarked \cup {t}
      PROVE  ApartInv(s)'
  <2>1. /\ ApartInv(s) /\ ~(Storing(s) /\ Visiting(s))' /\ storing.todo = {}
        /\ storing' = [servo |-> t, todo |-> fields, new |-> new]
        /\ UNCHANGED <<servoState, visiting, command, device>>
    BY <1>1, <1>m DEF Store
  <2>2. (Visiting(s) <=> Visiting(s)') /\ (Visiting(s) => s # t)
    BY <1>1, <2>1 DEF Visiting, Storing
  <2>a. s # t => (Agrees(s) => Agrees(s)') /\ (s \in unmarked <=> s \in unmarked')
    BY <1>1, <2>1 DEF Agrees
  <2>3. StoreInv(s)'
    BY <1>1, <2>1 DEF StoreInv, Storing
  <2>4. VisitInv(s)'
    BY <2>1, <2>2, <2>a DEF ApartInv, VisitInv
  <2>5. RestInv(s)'
    <3>1. CASE s # t
      <4>1. ~Storing(s) /\ ~Storing(s)'
        BY <2>1, <3>1 DEF Storing
      <4>. QED  BY <2>1, <2>2, <2>a, <3>1, <4>1 DEF ApartInv, RestInv
    <3>2. CASE s = t /\ ~new.dirty
      <4>1. Agrees(s) /\ ~servoState[s].dirty => Agrees(s)'
        BY <1>1, <2>1, <3>2 DEF Agrees
      <4>2. ~Storing(s)
        BY <2>1 DEF Storing
      <4>. QED  BY <2>1, <2>2, <4>1, <4>2 DEF ApartInv, RestInv
    <3>3. CASE s = t /\ new.dirty
      BY <1>1, <2>1, <3>3 DEF RestInv, Storing
    <3>. QED  BY <3>1, <3>2, <3>3
  <2>. QED  BY <2>1, <2>3, <2>4, <2>5 DEF ApartInv
<1>2. ASSUME NEW t \in Servos, NEW target \in Target, Goal(t, target)  PROVE ApartInv(s)'
  BY <1>1, <1>2 DEF Goal, Entry
<1>3. ASSUME NEW t \in Servos, Limp(t)  PROVE ApartInv(s)'
  BY <1>1, <1>3 DEF Limp, Entry
(* It stores one field.                                                      *)
<1>4. CASE StoreField
  <2>1. PICK f \in storing.todo :
          /\ servoState' = [servoState EXCEPT ![storing.servo][f] = storing.new[f]]
          /\ storing' = [storing EXCEPT !.todo = @ \ {f},
                                        !.new = IF storing.todo = {f} THEN Blank ELSE @]
          /\ UNCHANGED <<visiting, command, device, unmarked>>
          /\ Meet
    BY <1>4 DEF StoreField
  <2>2. /\ storing'.servo = storing.servo /\ storing'.todo = storing.todo \ {f}
        /\ storing.todo # {f} => storing'.new = storing.new
    BY <1>0, <2>1
  <2>3. ApartInv(s) /\ ~(Storing(s) /\ Visiting(s))'
    BY <1>m, <2>1
  <2>4. CASE s # storing.servo
    <3>1. servoState'[s] = servoState[s]
      BY <2>1, <2>4, FieldStored
    <3>. QED  BY <2>1, <2>2, <2>3, <2>4, <3>1, Unmoved DEF Storing, Visiting
  <2>5. CASE s = storing.servo
    <3>1. Storing(s) /\ ~Visiting(s) /\ ~Visiting(s)'
      BY <2>1, <2>3, <2>5 DEF ApartInv, Storing, Visiting
    <3>2. CASE storing.new.dirty
      <4>1. "dirty" \in storing'.todo \/ servoState'[s].dirty
        BY <2>1, <2>2, <2>3, <2>5, <3>1, <3>2, FieldStored DEF ApartInv, StoreInv
      <4>2. Storing(s)' => storing'.new.dirty
        BY <2>2, <3>2 DEF Storing
      <4>3. ~servoState'[s].dirty => Storing(s)'
        BY <2>2, <2>5, <4>1 DEF Storing
      <4>. QED  BY <2>3, <3>1, <4>1, <4>2, <4>3 DEF ApartInv, StoreInv, VisitInv, RestInv
    <3>3. CASE ~storing.new.dirty
      <4>1. /\ storing.todo = {"torqueEnabled"} /\ storing.new.torqueEnabled /\ f = "torqueEnabled"
            /\ servoState[s].torqueEnabled \/ servoState[s].dirty \/ s \in unmarked
        BY <2>3, <3>1, <3>3 DEF ApartInv, StoreInv
      <4>2. /\ servoState'[s].torqueEnabled /\ servoState'[s].gain = servoState[s].gain
            /\ servoState'[s].goalPosition = servoState[s].goalPosition
            /\ servoState'[s].dirty = servoState[s].dirty
        BY <2>1, <2>5, <4>1, FieldStored
      <4>3. ~Storing(s)'
        BY <2>2, <4>1 DEF Storing
      <4>4. Agrees(s) /\ ~servoState[s].dirty => Agrees(s)'
        <5>1. Commanded(servoState[s], TRUE)' = Commanded(servoState[s], TRUE)
          BY <4>2 DEF Commanded
        <5>2. CASE servoState[s].torqueEnabled
          BY <2>1, <4>2, <5>1, <5>2 DEF Agrees
        <5>3. CASE s \in unmarked
          BY <2>1, <5>3 DEF Agrees
        <5>. QED  BY <4>1, <5>2, <5>3
      <4>5. ~servoState'[s].dirty => Agrees(s)'
        BY <2>3, <3>1, <3>3, <4>2, <4>4 DEF ApartInv, RestInv
      <4>. QED  BY <3>1, <4>3, <4>5 DEF ApartInv, StoreInv, VisitInv, RestInv
    <3>. QED  BY <3>2, <3>3
  <2>. QED  BY <2>4, <2>5
(* The loop looks at a servo.                                                *)
<1>5. CASE Visit
  <2>. DEFINE t == Least(visiting.left)
  <2>1. t \in Servos /\ t \in visiting.left
    BY <1>0, <1>5, LeastInSet, ServoAssumption DEF Visit, ServoAssumption
  <2>2. /\ visiting.todo = {} /\ visiting'.servo = t
        /\ UNCHANGED <<servoState, storing, command, device, unmarked>>
    BY <1>0, <1>5 DEF Visit
  <2>3. CASE ~servoState[t].dirty
    <3>1. visiting'.todo = {} /\ overlapped' = overlapped
      BY <1>0, <1>5, <2>3 DEF Visit
    <3>. QED  BY <2>2, <3>1, Unmoved DEF Visiting
  <2>4. CASE servoState[t].dirty
    <3>1. /\ overlapped' = IF Meeting THEN overlapped \cup {t} ELSE overlapped \ {t}
          /\ visiting'.todo = IF servoState[t].torqueEnabled THEN {"clean", "copy"} ELSE {"clean", "off"}
      BY <1>0, <1>5, <2>4 DEF Visit
    <3>. HIDE DEF t
    <3>2. CASE s # t
      <4>1. s \notin overlapped
        BY <3>1, <3>2
      <4>. QED  BY <2>2, <3>2, <4>1, Unmoved DEF Visiting
    <3>3. CASE s = t
      <4>1. Visiting(s)' /\ ~Storing(s)' /\ servoState'[s].dirty
        BY <2>2, <2>4, <3>1, <3>3 DEF Visiting, Storing, Meeting
      <4>2. VisitInv(s)'
        <5>0. s \notin unmarked'
          BY <2>2, <2>4, <3>3 DEF UnmarkedInv
        <5>1. CASE servoState[s].torqueEnabled
          BY <2>2, <3>1, <3>3, <5>0, <5>1 DEF VisitInv
        <5>2. CASE ~servoState[s].torqueEnabled
          BY <2>2, <3>1, <3>3, <5>2 DEF VisitInv
        <5>. QED  BY <5>1, <5>2
      <4>. QED  BY <4>1, <4>2 DEF ApartInv, StoreInv, RestInv
    <3>. QED  BY <3>2, <3>3
  <2>. QED  BY <2>3, <2>4
(* It does one of the things it has to do there.                             *)
<1>6. ASSUME NEW step, Visited(step)
      PROVE  /\ ApartInv(s) /\ ~(Storing(s) /\ Visiting(s))' /\ UNCHANGED <<storing, unmarked>>
             /\ visiting'.servo = visiting.servo /\ visiting'.todo = visiting.todo \ {step}
             /\ step \in visiting.todo /\ visiting.servo \in Servos
             /\ s = visiting.servo => Visiting(s) /\ ~Storing(s)
  BY <1>0, <1>6, <1>m DEF Visited, ApartInv, Visiting, Storing
<1>7. CASE Clean
  <2>1. /\ servoState' = [servoState EXCEPT ![visiting.servo].dirty = FALSE]
        /\ UNCHANGED <<command, device>> /\ Visited("clean")
    BY <1>7 DEF Clean
  <2>2. CASE s # visiting.servo
    <3>1. servoState'[s] = servoState[s]
      BY <1>0, <2>1, <2>2
    <3>. QED  BY <1>6, <2>1, <2>2, <3>1, Unmoved DEF Visiting
  <2>3. CASE s = visiting.servo
    <3>1. /\ servoState'[s].torqueEnabled = servoState[s].torqueEnabled
          /\ servoState'[s].gain = servoState[s].gain
          /\ servoState'[s].goalPosition = servoState[s].goalPosition
      BY <1>0, <2>1, <2>3 DEF ServoState
    <3>2. Agrees(s) => Agrees(s)'
      <4>1. Commanded(servoState[s], TRUE)' = Commanded(servoState[s], TRUE)
        BY <3>1 DEF Commanded
      <4>. QED  BY <1>6, <2>1, <3>1, <4>1 DEF Agrees
    <3>3. visiting.todo \cap {"copy", "off"} = visiting'.todo \cap {"copy", "off"}
      BY <1>6, <2>1
    <3>4. (visiting.todo \cap {"copy", "off"} = {} => Agrees(s)) /\ ~Storing(s)
      BY <1>6, <2>1, <2>3 DEF ApartInv, VisitInv
    <3>5. VisitInv(s)'
      BY <1>6, <2>1, <2>3, <3>1, <3>2, <3>3 DEF ApartInv, VisitInv
    <3>6. RestInv(s)'
      <4>1. ~Visiting(s)' => visiting'.todo \cap {"copy", "off"} = {}
        BY <1>6, <2>1, <2>3 DEF Visiting
      <4>. QED  BY <3>2, <3>3, <3>4, <4>1 DEF RestInv
    <3>7. ~Storing(s)'
      BY <1>6, <2>1, <3>4 DEF Storing
    <3>. QED  BY <3>5, <3>6, <3>7 DEF ApartInv, StoreInv
  <2>. QED  BY <2>2, <2>3
<1>8. CASE Copy
  <2>1. /\ command' = [t \in DOMAIN command \cup {visiting.servo} |->
                         IF t = visiting.servo THEN Commanded(servoState[t], TRUE) ELSE command[t]]
        /\ UNCHANGED <<servoState, device>> /\ Visited("copy")
    BY <1>8 DEF Copy
  <2>2. CASE s # visiting.servo
    BY <1>6, <2>1, <2>2, Unmoved DEF Visiting
  <2>3. CASE s = visiting.servo
    <3>1. servoState[s].torqueEnabled /\ s \notin unmarked /\ ~Storing(s)
      BY <1>6, <2>1, <2>3 DEF ApartInv, VisitInv
    <3>2. Agrees(s)'
      <4>1. s \in DOMAIN command' /\ command'[s] = Commanded(servoState[s], TRUE)
        BY <2>1, <2>3
      <4>2. Commanded(servoState[s], TRUE)' = Commanded(servoState[s], TRUE)
        BY <2>1 DEF Commanded
      <4>. QED  BY <1>6, <2>1, <3>1, <4>1, <4>2 DEF Agrees
    <3>3. VisitInv(s)'
      BY <1>6, <2>1, <2>3, <3>2 DEF ApartInv, VisitInv
    <3>4. ~Storing(s)'
      BY <1>6, <2>1, <3>1 DEF Storing
    <3>. QED  BY <3>2, <3>3, <3>4 DEF ApartInv, StoreInv, RestInv
  <2>. QED  BY <2>2, <2>3
<1>9. CASE SwitchOff
  <2>1. /\ device' = [device EXCEPT ![visiting.servo].torque = FALSE]
        /\ UNCHANGED <<servoState, command>> /\ Visited("off")
    BY <1>9 DEF SwitchOff
  <2>2. CASE s # visiting.servo
    <3>1. device'[s] = device[s]
      BY <1>0, <2>1, <2>2
    <3>. QED  BY <1>6, <2>1, <2>2, <3>1, Unmoved DEF Visiting
  <2>3. CASE s = visiting.servo
    <3>1. ~servoState[s].torqueEnabled /\ ~Storing(s) /\ s \notin DOMAIN command
      BY <1>6, <2>1, <2>3 DEF ApartInv, VisitInv, PassInv
    <3>2. device'[s].torque = FALSE
      BY <1>0, <2>1, <2>3
    <3>3. Agrees(s)'
      BY <2>1, <3>1, <3>2 DEF Agrees
    <3>4. VisitInv(s)'
      BY <1>6, <2>1, <2>3, <3>3 DEF ApartInv, VisitInv
    <3>5. ~Storing(s)'
      BY <1>6, <2>1, <3>1 DEF Storing
    <3>. QED  BY <3>3, <3>4, <3>5 DEF ApartInv, StoreInv, RestInv
  <2>. QED  BY <2>2, <2>3
(* The pass is sent.                                                         *)
<1>10. CASE Send
  <2>1. /\ device' = [t \in Servos |-> IF t \in DOMAIN command THEN command[t] ELSE device[t]]
        /\ DOMAIN command' = {} /\ visiting.todo = {} /\ visiting'.todo = {}
        /\ UNCHANGED <<servoState, storing, overlapped, unmarked>>
    BY <1>0, <1>10 DEF Send
  <2>2. ApartInv(s) /\ ~Visiting(s) /\ ~Visiting(s)'
    BY <2>1 DEF Visiting
  <2>3. Agrees(s) => Agrees(s)'
    <3>1. CASE s \in DOMAIN command
      BY <2>1, <3>1 DEF Agrees, Commanded, Fields
    <3>2. CASE s \notin DOMAIN command
      BY <2>1, <3>2 DEF Agrees
    <3>. QED  BY <3>1, <3>2
  <2>4. StoreInv(s)' /\ RestInv(s)'
    BY <2>1, <2>2, <2>3 DEF ApartInv, StoreInv, RestInv, Storing
  <2>. QED  BY <2>2, <2>4 DEF ApartInv, VisitInv
<1>11. CASE Wake \/ Report
  <2>1. visiting.todo = {} /\ visiting'.todo = {}
    BY <1>0, <1>11 DEF Wake, Report, PassInv
  <2>2. UNCHANGED <<servoState, storing, command, device, overlapped, unmarked>>
    BY <1>11 DEF Wake, Report
  <2>. QED  BY <2>1, <2>2, Unmoved DEF Visiting
<1>. QED
  BY <1>2, <1>3, <1>4, <1>5, <1>7, <1>8, <1>9, <1>10, <1>11 DEF IOStep, Handle, Loop

(* The servos' invariant is kept step by step.                               *)
LEMMA ServosNext == ServosInv /\ [Next]_vars => ServosInv'
<1>. SUFFICES ASSUME ServosInv, [Next]_vars  PROVE ServosInv'
  OBVIOUS
<1>0. IOTypeOK /\ PassInv /\ UnmarkedInv /\ \A s \in Servos \ overlapped : ApartInv(s)
  BY DEF ServosInv
<1>u. CASE UNCHANGED ioVars
  <2>1. IOTypeOK' /\ PassInv' /\ UnmarkedInv'
    <3>1. IOTypeOK'
      BY <1>0, <1>u DEF ioVars, IOTypeOK
    <3>2. PassInv'
      BY <1>0, <1>u DEF ioVars, PassInv, Visiting, Storing
    <3>3. UnmarkedInv'
      BY <1>0, <1>u DEF ioVars, UnmarkedInv, Visiting, Storing
    <3>. QED  BY <3>1, <3>2, <3>3
  <2>2. ASSUME NEW s \in Servos, ApartInv(s)  PROVE ApartInv(s)'
    <3>1. /\ Storing(s)' = Storing(s) /\ Visiting(s)' = Visiting(s) /\ Agrees(s)' = Agrees(s)
          /\ UNCHANGED <<storing, visiting, servoState, unmarked>>
      BY <1>u DEF ioVars, Agrees, Storing, Visiting
    <3>2. StoreInv(s)'
      BY <2>2, <3>1 DEF ApartInv, StoreInv
    <3>3. VisitInv(s)'
      BY <2>2, <3>1 DEF ApartInv, VisitInv
    <3>4. RestInv(s)'
      BY <2>2, <3>1 DEF ApartInv, RestInv
    <3>. QED  BY <2>2, <3>1, <3>2, <3>3, <3>4 DEF ApartInv
  <2>. QED  BY <1>0, <1>u, <2>1, <2>2 DEF ServosInv, ioVars
<1>s. CASE IOStep
  <2>1. IOTypeOK'
    BY <1>0, <1>s, IOTypes
  <2>2. PassInv' /\ UnmarkedInv'
    BY <1>0, <1>s, PassKeeps, UnmarkedKeeps
  <2>3. \A s \in Servos \ overlapped' : ApartInv(s)'
    BY <1>0, <1>s, ApartKeeps
  <2>. QED  BY <2>1, <2>2, <2>3 DEF ServosInv
<1>. QED  BY <1>u, <1>s, IOSteps

LEMMA ServosFollow == ServosInv => TargetsReachServos
<1>. SUFFICES ASSUME ServosInv, NEW s \in Servos \ overlapped, Settled(s)
              PROVE  IF servoState[s].torqueEnabled /\ s \notin unmarked
                     THEN device[s] = Commanded(servoState[s], TRUE)
                     ELSE ~device[s].torque
  BY DEF TargetsReachServos
<1>1. RestInv(s) /\ ~Storing(s) /\ ~Visiting(s) /\ s \notin DOMAIN command
  BY DEF ServosInv, ApartInv, Settled, Storing, Visiting
<1>. QED  BY <1>1 DEF RestInv, Agrees, Settled

(* However the handler's stores and the loop's reads interleave, a servo     *)
(* that was not stored and visited at once ends with its newest target, its  *)
(* torque on, except one that was limp when it was asked for the target it   *)
(* had before: that one is limp still (HardwareIO.cpp:168-195, 222-264). For *)
(* any servos and values.                                                    *)
THEOREM TargetsAlwaysReachServos == Spec => []TargetsReachServos
BY ServosInit, ServosNext, ServosFollow, PTL DEF Spec
-----------------------------------------------------------------------------
(* The editor of scripts.                                                    *)
LEMMA Removal ==
  ASSUME NEW S, NEW s \in Seq(S), NEW i \in 1..Len(s)
  PROVE  /\ RemoveAt(s, i) \in Seq(S) /\ Len(RemoveAt(s, i)) = Len(s) - 1
         /\ \A k \in 1..(Len(s) - 1) : RemoveAt(s, i)[k] = IF k < i THEN s[k] ELSE s[k + 1]
<1>. DEFINE left == SubSeq(s, 1, i - 1)
            right == SubSeq(s, i + 1, Len(s))
            new == left \o right
<1>1. /\ left \in Seq(S) /\ Len(left) = i - 1 /\ \A k \in 1..(i - 1) : left[k] = s[k]
      /\ right \in Seq(S) /\ Len(right) = Len(s) - i
      /\ \A k \in 1..(Len(s) - i) : right[k] = s[i + k]
  OBVIOUS
<1>. HIDE DEF left, right
<1>2. /\ new \in Seq(S) /\ Len(new) = Len(s) - 1
      /\ \A k \in 1..(Len(s) - 1) : new[k] = IF k < i THEN left[k] ELSE right[k - i + 1]
  <2>1. /\ new \in Seq(S) /\ Len(new) = Len(left) + Len(right)
        /\ \A k \in 1..(Len(left) + Len(right)) :
             new[k] = IF k <= Len(left) THEN left[k] ELSE right[k - Len(left)]
    <3>1. ASSUME NEW t \in Seq(S), NEW u \in Seq(S)
          PROVE  /\ t \o u \in Seq(S) /\ Len(t \o u) = Len(t) + Len(u)
                 /\ \A k \in 1..(Len(t) + Len(u)) :
                      (t \o u)[k] = IF k <= Len(t) THEN t[k] ELSE u[k - Len(t)]
      OBVIOUS
    <3>. QED  BY <1>1, <3>1
  <2>2. Len(left) + Len(right) = Len(s) - 1
    BY <1>1
  <2>. HIDE DEF new
  <2>3. ASSUME NEW k \in 1..(Len(s) - 1)
        PROVE  /\ new[k] = IF k <= Len(left) THEN left[k] ELSE right[k - Len(left)]
               /\ k <= Len(left) <=> k < i
               /\ k - Len(left) = k - i + 1
    BY <1>1, <2>1, <2>2
  <2>. QED  BY <2>1, <2>2, <2>3
<1>. HIDE DEF new
<1>3. ASSUME NEW k \in 1..(Len(s) - 1)  PROVE new[k] = IF k < i THEN s[k] ELSE s[k + 1]
  <2>1. CASE k < i
    <3>1. k \in 1..(i - 1) /\ new[k] = left[k]
      BY <1>2, <2>1
    <3>. QED  BY <1>1, <2>1, <3>1
  <2>2. CASE ~(k < i)
    <3>1. k - i + 1 \in 1..(Len(s) - i) /\ i + (k - i + 1) = k + 1
      BY <2>2
    <3>2. new[k] = right[k - i + 1]
      BY <1>2, <2>2
    <3>3. right[k - i + 1] = s[i + (k - i + 1)]
      BY <1>1, <3>1
    <3>. QED  BY <2>2, <3>1, <3>2, <3>3
  <2>. QED  BY <2>1, <2>2
<1>4. RemoveAt(s, i) = new
  BY DEF RemoveAt, new, left, right
<1>. QED  BY <1>2, <1>3, <1>4

LEMMA Joined ==
  ASSUME NEW S, NEW a \in Seq(S), NEW b \in Seq(S)
  PROVE  /\ a \o b \in Seq(S) /\ Len(a \o b) = Len(a) + Len(b)
         /\ \A k \in 1..(Len(a) + Len(b)) :
              (a \o b)[k] = IF k <= Len(a) THEN a[k] ELSE b[k - Len(a)]
OBVIOUS

LEMMA Insertion ==
  ASSUME NEW S, NEW s \in Seq(S), NEW e \in S, NEW i \in 1..Len(s)
  PROVE  /\ InsertAt(s, i, e) \in Seq(S) /\ Len(InsertAt(s, i, e)) = Len(s) + 1
         /\ \A k \in 1..(Len(s) + 1) : InsertAt(s, i, e)[k] \in {e} \cup {s[l] : l \in 1..Len(s)}
<1>. DEFINE left == SubSeq(s, 1, i - 1)
            right == SubSeq(s, i, Len(s))
<1>1. /\ left \in Seq(S) /\ Len(left) = i - 1 /\ \A k \in 1..(i - 1) : left[k] = s[k]
      /\ right \in Seq(S) /\ Len(right) = Len(s) - i + 1
      /\ \A k \in 1..(Len(s) - i + 1) : right[k] = s[i + k - 1]
  OBVIOUS
<1>. HIDE DEF left, right
<1>2. /\ left \o <<e>> \in Seq(S) /\ Len(left \o <<e>>) = i
      /\ \A k \in 1..i : (left \o <<e>>)[k] = IF k = i THEN e ELSE left[k]
  BY <1>1
<1>. DEFINE new == (left \o <<e>>) \o right
<1>3. /\ new \in Seq(S) /\ Len(new) = Len(s) + 1
      /\ \A k \in 1..(Len(s) + 1) :
           new[k] = IF k <= i THEN (left \o <<e>>)[k] ELSE right[k - i]
  <2>. DEFINE front == left \o <<e>>
  <2>1. i + (Len(s) - i + 1) = Len(s) + 1
    OBVIOUS
  <2>2. front \in Seq(S) /\ right \in Seq(S) /\ Len(front) = i /\ Len(right) = Len(s) - i + 1
    BY <1>1, <1>2
  <2>. HIDE DEF front
  <2>3. /\ front \o right \in Seq(S) /\ Len(front \o right) = Len(front) + Len(right)
        /\ \A k \in 1..(Len(front) + Len(right)) :
             (front \o right)[k] = IF k <= Len(front) THEN front[k] ELSE right[k - Len(front)]
    BY <2>2, Joined
  <2>4. Len(front) + Len(right) = Len(s) + 1
    BY <2>1, <2>2
  <2>5. /\ front \o right \in Seq(S) /\ Len(front \o right) = Len(s) + 1
        /\ \A k \in 1..(Len(s) + 1) :
             (front \o right)[k] = IF k <= i THEN front[k] ELSE right[k - i]
    BY <2>2, <2>3, <2>4
  <2>. QED  BY <2>5 DEF front
<1>4. InsertAt(s, i, e) = new
  BY DEF InsertAt, left, right
<1>. HIDE DEF new
<1>5. ASSUME NEW k \in 1..(Len(s) + 1)  PROVE new[k] \in {e} \cup {s[l] : l \in 1..Len(s)}
  <2>1. CASE k < i
    <3>1. new[k] = s[k] /\ k \in 1..Len(s)
      BY <1>1, <1>2, <1>3, <2>1
    <3>. QED  BY <3>1
  <2>2. CASE k = i
    <3>1. i \in 1..i /\ k <= i
      BY <2>2
    <3>2. new[k] = e
      BY <1>2, <1>3, <2>2, <3>1
    <3>. QED  BY <3>2
  <2>3. CASE k > i
    <3>1. new[k] = s[k - 1] /\ k - 1 \in 1..Len(s)
      BY <1>1, <1>3, <2>3
    <3>. QED  BY <3>1
  <2>. QED  BY <2>1, <2>2, <2>3
<1>. QED  BY <1>3, <1>4, <1>5

(* No servo has two targets in a frame.                                      *)
Unique(f) == \A l, m \in 1..Len(f) : f[l].id = f[m].id => l = m

ScriptInv ==
  /\ script \in Seq(Seq(ScriptTarget)) /\ selection \in Servo
  /\ frame \in 0..(Word - 1) /\ (FrameExists \/ zeroEntered)
  /\ \A k \in 1..Len(script) : Unique(script[k])

OpenDialogs ==
  [open : {TRUE}, i : 0..2, j : 0..2, editScript : BOOLEAN, editFrame : BOOLEAN,
   upperS : Gains \cup {-1}, lowerS : Gains \cup {-1}, upperF : Gains \cup {-1},
   lowerF : Gains \cup {-1}, changedUpper : BOOLEAN, changedLower : BOOLEAN]

(* The only cell of the middle row is the first.                             *)
DialogInv ==
  dialog = Closed \/ (dialog \in OpenDialogs /\ (dialog.i = 1 => dialog.j = 0))

TunerInv == ScriptInv /\ DialogInv

LEMMA TunerInits == Init => TunerInv
<1>. SUFFICES ASSUME TunerInit  PROVE TunerInv
  BY DEF Init
<1>1. script \in Seq(Seq(ScriptTarget)) /\ Len(script) > 0
      /\ \A k \in 1..Len(script) : Len(script[k]) <= 1
  <2>1. CASE script = << << >> >>
    BY <2>1
  <2>2. ASSUME NEW t \in ScriptTarget, NEW u \in ScriptTarget, script = << <<t>>, <<u>> >>
        PROVE  /\ script \in Seq(Seq(ScriptTarget)) /\ Len(script) > 0
               /\ \A k \in 1..Len(script) : Len(script[k]) <= 1
    <3>1. <<t>> \in Seq(ScriptTarget) /\ <<u>> \in Seq(ScriptTarget)
      OBVIOUS
    <3>2. Len(<<t>>) = 1 /\ Len(<<u>>) = 1
      OBVIOUS
    <3>. QED  BY <2>2, <3>1, <3>2
  <2>. QED  BY <2>1, <2>2 DEF TunerInit
<1>2. \A k \in 1..Len(script) : Unique(script[k])
  <2>1. \A k \in 1..Len(script) : script[k] \in Seq(ScriptTarget)
    BY <1>1
  <2>. QED  BY <1>1, <2>1 DEF Unique
<1>3. frame = 0 /\ frame \in 0..(Word - 1) /\ FrameExists
  BY <1>1, TunerAssumption DEF TunerInit, FrameExists, TunerAssumption
<1>. QED
  BY <1>1, <1>2, <1>3, TunerAssumption
  DEF TunerInit, TunerInv, ScriptInv, DialogInv, Servo, TunerAssumption

(* The line of a servo: the two numberings agree.                            *)
LEMMA LinesAgree ==
  ASSUME selection \in Servo, NEW t \in ScriptTarget
  PROVE  IdOfLine \in Servo /\ (t.id = IdOfLine => OnLine(t))
<1>1. Joints \in Nat /\ Joints > 2 /\ selection \in 0..(Joints - 1) /\ t.id \in 0..(Joints - 1)
  BY TunerAssumption DEF TunerAssumption, Servo, ScriptTarget
<1>2. IdOfLine \in Servo
  BY <1>1 DEF IdOfLine, Servo
<1>3. ASSUME t.id = IdOfLine  PROVE (t.id + 2) % Joints = selection
  <2>1. CASE selection < 2
    <3>1. t.id + 2 = Joints + selection
      BY <1>1, <1>3, <2>1 DEF IdOfLine
    <3>2. (Joints + selection) % Joints = selection
      BY <1>1
    <3>. QED  BY <3>1, <3>2
  <2>2. CASE selection >= 2
    <3>1. t.id + 2 = selection
      BY <1>1, <1>3, <2>2 DEF IdOfLine
    <3>2. selection % Joints = selection
      BY <1>1
    <3>. QED  BY <3>1, <3>2
  <2>. QED  BY <1>1, <2>1, <2>2
<1>. QED  BY <1>2, <1>3 DEF OnLine

(* The mirror exchanges right and left.                                      *)
LEMMA MirrorKeeps ==
  ASSUME NEW t \in ScriptTarget
  PROVE  /\ MirroredTarget(t) \in ScriptTarget /\ MirroredTarget(t).id = Mirrored(t.id)
         /\ \A u \in ScriptTarget : Mirrored(t.id) = Mirrored(u.id) => t.id = u.id
<1>1. Joints \in Nat /\ Joints > 2 /\ Joints % 2 = 0
  BY TunerAssumption DEF TunerAssumption
<1>2. \A id \in Servo : Mirrored(id) \in Servo
  BY <1>1 DEF Mirrored, Servo
<1>3. \A id, other \in Servo : Mirrored(id) = Mirrored(other) => id = other
  BY <1>1 DEF Mirrored, Servo
<1>4. t.id \in Servo /\ t.position \in Positions /\ t.gain \in Gains
      /\ \A u \in ScriptTarget : u.id \in Servo
  BY DEF ScriptTarget
<1>5. IF t.id \in Rolling THEN -t.position \in Positions ELSE t.position \in Positions
  BY <1>4, TunerAssumption DEF TunerAssumption
<1>6. MirroredTarget(t) \in ScriptTarget /\ MirroredTarget(t).id = Mirrored(t.id)
  BY <1>2, <1>4, <1>5 DEF MirroredTarget, TargetOf, ScriptTarget
<1>. QED  BY <1>3, <1>4, <1>6

(* The frame that is edited gets other targets.                              *)
LEMMA TargetsSet ==
  ASSUME ScriptInv, FrameExists, NEW new \in Seq(ScriptTarget), Unique(new), SetTargets(new)
  PROVE  ScriptInv'
<1>1. frame + 1 \in 1..Len(script) /\ script' = [script EXCEPT ![frame + 1] = new]
      /\ script \in Seq(Seq(ScriptTarget)) /\ frame' = frame /\ selection' = selection
      /\ frame \in 0..(Word - 1)
  BY DEF ScriptInv, SetTargets, FrameExists
<1>2. /\ script' \in Seq(Seq(ScriptTarget)) /\ Len(script') = Len(script)
      /\ \A k \in 1..Len(script) : script'[k] = IF k = frame + 1 THEN new ELSE script[k]
  BY <1>1
<1>3. \A k \in 1..Len(script') : Unique(script'[k])
  BY <1>2 DEF ScriptInv
<1>4. FrameExists'
  BY <1>1, <1>2 DEF FrameExists
<1>. QED  BY <1>1, <1>2, <1>3, <1>4 DEF ScriptInv

LEMMA FrameFacts ==
  ASSUME ScriptInv, FrameExists
  PROVE  /\ targets \in Seq(ScriptTarget) /\ Unique(targets)
         /\ frame + 1 \in 1..Len(script) /\ Len(script) \in Nat
         /\ Found # {} => First \in 1..Len(targets)
<1>1. /\ script \in Seq(Seq(ScriptTarget)) /\ frame + 1 \in 1..Len(script) /\ Len(script) \in Nat
      /\ \A k \in 1..Len(script) : Unique(script[k])
  BY DEF ScriptInv, FrameExists
<1>2. targets \in Seq(ScriptTarget) /\ Unique(targets)
  BY <1>1 DEF targets
<1>3. ASSUME Found # {}  PROVE First \in Found
  <2>1. Found \in SUBSET Nat
    BY <1>2 DEF Found
  <2>2. Least(Found) \in Found
    BY <1>3, <2>1, LeastInSet
  <2>3. Least(Found) = First
    BY DEF Least, First
  <2>. QED  BY <2>2, <2>3
<1>. QED  BY <1>1, <1>2, <1>3 DEF Found

(* A target for a servo that has none.                                       *)
LEMMA TargetAdded ==
  ASSUME ScriptInv, FrameExists, Found = {}, NEW position \in Positions, NEW gain \in Gains,
         NEW with, with = Append(targets, TargetOf(IdOfLine, position, gain))
  PROVE  with \in Seq(ScriptTarget) /\ Unique(with) /\ Len(with) \in 1..Len(with)
<1>1. targets \in Seq(ScriptTarget) /\ Unique(targets) /\ selection \in Servo
  BY FrameFacts DEF ScriptInv
<1>2. \A k \in 1..Len(targets) : targets[k] \in ScriptTarget /\ ~OnLine(targets[k])
  BY <1>1 DEF Found
<1>3. \A k \in 1..Len(targets) : targets[k].id # IdOfLine
  BY <1>1, <1>2, LinesAgree
<1>4. IdOfLine \in Servo
  <2>1. TargetOf(0, position, gain) \in ScriptTarget
    BY TunerAssumption DEF TargetOf, ScriptTarget, Servo, TunerAssumption
  <2>. QED  BY <1>1, <2>1, LinesAgree
<1>. DEFINE new == TargetOf(IdOfLine, position, gain)
<1>5. new \in ScriptTarget /\ new.id = IdOfLine
  BY <1>4 DEF TargetOf, ScriptTarget
<1>6. with = Append(targets, new)
  OBVIOUS
<1>. HIDE DEF new
<1>7. /\ with \in Seq(ScriptTarget) /\ Len(with) = Len(targets) + 1 /\ with[Len(with)] = new
      /\ \A k \in 1..Len(targets) : with[k] = targets[k]
      /\ Len(targets) \in Nat
  BY <1>1, <1>5, <1>6
<1>8. ASSUME NEW l \in 1..Len(with), NEW m \in 1..Len(with), with[l].id = with[m].id
      PROVE  l = m
  <2>1. CASE l \in 1..Len(targets) /\ m \in 1..Len(targets)
    BY <1>1, <1>7, <1>8, <2>1 DEF Unique
  <2>2. CASE l = Len(with) /\ m \in 1..Len(targets)
    BY <1>3, <1>5, <1>7, <1>8, <2>2
  <2>3. CASE m = Len(with) /\ l \in 1..Len(targets)
    BY <1>3, <1>5, <1>7, <1>8, <2>3
  <2>. QED  BY <1>7, <2>1, <2>2, <2>3
<1>. QED  BY <1>7, <1>8 DEF Unique

(* A field of a target is changed: not its servo.                            *)
LEMMA TargetEdited ==
  ASSUME NEW with \in Seq(ScriptTarget), Unique(with), NEW at \in 1..Len(with),
         NEW new \in Seq(ScriptTarget),
         \E value : \/ value \in Positions /\ new = [with EXCEPT ![at].position = value]
                    \/ value \in Gains /\ new = [with EXCEPT ![at].gain = value]
  PROVE  Unique(new)
<1>1. Len(new) = Len(with) /\ \A k \in 1..Len(with) : new[k].id = with[k].id
  <2>1. \A k \in 1..Len(with) : with[k] \in ScriptTarget
    OBVIOUS
  <2>. QED  BY <2>1 DEF ScriptTarget
<1>. QED  BY <1>1 DEF Unique

LEMMA EditedTargets ==
  ASSUME NEW with \in Seq(ScriptTarget), NEW at \in 1..Len(with)
  PROVE  /\ \A angle \in Positions : [with EXCEPT ![at].position = angle] \in Seq(ScriptTarget)
         /\ \A gain \in Gains : [with EXCEPT ![at].gain = gain] \in Seq(ScriptTarget)
<1>1. with[at] \in ScriptTarget
  OBVIOUS
<1>2. /\ \A angle \in Positions : [with[at] EXCEPT !.position = angle] \in ScriptTarget
      /\ \A gain \in Gains : [with[at] EXCEPT !.gain = gain] \in ScriptTarget
  BY <1>1 DEF ScriptTarget
<1>3. \A e \in ScriptTarget : [with EXCEPT ![at] = e] \in Seq(ScriptTarget)
  OBVIOUS
<1>. QED  BY <1>2, <1>3

(* Numbers entered for a frame: a frame that exists, or 0.                   *)
LEMMA JumpLands ==
  ASSUME ScriptInv, NEW number \in Numbers, userInputToFrame(number)
  PROVE  frame' \in 0..(Word - 1) /\ (frame' < Len(script) \/ zeroEntered')
<1>1. /\ MaxFrames \in Nat /\ Word \in Nat /\ Word > MaxFrames + 1
      /\ number \in (-MaxFrames - 1)..(MaxFrames + 1)
  BY TunerAssumption DEF Numbers, TunerAssumption
<1>2. /\ Len(script) \in Nat /\ frame \in 0..(Word - 1)
      /\ frame < Len(script) \/ zeroEntered
  BY DEF ScriptInv, FrameExists
<1>. DEFINE positive == IF number <= 0 THEN -number ELSE number
            accepted == positive <= Len(script)
<1>3. /\ frame' = IF accepted THEN Wrapped(positive - 1) ELSE frame
      /\ zeroEntered' = IF accepted THEN positive = 0 ELSE zeroEntered
  BY DEF userInputToFrame
<1>4. positive \in 0..(Word - 1)
  BY <1>1
<1>. HIDE DEF positive
<1>5. CASE accepted
  <2>1. frame' = IF positive = 0 THEN Word - 1 ELSE positive - 1
    BY <1>1, <1>3, <1>4, <1>5 DEF Wrapped
  <2>2. zeroEntered' <=> positive = 0
    BY <1>3, <1>5
  <2>. QED  BY <1>1, <1>2, <1>4, <1>5, <2>1, <2>2
<1>6. CASE ~accepted
  <2>1. frame' = frame /\ zeroEntered' = zeroEntered
    BY <1>3, <1>6
  <2>. QED  BY <1>2, <2>1
<1>. QED  BY <1>5, <1>6

LEMMA EditKeeps ==
  ASSUME ScriptInv, EditKeys
  PROVE  ScriptInv'
<1>0. /\ script \in Seq(Seq(ScriptTarget)) /\ Len(script) \in Nat
      /\ frame \in 0..(Word - 1) /\ (frame < Len(script) \/ zeroEntered)
      /\ selection \in Servo /\ \A k \in 1..Len(script) : Unique(script[k])
  BY DEF ScriptInv, FrameExists
<1>f. FrameExists => frame + 1 \in 1..Len(script)
  BY <1>0 DEF FrameExists
<1>i. ASSUME /\ script' \in Seq(Seq(ScriptTarget)) /\ selection' \in Servo
             /\ frame' \in 0..(Word - 1) /\ (frame' < Len(script') \/ zeroEntered')
             /\ \A k \in 1..Len(script') : Unique(script'[k])
      PROVE  ScriptInv'
  BY <1>i DEF ScriptInv, FrameExists
<1>1. CASE MoveSelection
  <2>1. selection' \in Servo
    BY <1>0, <1>1, TunerAssumption DEF MoveSelection, Servo, TunerAssumption
  <2>2. UNCHANGED <<script, frame, zeroEntered>>
    BY <1>1 DEF MoveSelection
  <2>. QED  BY <1>0, <1>i, <2>1, <2>2
<1>2. CASE SwapField
  <2>1. UNCHANGED <<script, frame, selection, zeroEntered>>
    BY <1>2 DEF SwapField
  <2>. QED  BY <1>0, <1>i, <2>1
<1>3. CASE activateFrame
  <2>1. Word \in Nat /\ Word > 0
    BY TunerAssumption DEF TunerAssumption
  <2>2. frame' \in {IF frame = 0 THEN frame ELSE frame - 1,
                   IF frame = Len(script) - 1 THEN frame
                   ELSE IF frame + 1 >= Word THEN frame + 1 - Word ELSE frame + 1}
    BY <1>0, <1>3, <2>1 DEF activateFrame, Wrapped
  <2>3. frame' \in 0..(Word - 1) /\ (frame < Len(script) => frame' < Len(script))
    BY <1>0, <2>1, <2>2
  <2>4. frame' < Len(script) \/ zeroEntered'
    <3>1. CASE zeroEntered /\ frame' >= Len(script)
      BY <1>3, <3>1 DEF activateFrame
    <3>2. CASE frame < Len(script)
      BY <2>3, <3>2
    <3>3. CASE ~(frame' >= Len(script))
      BY <1>0, <2>1, <2>3, <3>3
    <3>. QED  BY <1>0, <3>1, <3>2, <3>3
  <2>5. UNCHANGED <<script, selection>>
    BY <1>3 DEF activateFrame
  <2>. QED  BY <1>0, <1>i, <2>3, <2>4, <2>5
<1>4. CASE toggleLockMotor
  <2>. FrameExists
    BY <1>4 DEF toggleLockMotor
  <2>1. CASE Found # {}
    <3>. DEFINE new == RemoveAt(targets, First)
    <3>1. /\ targets \in Seq(ScriptTarget) /\ First \in 1..Len(targets) /\ Unique(targets)
          /\ Len(targets) \in Nat
      BY <2>1, FrameFacts
    <3>2. /\ new \in Seq(ScriptTarget) /\ Len(new) = Len(targets) - 1
          /\ \A k \in 1..(Len(targets) - 1) :
               new[k] = IF k < First THEN targets[k] ELSE targets[k + 1]
      BY <3>1, Removal
    <3>3. SetTargets(new)
      BY <1>4, <2>1 DEF toggleLockMotor
    <3>. HIDE DEF new
    <3>4. Unique(new)
      <4>1. SUFFICES ASSUME NEW l \in 1..Len(new), NEW m \in 1..Len(new), new[l].id = new[m].id
                     PROVE  l = m
        BY DEF Unique
      <4>. DEFINE at(k) == IF k < First THEN k ELSE k + 1
      <4>2. \A k \in 1..Len(new) : at(k) \in 1..Len(targets) /\ new[k] = targets[at(k)]
        BY <3>1, <3>2
      <4>3. at(l) = at(m)
        BY <3>1, <4>1, <4>2 DEF Unique
      <4>. QED  BY <3>1, <3>2, <4>3
    <3>. QED  BY <3>2, <3>3, <3>4, TargetsSet
  <2>2. CASE Found = {}
    <3>1. PICK position \in Positions :
            SetTargets(Append(targets, TargetOf(IdOfLine, position, DefaultGain)))
      BY <1>4, <2>2 DEF toggleLockMotor
    <3>. DEFINE new == Append(targets, TargetOf(IdOfLine, position, DefaultGain))
    <3>2. new \in Seq(ScriptTarget) /\ Unique(new)
      BY <2>2, TargetAdded, TunerAssumption DEF TunerAssumption
    <3>. QED  BY <3>1, <3>2, TargetsSet
  <2>. QED  BY <2>1, <2>2
<1>5. CASE editSelection
  <2>. FrameExists
    BY <1>5 DEF editSelection
  <2>. DEFINE with == IF Found # {} THEN targets
                      ELSE Append(targets, TargetOf(IdOfLine, 0, DefaultGain))
              at == IF Found # {} THEN First ELSE Len(with)
  <2>1. with \in Seq(ScriptTarget) /\ Unique(with) /\ at \in 1..Len(with)
    <3>1. CASE Found # {}
      BY <3>1, FrameFacts
    <3>2. CASE Found = {}
      <4>1. 0 \in Positions /\ DefaultGain \in Gains
        BY TunerAssumption DEF TunerAssumption
      <4>2. with = Append(targets, TargetOf(IdOfLine, 0, DefaultGain)) /\ at = Len(with)
        BY <3>2
      <4>. HIDE DEF with, at
      <4>. QED  BY <3>2, <4>1, <4>2, TargetAdded
    <3>. QED  BY <3>1, <3>2
  <2>2. \/ \E angle \in Positions : SetTargets([with EXCEPT ![at].position = angle])
        \/ \E gain \in Gains : SetTargets([with EXCEPT ![at].gain = gain])
        \/ SetTargets(with)
    BY <1>5 DEF editSelection
  <2>. HIDE DEF with, at
  <2>3. ASSUME NEW angle \in Positions, SetTargets([with EXCEPT ![at].position = angle])
        PROVE  ScriptInv'
    <3>. DEFINE new == [with EXCEPT ![at].position = angle]
    <3>1. new \in Seq(ScriptTarget)
      BY <2>1, EditedTargets
    <3>2. \E value : \/ value \in Positions /\ new = [with EXCEPT ![at].position = value]
                     \/ value \in Gains /\ new = [with EXCEPT ![at].gain = value]
      BY <2>3
    <3>3. SetTargets(new)
      BY <2>3
    <3>. HIDE DEF new
    <3>4. Unique(new)
      BY <2>1, <3>1, <3>2, TargetEdited
    <3>. QED  BY <3>1, <3>3, <3>4, TargetsSet
  <2>4. ASSUME NEW gain \in Gains, SetTargets([with EXCEPT ![at].gain = gain])
        PROVE  ScriptInv'
    <3>. DEFINE new == [with EXCEPT ![at].gain = gain]
    <3>1. new \in Seq(ScriptTarget)
      BY <2>1, EditedTargets
    <3>2. \E value : \/ value \in Positions /\ new = [with EXCEPT ![at].position = value]
                     \/ value \in Gains /\ new = [with EXCEPT ![at].gain = value]
      BY <2>4
    <3>3. SetTargets(new)
      BY <2>4
    <3>. HIDE DEF new
    <3>4. Unique(new)
      BY <2>1, <3>1, <3>2, TargetEdited
    <3>. QED  BY <3>1, <3>3, <3>4, TargetsSet
  <2>5. CASE SetTargets(with)
    BY <2>1, <2>5, TargetsSet
  <2>. QED  BY <2>2, <2>3, <2>4, <2>5
<1>6. CASE newFrame
  <2>. FrameExists
    BY <1>6 DEF newFrame
  <2>1. targets \in Seq(ScriptTarget) /\ Unique(targets)
    BY FrameFacts
  <2>2. /\ script' \in Seq(Seq(ScriptTarget)) /\ Len(script') = Len(script) + 1
        /\ \A k \in 1..(Len(script) + 1) :
             script'[k] \in {targets} \cup {script[l] : l \in 1..Len(script)}
    BY <1>0, <1>f, <1>6, <2>1, Insertion DEF newFrame
  <2>3. \A k \in 1..Len(script') : Unique(script'[k])
    BY <1>0, <2>1, <2>2
  <2>4. UNCHANGED <<frame, selection, zeroEntered>>
    BY <1>6 DEF newFrame
  <2>. QED  BY <1>0, <1>i, <2>2, <2>3, <2>4
<1>7. CASE deleteFrame
  <2>1. CASE Len(script) > 1
    <3>0. frame < Len(script) /\ frame + 1 \in 1..Len(script)
      BY <1>0, <1>f, <1>7, <2>1 DEF deleteFrame, FrameExists
    <3>1. /\ script' \in Seq(Seq(ScriptTarget)) /\ Len(script') = Len(script) - 1
          /\ \A k \in 1..(Len(script) - 1) :
               script'[k] = IF k < frame + 1 THEN script[k] ELSE script[k + 1]
      <4>1. script \in Seq(Seq(ScriptTarget)) /\ frame + 1 \in 1..Len(script)
        BY <1>0, <3>0
      <4>2. script' = RemoveAt(script, frame + 1)
        BY <1>7, <2>1 DEF deleteFrame
      <4>. QED  BY <4>1, <4>2, Removal
    <3>2. ASSUME NEW k \in 1..Len(script')  PROVE Unique(script'[k])
      <4>1. \E l \in 1..Len(script) : script'[k] = script[l]
        <5>1. k \in 1..Len(script) /\ k + 1 \in 1..Len(script)
          BY <1>0, <3>1
        <5>. QED  BY <1>0, <3>1, <5>1
      <4>. QED  BY <1>0, <4>1
    <3>3. frame' \in 0..(Word - 1) /\ frame' < Len(script')
      <4>1. /\ frame' = IF frame < Len(script') THEN frame ELSE frame - 1
            /\ Len(script') = Len(script) - 1
        BY <1>7, <2>1, <3>1 DEF deleteFrame
      <4>2. Word \in Nat
        BY TunerAssumption DEF TunerAssumption
      <4>. QED  BY <1>0, <2>1, <3>0, <4>1, <4>2
    <3>4. selection' = selection
      BY <1>7 DEF deleteFrame
    <3>. QED  BY <1>0, <1>i, <3>1, <3>2, <3>3, <3>4
  <2>2. CASE ~(Len(script) > 1)
    <3>1. script' = << <<>> >> /\ frame' = 0 /\ selection' = selection
      BY <1>7, <2>2 DEF deleteFrame
    <3>2. script' \in Seq(Seq(ScriptTarget)) /\ Len(script') = 1 /\ script'[1] = <<>>
      BY <3>1
    <3>3. Unique(<<>>)
      BY DEF Unique
    <3>4. frame' \in 0..(Word - 1)
      BY <3>1, TunerAssumption DEF TunerAssumption
    <3>. QED  BY <1>0, <1>i, <3>1, <3>2, <3>3, <3>4
  <2>. QED  BY <2>1, <2>2
<1>8. CASE jumpToFrame
  <2>1. frame' \in 0..(Word - 1) /\ (frame' < Len(script) \/ zeroEntered')
    BY <1>8, JumpLands DEF jumpToFrame
  <2>2. UNCHANGED <<script, selection>>
    BY <1>8 DEF jumpToFrame
  <2>. QED  BY <1>0, <1>i, <2>1, <2>2
<1>9. CASE mirrorScript
  <2>1. \A k \in 1..Len(script) : script[k] \in Seq(ScriptTarget)
    BY <1>0
  <2>2. script' = [k \in 1..Len(script) |->
                     [l \in 1..Len(script[k]) |-> MirroredTarget(script[k][l])]]
    BY <1>0, <1>9, <2>1 DEF mirrorScript, Mirror
  <2>3. ASSUME NEW f \in Seq(ScriptTarget), Unique(f), NEW g,
               g = [l \in 1..Len(f) |-> MirroredTarget(f[l])]
        PROVE  g \in Seq(ScriptTarget) /\ Unique(g)
    <3>1. \A l \in 1..Len(f) : f[l] \in ScriptTarget
      OBVIOUS
    <3>2. \A l \in 1..Len(f) : MirroredTarget(f[l]) \in ScriptTarget
      BY <3>1, MirrorKeeps
    <3>3. g \in Seq(ScriptTarget) /\ Len(g) = Len(f)
      BY <2>3, <3>2
    <3>4. ASSUME NEW l \in 1..Len(f), NEW m \in 1..Len(f), g[l].id = g[m].id
          PROVE  l = m
      <4>1. Mirrored(f[l].id) = Mirrored(f[m].id)
        BY <2>3, <3>1, <3>4, MirrorKeeps
      <4>2. f[l].id = f[m].id
        BY <3>1, <4>1, MirrorKeeps
      <4>. QED  BY <2>3, <4>2 DEF Unique
    <3>. QED  BY <3>3, <3>4 DEF Unique
  <2>4. \A k \in 1..Len(script) :
          script'[k] = [l \in 1..Len(script[k]) |-> MirroredTarget(script[k][l])]
    BY <2>2
  <2>5. \A k \in 1..Len(script) : script'[k] \in Seq(ScriptTarget) /\ Unique(script'[k])
    BY <1>0, <2>1, <2>3, <2>4
  <2>6. Len(script') = Len(script) /\ script' \in Seq(Seq(ScriptTarget))
    <3>1. DOMAIN script' = 1..Len(script)
      BY <2>2
    <3>2. script' \in [1..Len(script) -> Seq(ScriptTarget)]
      BY <2>2, <2>5, <3>1
    <3>3. ASSUME NEW S, NEW n \in Nat, NEW f \in [1..n -> S]
          PROVE  Len(f) = n /\ f \in Seq(S)
      OBVIOUS
    <3>. QED  BY <1>0, <3>2, <3>3
  <2>7. UNCHANGED <<frame, selection, zeroEntered>>
    BY <1>9 DEF mirrorScript
  <2>. QED  BY <1>0, <1>i, <2>5, <2>6, <2>7
<1>. QED
  BY <1>1, <1>2, <1>3, <1>4, <1>5, <1>6, <1>7, <1>8, <1>9 DEF EditKeys

(* Gains that are applied change no servo.                                   *)
LEMMA GainsApplied ==
  ASSUME dialog \in OpenDialogs, NEW f \in Seq(ScriptTarget), Unique(f),
         NEW upper \in Gains \cup {-1}, NEW lower \in Gains \cup {-1}, -1 \notin Gains,
         Gains \subseteq Nat
  PROVE  WithGains(f, upper, lower) \in Seq(ScriptTarget) /\ Unique(WithGains(f, upper, lower))
<1>. DEFINE g == WithGains(f, upper, lower)
            new(k) == IF f[k].id \in Lower
                      THEN IF dialog.changedLower /\ lower >= 0 THEN lower ELSE f[k].gain
                      ELSE IF dialog.changedUpper /\ upper >= 0 THEN upper ELSE f[k].gain
<1>1. \A k \in 1..Len(f) : f[k] \in ScriptTarget
  OBVIOUS
<1>2. ASSUME NEW k \in 1..Len(f)  PROVE new(k) \in Gains
  <2>1. f[k].gain \in Gains
    BY <1>1 DEF ScriptTarget
  <2>. QED  BY <2>1
<1>3. g = [k \in 1..Len(f) |-> [f[k] EXCEPT !.gain = new(k)]]
  BY DEF WithGains
<1>. HIDE DEF g, new
<1>4. \A k \in 1..Len(f) : g[k] \in ScriptTarget /\ g[k].id = f[k].id
  BY <1>1, <1>2, <1>3 DEF ScriptTarget
<1>5. g \in Seq(ScriptTarget) /\ Len(g) = Len(f)
  BY <1>3, <1>4
<1>6. Unique(g)
  BY <1>4, <1>5 DEF Unique
<1>. QED  BY <1>5, <1>6 DEF g

(* The dialog's keys keep the cursor on a cell, and only a number changes    *)
(* the frame that is edited, only X the script.                              *)
LEMMA GainKeysKeep ==
  ASSUME TunerInv, GainKeys
  PROVE  TunerInv'
<1>0. /\ script \in Seq(Seq(ScriptTarget)) /\ Len(script) \in Nat
      /\ frame \in 0..(Word - 1) /\ (frame < Len(script) \/ zeroEntered)
      /\ selection \in Servo /\ \A k \in 1..Len(script) : Unique(script[k])
      /\ ScriptInv /\ DialogInv
  BY DEF ScriptInv, TunerInv, FrameExists
<1>w. Word \in Nat /\ Word > 4 /\ Word % 3 = 1
  BY TunerAssumption DEF TunerAssumption
<1>g. Gains \subseteq Nat /\ -1 \notin Gains
  BY TunerAssumption DEF TunerAssumption
<1>1. ASSUME UNCHANGED <<script, frame, selection, zeroEntered>>, dialog' \in OpenDialogs,
             dialog'.i = 1 => dialog'.j = 0
      PROVE  TunerInv'
  BY <1>0, <1>1 DEF TunerInv, ScriptInv, DialogInv, FrameExists
<1>2. dialog.open => dialog \in OpenDialogs /\ (dialog.i = 1 => dialog.j = 0)
  BY <1>0 DEF DialogInv, Closed
<1>3. CASE OpenDialog
  <2>1. Opened \in OpenDialogs /\ Opened.i = 0
    BY DEF Opened, OpenDialogs
  <2>. QED  BY <1>1, <1>3, <2>1 DEF OpenDialog
<1>4. ASSUME NEW i \in 0..2, NEW j \in 0..2, MoveTo(i, j), i = 1 => j = 0
      PROVE  TunerInv'
  <2>1. dialog \in OpenDialogs
    BY <1>2, <1>4 DEF MoveTo
  <2>2. /\ dialog' = [dialog EXCEPT !.i = i, !.j = j]
        /\ UNCHANGED <<script, frame, selection, zeroEntered>>
    BY <1>4 DEF MoveTo
  <2>3. dialog' \in OpenDialogs /\ dialog'.i = i /\ dialog'.j = j
    BY <2>1, <2>2 DEF OpenDialogs
  <2>. QED  BY <1>1, <1>4, <2>2, <2>3
<1>. DEFINE At == dialog.open /\ dialog.i \in 0..2 /\ dialog.j \in 0..2 /\ (dialog.i = 1 => dialog.j = 0)
<1>5. dialog.open => At
  BY <1>2 DEF OpenDialogs
<1>6. At => Cell(dialog) = IF dialog.i = 1 THEN "number" ELSE IF dialog.i = 0 THEN "script" ELSE "frame"
  BY DEF Cell
<1>7. CASE Up
  <2>1. At
    BY <1>5, <1>7 DEF Up, MoveTo
  <2>. DEFINE skips == Cell(dialog) = "empty" \/ (Cell(dialog) = "frame" /\ dialog.j > 0)
              i == Wrapped(Wrapped(dialog.i - (IF skips THEN 2 ELSE 1)) + 3) % 3
  <2>2. skips <=> dialog.i = 2 /\ dialog.j > 0
    BY <1>6, <2>1
  <2>3. i = IF skips THEN 0 ELSE IF dialog.i = 0 THEN 2 ELSE dialog.i - 1
    <3>1. CASE skips
      <4>1. i = Wrapped(Wrapped(0) + 3) % 3
        BY <2>2, <3>1
      <4>. QED  BY <1>w, <3>1, <4>1 DEF Wrapped
    <3>2. CASE ~skips
      <4>1. i = Wrapped(Wrapped(dialog.i - 1) + 3) % 3
        BY <3>2
      <4>2. Wrapped(Wrapped(dialog.i - 1) + 3) = dialog.i + 2
        BY <1>w, <2>1 DEF Wrapped
      <4>3. (dialog.i + 2) % 3 = IF dialog.i = 0 THEN 2 ELSE dialog.i - 1
        BY <2>1
      <4>. QED  BY <3>2, <4>1, <4>2, <4>3
    <3>. QED  BY <3>1, <3>2
  <2>4. MoveTo(i, dialog.j)
    BY <1>7 DEF Up
  <2>. HIDE DEF skips, i
  <2>5. i \in 0..2 /\ (i = 1 => dialog.j = 0)
    BY <2>1, <2>2, <2>3
  <2>. QED  BY <1>4, <2>1, <2>4, <2>5
<1>8. CASE Down
  <2>1. At
    BY <1>5, <1>8 DEF Down, MoveTo
  <2>. DEFINE skips == Cell(dialog) = "empty" \/ (Cell(dialog) = "script" /\ dialog.j > 0)
              i == (dialog.i + (IF skips THEN 2 ELSE 1)) % 3
  <2>2. skips <=> dialog.i = 0 /\ dialog.j > 0
    BY <1>6, <2>1
  <2>3. i = IF skips THEN 2 ELSE IF dialog.i = 2 THEN 0 ELSE dialog.i + 1
    <3>. HIDE DEF skips
    <3>. QED  BY <2>1, <2>2
  <2>4. MoveTo(i, dialog.j)
    BY <1>8 DEF Down
  <2>. HIDE DEF skips, i
  <2>5. i \in 0..2 /\ (i = 1 => dialog.j = 0)
    BY <2>1, <2>2, <2>3
  <2>. QED  BY <1>4, <2>1, <2>4, <2>5
<1>9. CASE Left
  <2>1. At
    BY <1>5, <1>9 DEF Left, MoveTo
  <2>2. MoveTo(dialog.i, IF dialog.i = 1 THEN dialog.j ELSE Wrapped(dialog.j - 1) % 3)
    BY <1>6, <1>9, <2>1 DEF Left
  <2>3. Wrapped(dialog.j - 1) % 3 \in 0..2
    BY <1>w, <2>1 DEF Wrapped
  <2>. QED  BY <1>4, <2>1, <2>2, <2>3
<1>10. CASE Right
  <2>1. At
    BY <1>5, <1>10 DEF Right, MoveTo
  <2>2. MoveTo(dialog.i, IF dialog.i = 1 THEN dialog.j ELSE (dialog.j + 1) % 3)
    BY <1>6, <1>10, <2>1 DEF Right
  <2>3. (dialog.j + 1) % 3 \in 0..2
    BY <2>1
  <2>. QED  BY <1>4, <2>1, <2>2, <2>3
<1>11. CASE EnterGain
  <2>1. dialog \in OpenDialogs /\ (dialog.i = 1 => dialog.j = 0)
        /\ UNCHANGED <<script, frame, selection, zeroEntered>>
    BY <1>2, <1>11 DEF EnterGain
  <2>2. /\ Marked \in OpenDialogs /\ Marked.i = dialog.i /\ Marked.j = dialog.j
    BY <2>1 DEF Marked, OpenDialogs
  <2>3. /\ Withdrawn \in OpenDialogs /\ Withdrawn.i = dialog.i /\ Withdrawn.j = dialog.j
    BY <2>2 DEF Withdrawn, OpenDialogs
  <2>4. \A gain \in Gains : /\ Entered(gain) \in OpenDialogs
                            /\ Entered(gain).i = dialog.i /\ Entered(gain).j = dialog.j
    <3>1. SUFFICES ASSUME NEW gain \in Gains
                   PROVE  /\ Entered(gain) \in OpenDialogs
                          /\ Entered(gain).i = dialog.i /\ Entered(gain).j = dialog.j
      OBVIOUS
    <3>. DEFINE upper == dialog.j \in {0, 1}
                lower == dialog.j \in {0, 2}
                whole == Cell(dialog) = "script"
                a == IF upper /\ whole THEN gain ELSE Marked.upperS
                b == IF lower /\ whole THEN gain ELSE Marked.lowerS
                c == IF upper /\ ~whole THEN gain ELSE Marked.upperF
                d == IF lower /\ ~whole THEN gain ELSE Marked.lowerF
                e == Marked.changedUpper \/ upper
                f == Marked.changedLower \/ lower
    <3>. DEFINE old == Marked
                s == [old EXCEPT !.upperS = a, !.lowerS = b]
                t == [s EXCEPT !.upperF = c, !.lowerF = d]
                u == [t EXCEPT !.changedUpper = e, !.changedLower = f]
    <3>2. Entered(gain) = u
      BY DEF Entered
    <3>3. /\ a \in Gains \cup {-1} /\ b \in Gains \cup {-1}
          /\ c \in Gains \cup {-1} /\ d \in Gains \cup {-1}
      <4>. HIDE DEF upper, lower, whole
      <4>. QED  BY <2>2, <3>1 DEF OpenDialogs
    <3>4. e \in BOOLEAN /\ f \in BOOLEAN
      OBVIOUS
    <3>5. old \in OpenDialogs /\ old.i = dialog.i /\ old.j = dialog.j
      BY <2>2
    <3>. HIDE DEF a, b, c, d, e, f, old
    <3>6. s \in OpenDialogs /\ s.i = old.i /\ s.j = old.j
      BY <3>3, <3>5 DEF OpenDialogs
    <3>. HIDE DEF s
    <3>7. t \in OpenDialogs /\ t.i = s.i /\ t.j = s.j
      BY <3>3, <3>6 DEF OpenDialogs
    <3>. HIDE DEF t
    <3>8. u \in OpenDialogs /\ u.i = t.i /\ u.j = t.j
      BY <3>4, <3>7 DEF OpenDialogs
    <3>. HIDE DEF u
    <3>. QED  BY <3>2, <3>5, <3>6, <3>7, <3>8
  <2>5. dialog' \in {Withdrawn} \cup {Entered(gain) : gain \in Gains}
    BY <1>11 DEF EnterGain
  <2>. QED  BY <1>1, <2>1, <2>3, <2>4, <2>5
<1>12. CASE EnterNumber
  <2>1. frame' \in 0..(Word - 1) /\ (frame' < Len(script) \/ zeroEntered')
    BY <1>0, <1>12, JumpLands DEF EnterNumber
  <2>2. UNCHANGED <<script, selection, dialog>>
    BY <1>12 DEF EnterNumber
  <2>. QED  BY <1>0, <2>1, <2>2 DEF TunerInv, ScriptInv, DialogInv, FrameExists
<1>13. CASE CloseDialog
  <2>1. /\ dialog \in OpenDialogs /\ dialog' = Closed
        /\ UNCHANGED <<frame, selection, zeroEntered>>
    BY <1>2, <1>13 DEF CloseDialog
  <2>2. /\ dialog.upperS \in Gains \cup {-1} /\ dialog.lowerS \in Gains \cup {-1}
        /\ dialog.upperF \in Gains \cup {-1} /\ dialog.lowerF \in Gains \cup {-1}
    BY <2>1 DEF OpenDialogs
  <2>. DEFINE Good(s) == /\ s \in Seq(Seq(ScriptTarget)) /\ Len(s) = Len(script)
                         /\ \A k \in 1..Len(script) : Unique(s[k])
              scripted == [k \in DOMAIN script |-> WithGains(script[k], dialog.upperS, dialog.lowerS)]
              all == IF dialog.editScript THEN scripted ELSE script
              framed == WithGains(all[frame + 1], dialog.upperF, dialog.lowerF)
  <2>3. Good(scripted)
    <3>1. \A k \in 1..Len(script) : script[k] \in Seq(ScriptTarget) /\ Unique(script[k])
      BY <1>0
    <3>2. \A k \in 1..Len(script) :
            /\ WithGains(script[k], dialog.upperS, dialog.lowerS) \in Seq(ScriptTarget)
            /\ Unique(WithGains(script[k], dialog.upperS, dialog.lowerS))
      BY <1>g, <2>1, <2>2, <3>1, GainsApplied
    <3>3. scripted \in [1..Len(script) -> Seq(ScriptTarget)]
          /\ \A k \in 1..Len(script) : Unique(scripted[k])
      BY <1>0, <3>2
    <3>. HIDE DEF scripted
    <3>4. ASSUME NEW S, NEW n \in Nat, NEW f \in [1..n -> S]
          PROVE  Len(f) = n /\ f \in Seq(S)
      OBVIOUS
    <3>. QED  BY <1>0, <3>3, <3>4
  <2>4. Good(all)
    <3>. HIDE DEF scripted
    <3>. QED  BY <1>0, <2>3
  <2>. HIDE DEF all
  <2>f. dialog.editFrame => frame + 1 \in 1..Len(script)
    BY <1>0, <1>13 DEF CloseDialog, FrameExists
  <2>5. ASSUME dialog.editFrame
        PROVE  all[frame + 1] \in Seq(ScriptTarget) /\ Unique(all[frame + 1])
    BY <1>0, <2>4, <2>f, <2>5
  <2>6. ASSUME dialog.editFrame  PROVE framed \in Seq(ScriptTarget) /\ Unique(framed)
    BY <1>g, <2>1, <2>2, <2>5, <2>6, GainsApplied
  <2>7. script' = IF dialog.editFrame THEN [all EXCEPT ![frame + 1] = framed] ELSE all
    BY <1>13 DEF CloseDialog, all
  <2>. HIDE DEF framed
  <2>8. ASSUME dialog.editFrame  PROVE Good([all EXCEPT ![frame + 1] = framed])
    <3>. DEFINE edited == [all EXCEPT ![frame + 1] = framed]
    <3>1. edited \in Seq(Seq(ScriptTarget)) /\ Len(edited) = Len(all)
          /\ \A k \in 1..Len(all) : edited[k] = IF k = frame + 1 THEN framed ELSE all[k]
      BY <1>0, <2>4, <2>6, <2>8, <2>f
    <3>. HIDE DEF edited
    <3>2. Good(edited)
      BY <1>0, <2>4, <2>6, <2>8, <3>1
    <3>. QED  BY <3>2 DEF edited
  <2>9. Good(script')
    <3>. HIDE DEF Good
    <3>. QED  BY <2>4, <2>7, <2>8
  <2>. QED  BY <1>0, <2>1, <2>9 DEF TunerInv, ScriptInv, DialogInv, FrameExists
<1>. QED
  BY <1>3, <1>7, <1>8, <1>9, <1>10, <1>11, <1>12, <1>13 DEF GainKeys

LEMMA TunerSteps == [Next]_vars => EditKeys \/ GainKeys \/ UNCHANGED tunerVars
BY DEF Next, vars, ServoLoop, BusLoop, Reading, Link, Timer, Turn

LEMMA TunerKeeps == TunerInv /\ [Next]_vars => TunerInv'
<1>. SUFFICES ASSUME TunerInv, [Next]_vars  PROVE TunerInv'
  OBVIOUS
<1>1. CASE EditKeys
  <2>1. dialog' = dialog
    BY <1>1 DEF EditKeys, MoveSelection, SwapField, activateFrame, toggleLockMotor,
                editSelection, SetTargets, newFrame, deleteFrame, jumpToFrame, mirrorScript
  <2>2. DialogInv'
    BY <2>1 DEF TunerInv, DialogInv
  <2>3. ScriptInv'
    BY <1>1, EditKeeps DEF TunerInv
  <2>. QED  BY <2>2, <2>3 DEF TunerInv
<1>2. CASE GainKeys
  BY <1>2, GainKeysKeep
<1>3. CASE UNCHANGED tunerVars
  BY <1>3 DEF tunerVars, TunerInv, ScriptInv, DialogInv, FrameExists
<1>. QED  BY <1>1, <1>2, <1>3, TunerSteps

LEMMA CursorsFollow == TunerInv => CursorsExist
<1>. SUFFICES ASSUME TunerInv  PROVE CursorsExist
  OBVIOUS
<1>1. dialog.open => dialog.i \in 0..2 /\ (dialog.i = 1 => dialog.j = 0)
  <2>1. CASE dialog = Closed
    BY <2>1 DEF Closed
  <2>2. CASE dialog \in OpenDialogs /\ (dialog.i = 1 => dialog.j = 0)
    BY <2>2 DEF OpenDialogs
  <2>. QED  BY <2>1, <2>2 DEF TunerInv, DialogInv
<1>2. dialog.open => Cell(dialog) # "empty"
  BY <1>1 DEF Cell
<1>. QED  BY <1>2 DEF TunerInv, ScriptInv, CursorsExist

(* The editor is on a frame that exists, unless 0 was entered as a frame's   *)
(* number: no deletion, jump or arrow otherwise leaves it on one that does   *)
(* not. The dialog is on a cell it has. For any number of servos, frames and *)
(* targets, and any width of an index (ScriptTuner.cpp:202, 395, 777, 830,   *)
(* 1068).                                                                    *)
THEOREM CursorsAlwaysExist == Spec => []CursorsExist
BY TunerInits, TunerKeeps, CursorsFollow, PTL DEF Spec

LEMMA UniqueFollows == TunerInv => TargetsUnique
<1>. SUFFICES ASSUME TunerInv, NEW k \in DOMAIN script,
                     NEW l \in DOMAIN script[k], NEW m \in DOMAIN script[k],
                     script[k][l].id = script[k][m].id
              PROVE  l = m
  BY DEF TargetsUnique
<1>1. script \in Seq(Seq(ScriptTarget)) /\ \A n \in 1..Len(script) : Unique(script[n])
  BY DEF TunerInv, ScriptInv
<1>2. k \in 1..Len(script) /\ script[k] \in Seq(ScriptTarget)
  BY <1>1
<1>3. l \in 1..Len(script[k]) /\ m \in 1..Len(script[k]) /\ Unique(script[k])
  BY <1>1, <1>2
<1>. QED  BY <1>3 DEF Unique

(* No keys give a servo two targets in a frame: for any number of servos,    *)
(* frames and targets (ScriptTuner.cpp:75, 357, 489, 632).                   *)
THEOREM TargetsAlwaysUnique == Spec => []TargetsUnique
BY TunerInits, TunerKeeps, UniqueFollows, PTL DEF Spec

(* Whatever gain stands in the dialog, its half of the body is marked as     *)
(* changed, and its row as edited.                                           *)
GainsBacked ==
  dialog.open =>
    /\ dialog.upperS # -1 \/ dialog.upperF # -1 => dialog.changedUpper
    /\ dialog.lowerS # -1 \/ dialog.lowerF # -1 => dialog.changedLower
    /\ dialog.upperS # -1 \/ dialog.lowerS # -1 => dialog.editScript
    /\ dialog.upperF # -1 \/ dialog.lowerF # -1 => dialog.editFrame

LEMMA BackedInit == Init => GainsBacked
<1>. SUFFICES ASSUME TunerInit  PROVE GainsBacked
  BY DEF Init
<1>1. ~dialog.open
  BY DEF TunerInit, Closed
<1>. QED  BY <1>1 DEF GainsBacked

LEMMA EntryBacked ==
  ASSUME dialog \in OpenDialogs, GainsBacked, dialog.i \in {0, 2}, NEW gain \in Gains,
         dialog' = Entered(gain)
  PROVE  GainsBacked'
<1>. DEFINE upper == dialog.j \in {0, 1}
            lower == dialog.j \in {0, 2}
            whole == Cell(dialog) = "script"
            a == IF upper /\ whole THEN gain ELSE Marked.upperS
            b == IF lower /\ whole THEN gain ELSE Marked.lowerS
            c == IF upper /\ ~whole THEN gain ELSE Marked.upperF
            d == IF lower /\ ~whole THEN gain ELSE Marked.lowerF
            e == Marked.changedUpper \/ upper
            f == Marked.changedLower \/ lower
            old == Marked
            s == [old EXCEPT !.upperS = a, !.lowerS = b]
            t == [s EXCEPT !.upperF = c, !.lowerF = d]
            u == [t EXCEPT !.changedUpper = e, !.changedLower = f]
<1>1. dialog' = u
  BY DEF Entered
<1>2. Cell(dialog) = IF dialog.i = 0 THEN "script" ELSE "frame"
  BY DEF Cell
<1>m. Marked = [dialog EXCEPT !.editScript = dialog.editScript \/ whole,
                              !.editFrame = dialog.editFrame \/ Cell(dialog) = "frame"]
  BY DEF Marked
<1>n. Cell(dialog) = "frame" <=> ~whole
  BY <1>2
<1>3. /\ Marked \in OpenDialogs
      /\ Marked.editScript <=> dialog.editScript \/ whole
      /\ Marked.editFrame <=> dialog.editFrame \/ ~whole
      /\ Marked.changedUpper <=> dialog.changedUpper
      /\ Marked.changedLower <=> dialog.changedLower
      /\ Marked.upperS = dialog.upperS /\ Marked.lowerS = dialog.lowerS
      /\ Marked.upperF = dialog.upperF /\ Marked.lowerF = dialog.lowerF
  <2>. DEFINE x == dialog.editScript \/ whole
              y == dialog.editFrame \/ Cell(dialog) = "frame"
  <2>1. x \in BOOLEAN /\ y \in BOOLEAN /\ Marked = [dialog EXCEPT !.editScript = x, !.editFrame = y]
    BY <1>m
  <2>2. y <=> dialog.editFrame \/ ~whole
    BY <1>n
  <2>. HIDE DEF x, y
  <2>3. /\ Marked \in OpenDialogs /\ (Marked.editScript <=> x) /\ (Marked.editFrame <=> y)
        /\ Marked.changedUpper <=> dialog.changedUpper
        /\ Marked.changedLower <=> dialog.changedLower
        /\ Marked.upperS = dialog.upperS /\ Marked.lowerS = dialog.lowerS
        /\ Marked.upperF = dialog.upperF /\ Marked.lowerF = dialog.lowerF
    BY <2>1 DEF OpenDialogs
  <2>. QED  BY <2>2, <2>3 DEF x
<1>4. /\ a \in Gains \cup {-1} /\ b \in Gains \cup {-1}
      /\ c \in Gains \cup {-1} /\ d \in Gains \cup {-1}
  <2>. HIDE DEF upper, lower, whole
  <2>. QED  BY <1>3 DEF OpenDialogs
<1>5. /\ dialog.upperS # -1 \/ dialog.upperF # -1 => dialog.changedUpper
      /\ dialog.lowerS # -1 \/ dialog.lowerF # -1 => dialog.changedLower
      /\ dialog.upperS # -1 \/ dialog.lowerS # -1 => dialog.editScript
      /\ dialog.upperF # -1 \/ dialog.lowerF # -1 => dialog.editFrame
  BY DEF GainsBacked, OpenDialogs
<1>6. /\ a # -1 \/ c # -1 => e
      /\ b # -1 \/ d # -1 => f
      /\ a # -1 \/ b # -1 => old.editScript
      /\ c # -1 \/ d # -1 => old.editFrame
  <2>. HIDE DEF upper, lower, whole
  <2>. QED  BY <1>3, <1>5
<1>7. e \in BOOLEAN /\ f \in BOOLEAN /\ old \in OpenDialogs
  BY <1>3
<1>. HIDE DEF a, b, c, d, e, f, old
<1>8. /\ s \in OpenDialogs /\ s.upperS = a /\ s.lowerS = b
      /\ (s.editScript <=> old.editScript) /\ (s.editFrame <=> old.editFrame)
  BY <1>4, <1>7 DEF OpenDialogs
<1>. HIDE DEF s
<1>9. /\ t \in OpenDialogs /\ t.upperS = a /\ t.lowerS = b /\ t.upperF = c /\ t.lowerF = d
      /\ (t.editScript <=> old.editScript) /\ (t.editFrame <=> old.editFrame)
  BY <1>4, <1>8 DEF OpenDialogs
<1>. HIDE DEF t
<1>10. /\ u.upperS = a /\ u.lowerS = b /\ u.upperF = c /\ u.lowerF = d
       /\ (u.editScript <=> old.editScript) /\ (u.editFrame <=> old.editFrame)
       /\ (u.changedUpper <=> e) /\ (u.changedLower <=> f)
  BY <1>7, <1>9 DEF OpenDialogs
<1>. HIDE DEF u
<1>. QED  BY <1>1, <1>6, <1>10 DEF GainsBacked

LEMMA BackedNext == TunerInv /\ GainsBacked /\ [Next]_vars => GainsBacked'
<1>. SUFFICES ASSUME TunerInv, GainsBacked, [Next]_vars  PROVE GainsBacked'
  OBVIOUS
<1>1. CASE UNCHANGED dialog
  BY <1>1 DEF GainsBacked
<1>2. CASE EditKeys
  BY <1>1, <1>2 DEF EditKeys, MoveSelection, SwapField, activateFrame, toggleLockMotor,
     editSelection, SetTargets, newFrame, deleteFrame, jumpToFrame, mirrorScript
<1>3. CASE OpenDialog
  BY <1>3 DEF OpenDialog, Opened, GainsBacked
<1>4. dialog.open => dialog \in OpenDialogs /\ (dialog.i = 1 => dialog.j = 0)
  BY DEF TunerInv, DialogInv, Closed
<1>5. CASE Up \/ Down \/ Left \/ Right
  <2>1. PICK i, j : MoveTo(i, j)
    BY <1>5 DEF Up, Down, Left, Right
  <2>2. dialog \in OpenDialogs /\ dialog' = [dialog EXCEPT !.i = i, !.j = j]
    BY <1>4, <2>1 DEF MoveTo
  <2>. QED  BY <2>2 DEF OpenDialogs, GainsBacked
<1>6. CASE EnterGain
  <2>1. dialog \in OpenDialogs /\ (dialog' = Withdrawn \/ \E gain \in Gains : dialog' = Entered(gain))
    BY <1>4, <1>6 DEF EnterGain
  <2>2. CASE dialog' = Withdrawn
    <3>1. Marked \in OpenDialogs
      BY <2>1 DEF Marked, OpenDialogs
    <3>2. /\ Withdrawn.upperS = -1 /\ Withdrawn.lowerS = -1
          /\ Withdrawn.upperF = -1 /\ Withdrawn.lowerF = -1
      BY <3>1 DEF Withdrawn, OpenDialogs
    <3>. QED  BY <2>2, <3>2 DEF GainsBacked
  <2>3. dialog.i \in {0, 2}
    BY <1>4, <1>6, <2>1 DEF EnterGain, Cell, OpenDialogs
  <2>. QED  BY <2>1, <2>2, <2>3, EntryBacked
<1>7. CASE EnterNumber
  BY <1>1, <1>7 DEF EnterNumber
<1>8. CASE CloseDialog
  BY <1>8 DEF CloseDialog, Closed, GainsBacked
<1>9. CASE UNCHANGED tunerVars
  BY <1>1, <1>9 DEF tunerVars
<1>. QED  BY <1>2, <1>3, <1>5, <1>6, <1>7, <1>8, <1>9, TunerSteps DEF GainKeys

(* The gain of a target, if the gains that are given count.                  *)
GainFor(t, upper, lower) ==
  IF t.id \in Lower THEN IF lower # -1 THEN lower ELSE t.gain
  ELSE IF upper # -1 THEN upper ELSE t.gain

GainOrNone(n) == n \in Gains \cup {-1}
Regained(t, gain) == [t EXCEPT !.gain = gain]

LEMMA GainsGiven ==
  ASSUME Gains \subseteq Nat, NEW f, NEW upper, NEW lower,
         GainOrNone(upper), GainOrNone(lower),
         upper # -1 => dialog.changedUpper, lower # -1 => dialog.changedLower
  PROVE  /\ DOMAIN WithGains(f, upper, lower) = DOMAIN f
         /\ \A l \in DOMAIN f :
              WithGains(f, upper, lower)[l] = Regained(f[l], GainFor(f[l], upper, lower))
<1>1. /\ upper >= 0 <=> upper # -1
      /\ lower >= 0 <=> lower # -1
  BY DEF GainOrNone
<1>2. ASSUME NEW l \in DOMAIN f
      PROVE  GainFor(f[l], upper, lower) =
               IF f[l].id \in Lower
               THEN IF dialog.changedLower /\ lower >= 0 THEN lower ELSE f[l].gain
               ELSE IF dialog.changedUpper /\ upper >= 0 THEN upper ELSE f[l].gain
  BY <1>1 DEF GainFor
<1>. QED  BY <1>2 DEF WithGains, Regained

LEMMA TargetKept ==
  ASSUME NEW t \in ScriptTarget
  PROVE  /\ \A g : Regained(t, g).id = t.id /\ Regained(t, g).gain = g
         /\ \A g, h : Regained(Regained(t, g), h) = Regained(t, h)
         /\ Regained(t, t.gain) = t
BY DEF ScriptTarget, Regained

LEMMA GainsApply ==
  ASSUME TunerInv, GainsBacked, CloseDialog, NEW k \in DOMAIN script, NEW l \in DOMAIN script[k]
  PROVE  LET old == script[k][l]
             ofFrame == IF old.id \in Lower THEN dialog.lowerF ELSE dialog.upperF
             ofScript == IF old.id \in Lower THEN dialog.lowerS ELSE dialog.upperS
             gain == IF k = frame + 1 /\ ofFrame # -1 THEN ofFrame
                     ELSE IF ofScript # -1 THEN ofScript ELSE old.gain
         IN script'[k][l] = Regained(old, gain)
<1>. DEFINE old == script[k][l]
            ofFrame == IF old.id \in Lower THEN dialog.lowerF ELSE dialog.upperF
            ofScript == IF old.id \in Lower THEN dialog.lowerS ELSE dialog.upperS
            gain == IF k = frame + 1 /\ ofFrame # -1 THEN ofFrame
                    ELSE IF ofScript # -1 THEN ofScript ELSE old.gain
            scripted == WithGains(script[k], dialog.upperS, dialog.lowerS)
            first == IF dialog.editScript THEN scripted ELSE script[k]
            framed == WithGains(first, dialog.upperF, dialog.lowerF)
<1>1. /\ dialog \in OpenDialogs /\ dialog.open
      /\ dialog.upperS \in Gains \cup {-1} /\ dialog.lowerS \in Gains \cup {-1}
      /\ dialog.upperF \in Gains \cup {-1} /\ dialog.lowerF \in Gains \cup {-1}
      /\ Gains \subseteq Nat /\ -1 \notin Gains
  <2>1. dialog \in OpenDialogs /\ dialog.open
    BY DEF CloseDialog, TunerInv, DialogInv, Closed
  <2>2. Gains \subseteq Nat /\ -1 \notin Gains
    BY TunerAssumption DEF TunerAssumption
  <2>. QED  BY <2>1, <2>2 DEF OpenDialogs
<1>2. /\ script \in Seq(Seq(ScriptTarget)) /\ script[k] \in Seq(ScriptTarget)
      /\ Unique(script[k]) /\ old \in ScriptTarget
  <2>1. script \in Seq(Seq(ScriptTarget))
        /\ \A n \in 1..Len(script) : Unique(script[n])
    BY DEF TunerInv, ScriptInv
  <2>2. k \in 1..Len(script) /\ script[k] \in Seq(ScriptTarget)
    BY <2>1
  <2>. QED  BY <2>1, <2>2
<1>3. /\ dialog.upperS # -1 \/ dialog.upperF # -1 => dialog.changedUpper
      /\ dialog.lowerS # -1 \/ dialog.lowerF # -1 => dialog.changedLower
      /\ dialog.upperS # -1 \/ dialog.lowerS # -1 => dialog.editScript
      /\ dialog.upperF # -1 \/ dialog.lowerF # -1 => dialog.editFrame
  BY <1>1 DEF GainsBacked
<1>4. script'[k] = IF dialog.editFrame /\ k = frame + 1 THEN framed ELSE first
  BY <1>2 DEF CloseDialog
<1>5. /\ DOMAIN scripted = DOMAIN script[k] /\ scripted \in Seq(ScriptTarget)
      /\ scripted[l] = Regained(old, GainFor(old, dialog.upperS, dialog.lowerS))
  <2>1. scripted \in Seq(ScriptTarget)
    BY <1>1, <1>2, GainsApplied
  <2>2. /\ dialog.upperS # -1 => dialog.changedUpper
        /\ dialog.lowerS # -1 => dialog.changedLower
        /\ GainOrNone(dialog.upperS) /\ GainOrNone(dialog.lowerS) /\ Gains \subseteq Nat
    BY <1>1, <1>3 DEF GainOrNone
  <2>3. /\ DOMAIN scripted = DOMAIN script[k]
        /\ \A m \in DOMAIN script[k] :
             scripted[m] = Regained(script[k][m], GainFor(script[k][m], dialog.upperS, dialog.lowerS))
    BY <2>2, GainsGiven
  <2>. HIDE DEF scripted
  <2>. QED  BY <2>1, <2>3
<1>6. GainFor(old, dialog.upperS, dialog.lowerS) = IF ofScript # -1 THEN ofScript ELSE old.gain
  BY DEF GainFor
<1>7. /\ DOMAIN first = DOMAIN script[k] /\ first \in Seq(ScriptTarget)
      /\ first[l] = Regained(old, IF ofScript # -1 THEN ofScript ELSE old.gain)
  <2>1. CASE dialog.editScript
    <3>. HIDE DEF scripted, old, ofScript
    <3>. QED  BY <1>5, <1>6, <2>1
  <2>2. CASE ~dialog.editScript
    <3>1. ofScript = -1 /\ first = script[k]
      BY <1>3, <2>2
    <3>2. Regained(old, old.gain) = old
      BY <1>2, TargetKept
    <3>. QED  BY <1>2, <3>1, <3>2
  <2>. QED  BY <2>1, <2>2
<1>. HIDE DEF first
<1>8. CASE dialog.editFrame /\ k = frame + 1
  <2>0. /\ dialog.upperF # -1 => dialog.changedUpper
        /\ dialog.lowerF # -1 => dialog.changedLower
        /\ GainOrNone(dialog.upperF) /\ GainOrNone(dialog.lowerF) /\ Gains \subseteq Nat
    BY <1>1, <1>3 DEF GainOrNone
  <2>1. framed[l] = Regained(first[l], GainFor(first[l], dialog.upperF, dialog.lowerF))
    <3>1. \A m \in DOMAIN first :
             framed[m] = Regained(first[m], GainFor(first[m], dialog.upperF, dialog.lowerF))
      BY <2>0, GainsGiven
    <3>2. l \in DOMAIN first
      BY <1>7
    <3>. HIDE DEF framed
    <3>. QED  BY <3>1, <3>2
  <2>. DEFINE g == IF ofScript # -1 THEN ofScript ELSE old.gain
  <2>2. first[l].id = old.id /\ first[l].gain = g
    BY <1>2, <1>7, TargetKept
  <2>3. GainFor(first[l], dialog.upperF, dialog.lowerF) = IF ofFrame # -1 THEN ofFrame ELSE g
    BY <2>2 DEF GainFor
  <2>4. gain = IF ofFrame # -1 THEN ofFrame ELSE g
    BY <1>8
  <2>5. framed[l] = Regained(old, gain)
    <3>. HIDE DEF framed, old, ofFrame, ofScript, gain, g
    <3>1. first[l] = Regained(old, g)
      BY <1>7 DEF g
    <3>2. framed[l] = Regained(first[l], gain)
      BY <2>1, <2>3, <2>4
    <3>. QED  BY <1>2, <3>1, <3>2, TargetKept
  <2>. QED  BY <1>4, <1>8, <2>5
<1>9. CASE ~(dialog.editFrame /\ k = frame + 1)
  <2>1. gain = IF ofScript # -1 THEN ofScript ELSE old.gain
    BY <1>3, <1>9
  <2>2. script'[k] = first
    BY <1>4, <1>9
  <2>3. script'[k][l] = Regained(old, gain)
    <3>. HIDE DEF old, ofScript, gain
    <3>. QED  BY <1>7, <2>1, <2>2
  <2>. QED  BY <2>3
<1>. QED  BY <1>8, <1>9

(* Whatever cells are filled in, withdrawn and filled in again, and whatever *)
(* frame is jumped to meanwhile, X gives each target the gain that is shown  *)
(* for it, the frame's before the script's: for any number of servos, frames *)
(* and targets (ScriptTuner.cpp:855, 885, 940, 971, 1011).                   *)
THEOREM EnteredGainsAlwaysApply == Spec => EnteredGainsApply
<1>1. ASSUME TunerInv, GainsBacked, [Next]_vars, dialog.open, ~dialog'.open
      PROVE  CloseDialog
  <2>1. dialog \in OpenDialogs
    BY <1>1 DEF TunerInv, DialogInv, Closed
  <2>2. dialog' # dialog
    BY <1>1
  <2>3. ~EditKeys
    BY <2>2 DEF EditKeys, MoveSelection, SwapField, activateFrame, toggleLockMotor,
       editSelection, SetTargets, newFrame, deleteFrame, jumpToFrame, mirrorScript
  <2>4. ASSUME NEW i, NEW j  PROVE ~MoveTo(i, j)
    BY <1>1, <2>1 DEF MoveTo, OpenDialogs
  <2>5. ~EnterGain
    <3>1. Marked.open /\ Marked \in OpenDialogs
      BY <2>1 DEF Marked, OpenDialogs
    <3>2. Withdrawn.open
      BY <3>1 DEF Withdrawn, OpenDialogs
    <3>3. \A gain \in Gains : Entered(gain).open
      BY <3>1 DEF Entered, OpenDialogs
    <3>. QED  BY <1>1, <3>2, <3>3 DEF EnterGain
  <2>6. ~OpenDialog /\ ~EnterNumber /\ ~UNCHANGED tunerVars
    BY <1>1, <2>2 DEF OpenDialog, Editing, EnterNumber, tunerVars
  <2>. QED  BY <1>1, <2>3, <2>4, <2>5, <2>6, TunerSteps DEF GainKeys, Up, Down, Left, Right
<1>2. TunerInv /\ GainsBacked /\ [Next]_vars =>
        [ dialog.open /\ ~dialog'.open =>
            \A k \in DOMAIN script : \A l \in DOMAIN script[k] :
              LET old == script[k][l]
                  ofFrame == IF old.id \in Lower THEN dialog.lowerF ELSE dialog.upperF
                  ofScript == IF old.id \in Lower THEN dialog.lowerS ELSE dialog.upperS
                  gain == IF k = frame + 1 /\ ofFrame # -1 THEN ofFrame
                          ELSE IF ofScript # -1 THEN ofScript ELSE old.gain
              IN script'[k][l] = [old EXCEPT !.gain = gain] ]_tunerVars
  BY <1>1, GainsApply, Zenon DEF Regained
<1>. QED  BY <1>2, TunerInits, TunerKeeps, BackedInit, BackedNext, PTL DEF Spec, EnteredGainsApply
-----------------------------------------------------------------------------
(* The configuration.                                                        *)
Happened == {"there", "moved", "deleted"}
Event == [what : {"file"}, of : Files] \cup [what : Happened, of : Dirs]
Call == [type : Types, load : Files \cup Dirs]
Reported(event) == \E k \in DOMAIN events : events[k] = event

ConfigTypeInv ==
  ConfigTypeOK /\ events \in Seq(Event) /\ loading \in Seq(Call)

(* Nothing happens before all have registered, and each of them is told of   *)
(* its own path.                                                             *)
HandlersInv ==
  /\ Running \/ (events = << >> /\ loading = << >> /\ \A d \in Dirs : place[d] = "there")
  /\ \A p \in Files \cup Dirs : \A k \in DOMAIN handler[p] : PathOf[handler[p][k]] = p

(* The handlers that are still to be called are called with the same.        *)
CallsInv == \A j, k \in DOMAIN loading : loading[j].load = loading[k].load

(* The return of a directory is the last that was heard of it, and waits if  *)
(* anything older does, or if a directory that is there is not watched.      *)
ReturnIsLast ==
  \A d \in Dirs, k \in DOMAIN events :
    events[k] = DirEvent("there", d) =>
      /\ place[d] = "there"
      /\ \A l \in DOMAIN events : l > k => events[l].what = "file" \/ events[l].of # d
ReturnsWait ==
  \A d \in Dirs, k \in DOMAIN events :
    place[d] = "there" /\ events[k].what # "file" /\ events[k].of = d =>
      Reported(DirEvent("there", d))
WatchesWait ==
  \A d \in Dirs :
    place[d] = "there" /\ d \notin watchPath /\ handler[d] # << >> =>
      Reported(DirEvent("there", d))
ReturnsInv == ReturnIsLast /\ ReturnsWait /\ WatchesWait

AsWanted(t, f) == config[t][f] \in IF t \in Inserting THEN 1..MaxVersion ELSE {disk[f].version}
CalledWith(t, load) == \E k \in DOMAIN loading : loading[k].type = t /\ loading[k].load = load
Called(t, f) == CalledWith(t, f) \/ (DirOf[f] \in Dirs /\ CalledWith(t, DirOf[f]))
Noticed(f) ==
  Reported(FileEvent(f)) \/ (DirOf[f] \in Dirs /\ Reported(DirEvent("there", DirOf[f])))

(* Whoever is told of a file and does not use what is on the disk will be    *)
(* called with it, or an event waits that calls him.                         *)
NewsInv ==
  \A t \in Types, f \in Files \ skipped :
    Told(t, f) /\ Sound(f) => AsWanted(t, f) \/ Called(t, f) \/ Noticed(f)

ConfigInv == ConfigTypeInv /\ HandlersInv /\ CallsInv /\ ReturnsInv /\ NewsInv

LEMMA ConfigSteps == [Next]_vars => ConfigNext \/ UNCHANGED configVars
BY DEF Next, vars, Turn, ServoLoop, BusLoop, Reading, Link, Timer, Strategy, busVars, ioVars, configVars

LEMMA EmittedFits ==
  ASSUME ConfigTypeInv, NEW t \in Types, NEW fs \in SUBSET Files
  PROVE  /\ Emitted(t, fs) \in [Types -> [Files -> 0..MaxVersion]]
         /\ \A u \in Types, f \in Files :
              Emitted(t, fs)[u][f] = IF u = t /\ f \in fs /\ Sound(f)
                                     THEN Kept(t, config[t][f], disk[f].version) ELSE config[u][f]
<1>1. /\ config \in [Types -> [Files -> 0..MaxVersion]]
      /\ \A f \in Files : disk[f].version \in 0..MaxVersion
  BY ConfigAssumption DEF ConfigAssumption, ConfigTypeInv, ConfigTypeOK
<1>. DEFINE given == [f \in Files |-> IF f \in fs /\ Sound(f)
                                      THEN Kept(t, config[t][f], disk[f].version)
                                      ELSE config[t][f]]
<1>2. given \in [Files -> 0..MaxVersion]
  BY <1>1, SMT DEF Kept
<1>3. Emitted(t, fs) = [config EXCEPT ![t] = given]
  BY <1>1 DEF Emitted
<1>4. \A f \in Files : given[f] = IF f \in fs /\ Sound(f)
                                  THEN Kept(t, config[t][f], disk[f].version)
                                  ELSE config[t][f]
  OBVIOUS
<1>. HIDE DEF given
<1>5. Emitted(t, fs) \in [Types -> [Files -> 0..MaxVersion]]
  BY <1>1, <1>2, <1>3
<1>6. ASSUME NEW u \in Types, NEW f \in Files
      PROVE  Emitted(t, fs)[u][f] = IF u = t /\ f \in fs /\ Sound(f)
                                    THEN Kept(t, config[t][f], disk[f].version)
                                    ELSE config[u][f]
  <2>1. CASE u = t
    BY <1>1, <1>3, <1>4, <2>1
  <2>2. CASE u # t
    BY <1>1, <1>3, <2>2
  <2>. QED  BY <2>1, <2>2
<1>. QED  BY <1>5, <1>6

(* What a reactor uses as wanted stays so when it or another loads.          *)
LEMMA LoadedFits ==
  ASSUME ConfigTypeInv, NEW t \in Types, NEW fs \in SUBSET Files, config' = Emitted(t, fs),
         UNCHANGED disk
  PROVE  /\ config' \in [Types -> [Files -> 0..MaxVersion]]
         /\ \A u \in Types, f \in Files : AsWanted(u, f) => AsWanted(u, f)'
         /\ \A f \in fs : Sound(f) => AsWanted(t, f)'
<1>1. /\ config' \in [Types -> [Files -> 0..MaxVersion]]
      /\ \A u \in Types, f \in Files :
           config'[u][f] = IF u = t /\ f \in fs /\ Sound(f)
                           THEN Kept(t, config[t][f], disk[f].version) ELSE config[u][f]
  BY EmittedFits
<1>2. /\ \A u \in Types, f \in Files : config[u][f] \in 0..MaxVersion
      /\ \A f \in Files : disk[f].version \in 1..MaxVersion
  BY DEF ConfigTypeInv, ConfigTypeOK
<1>3. MaxVersion \in Nat
  BY ConfigAssumption DEF ConfigAssumption
<1>4. ASSUME NEW u \in Types, NEW f \in Files, AsWanted(u, f)
      PROVE  AsWanted(u, f)'
  BY <1>1, <1>2, <1>3, <1>4 DEF AsWanted, Kept
<1>5. ASSUME NEW f \in fs, Sound(f)
      PROVE  AsWanted(t, f)'
  BY <1>1, <1>2, <1>3, <1>5 DEF AsWanted, Kept
<1>. QED  BY <1>1, <1>4, <1>5

(* The effect of what is loaded for a type with a file or a directory.       *)
LoadsInto(t, load, refused) ==
  IF load \in Dirs THEN loadDir(t, load, refused) ELSE buildConfigurationNode(t, load, refused)

LEMMA LoadKeeps ==
  ASSUME ConfigTypeInv, NEW t \in Types, NEW load \in Files \cup Dirs, NEW refused \in BOOLEAN,
         LoadsInto(t, load, refused), UNCHANGED <<disk, place>>
  PROVE  /\ timestamp' \subseteq Files
         /\ config' \in [Types -> [Files -> 0..MaxVersion]]
         /\ \A u \in Types, f \in Files : AsWanted(u, f) => AsWanted(u, f)'
         /\ \A f \in Files :
              Sound(f) /\ (load = f \/ (load \in Dirs /\ load = DirOf[f])) =>
                 IF refused THEN load \in Dirs ELSE AsWanted(t, f)'
<1>0. timestamp \subseteq Files /\ Files \cap Dirs = {}
  BY ConfigAssumption DEF ConfigAssumption, ConfigTypeInv, ConfigTypeOK
<1>1. CASE load \in Dirs
  <2>1. PICK done \in SUBSET InDir(load) :
           /\ done \subseteq {f \in InDir(load) : Present(f)}
           /\ IF refused THEN \E f \in done : ~Sound(f)
              ELSE done = {f \in InDir(load) : Present(f)}
           /\ timestamp' = timestamp \cup done
           /\ config' = Emitted(t, done)
    BY <1>1 DEF LoadsInto, loadDir
  <2>2. done \in SUBSET Files
    BY DEF InDir
  <2>3. /\ config' \in [Types -> [Files -> 0..MaxVersion]]
        /\ \A u \in Types, f \in Files : AsWanted(u, f) => AsWanted(u, f)'
        /\ \A f \in done : Sound(f) => AsWanted(t, f)'
    BY <2>1, <2>2, LoadedFits
  <2>4. ASSUME NEW f \in Files, Sound(f), load = f \/ load = DirOf[f], ~refused
        PROVE  AsWanted(t, f)'
    BY <1>0, <1>1, <2>1, <2>3, <2>4 DEF InDir, Sound
  <2>. QED  BY <1>0, <1>1, <2>1, <2>2, <2>3, <2>4, Zenon
<1>2. CASE load \notin Dirs
  <2>1. /\ load \in Files
        /\ timestamp' = timestamp \cup {load}
        /\ refused => ~Sound(load)
        /\ config' = Emitted(t, {load})
    BY <1>2 DEF LoadsInto, buildConfigurationNode
  <2>2. /\ config' \in [Types -> [Files -> 0..MaxVersion]]
        /\ \A u \in Types, f \in Files : AsWanted(u, f) => AsWanted(u, f)'
        /\ \A f \in {load} : Sound(f) => AsWanted(t, f)'
    BY <2>1, LoadedFits
  <2>. QED  BY <1>0, <1>2, <2>1, <2>2, Zenon
<1>. QED  BY <1>1, <1>2

(* An event that is notified is heard of, and none that waits is lost.       *)
LEMMA Notified ==
  ASSUME ConfigTypeInv, NEW watched \in BOOLEAN, NEW event \in Event, Notify(watched, event)
  PROVE  /\ events' \in Seq(Event) /\ Len(events') <= MaxEvents
         /\ events' = events \/ events' = Append(events, event)
         /\ watched => Reported(event)'
         /\ \A e : Reported(e) => Reported(e)'
<1>1. events \in Seq(Event)
  BY DEF ConfigTypeInv
<1>. DEFINE new == Append(events, event)
<1>2. /\ Len(events') <= MaxEvents
      /\ events' \in {events, new}
      /\ watched => events' = new \/ (events # << >> /\ Last(events) = event /\ events' = events)
  BY DEF Notify
<1>3. new \in Seq(Event) /\ Len(new) = Len(events) + 1 /\ new[Len(events) + 1] = event
      /\ \A k \in 1..Len(events) : new[k] = events[k]
  BY <1>1
<1>. HIDE DEF new
<1>4. CASE events' = new
  BY <1>1, <1>2, <1>3, <1>4 DEF Reported, new
<1>5. CASE events' = events
  <2>1. watched => Reported(event)
    BY <1>1, <1>2, <1>3, <1>5 DEF Reported, Last
  <2>. QED  BY <1>1, <1>2, <1>5, <2>1 DEF Reported
<1>. QED  BY <1>2, <1>4, <1>5

(* The events that are left after the first has been taken, and perhaps some *)
(* more: in the order they had.                                              *)
Taken(order) ==
  /\ order \in [DOMAIN events' -> 2..Len(events)]
  /\ \A i, j \in DOMAIN events' : i < j => order[i] < order[j]
  /\ \A i \in DOMAIN events' : events'[i] = events[order[i]]

LEMMA TailTaken ==
  ASSUME ConfigTypeInv, events # << >>, events' = Tail(events)
  PROVE  /\ events' \in Seq(Event) /\ Len(events') <= MaxEvents
         /\ Head(events) = events[1] /\ Head(events) \in Event
         /\ \E order : Taken(order)
         /\ \A e : (\E k \in 2..Len(events) : events[k] = e) => Reported(e)'
<1>1. events \in Seq(Event) /\ Len(events) <= MaxEvents /\ MaxEvents \in Nat
  BY ConfigAssumption DEF ConfigAssumption, ConfigTypeInv, ConfigTypeOK
<1>2. /\ Head(events) = events[1] /\ Head(events) \in Event
      /\ events' \in Seq(Event) /\ Len(events') = Len(events) - 1
      /\ \A i \in 1..Len(events') : events'[i] = events[i + 1]
      /\ Len(events) \in Nat /\ DOMAIN events' = 1..Len(events')
  BY <1>1
<1>3. Taken([i \in DOMAIN events' |-> i + 1])
  BY <1>2 DEF Taken
<1>4. ASSUME NEW e, NEW k \in 2..Len(events), events[k] = e
      PROVE  Reported(e)'
  <2>1. k - 1 \in DOMAIN events' /\ events'[k - 1] = e
    BY <1>2, <1>4
  <2>. QED  BY <2>1 DEF Reported
<1>. QED  BY <1>1, <1>2, <1>3, <1>4

LEMMA MovedTaken ==
  ASSUME ConfigTypeInv, DirMoved
  PROVE  /\ events' \in Seq(Event) /\ Len(events') <= MaxEvents
         /\ Head(events) = events[1] /\ Head(events) \in Event
         /\ \E order : Taken(order)
         /\ \A e : /\ \E k \in 2..Len(events) : events[k] = e
                   /\ Head(events).of \notin watchPath \/ e.of \notin InDir(Head(events).of)
                  => Reported(e)'
<1>1. /\ events \in Seq(Event) /\ Len(events) <= MaxEvents /\ MaxEvents \in Nat
      /\ events # << >>
  BY ConfigAssumption DEF ConfigAssumption, ConfigTypeInv, ConfigTypeOK, DirMoved, NextEvent
<1>. DEFINE d == Head(events).of
            left == {k \in 2..Len(events) : ~(d \in watchPath /\ events[k].of \in InDir(d))}
<1>2. PICK order \in Bijection(1..Cardinality(left), left) :
        /\ \A i, j \in DOMAIN order : i < j => order[i] < order[j]
        /\ events' = [i \in DOMAIN order |-> events[order[i]]]
  BY DEF DirMoved
<1>3. /\ Head(events) = events[1] /\ Head(events) \in Event
      /\ Len(events) \in Nat /\ Len(events) >= 1
      /\ \A k \in 1..Len(events) : events[k] \in Event
  BY <1>1
<1>4. IsFiniteSet(2..Len(events)) /\ Cardinality(2..Len(events)) = Len(events) - 1
  BY <1>3, FS_Interval
<1>5. left \subseteq 2..Len(events)
  OBVIOUS
<1>6. Cardinality(left) \in Nat /\ Cardinality(left) <= Len(events) - 1
  BY <1>4, <1>5, FS_Subset, FS_CardinalityType
<1>. DEFINE n == Cardinality(left)
<1>. HIDE DEF n, left
<1>7. /\ order \in [1..n -> left] /\ DOMAIN order = 1..n
      /\ \A k \in left : \E i \in 1..n : order[i] = k
  BY <1>2 DEF n, Bijection, Injection, Surjection
<1>. DEFINE taken == [i \in 1..n |-> events[order[i]]]
<1>8. /\ events' \in Seq(Event) /\ Len(events') = n /\ DOMAIN events' = 1..n
      /\ \A i \in 1..n : events'[i] = events[order[i]]
  <2>1. n \in Nat /\ left \subseteq 1..Len(events)
    BY <1>3, <1>5, <1>6 DEF n
  <2>2. \A i \in 1..n : events[order[i]] \in Event
    BY <1>3, <1>7, <2>1
  <2>3. taken \in Seq(Event) /\ Len(taken) = n /\ DOMAIN taken = 1..n
    BY <2>1, <2>2
  <2>4. events' = taken
    BY <1>2, <1>7
  <2>. QED  BY <2>3, <2>4
<1>9. Taken(order)
  BY <1>2, <1>5, <1>7, <1>8 DEF Taken
<1>10. ASSUME NEW e, NEW k \in left, events[k] = e
       PROVE  Reported(e)'
  <2>1. PICK i \in 1..n : order[i] = k
    BY <1>7
  <2>. QED  BY <1>8, <1>10, <2>1 DEF Reported
<1>11. \A k \in 2..Len(events) : d \notin watchPath \/ events[k].of \notin InDir(d) => k \in left
  BY DEF left
<1>12. Len(events') <= MaxEvents
  BY <1>1, <1>3, <1>6, <1>8 DEF n
<1>. QED  BY <1>3, <1>8, <1>9, <1>10, <1>11, <1>12

LEMMA EventKinds ==
  /\ \A e \in Event : IF e.what = "file" THEN e.of \in Files /\ e = FileEvent(e.of)
                      ELSE e.of \in Dirs /\ e = DirEvent(e.what, e.of) /\ e.what \in Happened
  /\ \A f \in Files : FileEvent(f) \in Event
  /\ \A d \in Dirs, what \in Happened : DirEvent(what, d) \in Event
BY DEF Event, Happened, FileEvent, DirEvent

LEMMA EventsWaiting ==
  ASSUME ConfigTypeInv
  PROVE  /\ \A k \in DOMAIN events : events[k] \in Event
         /\ DOMAIN events = 1..Len(events) /\ Len(events) \in Nat
BY DEF ConfigTypeInv

(* What is taken of the events does no harm to what is known of returns.     *)
LEMMA ReturnsTaken ==
  ASSUME ConfigTypeInv, ReturnIsLast, ReturnsWait, NEW order, Taken(order),
         events' \in Seq(Event), events # << >>, UNCHANGED place,
         \A d \in Dirs : (\E k \in 2..Len(events) : events[k] = DirEvent("there", d)) =>
                            Reported(DirEvent("there", d))'
  PROVE  ReturnIsLast' /\ ReturnsWait'
<1>1. /\ \A k \in 1..Len(events) : events[k] \in Event
      /\ DOMAIN events = 1..Len(events) /\ Len(events) \in Nat
  BY EventsWaiting
<1>2. /\ \A k \in DOMAIN events' : /\ order[k] \in 2..Len(events) /\ events'[k] = events[order[k]]
                                   /\ order[k] \in DOMAIN events
      /\ \A j, k \in DOMAIN events' : j < k => order[j] < order[k]
  BY <1>1 DEF Taken
<1>3. ReturnIsLast'
  <2> SUFFICES ASSUME NEW d \in Dirs, NEW k \in DOMAIN events', events'[k] = DirEvent("there", d)
               PROVE  /\ place[d] = "there"
                      /\ \A l \in DOMAIN events' :
                           l > k => events'[l].what = "file" \/ events'[l].of # d
    BY DEF ReturnIsLast, DirEvent
  <2>1. events[order[k]] = DirEvent("there", d)
    BY <1>2
  <2>2. /\ place[d] = "there"
        /\ \A l \in DOMAIN events : l > order[k] => events[l].what = "file" \/ events[l].of # d
    BY <1>2, <2>1 DEF ReturnIsLast
  <2>3. ASSUME NEW l \in DOMAIN events', l > k
        PROVE  events'[l].what = "file" \/ events'[l].of # d
    <3>0. DOMAIN events' \subseteq Nat
      OBVIOUS
    <3>1. order[l] > order[k]
      BY <1>2, <2>3, <3>0
    <3>. QED  BY <1>2, <2>2, <3>1
  <2>. QED  BY <2>2, <2>3
<1>4. ReturnsWait'
  <2> SUFFICES ASSUME NEW d \in Dirs, NEW k \in DOMAIN events',
                      place[d] = "there", events'[k].what # "file", events'[k].of = d
               PROVE  Reported(DirEvent("there", d))'
    BY DEF ReturnsWait, DirEvent
  <2>1. Reported(DirEvent("there", d))
    BY <1>2 DEF ReturnsWait
  <2>2. PICK j \in DOMAIN events : events[j] = DirEvent("there", d)
    BY <2>1 DEF Reported
  <2>3. ASSUME j = 1  PROVE FALSE
    <3>1. order[k] > 1 /\ order[k] \in DOMAIN events
      BY <1>2
    <3>2. events[order[k]].what = "file" \/ events[order[k]].of # d
      BY <2>2, <2>3, <3>1 DEF ReturnIsLast
    <3>. QED  BY <1>2, <3>2
  <2>4. j \in 2..Len(events)
    BY <1>1, <2>3
  <2>. QED  BY <2>2, <2>4
<1>. QED  BY <1>3, <1>4

(* Nor does an event that is added, if it is of a file or what it says of a  *)
(* directory is so now.                                                      *)
LEMMA ReturnsAdded ==
  ASSUME ConfigTypeInv, ReturnIsLast, ReturnsWait, NEW event \in Event,
         events' = events \/ events' = Append(events, event),
         \A e : Reported(e) => Reported(e)',
         \/ event.what = "file" /\ UNCHANGED place
         \/ /\ event.what # "file"
            /\ \A d \in Dirs \ {event.of} : place'[d] = place[d]
            /\ (place'[event.of] = "there") <=> (event.what = "there")
            /\ \A k \in DOMAIN events : events[k] # DirEvent("there", event.of)
            /\ event.what = "there" => Reported(event)'
  PROVE  ReturnIsLast' /\ ReturnsWait'
<1>1. /\ \A k \in 1..Len(events) : events[k] \in Event
      /\ DOMAIN events = 1..Len(events) /\ Len(events) \in Nat
  BY EventsWaiting
<1>0. events \in Seq(Event)
  BY DEF ConfigTypeInv
<1>2. /\ \A k \in DOMAIN events : k \in DOMAIN events' /\ events'[k] = events[k]
      /\ \A k \in DOMAIN events' : k \in DOMAIN events \/ (k = Len(events) + 1 /\ events'[k] = event)
      /\ DOMAIN events' \subseteq Nat
  BY <1>0, <1>1
<1>3. event = IF event.what = "file" THEN FileEvent(event.of) ELSE DirEvent(event.what, event.of)
  BY EventKinds
<1>4. ReturnIsLast'
  <2> SUFFICES ASSUME NEW d \in Dirs, NEW k \in DOMAIN events', events'[k] = DirEvent("there", d)
               PROVE  /\ place'[d] = "there"
                      /\ \A l \in DOMAIN events' :
                           l > k => events'[l].what = "file" \/ events'[l].of # d
    BY DEF ReturnIsLast, DirEvent
  <2>1. CASE k \in DOMAIN events
    <3>1. events[k] = DirEvent("there", d)
      BY <1>2, <2>1
    <3>2. event.what = "file" \/ event.of # d
      BY <2>1, <3>1
    <3>3. /\ place[d] = "there"
          /\ \A l \in DOMAIN events : l > k => events[l].what = "file" \/ events[l].of # d
      BY <2>1, <3>1 DEF ReturnIsLast
    <3>4. place'[d] = "there"
      BY <3>2, <3>3
    <3>. QED  BY <1>2, <3>2, <3>3, <3>4
  <2>2. CASE k \notin DOMAIN events
    <3>1. k = Len(events) + 1 /\ event = DirEvent("there", d)
      BY <1>2, <2>2
    <3>2. event.what = "there" /\ event.of = d
      BY <3>1 DEF DirEvent
    <3>3. \A l \in DOMAIN events' : ~(l > k)
      BY <1>1, <1>2, <3>1
    <3>4. place'[d] = "there"
      BY <3>2
    <3>. QED  BY <3>3, <3>4
  <2>. QED  BY <2>1, <2>2
<1>5. ReturnsWait'
  <2> SUFFICES ASSUME NEW d \in Dirs, NEW k \in DOMAIN events',
                      place'[d] = "there", events'[k].what # "file", events'[k].of = d
               PROVE  Reported(DirEvent("there", d))'
    BY DEF ReturnsWait, DirEvent
  <2>1. CASE event.what # "file" /\ event.of = d
    <3>1. event.what = "there" /\ event = DirEvent("there", d) /\ Reported(event)'
      BY <1>3, <2>1
    <3>. QED  BY <3>1
  <2>2. CASE ~(event.what # "file" /\ event.of = d)
    <3>1. k \in DOMAIN events /\ place[d] = "there"
      BY <1>2, <2>2
    <3>2. events[k].what # "file" /\ events[k].of = d
      BY <1>2, <3>1
    <3>3. Reported(DirEvent("there", d))
      BY <3>1, <3>2 DEF ReturnsWait
    <3>. QED  BY <3>3
  <2>. QED  BY <2>1, <2>2
<1>. QED  BY <1>4, <1>5

(* A type is told of its own file, or of those in its directory.             *)
LEMMA ToldOf ==
  ASSUME HandlersInv, NEW t \in Types, NEW f \in Files, Told(t, f)
  PROVE  \/ PathOf[t] = f /\ DirOf[f] = Base /\ handler[f] # << >>
         \/ PathOf[t] = DirOf[f] /\ DirOf[f] \in Dirs /\ handler[DirOf[f]] # << >>
<1>1. /\ DirOf[f] \in Dirs \cup {Base} /\ Base \notin Dirs /\ PathOf[t] \in Files \cup Dirs
      /\ Files \cap Dirs = {} /\ (PathOf[t] \in Files => DirOf[PathOf[t]] = Base)
  BY ConfigAssumption DEF ConfigAssumption
<1>2. f \in FilesOf(PathOf[t]) /\ t \in Range(handler[PathOf[t]])
  BY DEF Told
<1>3. handler[PathOf[t]] # << >>
  BY <1>2 DEF Range
<1>. QED  BY <1>1, <1>2, <1>3 DEF FilesOf, InDir

LEMMA HandlersOwn ==
  ASSUME HandlersInv, NEW p \in Files \cup Dirs, handler[p] # << >>,
         handler[p] \in Seq(Types)
  PROVE  \E t \in Types : PathOf[t] = p
<1>1. 1 \in DOMAIN handler[p] /\ handler[p][1] \in Types
  OBVIOUS
<1>. QED  BY <1>1 DEF HandlersInv

LEMMA SameFiles ==
  ASSUME UNCHANGED <<disk, place>>  PROVE \A f \in Files : Sound(f)' <=> Sound(f)
BY DEF Sound, Present, Standing

LEMMA SameTold ==
  ASSUME UNCHANGED handler  PROVE \A t \in Types, f \in Files : Told(t, f)' <=> Told(t, f)
BY DEF Told

(* Time passes.                                                              *)
LEMMA SecondKeeps == ASSUME ConfigInv, Second  PROVE ConfigInv'
<1>1. /\ timestamp' \subseteq timestamp
      /\ UNCHANGED <<loaded, handler, watchPath, events, loading, disk, place, config, skipped>>
  BY DEF Second, outside
<1>2. ConfigTypeInv'
  BY <1>1 DEF ConfigInv, ConfigTypeInv, ConfigTypeOK
<1>3. HandlersInv' /\ CallsInv'
  BY <1>1 DEF ConfigInv, HandlersInv, CallsInv, Running
<1>4. ReturnsInv'
  BY <1>1 DEF ConfigInv, ReturnsInv, ReturnIsLast, ReturnsWait, WatchesWait, Reported, DirEvent
<1>5. NewsInv'
  <2> SUFFICES ASSUME NEW t \in Types, NEW f \in Files \ skipped, Told(t, f), Sound(f)
               PROVE  (AsWanted(t, f) \/ Called(t, f) \/ Noticed(f))'
    BY <1>1, SameFiles, SameTold DEF NewsInv
  <2>1. AsWanted(t, f) \/ Called(t, f) \/ Noticed(f)
    BY DEF ConfigInv, NewsInv
  <2>. QED  BY <1>1, <2>1 DEF AsWanted, Called, CalledWith, Noticed, Reported, FileEvent, DirEvent
<1>. QED  BY <1>2, <1>3, <1>4, <1>5 DEF ConfigInv

(* A type registers, before anything has happened.                           *)
LEMMA RegisterKeeps == ASSUME ConfigInv, NEW t \in Types, Register(t)  PROVE ConfigInv'
<1>. DEFINE path == PathOf[t]
<1>1. PICK refused \in BOOLEAN :
        /\ IF path \in Dirs
           THEN /\ watchPath' = IF handler[path] = << >> THEN watchPath \cup {path} ELSE watchPath
                /\ loadDir(t, path, refused)
           ELSE buildConfigurationNode(t, path, refused) /\ UNCHANGED watchPath
        /\ handler' = IF refused THEN handler ELSE [handler EXCEPT ![path] = Append(@, t)]
  BY DEF Register
<1>2. /\ t \notin loaded /\ loaded' = loaded \cup {t}
      /\ UNCHANGED <<events, loading, disk, place, skipped>>
  BY DEF Register, outside
<1>3. /\ path \in Files \cup Dirs /\ Files \cap Dirs = {}
      /\ path \in Files => DirOf[path] = Base
  BY ConfigAssumption DEF ConfigAssumption
<1>4. ~Running /\ events = << >> /\ loading = << >> /\ \A d \in Dirs : place[d] = "there"
  BY <1>2 DEF Running, ConfigInv, HandlersInv
<1>5. LoadsInto(t, path, refused)
  BY <1>1 DEF LoadsInto
<1>. DEFINE fits ==
       /\ timestamp' \subseteq Files
       /\ config' \in [Types -> [Files -> 0..MaxVersion]]
       /\ \A u \in Types, f \in Files : AsWanted(u, f) => AsWanted(u, f)'
       /\ \A f \in Files :
            Sound(f) /\ (path = f \/ (path \in Dirs /\ path = DirOf[f])) =>
               IF refused THEN path \in Dirs ELSE AsWanted(t, f)'
<1>6. fits
  BY <1>2, <1>3, <1>5, LoadKeeps DEF ConfigInv
<1>7. /\ handler \in [Files \cup Dirs -> Seq(Types)]
      /\ watchPath \subseteq Dirs
      /\ \A p \in Files \cup Dirs : \A k \in DOMAIN handler[p] : PathOf[handler[p][k]] = p
  BY DEF ConfigInv, ConfigTypeInv, ConfigTypeOK, HandlersInv
<1>8. /\ handler' \in [Files \cup Dirs -> Seq(Types)]
      /\ handler' = handler \/
           ( /\ ~refused /\ handler'[path] = Append(handler[path], t)
             /\ \A p \in (Files \cup Dirs) \ {path} : handler'[p] = handler[p] )
  BY <1>1, <1>3, <1>7
<1>9. /\ watchPath' \subseteq Dirs /\ watchPath \subseteq watchPath'
      /\ path \in Dirs /\ handler[path] = << >> => path \in watchPath'
  BY <1>1, <1>7
<1>. HIDE DEF path
<1>10. ConfigTypeInv'
  BY <1>2, <1>6, <1>8, <1>9 DEF ConfigInv, ConfigTypeInv, ConfigTypeOK
<1>11. \A p \in Files \cup Dirs : \A k \in DOMAIN handler'[p] : PathOf[handler'[p][k]] = p
  <2> SUFFICES ASSUME NEW p \in Files \cup Dirs, NEW k \in DOMAIN handler'[p]
               PROVE  PathOf[handler'[p][k]] = p
    OBVIOUS
  <2>1. handler'[p] = handler[p] \/ (p = path /\ handler'[p] = Append(handler[p], t))
    BY <1>8
  <2>2. \/ k \in DOMAIN handler[p] /\ handler'[p][k] = handler[p][k]
        \/ p = path /\ handler'[p][k] = t
    BY <1>7, <2>1
  <2>. QED  BY <1>7, <2>2 DEF path
<1>12. HandlersInv' /\ CallsInv'
  BY <1>2, <1>4, <1>11 DEF HandlersInv, CallsInv
<1>13. WatchesWait'
  <2> SUFFICES ASSUME NEW d \in Dirs, place'[d] = "there", d \notin watchPath', handler'[d] # << >>
               PROVE  FALSE
    BY DEF WatchesWait
  <2>1. d # path \/ handler[d] # << >>
    BY <1>9
  <2>2. handler[d] # << >>
    BY <1>3, <1>8, <2>1
  <2>3. Reported(DirEvent("there", d))
    BY <1>2, <1>9, <2>2 DEF ConfigInv, ReturnsInv, WatchesWait
  <2>. QED  BY <1>4, <2>3 DEF Reported
<1>14. ReturnsInv'
  BY <1>2, <1>4, <1>13 DEF ReturnsInv, ReturnIsLast, ReturnsWait
<1>15. NewsInv'
  <2> SUFFICES ASSUME NEW u \in Types, NEW f \in Files \ skipped, Told(u, f)', Sound(f)
               PROVE  AsWanted(u, f)'
    BY <1>2, SameFiles DEF NewsInv
  <2>1. CASE Told(u, f)
    <3>1. AsWanted(u, f)
      BY <1>4, <2>1 DEF ConfigInv, NewsInv, Called, CalledWith, Noticed, Reported
    <3>. QED  BY <1>6, <3>1
  <2>2. CASE ~Told(u, f)
    <3>1. /\ f \in FilesOf(PathOf[u]) /\ PathOf[u] \in Files \cup Dirs
          /\ u \in Range(handler'[PathOf[u]]) /\ u \notin Range(handler[PathOf[u]])
      BY <2>2, ConfigAssumption DEF ConfigAssumption, Told
    <3>2. handler'[PathOf[u]] # handler[PathOf[u]]
      BY <3>1
    <3>3. /\ ~refused /\ PathOf[u] = path /\ handler'[path] = Append(handler[path], t)
          /\ handler[path] \in Seq(Types)
      BY <1>3, <1>7, <1>8, <3>1, <3>2
    <3>4. u = t
      BY <3>1, <3>3 DEF Range
    <3>5. path = f \/ (path \in Dirs /\ path = DirOf[f])
      BY <3>1, <3>3 DEF FilesOf, InDir
    <3>. QED  BY <1>6, <3>3, <3>4, <3>5
  <2>. QED  BY <2>1, <2>2
<1>. QED  BY <1>10, <1>12, <1>14, <1>15 DEF ConfigInv

(* The file is another: an event tells of it, or its directory is not        *)
(* watched, and then either away or about to be.                             *)
LEMMA ChangeKeeps ==
  ASSUME ConfigInv, NEW g \in Files, NEW state \in {"whole", "cut"}, Change(g, state)
  PROVE  ConfigInv'
<1>0. /\ MaxVersion \in Nat /\ DirOf[g] \in Dirs \cup {Base}
      /\ disk \in [Files -> [version : 1..MaxVersion, state : {"whole", "cut", "absent"}]]
  BY ConfigAssumption DEF ConfigAssumption, ConfigInv, ConfigTypeInv, ConfigTypeOK
<1>1. /\ Running
      /\ disk[g].version < MaxVersion \/ disk[g].state = "cut"
      /\ disk' = [disk EXCEPT ![g] = [version |-> IF @.state = "cut" THEN @.version
                                                  ELSE @.version + 1,
                                      state |-> state]]
      /\ Notify(Watched(g), FileEvent(g))
      /\ UNCHANGED <<loaded, handler, watchPath, timestamp, loading, place, config, skipped>>
  BY DEF Change
<1>2. /\ events' \in Seq(Event) /\ Len(events') <= MaxEvents
      /\ events' = events \/ events' = Append(events, FileEvent(g))
      /\ Watched(g) => Reported(FileEvent(g))'
      /\ \A e : Reported(e) => Reported(e)'
  <2>1. FileEvent(g) \in Event /\ Watched(g) \in BOOLEAN
    BY EventKinds DEF Watched
  <2>. QED  BY <1>1, <2>1, Notified, Zenon DEF ConfigInv
<1>3. /\ disk' \in [Files -> [version : 1..MaxVersion, state : {"whole", "cut", "absent"}]]
      /\ \A f \in Files \ {g} : disk'[f] = disk[f]
  <2>. DEFINE entry == [version |-> IF disk[g].state = "cut" THEN disk[g].version
                                    ELSE disk[g].version + 1,
                        state |-> state]
  <2>1. disk' = [disk EXCEPT ![g] = entry]
    BY <1>0, <1>1
  <2>2. disk[g].version \in 1..MaxVersion
    BY <1>0
  <2>3. (IF disk[g].state = "cut" THEN disk[g].version ELSE disk[g].version + 1) \in 1..MaxVersion
    BY <1>0, <1>1, <2>2
  <2>4. entry \in [version : 1..MaxVersion, state : {"whole", "cut", "absent"}]
    BY <2>3
  <2>. HIDE DEF entry
  <2>. QED  BY <1>0, <2>1, <2>4
<1>4. ConfigTypeInv'
  BY <1>1, <1>2, <1>3 DEF ConfigInv, ConfigTypeInv, ConfigTypeOK
<1>5. HandlersInv' /\ CallsInv'
  BY <1>1 DEF ConfigInv, HandlersInv, CallsInv, Running
<1>6. ReturnIsLast' /\ ReturnsWait'
  <2>1. FileEvent(g) \in Event /\ FileEvent(g).what = "file"
    BY EventKinds DEF FileEvent
  <2>2. ConfigTypeInv /\ ReturnIsLast /\ ReturnsWait /\ UNCHANGED place
    BY <1>1 DEF ConfigInv, ReturnsInv
  <2>. QED  BY <1>2, <2>1, <2>2, ReturnsAdded, Zenon
<1>7. WatchesWait'
  <2>1. WatchesWait
    BY DEF ConfigInv, ReturnsInv
  <2>. QED  BY <1>1, <1>2, <2>1 DEF WatchesWait, DirEvent
<1>8. NewsInv'
  <2> SUFFICES ASSUME NEW t \in Types, NEW f \in Files \ skipped, Told(t, f), Sound(f)'
               PROVE  (AsWanted(t, f) \/ Called(t, f) \/ Noticed(f))'
    BY <1>1, SameTold DEF NewsInv
  <2>1. CASE f # g
    <3>1. Sound(f)
      BY <1>1, <1>3, <2>1 DEF Sound, Present, Standing
    <3>2. AsWanted(t, f) \/ Called(t, f) \/ Noticed(f)
      BY <3>1 DEF ConfigInv, NewsInv
    <3>3. AsWanted(t, f) => AsWanted(t, f)'
      BY <1>1, <1>3, <2>1 DEF AsWanted
    <3>4. Called(t, f) => Called(t, f)'
      BY <1>1 DEF Called, CalledWith
    <3>5. Noticed(f) => Noticed(f)'
      BY <1>2 DEF Noticed, FileEvent, DirEvent
    <3>. QED  BY <3>2, <3>3, <3>4, <3>5
  <2>2. CASE f = g /\ Watched(g)
    BY <1>2, <2>2 DEF Noticed, FileEvent
  <2>3. CASE f = g /\ ~Watched(g)
    <3>1. DirOf[g] \in Dirs /\ DirOf[g] # Base /\ DirOf[g] \notin watchPath
      BY <1>0, <2>3 DEF Watched
    <3>2. handler[DirOf[g]] # << >>
      BY <2>3, <3>1, ToldOf DEF ConfigInv
    <3>3. place[DirOf[g]] = "there"
      BY <1>1, <2>3, <3>1 DEF Sound, Present, Standing
    <3>4. Reported(DirEvent("there", DirOf[g]))
      BY <3>1, <3>2, <3>3 DEF ConfigInv, ReturnsInv, WatchesWait
    <3>. QED  BY <1>2, <2>3, <3>1, <3>4 DEF Noticed, DirEvent
  <2>. QED  BY <2>1, <2>2, <2>3
<1>. QED  BY <1>4, <1>5, <1>6, <1>7, <1>8 DEF ConfigInv, ReturnsInv

(* A directory goes: nothing was to be heard of its return.                  *)
LEMMA TakeAwayKeeps ==
  ASSUME ConfigInv, NEW g \in Dirs, NEW how \in {"moved", "deleted"}, TakeAway(g, how)
  PROVE  ConfigInv'
<1>0. /\ place \in [Dirs -> {"there", "moved", "deleted"}] /\ watchPath \subseteq Dirs
      /\ disk \in [Files -> [version : 1..MaxVersion, state : {"whole", "cut", "absent"}]]
  BY DEF ConfigInv, ConfigTypeInv, ConfigTypeOK
<1>1. /\ Running /\ place[g] = "there" /\ DirEventsOf(g) = {}
      /\ place' = [place EXCEPT ![g] = how]
      /\ UNCHANGED <<loaded, handler, timestamp, loading, config, skipped>>
  BY DEF TakeAway
<1>2. PICK watched \in BOOLEAN : Notify(watched, DirEvent(how, g))
  <2>1. Notify(TRUE, DirEvent(how, g)) \/ Notify(g \in watchPath, DirEvent(how, g))
    BY Zenon DEF TakeAway
  <2>2. (g \in watchPath) \in BOOLEAN /\ TRUE \in BOOLEAN
    OBVIOUS
  <2>. QED  BY <2>1, <2>2, Zenon
<1>3. /\ events' \in Seq(Event) /\ Len(events') <= MaxEvents
      /\ events' = events \/ events' = Append(events, DirEvent(how, g))
      /\ \A e : Reported(e) => Reported(e)'
  <2>1. DirEvent(how, g) \in Event
    BY EventKinds DEF Happened
  <2>. QED  BY <1>2, <2>1, Notified, Zenon DEF ConfigInv
<1>4. /\ watchPath' = watchPath \/ watchPath' = watchPath \ {g}
      /\ disk' = disk \/ disk' = [f \in Files |-> IF f \in InDir(g)
                                                  THEN [disk[f] EXCEPT !.state = "absent"]
                                                  ELSE disk[f]]
  BY DEF TakeAway
<1>5. /\ disk' \in [Files -> [version : 1..MaxVersion, state : {"whole", "cut", "absent"}]]
      /\ \A f \in Files \ InDir(g) : disk'[f] = disk[f]
  <2>1. ASSUME NEW f \in Files
        PROVE  [disk[f] EXCEPT !.state = "absent"]
                 \in [version : 1..MaxVersion, state : {"whole", "cut", "absent"}]
    BY <1>0
  <2>. QED  BY <1>0, <1>4, <2>1
<1>6. ConfigTypeInv'
  BY <1>0, <1>1, <1>3, <1>4, <1>5 DEF ConfigInv, ConfigTypeInv, ConfigTypeOK
<1>7. HandlersInv' /\ CallsInv'
  BY <1>1 DEF ConfigInv, HandlersInv, CallsInv, Running
<1>8. /\ \A d \in Dirs \ {g} : place'[d] = place[d]
      /\ place'[g] = how /\ how # "there"
  BY <1>0, <1>1
<1>9. ReturnIsLast' /\ ReturnsWait'
  <2>1. /\ DirEvent(how, g) \in Event /\ DirEvent(how, g).what = how /\ DirEvent(how, g).of = g
        /\ how # "file"
    BY EventKinds DEF DirEvent, Happened
  <2>2. ConfigTypeInv /\ ReturnIsLast /\ ReturnsWait
    BY DEF ConfigInv, ReturnsInv
  <2>3. \A k \in DOMAIN events : events[k] # DirEvent("there", g)
    BY <1>1 DEF DirEventsOf, DirEvent
  <2>. QED  BY <1>3, <1>8, <2>1, <2>2, <2>3, ReturnsAdded, Zenon
<1>10. WatchesWait'
  <2>1. WatchesWait
    BY DEF ConfigInv, ReturnsInv
  <2>. QED  BY <1>1, <1>3, <1>4, <1>8, <2>1 DEF WatchesWait, DirEvent
<1>11. NewsInv'
  <2> SUFFICES ASSUME NEW t \in Types, NEW f \in Files \ skipped, Told(t, f), Sound(f)'
               PROVE  (AsWanted(t, f) \/ Called(t, f) \/ Noticed(f))'
    BY <1>1, SameTold DEF NewsInv
  <2>1. DirOf[f] # g
    BY <1>8, ConfigAssumption DEF ConfigAssumption, Sound, Present, Standing
  <2>2. disk'[f] = disk[f] /\ Sound(f)
    BY <1>5, <1>8, <2>1 DEF InDir, Sound, Present, Standing
  <2>3. AsWanted(t, f) \/ Called(t, f) \/ Noticed(f)
    BY <2>2 DEF ConfigInv, NewsInv
  <2>4. AsWanted(t, f) => AsWanted(t, f)'
    BY <1>1, <2>2 DEF AsWanted
  <2>5. Called(t, f) => Called(t, f)'
    BY <1>1 DEF Called, CalledWith
  <2>6. Noticed(f) => Noticed(f)'
    BY <1>3 DEF Noticed, FileEvent, DirEvent
  <2>. QED  BY <2>3, <2>4, <2>5, <2>6
<1>. QED  BY <1>6, <1>7, <1>9, <1>10, <1>11 DEF ConfigInv, ReturnsInv

(* It comes back, which is the last that is heard of it.                     *)
LEMMA ReturnKeeps ==
  ASSUME ConfigInv, NEW g \in Dirs, Return(g)
  PROVE  ConfigInv'
<1>0. place \in [Dirs -> {"there", "moved", "deleted"}]
  BY DEF ConfigInv, ConfigTypeInv, ConfigTypeOK
<1>1. /\ place[g] # "there" /\ place' = [place EXCEPT ![g] = "there"]
      /\ Notify(TRUE, DirEvent("there", g))
      /\ UNCHANGED <<loaded, handler, watchPath, timestamp, loading, disk, config, skipped>>
  BY DEF Return
<1>2. /\ events' \in Seq(Event) /\ Len(events') <= MaxEvents
      /\ events' = events \/ events' = Append(events, DirEvent("there", g))
      /\ Reported(DirEvent("there", g))'
      /\ \A e : Reported(e) => Reported(e)'
  <2>1. DirEvent("there", g) \in Event
    BY EventKinds DEF Happened
  <2>. QED  BY <1>1, <2>1, Notified, Zenon DEF ConfigInv
<1>3. ConfigTypeInv'
  BY <1>0, <1>1, <1>2 DEF ConfigInv, ConfigTypeInv, ConfigTypeOK
<1>4. HandlersInv' /\ CallsInv'
  BY <1>1 DEF ConfigInv, HandlersInv, CallsInv, Running
<1>5. /\ \A d \in Dirs \ {g} : place'[d] = place[d]
      /\ place'[g] = "there"
  BY <1>0, <1>1
<1>6. ReturnIsLast' /\ ReturnsWait'
  <2>1. /\ DirEvent("there", g) \in Event /\ DirEvent("there", g).what = "there"
        /\ DirEvent("there", g).of = g
    BY EventKinds DEF DirEvent, Happened
  <2>2. ConfigTypeInv /\ ReturnIsLast /\ ReturnsWait
    BY DEF ConfigInv, ReturnsInv
  <2>3. \A k \in DOMAIN events : events[k] # DirEvent("there", g)
    BY <1>1, <2>2 DEF ReturnIsLast
  <2>. QED  BY <1>2, <1>5, <2>1, <2>2, <2>3, ReturnsAdded, Zenon
<1>7. WatchesWait'
  <2> SUFFICES ASSUME NEW d \in Dirs, place'[d] = "there", d \notin watchPath, handler[d] # << >>
               PROVE  Reported(DirEvent("there", d))'
    BY <1>1 DEF WatchesWait, DirEvent
  <2>1. CASE d = g
    BY <1>2, <2>1
  <2>2. CASE d # g
    BY <1>2, <1>5, <2>2 DEF ConfigInv, ReturnsInv, WatchesWait
  <2>. QED  BY <2>1, <2>2
<1>8. NewsInv'
  <2> SUFFICES ASSUME NEW t \in Types, NEW f \in Files \ skipped, Told(t, f), Sound(f)'
               PROVE  (AsWanted(t, f) \/ Called(t, f) \/ Noticed(f))'
    BY <1>1, SameTold DEF NewsInv
  <2>1. CASE DirOf[f] = g
    BY <1>2, <2>1 DEF Noticed, DirEvent
  <2>2. CASE DirOf[f] # g
    <3>1. Sound(f)
      BY <1>1, <1>5, <2>2 DEF Sound, Present, Standing
    <3>2. AsWanted(t, f) \/ Called(t, f) \/ Noticed(f)
      BY <3>1 DEF ConfigInv, NewsInv
    <3>3. AsWanted(t, f) => AsWanted(t, f)'
      BY <1>1 DEF AsWanted
    <3>4. Called(t, f) => Called(t, f)'
      BY <1>1 DEF Called, CalledWith
    <3>5. Noticed(f) => Noticed(f)'
      BY <1>2 DEF Noticed, FileEvent, DirEvent
    <3>. QED  BY <3>2, <3>3, <3>4, <3>5
  <2>. QED  BY <2>1, <2>2
<1>. QED  BY <1>3, <1>4, <1>6, <1>7, <1>8 DEF ConfigInv, ReturnsInv

(* An event of a file: it is passed over, or all who are told of the file    *)
(* are called with it.                                                       *)
LEMMA CallsMade ==
  ASSUME ConfigTypeInv, NEW path \in Files \cup Dirs, NEW what \in Files \cup Dirs,
         loading' = Calls(path, what)
  PROVE  /\ loading' \in Seq(Call) /\ CallsInv'
         /\ \A t \in Range(handler[path]) : CalledWith(t, what)'
<1>1. handler[path] \in Seq(Types)
  BY DEF ConfigTypeInv, ConfigTypeOK
<1>2. /\ DOMAIN loading' = 1..Len(handler[path]) /\ Len(handler[path]) \in Nat
      /\ \A k \in 1..Len(handler[path]) :
           loading'[k] = [type |-> handler[path][k], load |-> what] /\ handler[path][k] \in Types
  BY <1>1 DEF Calls
<1>3. loading' \in Seq(Call)
  <2>1. \A k \in 1..Len(handler[path]) : [type |-> handler[path][k], load |-> what] \in Call
    BY <1>2 DEF Call
  <2>. QED  BY <1>1, <1>2, <2>1 DEF Calls
<1>4. ASSUME NEW k \in DOMAIN loading'
      PROVE  loading'[k].type = handler[path][k] /\ loading'[k].load = what
  <2>. DEFINE call == [type |-> handler[path][k], load |-> what]
  <2>1. loading'[k] = call
    BY <1>2
  <2>2. call.type = handler[path][k] /\ call.load = what
    OBVIOUS
  <2>. HIDE DEF call
  <2>. QED  BY <2>1, <2>2
<1>5. CallsInv'
  BY <1>4 DEF CallsInv
<1>6. ASSUME NEW t \in Range(handler[path])
      PROVE  CalledWith(t, what)'
  <2>1. PICK k \in 1..Len(handler[path]) : handler[path][k] = t
    BY <1>1 DEF Range
  <2>. QED  BY <1>2, <1>4, <2>1 DEF CalledWith
<1>. QED  BY <1>3, <1>5, <1>6

LEMMA FileChangedKeeps == ASSUME ConfigInv, FileChanged  PROVE ConfigInv'
<1>0. PICK g, path : /\ g = Head(events).of
                     /\ path = IF handler[g] # << >> \/ DirOf[g] = Base THEN g ELSE DirOf[g]
  OBVIOUS
<1>1. /\ Running /\ loading = << >> /\ events # << >> /\ Head(events).what = "file"
      /\ events' = Tail(events)
      /\ UNCHANGED <<loaded, handler, watchPath, place, timestamp, disk, config>>
      /\ IF g \in timestamp THEN skipped' = skipped \cup {g} /\ UNCHANGED loading
         ELSE skipped' = skipped \ {g} /\ loading' = Calls(path, g)
  BY <1>0 DEF FileChanged, NextEvent, directories
<1>2. /\ events' \in Seq(Event) /\ Len(events') <= MaxEvents
      /\ Head(events) = events[1] /\ Head(events) \in Event
      /\ \E order : Taken(order)
      /\ \A e : (\E k \in 2..Len(events) : events[k] = e) => Reported(e)'
  BY <1>1, TailTaken DEF ConfigInv
<1>3. g \in Files /\ events[1] = FileEvent(g)
  BY <1>0, <1>1, <1>2, EventKinds
<1>4. path \in Files \cup Dirs
  BY <1>0, <1>3, ConfigAssumption DEF ConfigAssumption
<1>5. \A e : Reported(e) /\ e # FileEvent(g) => Reported(e)'
  <2> SUFFICES ASSUME NEW e, Reported(e), e # FileEvent(g)
               PROVE  Reported(e)'
    OBVIOUS
  <2>1. PICK k \in DOMAIN events : events[k] = e
    BY DEF Reported
  <2>2. k \in 2..Len(events)
    BY <1>3, <2>1, EventsWaiting DEF ConfigInv
  <2>. QED  BY <1>2, <2>1, <2>2
<1>6. /\ loading' \in Seq(Call) /\ CallsInv'
      /\ g \notin timestamp =>
           \A t \in Range(handler[path]) : CalledWith(t, g)'
  <2>1. CASE g \in timestamp
    BY <1>1, <2>1 DEF ConfigInv, ConfigTypeInv, CallsInv
  <2>2. CASE g \notin timestamp
    <3>1. ConfigTypeInv /\ loading' = Calls(path, g)
      BY <1>1, <2>2 DEF ConfigInv
    <3>2. path \in Files \cup Dirs /\ g \in Files \cup Dirs
      BY <1>3, <1>4
    <3>. QED  BY <3>1, <3>2, CallsMade DEF CalledWith
  <2>. QED  BY <2>1, <2>2
<1>7. skipped' \subseteq Files
  BY <1>1, <1>3 DEF ConfigInv, ConfigTypeInv, ConfigTypeOK
<1>8. ConfigTypeInv'
  BY <1>1, <1>2, <1>6, <1>7 DEF ConfigInv, ConfigTypeInv, ConfigTypeOK
<1>9. HandlersInv'
  BY <1>1 DEF ConfigInv, HandlersInv, Running
<1>10. \A d \in Dirs : DirEvent("there", d) # FileEvent(g)
  BY DEF DirEvent, FileEvent
<1>11. ReturnIsLast' /\ ReturnsWait'
  <2>1. ConfigTypeInv /\ ReturnIsLast /\ ReturnsWait
    BY DEF ConfigInv, ReturnsInv
  <2>. QED  BY <1>1, <1>2, <2>1, ReturnsTaken
<1>12. WatchesWait'
  <2>1. WatchesWait
    BY DEF ConfigInv, ReturnsInv
  <2>. QED  BY <1>1, <1>5, <1>10, <2>1 DEF WatchesWait, DirEvent
<1>13. NewsInv'
  <2> SUFFICES ASSUME NEW t \in Types, NEW f \in Files \ skipped', Told(t, f), Sound(f)
               PROVE  (AsWanted(t, f) \/ Called(t, f) \/ Noticed(f))'
    BY <1>1, SameTold, SameFiles DEF NewsInv
  <2>1. CASE f # g
    <3>1. f \notin skipped
      BY <1>1, <2>1
    <3>2. ~Called(t, f)
      BY <1>1 DEF Called, CalledWith
    <3>3. AsWanted(t, f) \/ Noticed(f)
      BY <3>1, <3>2 DEF ConfigInv, NewsInv
    <3>4. AsWanted(t, f) => AsWanted(t, f)'
      BY <1>1 DEF AsWanted
    <3>5. FileEvent(f) # FileEvent(g)
      BY <2>1 DEF FileEvent
    <3>6. Noticed(f) => Noticed(f)'
      BY <1>5, <1>10, <3>5 DEF Noticed, FileEvent, DirEvent
    <3>. QED  BY <3>3, <3>4, <3>6
  <2>2. CASE f = g
    <3>1. g \notin timestamp
      BY <1>1, <2>2
    <3>2. PathOf[t] = path
      <4>1. CASE PathOf[t] = f /\ DirOf[f] = Base
        BY <1>0, <2>2, <4>1
      <4>2. CASE PathOf[t] = DirOf[f] /\ DirOf[f] \in Dirs
        <5>1. DirOf[g] # Base
          BY <2>2, <4>2, ConfigAssumption DEF ConfigAssumption
        <5>2. ASSUME handler[g] # << >>  PROVE FALSE
          <6>1. PICK u \in Types : PathOf[u] = g
            BY <1>3, <5>2, HandlersOwn DEF ConfigInv, ConfigTypeInv, ConfigTypeOK
          <6>. QED  BY <1>3, <5>1, <6>1, ConfigAssumption DEF ConfigAssumption
        <5>. QED  BY <1>0, <2>2, <4>2, <5>1, <5>2
      <4>. QED  BY <4>1, <4>2, ToldOf DEF ConfigInv
    <3>3. t \in Range(handler[path])
      BY <3>2 DEF Told
    <3>. QED  BY <1>6, <2>2, <3>1, <3>3 DEF Called, CalledWith
  <2>. QED  BY <2>1, <2>2
<1>. QED  BY <1>6, <1>8, <1>9, <1>11, <1>12, <1>13 DEF ConfigInv, ReturnsInv

(* The return of a directory: whoever is told of it is called, and it is     *)
(* watched.                                                                  *)
LEMMA DirAppearedKeeps == ASSUME ConfigInv, DirAppeared  PROVE ConfigInv'
<1>0. PICK g : g = Head(events).of
  OBVIOUS
<1>1. /\ Running /\ loading = << >> /\ events # << >> /\ Head(events).what = "there"
      /\ events' = Tail(events)
      /\ UNCHANGED <<loaded, handler, timestamp, disk, place, config>>
      /\ IF handler[g] # << >>
         THEN /\ watchPath' = watchPath \cup {g}
              /\ loading' = Calls(g, g)
              /\ skipped' = skipped \ InDir(g)
         ELSE UNCHANGED <<watchPath, loading, skipped>>
  BY <1>0 DEF DirAppeared, NextEvent, outside
<1>2. /\ events' \in Seq(Event) /\ Len(events') <= MaxEvents
      /\ Head(events) = events[1] /\ Head(events) \in Event
      /\ \E order : Taken(order)
      /\ \A e : (\E k \in 2..Len(events) : events[k] = e) => Reported(e)'
  BY <1>1, TailTaken DEF ConfigInv
<1>3. g \in Dirs /\ events[1] = DirEvent("there", g)
  BY <1>0, <1>1, <1>2, EventKinds
<1>5. \A e : Reported(e) /\ e # DirEvent("there", g) => Reported(e)'
  <2> SUFFICES ASSUME NEW e, Reported(e), e # DirEvent("there", g)
               PROVE  Reported(e)'
    OBVIOUS
  <2>1. PICK k \in DOMAIN events : events[k] = e
    BY DEF Reported
  <2>2. k \in 2..Len(events)
    BY <1>3, <2>1, EventsWaiting DEF ConfigInv
  <2>. QED  BY <1>2, <2>1, <2>2
<1>6. /\ loading' \in Seq(Call) /\ CallsInv'
      /\ handler[g] # << >> =>
           \A t \in Range(handler[g]) : CalledWith(t, g)'
  <2>1. CASE handler[g] = << >>
    BY <1>1, <2>1 DEF ConfigInv, ConfigTypeInv, CallsInv
  <2>2. CASE handler[g] # << >>
    <3>1. ConfigTypeInv /\ loading' = Calls(g, g)
      BY <1>1, <2>2 DEF ConfigInv
    <3>2. g \in Files \cup Dirs /\ g \in Files \cup Dirs
      BY <1>3
    <3>. QED  BY <3>1, <3>2, CallsMade DEF CalledWith
  <2>. QED  BY <2>1, <2>2
<1>7. skipped' \subseteq Files /\ watchPath' \subseteq Dirs
  BY <1>1, <1>3 DEF ConfigInv, ConfigTypeInv, ConfigTypeOK
<1>8. ConfigTypeInv'
  BY <1>1, <1>2, <1>6, <1>7 DEF ConfigInv, ConfigTypeInv, ConfigTypeOK
<1>9. HandlersInv'
  BY <1>1 DEF ConfigInv, HandlersInv, Running
<1>10. \A d \in Dirs \ {g} : DirEvent("there", d) # DirEvent("there", g)
  BY DEF DirEvent
<1>11. ReturnIsLast' /\ ReturnsWait'
  <2>1. ConfigTypeInv /\ ReturnIsLast /\ ReturnsWait
    BY DEF ConfigInv, ReturnsInv
  <2>. QED  BY <1>1, <1>2, <2>1, ReturnsTaken
<1>12. WatchesWait'
  <2> SUFFICES ASSUME NEW d \in Dirs, place[d] = "there", d \notin watchPath', handler[d] # << >>
               PROVE  Reported(DirEvent("there", d))'
    BY <1>1 DEF WatchesWait, DirEvent
  <2>1. d # g /\ d \notin watchPath
    BY <1>1
  <2>2. Reported(DirEvent("there", d))
    BY <2>1 DEF ConfigInv, ReturnsInv, WatchesWait
  <2>. QED  BY <1>5, <1>10, <2>1, <2>2
<1>13. NewsInv'
  <2> SUFFICES ASSUME NEW t \in Types, NEW f \in Files \ skipped', Told(t, f), Sound(f)
               PROVE  (AsWanted(t, f) \/ Called(t, f) \/ Noticed(f))'
    BY <1>1, SameTold, SameFiles DEF NewsInv
  <2>1. CASE DirOf[f] # g
    <3>1. f \notin skipped
      BY <1>1, <2>1 DEF InDir
    <3>2. ~Called(t, f)
      BY <1>1 DEF Called, CalledWith
    <3>3. AsWanted(t, f) \/ Noticed(f)
      BY <3>1, <3>2 DEF ConfigInv, NewsInv
    <3>4. AsWanted(t, f) => AsWanted(t, f)'
      BY <1>1 DEF AsWanted
    <3>5. FileEvent(f) # DirEvent("there", g)
      BY DEF FileEvent, DirEvent
    <3>6. Noticed(f) => Noticed(f)'
      BY <1>5, <1>10, <2>1, <3>5 DEF Noticed, FileEvent, DirEvent
    <3>. QED  BY <3>3, <3>4, <3>6
  <2>2. CASE DirOf[f] = g
    <3>1. PathOf[t] = g /\ handler[g] # << >>
      BY <1>3, <2>2, ToldOf, ConfigAssumption DEF ConfigAssumption, ConfigInv
    <3>2. t \in Range(handler[g])
      BY <3>1 DEF Told
    <3>. QED  BY <1>3, <1>6, <2>2, <3>1, <3>2 DEF Called, CalledWith
  <2>. QED  BY <2>1, <2>2
<1>. QED  BY <1>6, <1>8, <1>9, <1>11, <1>12, <1>13 DEF ConfigInv, ReturnsInv

(* The departure of a directory: if it is there again, its return waits, and *)
(* that is enough for all that is forgotten with the watch.                  *)
LEMMA DirMovedKeeps == ASSUME ConfigInv, DirMoved  PROVE ConfigInv'
<1>. DEFINE g == Head(events).of
<1>1. /\ Running /\ loading = << >> /\ events # << >> /\ Head(events).what = "moved"
      /\ watchPath' = watchPath \ {g}
      /\ UNCHANGED <<loaded, handler, timestamp, loading, disk, place, config, skipped>>
  BY DEF DirMoved, NextEvent, outside
<1>2. /\ events' \in Seq(Event) /\ Len(events') <= MaxEvents
      /\ Head(events) = events[1] /\ Head(events) \in Event
      /\ \E order : Taken(order)
      /\ \A e : (\E k \in 2..Len(events) : events[k] = e) /\ (g \notin watchPath \/ e.of \notin InDir(g))
                  => Reported(e)'
  BY MovedTaken DEF ConfigInv
<1>3. g \in Dirs /\ events[1] = DirEvent("moved", g)
  BY <1>1, <1>2, EventKinds
<1>. HIDE DEF g
<1>4. \A e : Reported(e) /\ e # DirEvent("moved", g) /\ e.of \notin InDir(g) => Reported(e)'
  <2> SUFFICES ASSUME NEW e, Reported(e), e # DirEvent("moved", g), e.of \notin InDir(g)
               PROVE  Reported(e)'
    OBVIOUS
  <2>1. PICK k \in DOMAIN events : events[k] = e
    BY DEF Reported
  <2>2. k \in 2..Len(events)
    BY <1>3, <2>1, EventsWaiting DEF ConfigInv
  <2>. QED  BY <1>2, <2>1, <2>2
<1>5. \A d \in Dirs : /\ DirEvent("there", d) # DirEvent("moved", g)
                      /\ DirEvent("there", d).of \notin InDir(g)
  BY ConfigAssumption DEF ConfigAssumption, DirEvent, InDir
<1>6. ConfigTypeInv'
  BY <1>1, <1>2 DEF ConfigInv, ConfigTypeInv, ConfigTypeOK
<1>7. HandlersInv' /\ CallsInv'
  BY <1>1 DEF ConfigInv, HandlersInv, CallsInv, Running
<1>8. \A d \in Dirs : Reported(DirEvent("there", d)) => Reported(DirEvent("there", d))'
  BY <1>4, <1>5 DEF DirEvent
<1>9. \A d \in Dirs : (\E k \in 2..Len(events) : events[k] = DirEvent("there", d)) =>
                         Reported(DirEvent("there", d))'
  BY <1>8, EventsWaiting DEF ConfigInv, Reported
<1>10. ReturnIsLast' /\ ReturnsWait'
  <2>1. ConfigTypeInv /\ ReturnIsLast /\ ReturnsWait
    BY DEF ConfigInv, ReturnsInv
  <2>. QED  BY <1>1, <1>2, <1>9, <2>1, ReturnsTaken
<1>11. place[g] = "there" => Reported(DirEvent("there", g))
  <2>1. 1 \in DOMAIN events /\ events[1].what # "file" /\ events[1].of = g
    BY <1>1, <1>2, <1>3, EventsWaiting DEF ConfigInv, ConfigTypeInv, DirEvent
  <2>. QED  BY <1>3, <2>1 DEF ConfigInv, ReturnsInv, ReturnsWait
<1>12. WatchesWait'
  <2> SUFFICES ASSUME NEW d \in Dirs, place[d] = "there", d \notin watchPath', handler[d] # << >>
               PROVE  Reported(DirEvent("there", d))
    BY <1>1, <1>8 DEF WatchesWait, DirEvent
  <2>1. CASE d = g
    BY <1>11, <2>1
  <2>2. CASE d # g
    BY <1>1, <2>2 DEF ConfigInv, ReturnsInv, WatchesWait
  <2>. QED  BY <2>1, <2>2
<1>13. NewsInv'
  <2> SUFFICES ASSUME NEW t \in Types, NEW f \in Files \ skipped, Told(t, f), Sound(f)
               PROVE  (AsWanted(t, f) \/ Called(t, f) \/ Noticed(f))'
    BY <1>1, SameTold, SameFiles DEF NewsInv
  <2>1. CASE DirOf[f] = g
    <3>1. place[g] = "there"
      BY <1>3, <2>1, ConfigAssumption DEF ConfigAssumption, Sound, Present, Standing
    <3>. QED  BY <1>3, <1>8, <1>11, <2>1, <3>1 DEF Noticed, DirEvent
  <2>2. CASE DirOf[f] # g
    <3>1. AsWanted(t, f) \/ Noticed(f)
      BY <1>1 DEF ConfigInv, NewsInv, Called, CalledWith, CalledWith
    <3>2. AsWanted(t, f) => AsWanted(t, f)'
      BY <1>1 DEF AsWanted
    <3>3. FileEvent(f) # DirEvent("moved", g) /\ FileEvent(f).of \notin InDir(g)
      BY <2>2 DEF FileEvent, DirEvent, InDir
    <3>4. Noticed(f) => Noticed(f)'
      BY <1>4, <1>8, <3>3 DEF Noticed, FileEvent, DirEvent
    <3>. QED  BY <3>1, <3>2, <3>4
  <2>. QED  BY <2>1, <2>2
<1>. QED  BY <1>6, <1>7, <1>10, <1>12, <1>13 DEF ConfigInv, ReturnsInv

LEMMA DirDeletedKeeps == ASSUME ConfigInv, DirDeleted  PROVE ConfigInv'
<1>1. /\ Running /\ loading = << >> /\ events # << >> /\ Head(events).what = "deleted"
      /\ events' = Tail(events)
      /\ UNCHANGED <<loaded, handler, watchPath, timestamp, loading, disk, place, config, skipped>>
  BY DEF DirDeleted, NextEvent, outside
<1>2. /\ events' \in Seq(Event) /\ Len(events') <= MaxEvents
      /\ Head(events) = events[1] /\ Head(events) \in Event
      /\ \E order : Taken(order)
      /\ \A e : (\E k \in 2..Len(events) : events[k] = e) => Reported(e)'
  BY <1>1, TailTaken DEF ConfigInv
<1>3. ConfigTypeInv /\ HandlersInv /\ CallsInv /\ ReturnIsLast /\ ReturnsWait /\ WatchesWait
  BY DEF ConfigInv, ReturnsInv
<1>4. \A e : Reported(e) /\ e.what # "deleted" => Reported(e)'
  <2> SUFFICES ASSUME NEW e, Reported(e), e.what # "deleted"
               PROVE  Reported(e)'
    OBVIOUS
  <2>1. PICK k \in DOMAIN events : events[k] = e
    BY DEF Reported
  <2>2. k \in 2..Len(events)
    BY <1>1, <1>2, <1>3, <2>1, EventsWaiting
  <2>. QED  BY <1>2, <2>1, <2>2
<1>5. /\ \A d \in Dirs : Reported(DirEvent("there", d)) => Reported(DirEvent("there", d))'
      /\ \A f \in Files : Reported(FileEvent(f)) => Reported(FileEvent(f))'
  BY <1>4 DEF DirEvent, FileEvent
<1>6. ConfigTypeInv'
  BY <1>1, <1>2, <1>3 DEF ConfigTypeInv, ConfigTypeOK
<1>7. HandlersInv' /\ CallsInv'
  BY <1>1, <1>3 DEF HandlersInv, CallsInv, Running
<1>8. ReturnIsLast' /\ ReturnsWait'
  BY <1>1, <1>2, <1>3, ReturnsTaken
<1>9. WatchesWait'
  BY <1>1, <1>3, <1>5 DEF WatchesWait, DirEvent
<1>10. NewsInv'
  <2> SUFFICES ASSUME NEW t \in Types, NEW f \in Files \ skipped, Told(t, f), Sound(f)
               PROVE  (AsWanted(t, f) \/ Called(t, f) \/ Noticed(f))'
    BY <1>1, SameTold, SameFiles DEF NewsInv
  <2>1. AsWanted(t, f) \/ Called(t, f) \/ Noticed(f)
    BY DEF ConfigInv, NewsInv
  <2>2. AsWanted(t, f) => AsWanted(t, f)'
    BY <1>1 DEF AsWanted
  <2>3. Called(t, f) => Called(t, f)'
    BY <1>1 DEF Called, CalledWith
  <2>4. Noticed(f) => Noticed(f)'
    BY <1>5 DEF Noticed, FileEvent, DirEvent
  <2>. QED  BY <2>1, <2>2, <2>3, <2>4
<1>. QED  BY <1>6, <1>7, <1>8, <1>9, <1>10 DEF ConfigInv, ReturnsInv

(* A handler is called: it uses what is on the disk, or refuses it, which    *)
(* ends the calls for a file that is not sound, or passes a directory over.  *)
LEMMA LoadsKeep == ASSUME ConfigInv, Load  PROVE ConfigInv'
<1>1. PICK refused, call :
        /\ refused \in BOOLEAN /\ call = Head(loading)
        /\ loading' = IF refused THEN << >> ELSE Tail(loading)
        /\ LoadsInto(call.type, call.load, refused)
        /\ skipped' = skipped \cup IF refused /\ call.load \in Dirs THEN InDir(call.load) ELSE {}
  BY DEF Load, LoadsInto
<1>2. loading # << >> /\ UNCHANGED <<loaded, handler, watchPath, events, disk, place>>
  BY DEF Load, outside
<1>3. ConfigTypeInv /\ HandlersInv /\ CallsInv /\ ReturnIsLast /\ ReturnsWait /\ WatchesWait
  BY DEF ConfigInv, ReturnsInv
<1>4. /\ loading \in Seq(Call) /\ call \in Call /\ call = loading[1] /\ 1 \in DOMAIN loading
      /\ DOMAIN loading = 1..Len(loading) /\ Len(loading) \in Nat
      /\ \A k \in DOMAIN loading : loading[k] \in Call
  BY <1>1, <1>2, <1>3 DEF ConfigTypeInv
<1>5. call.type \in Types /\ call.load \in Files \cup Dirs
  BY <1>4 DEF Call
<1>6. /\ timestamp' \subseteq Files
      /\ config' \in [Types -> [Files -> 0..MaxVersion]]
      /\ \A u \in Types, f \in Files : AsWanted(u, f) => AsWanted(u, f)'
      /\ \A f \in Files :
           Sound(f) /\ (call.load = f \/ (call.load \in Dirs /\ call.load = DirOf[f])) =>
              IF refused THEN call.load \in Dirs ELSE AsWanted(call.type, f)'
  BY <1>1, <1>2, <1>3, <1>5, LoadKeeps
<1>7. /\ loading' \in Seq(Call)
      /\ \A k \in DOMAIN loading' : k + 1 \in DOMAIN loading /\ loading'[k] = loading[k + 1]
      /\ ~refused => \A k \in DOMAIN loading : k = 1 \/ (k - 1 \in DOMAIN loading' /\ loading'[k - 1] = loading[k])
  BY <1>1, <1>2, <1>4
<1>8. skipped' \subseteq Files /\ skipped \subseteq skipped'
  BY <1>1, <1>3 DEF ConfigTypeInv, ConfigTypeOK, InDir
<1>9. ConfigTypeInv'
  BY <1>2, <1>3, <1>6, <1>7, <1>8 DEF ConfigTypeInv, ConfigTypeOK
<1>10. HandlersInv'
  <2>1. Running
    BY <1>2, <1>3 DEF HandlersInv
  <2>. QED  BY <1>2, <1>3, <2>1 DEF HandlersInv, Running
<1>11. CallsInv'
  BY <1>3, <1>7 DEF CallsInv
<1>12. ReturnsInv'
  BY <1>2, <1>3 DEF ReturnsInv, ReturnIsLast, ReturnsWait, WatchesWait, Reported, DirEvent
<1>13. NewsInv'
  <2> SUFFICES ASSUME NEW t \in Types, NEW f \in Files \ skipped', Told(t, f), Sound(f)
               PROVE  (AsWanted(t, f) \/ Called(t, f) \/ Noticed(f))'
    BY <1>2, SameTold, SameFiles DEF NewsInv
  <2>1. AsWanted(t, f) \/ Called(t, f) \/ Noticed(f)
    BY <1>8 DEF ConfigInv, NewsInv
  <2>2. Noticed(f) => Noticed(f)'
    BY <1>2 DEF Noticed, Reported, FileEvent, DirEvent
  <2>3. ASSUME Called(t, f)
        PROVE  (AsWanted(t, f) \/ Called(t, f))'
    <3>1. PICK k \in DOMAIN loading :
            /\ loading[k].type = t
            /\ loading[k].load = f \/ (DirOf[f] \in Dirs /\ loading[k].load = DirOf[f])
      BY <2>3 DEF Called, CalledWith
    <3>2. call.load = loading[k].load
      BY <1>3, <1>4, <3>1 DEF CallsInv
    <3>3. call.load = f \/ (call.load \in Dirs /\ call.load = DirOf[f])
      BY <3>1, <3>2
    <3>4. ~refused
      BY <1>1, <1>6, <3>3, ConfigAssumption DEF ConfigAssumption, InDir
    <3>5. CASE k = 1
      <4>1. call.type = t
        BY <1>4, <3>1, <3>5
      <4>. QED  BY <1>6, <3>3, <3>4, <4>1
    <3>6. CASE k # 1
      <4>1. k - 1 \in DOMAIN loading' /\ loading'[k - 1] = loading[k]
        BY <1>7, <3>4, <3>6
      <4>. QED  BY <3>1, <4>1 DEF Called, CalledWith
    <3>. QED  BY <3>5, <3>6
  <2>. QED  BY <1>6, <2>1, <2>2, <2>3
<1>. QED  BY <1>9, <1>10, <1>11, <1>12, <1>13 DEF ConfigInv

LEMMA ConfigInits == Init => ConfigInv
<1>. SUFFICES ASSUME Init  PROVE ConfigInv
  OBVIOUS
<1>1. ConfigInit
  BY DEF Init
<1>2. ConfigTypeInv
  BY <1>1, ConfigAssumption
  DEF ConfigAssumption, ConfigInit, ConfigTypeInv, ConfigTypeOK
<1>3. HandlersInv /\ CallsInv /\ ReturnsInv
  BY <1>1 DEF ConfigInit, HandlersInv, CallsInv, ReturnsInv, ReturnIsLast, ReturnsWait, WatchesWait
<1>4. NewsInv
  <2>1. ASSUME NEW t \in Types, NEW f \in Files  PROVE ~Told(t, f)
    <3>1. handler[PathOf[t]] = << >>
      BY <1>1, ConfigAssumption DEF ConfigAssumption, ConfigInit
    <3>. QED  BY <3>1 DEF Told, Range
  <2>. QED  BY <1>1, <2>1 DEF NewsInv, ConfigInit
<1>. QED  BY <1>2, <1>3, <1>4 DEF ConfigInv

LEMMA ConfigKeeps == ConfigInv /\ [Next]_vars => ConfigInv'
<1>. SUFFICES ASSUME ConfigInv, [Next]_vars  PROVE ConfigInv'
  OBVIOUS
<1>1. ConfigNext \/ UNCHANGED configVars
  BY ConfigSteps
<1>2. ASSUME NEW t \in Types, Register(t)  PROVE ConfigInv'
  BY <1>2, RegisterKeeps
<1>3. ASSUME NEW f \in Files, Truncate(f) \/ Write(f) \/ SaveConfiguration(f)  PROVE ConfigInv'
  <2>1. PICK state \in {"whole", "cut"} : Change(f, state)
    BY <1>3 DEF Truncate, Write, SaveConfiguration
  <2>. QED  BY <2>1, ChangeKeeps
<1>4. ASSUME NEW d \in Dirs, NEW how \in {"moved", "deleted"}, TakeAway(d, how)  PROVE ConfigInv'
  BY <1>4, TakeAwayKeeps
<1>5. ASSUME NEW d \in Dirs, Return(d)  PROVE ConfigInv'
  BY <1>5, ReturnKeeps
<1>6. CASE UNCHANGED configVars
  <2>1. /\ UNCHANGED <<loaded, handler, watchPath, timestamp, events, loading>>
        /\ UNCHANGED <<disk, place, config, skipped>>
    BY <1>6 DEF configVars
  <2>2. ConfigTypeInv /\ HandlersInv /\ CallsInv /\ ReturnsInv /\ NewsInv
    BY DEF ConfigInv
  <2>3. ConfigTypeInv' /\ HandlersInv' /\ CallsInv'
    BY <2>1, <2>2 DEF ConfigTypeInv, ConfigTypeOK, HandlersInv, CallsInv, Running
  <2>4. ReturnsInv'
    BY <2>1, <2>2 DEF ReturnsInv, ReturnIsLast, ReturnsWait, WatchesWait, Reported, DirEvent
  <2>5. NewsInv'
    <3> SUFFICES ASSUME NEW t \in Types, NEW f \in Files \ skipped, Told(t, f), Sound(f)
                 PROVE  (AsWanted(t, f) \/ Called(t, f) \/ Noticed(f))'
      BY <2>1, SameTold, SameFiles DEF NewsInv
    <3>1. AsWanted(t, f) \/ Called(t, f) \/ Noticed(f)
      BY <2>2 DEF NewsInv
    <3>. QED  BY <2>1, <3>1 DEF AsWanted, Called, CalledWith, Noticed, Reported, FileEvent, DirEvent
  <2>. QED  BY <2>3, <2>4, <2>5 DEF ConfigInv
<1>. QED  BY <1>1, <1>2, <1>3, <1>4, <1>5, <1>6, SecondKeeps, FileChangedKeeps, DirAppearedKeeps,
             DirMovedKeeps, DirDeletedKeeps, LoadsKeep, Zenon DEF ConfigNext

LEMMA NewsFollow == ConfigInv => StaleOnlyIfSkipped
<1>. SUFFICES ASSUME NewsInv, AtRest, NEW t \in Types, NEW f \in Files \ skipped,
                     Told(t, f), Sound(f)
              PROVE  AsWanted(t, f)
  BY DEF ConfigInv, StaleOnlyIfSkipped, AsWanted
<1>1. AsWanted(t, f) \/ Called(t, f) \/ Noticed(f)
  BY DEF NewsInv
<1>2. ~Called(t, f) /\ ~Noticed(f)
  BY DEF AtRest, Called, CalledWith, Noticed, Reported
<1>. QED  BY <1>1, <1>2

(* However changes, moves and returns of directories, refused files and the  *)
(* calls of handlers follow each other, a reactor at rest uses what is on    *)
(* the disk unless a change was passed over: for any files, directories,     *)
(* reactors and any number of waiting events                                 *)
(* (ConfigSystem.cpp:79, 167, 178, 201, 222).                                *)
THEOREM NewsAlwaysArrive == Spec => []StaleOnlyIfSkipped
BY ConfigInits, ConfigKeeps, NewsFollow, PTL DEF Spec
-----------------------------------------------------------------------------
(* The boat's mission. Paths and tasks are looked up in both orders, so the  *)
(* mission must have a j-th path in its i-th task whenever it has an i-th in *)
(* its j-th, as the triangular ones of the configuration do. Nothing is      *)
(* asked of the lengths of the paths.                                        *)
Symmetric ==
  \A m \in Missions : \A i \in 1..Len(m) : \A j \in 1..Len(m[i]) :
    j <= Len(m) /\ i <= Len(m[j])

MissionInv ==
  /\ task_paths \in Missions /\ current_task \in Nat /\ current_path \in Nat
  /\ Exists(current_task, current_path)
  /\ ended => Points(current_task, current_path) > Points(current_path, current_task)
  /\ CurrentTask = current_task \/ current_task = 0

LEMMA MissionShape ==
  ASSUME NEW m \in Missions
  PROVE  /\ Len(m) \in Nat /\ Len(m) > 0
         /\ \A i \in 1..Len(m) :
              /\ m[i] \in Seq(Nat) /\ Len(m[i]) \in Nat /\ Len(m[i]) > 0
              /\ \A j \in 1..Len(m[i]) : m[i][j] \in Nat
<1>1. m \in Seq(Seq(Nat \ {0}) \ {<< >>}) /\ m # << >>
  BY BoatAssumption DEF BoatAssumption
<1>2. ASSUME NEW i \in 1..Len(m)
      PROVE  /\ m[i] \in Seq(Nat) /\ Len(m[i]) \in Nat /\ Len(m[i]) > 0
             /\ \A j \in 1..Len(m[i]) : m[i][j] \in Nat
  <2>1. m[i] \in Seq(Nat \ {0}) /\ m[i] # << >>
    BY <1>1
  <2>. QED  BY <2>1
<1>. QED  BY <1>1, <1>2

(* The path at the exchanged place exists too.                               *)
LEMMA Exchanged ==
  ASSUME Symmetric, task_paths \in Missions,
         NEW task \in Nat, NEW path \in Nat, Exists(task, path)
  PROVE  Exists(path, task)
<1>1. task + 1 \in 1..Len(task_paths) /\ path + 1 \in 1..Len(task_paths[task + 1])
  BY MissionShape DEF Exists
<1>2. path + 1 <= Len(task_paths) /\ task + 1 <= Len(task_paths[path + 1])
  BY <1>1 DEF Symmetric
<1>3. path + 1 \in 1..Len(task_paths) /\ Len(task_paths[path + 1]) \in Nat
  BY <1>1, <1>2, MissionShape
<1>. QED  BY <1>1, <1>2, <1>3, MissionShape DEF Exists

LEMMA MissionKeeps ==
  ASSUME Symmetric, MissionInv, MissionNext
  PROVE  MissionInv'
<1>. DEFINE m == task_paths
<1>0. /\ m \in Missions /\ Len(m) \in Nat /\ Len(m) > 0
      /\ \A i \in 1..Len(m) : Len(m[i]) \in Nat /\ Len(m[i]) > 0
      /\ current_task \in 0..(Len(m) - 1) /\ current_task + 1 \in 1..Len(m)
      /\ current_path \in Nat /\ current_path < Len(m[current_task + 1])
      /\ Exists(current_task, current_path)
  BY MissionShape DEF MissionInv, Exists
<1>1. CASE UNCHANGED <<task_paths, current_task, current_path, CurrentTask, ended>>
  BY <1>1 DEF MissionInv, Exists, Points
<1>2. CASE StartAgain
  <2>1. /\ current_task' = 0 /\ UNCHANGED <<task_paths, current_path, CurrentTask>>
        /\ ~ended /\ ended' = ended
    BY <1>2 DEF StartAgain
  (* The path is kept: the first task has it.                                *)
  <2>2. Exists(current_path, current_task)
    BY <1>0, Exchanged
  <2>3. Exists(current_path, 0)
    BY <1>0, <2>2, MissionShape DEF Exists
  <2>4. Exists(0, current_path)
    BY <1>0, <2>3, Exchanged
  <2>. QED  BY <1>0, <2>1, <2>4 DEF MissionInv, Exists
<1>3. ASSUME NEW goal \in goalReached, NextPath(goal)  PROVE MissionInv'
  <2>. DEFINE last == current_path + 1 >= Len(m[current_task + 1])
              next == (current_task + 1) % Len(m)
  <2>1. /\ current_path' = IF last THEN 0 ELSE current_path + 1
        /\ current_task' = IF last THEN next ELSE current_task
        /\ CurrentTask' = IF last THEN next ELSE CurrentTask
        /\ task_paths' = m /\ ~ended /\ ended' = ended
    BY <1>3 DEF NextPath
  <2>2. next \in 0..(Len(m) - 1)
    BY <1>0
  <2>. HIDE DEF next
  <2>3. CASE last
    <3>1. next + 1 \in 1..Len(m)
      BY <1>0, <2>2
    <3>2. Exists(next, 0)
      BY <1>0, <2>2, <3>1 DEF Exists
    <3>. QED  BY <1>0, <2>1, <2>2, <2>3, <3>2 DEF MissionInv, Exists
  <2>4. CASE ~last
    BY <1>0, <2>1, <2>4 DEF MissionInv, Exists
  <2>. QED  BY <2>3, <2>4
(* The program ends only where the goal cannot be read.                      *)
<1>4. ASSUME NEW goal \in goalReached, EndProgram(goal)  PROVE MissionInv'
  <2>1. ~GoalIsRead /\ UNCHANGED <<task_paths, current_task, current_path, CurrentTask>>
    BY <1>4 DEF EndProgram, goalReached
  <2>2. Exists(current_path, current_task)
    BY <1>0, Exchanged
  <2>3. /\ Points(current_task, current_path) \in Nat
        /\ Points(current_path, current_task) \in Nat
    <3>1. ASSUME NEW t \in Nat, NEW p \in Nat, Exists(t, p)  PROVE Points(t, p) \in Nat
      <4>1. t + 1 \in 1..Len(m)
        BY <1>0, <3>1 DEF Exists
      <4>2. p + 1 \in 1..Len(m[t + 1])
        BY <1>0, <3>1, <4>1 DEF Exists
      <4>. QED  BY <1>0, <4>1, <4>2, MissionShape DEF Points
    <3>. QED  BY <1>0, <2>2, <3>1
  <2>4. Points(current_task, current_path) > Points(current_path, current_task)
    BY <1>0, <2>1, <2>2, <2>3 DEF GoalIsRead
  <2>. QED  BY <1>0, <2>1, <2>4 DEF MissionInv, Exists, Points
<1>. QED
  BY <1>1, <1>2, <1>3, <1>4 DEF MissionNext, AutonomousMode, TimePasses, FollowPath

(* Phases under manual control, timeouts and reached goals, in any order,    *)
(* leave the mission on a path that exists, and so does the one goalReached  *)
(* looks up with task and path exchanged: for every symmetric mission. The   *)
(* column that is looked up may not exist: the program can end there, and    *)
(* only where that path has fewer points than the one in work                *)
(* (Behaviour.cpp:121, 129, 133, 147, 155).                                  *)
THEOREM MissionsStayOnTrack ==
  ASSUME Symmetric
  PROVE  Spec => []MissionOnTrack
<1>1. Init => MissionInv
  <2>. SUFFICES ASSUME MissionInit  PROVE MissionInv
    BY DEF Init
  <2>1. /\ task_paths \in Missions /\ current_task = 0 /\ current_path = 0
        /\ CurrentTask = 0 /\ ended = FALSE
    BY DEF MissionInit
  <2>2. 1 \in 1..Len(task_paths)
    BY <2>1, MissionShape
  <2>3. Exists(0, 0)
    BY <2>1, <2>2, MissionShape DEF Exists
  <2>. QED  BY <2>1, <2>3 DEF MissionInv
<1>2. MissionInv /\ [Next]_vars => MissionInv'
  <2>. SUFFICES ASSUME MissionInv, [Next]_vars  PROVE MissionInv'
    OBVIOUS
  <2>1. MissionNext \/ UNCHANGED missionVars
    BY DEF Next, vars, ServoLoop, BusLoop, Reading, Link, Timer, Turn
  <2>2. CASE UNCHANGED missionVars
    BY <2>2 DEF missionVars, MissionInv, Exists, Points
  <2>. QED  BY <2>1, <2>2, MissionKeeps
<1>3. MissionInv => MissionOnTrack
  BY Exchanged DEF MissionInv, MissionOnTrack
<1>. QED  BY <1>1, <1>2, <1>3, PTL DEF Spec
-----------------------------------------------------------------------------
(* The bulk read. The request keeps naming every device.                     *)
Named == {bulkReadCommand[i] : i \in DOMAIN bulkReadCommand}
RequestInv == bulkReadCommand \in Seq(Devices) /\ Named = Devices

LEMMA RequestBuilt == bulkReadCommand \in SetToSeqs(Devices) => RequestInv
<1>. SUFFICES ASSUME bulkReadCommand \in SetToSeqs(Devices)  PROVE RequestInv
  OBVIOUS
<1>. DEFINE n == Cardinality(Devices)
<1>1. n \in Nat /\ IsFiniteSet(Devices)
  BY DarwinAssumption, FS_CardinalityType DEF DarwinAssumption
<1>2. bulkReadCommand \in Injection(1..n, Devices) /\ DOMAIN bulkReadCommand = 1..n
  BY DEF SetToSeqs, Injection, IsInjective
<1>3. Cardinality(1..n) = n
  BY <1>1, FS_Interval
<1>4. bulkReadCommand \in Surjection(1..n, Devices)
  BY <1>1, <1>2, <1>3, FS_Injection
<1>. HIDE DEF n
<1>5. Named = Devices
  BY <1>2, <1>4 DEF Surjection, Named
<1>6. bulkReadCommand \in Seq(Devices)
  BY <1>1, <1>4 DEF Surjection
<1>. QED  BY <1>5, <1>6 DEF RequestInv

(* A device that is moved to the end is still named.                         *)
LEMMA RequestKept ==
  ASSUME RequestInv, NEW results, DOMAIN results = DOMAIN bulkReadCommand,
         bulkReadCommand' = Reordered(results), Len(results) = Len(bulkReadCommand)
  PROVE  RequestInv' /\ Len(bulkReadCommand') = Len(bulkReadCommand)
<1>. DEFINE empty == {i \in DOMAIN results : results[i].result.data = "empty"}
            first == Least(empty)
            rest == RemoveAt(bulkReadCommand, first)
<1>0. bulkReadCommand \in Seq(Devices) /\ Named = Devices /\ Len(bulkReadCommand) \in Nat
      /\ DOMAIN bulkReadCommand = 1..Len(bulkReadCommand)
  BY DEF RequestInv
<1>1. CASE bulkReadCommand' = bulkReadCommand
  BY <1>0, <1>1 DEF RequestInv, Named
<1>2. CASE empty # {} /\ bulkReadCommand' = Append(rest, bulkReadCommand[first])
  <2>1. empty \in SUBSET Nat
    BY <1>0
  <2>2. first \in empty
    <3>. HIDE DEF empty
    <3>. QED  BY <1>2, <2>1, LeastInSet
  <2>3. first \in 1..Len(bulkReadCommand) /\ bulkReadCommand[first] \in Devices
    BY <1>0, <2>2
  <2>. HIDE DEF first
  <2>4. /\ rest \in Seq(Devices) /\ Len(rest) = Len(bulkReadCommand) - 1
        /\ \A k \in 1..(Len(bulkReadCommand) - 1) :
             rest[k] = IF k < first THEN bulkReadCommand[k] ELSE bulkReadCommand[k + 1]
    BY <1>0, <2>3, Removal
  <2>. HIDE DEF rest
  <2>5. /\ bulkReadCommand' \in Seq(Devices) /\ Len(bulkReadCommand') = Len(bulkReadCommand)
        /\ bulkReadCommand'[Len(bulkReadCommand)] = bulkReadCommand[first]
        /\ \A k \in 1..(Len(bulkReadCommand) - 1) : bulkReadCommand'[k] = rest[k]
    <3>. DEFINE new == Append(rest, bulkReadCommand[first])
    <3>1. /\ new \in Seq(Devices) /\ Len(new) = Len(rest) + 1
          /\ new[Len(rest) + 1] = bulkReadCommand[first]
          /\ \A k \in 1..Len(rest) : new[k] = rest[k]
      <4>1. ASSUME NEW S, NEW t \in Seq(S), NEW e \in S
            PROVE  /\ Append(t, e) \in Seq(S) /\ Len(Append(t, e)) = Len(t) + 1
                   /\ Append(t, e)[Len(t) + 1] = e
                   /\ \A k \in 1..Len(t) : Append(t, e)[k] = t[k]
        OBVIOUS
      <4>2. rest \in Seq(Devices) /\ bulkReadCommand[first] \in Devices
        BY <2>3, <2>4
      <4>. QED  BY <4>1, <4>2
    <3>2. bulkReadCommand' = new
      BY <1>2
    <3>3. Len(rest) + 1 = Len(bulkReadCommand)
      BY <1>0, <2>4
    <3>. HIDE DEF new
    <3>. QED  BY <2>4, <3>1, <3>2, <3>3
  <2>6. DOMAIN bulkReadCommand' = 1..Len(bulkReadCommand)
    BY <2>5
  <2>7. ASSUME NEW d \in Devices
        PROVE  \E k \in 1..Len(bulkReadCommand) : bulkReadCommand'[k] = d
    <3>1. PICK i \in 1..Len(bulkReadCommand) : bulkReadCommand[i] = d
      BY <1>0 DEF Named
    <3>2. CASE i = first
      BY <2>3, <2>5, <3>1, <3>2
    <3>3. CASE i < first
      <4>1. i \in 1..(Len(bulkReadCommand) - 1)
        BY <2>3, <3>3
      <4>. QED  BY <1>0, <2>4, <2>5, <3>1, <3>3, <4>1
    <3>4. CASE i > first
      <4>1. i - 1 \in 1..(Len(bulkReadCommand) - 1) /\ ~(i - 1 < first) /\ (i - 1) + 1 = i
        BY <2>3, <3>4
      <4>. QED  BY <1>0, <2>4, <2>5, <3>1, <4>1
    <3>. QED  BY <2>3, <3>2, <3>3, <3>4
  <2>8. \A k \in 1..Len(bulkReadCommand) : bulkReadCommand'[k] \in Devices
    BY <2>5, <2>6
  <2>9. Named' \subseteq Devices
    BY <2>6, <2>8 DEF Named
  <2>10. Devices \subseteq Named'
    BY <2>6, <2>7 DEF Named
  <2>. QED  BY <2>5, <2>9, <2>10 DEF RequestInv
<1>. QED  BY <1>1, <1>2 DEF Reordered

(* What a result says, wherever the reading stopped.                         *)
LEMMA ResultsAreHonest ==
  ASSUME RequestInv, NEW answers \in [Devices -> Answer], NEW d \in Devices
  PROVE  LET sensor == Collected(executeBulk(answers))[d]
         IN  sensor.errorcode < CORRUPT_DATA => sensor.data = "own" /\ answers[d] = "ok"
<1>. DEFINE results == executeBulk(answers)
<1>1. /\ DOMAIN results = DOMAIN bulkReadCommand
      /\ \A i \in DOMAIN bulkReadCommand :
           /\ results[i].id = bulkReadCommand[i]
           /\ results[i].result \in {readPacket(answers[bulkReadCommand[i]]),
                                     Read("empty", CORRUPT_DATA)}
  BY DEF executeBulk
<1>. HIDE DEF results
<1>2. PICK i \in DOMAIN bulkReadCommand : bulkReadCommand[i] = d
  BY DEF RequestInv, Named
<1>. DEFINE r == CHOOSE r \in Range(results) : r.id = d
<1>3. r \in Range(results) /\ r.id = d
  BY <1>1, <1>2 DEF Range
<1>. HIDE DEF r
<1>4. PICK j \in DOMAIN bulkReadCommand : r = results[j]
  BY <1>1, <1>3 DEF Range
<1>5. bulkReadCommand[j] = d
  BY <1>1, <1>3, <1>4
<1>6. Collected(results)[d] = r.result
  BY <1>1, <1>2 DEF Collected, r
<1>7. r.result \in {readPacket(answers[d]), Read("empty", CORRUPT_DATA)}
  BY <1>1, <1>4, <1>5
<1>8. answers[d] \in {"ok", "none", "partial", "unsigned", "garbled"}
  BY DEF Answer
<1>9. readPacket(answers[d]).errorcode < CORRUPT_DATA
        => readPacket(answers[d]).data = "own" /\ answers[d] = "ok"
  BY <1>8 DEF readPacket, Read, Corrupt, NONE, CORRUPT_DATA, NO_RESPONSE
<1>10. ~(Read("empty", CORRUPT_DATA).errorcode < CORRUPT_DATA)
  BY DEF Read, CORRUPT_DATA
<1>. QED  BY <1>6, <1>7, <1>9, <1>10 DEF results

(* A device is never reported as sound with bytes it did not send: for any   *)
(* devices, whichever answers fail (Darwin.cpp:164, UART.cpp:233).           *)
THEOREM ReportsAlwaysHonest == Spec => []ReportsAreHonest
<1>1. Init => RequestInv /\ ReportsAreHonest
  <2>. SUFFICES ASSUME Init  PROVE RequestInv /\ ReportsAreHonest
    OBVIOUS
  <2>1. RequestInv
    BY RequestBuilt DEF Init, DarwinInit, buildBulkReadPacket
  <2>2. ReportsAreHonest
    BY DEF Init, DarwinInit, ReportsAreHonest, Read
  <2>. QED  BY <2>1, <2>2
<1>2. RequestInv /\ ReportsAreHonest /\ [Next]_vars => (RequestInv /\ ReportsAreHonest)'
  <2>. SUFFICES ASSUME RequestInv, ReportsAreHonest, [Next]_vars
                PROVE  RequestInv' /\ ReportsAreHonest'
    OBVIOUS
  <2>1. Report \/ UNCHANGED busVars
    BY DEF Next, vars, ServoLoop, BusLoop, Reading, Link, Timer, Turn
  <2>2. CASE UNCHANGED busVars
    BY <2>2 DEF busVars, RequestInv, Named, ReportsAreHonest
  <2>3. CASE Report
    <3>1. PICK answers \in [Devices -> Answer] :
            /\ answered' = answers /\ sensors' = Collected(executeBulk(answers))
            /\ bulkReadCommand' = Reordered(executeBulk(answers))
      BY <2>3 DEF Report, bulkRead
    <3>2. /\ DOMAIN executeBulk(answers) = DOMAIN bulkReadCommand
          /\ Len(executeBulk(answers)) = Len(bulkReadCommand)
      BY DEF executeBulk, RequestInv
    <3>3. RequestInv'
      BY <3>1, <3>2, RequestKept
    <3>4. ReportsAreHonest'
      BY <3>1, ResultsAreHonest DEF ReportsAreHonest
    <3>. QED  BY <3>3, <3>4
  <2>. QED  BY <2>1, <2>2, <2>3
<1>. QED  BY <1>1, <1>2, PTL DEF Spec
-----------------------------------------------------------------------------
(* The strategy.                                                             *)
Reset(h) == <<"ResetRobotHypotheses", h>>

(* While the robot is entering, the only reset on its way is that of its     *)
(* entry, no tick is about to send another, and without one it has arrived.  *)
EntryInv ==
  entering =>
    /\ phase = "PLAYING" /\ leaf \notin {"Initial", "Set"}
    /\ \A h \in Hypotheses : Reset(h) \in inFlight => h = "entry"
    /\ Reset("entry") \in inFlight \/ hypotheses = "entry"

LEMMA StrategySteps ==
  [Next]_vars => StrategyNext \/ UNCHANGED strategyVars
BY DEF Next, vars, ServoLoop, BusLoop, Reading, Link, Timer, Turn

(* The messages a step adds and removes decide what is on its way.           *)
LEMMA ListensKeep == ASSUME EntryInv, NEW m \in inFlight, Listen(m)  PROVE EntryInv'
<1>1. CASE \/ \E w \in Walk : PlanWalk(w)
           \/ \E r, t \in FieldTarget : SelectPan(r, t)
           \/ SelfPenalisation
  <2>1. /\ UNCHANGED <<phase, leaf, hypotheses, entering>>
        /\ \A h \in Hypotheses : Reset(h) \in inFlight' <=> Reset(h) \in inFlight
    BY <1>1 DEF PlanWalk, SelectPan, SelfPenalisation, Handled, Reset, refereeVars, listenerVars
  <2>2. "entry" \in Hypotheses
    BY DEF Hypotheses
  <2>. QED  BY <2>1, <2>2 DEF EntryInv
<1>2. ASSUME NEW h \in Hypotheses, ResetHypotheses(h)  PROVE EntryInv'
  <2>1. /\ UNCHANGED <<phase, leaf, entering>> /\ hypotheses' = h
        /\ Reset(h) \in inFlight /\ inFlight' = inFlight \ {Reset(h)}
    BY <1>2 DEF ResetHypotheses, Handled, Reset, refereeVars
  <2>. QED  BY <2>1 DEF EntryInv
<1>3. CASE SelfUnpenalisation
  <2>1. /\ UNCHANGED <<phase, leaf, hypotheses>>
        /\ inFlight' = (inFlight \ {<<"Penalised", FALSE>>}) \cup {Reset("entry")}
        /\ entering' => phase = "PLAYING" /\ leaf \notin {"Initial", "Set"}
        /\ entering' => \A h \in Hypotheses : Reset(h) \notin inFlight
    BY <1>3 DEF SelfUnpenalisation, NoResetComing, Reset, refereeVars, listenerVars
  <2>2. ASSUME entering', NEW h \in Hypotheses, Reset(h) \in inFlight'  PROVE h = "entry"
    BY <2>1, <2>2 DEF Reset
  <2>. QED  BY <2>1, <2>2 DEF EntryInv
<1>. QED  BY <1>1, <1>2, <1>3 DEF Listen

LEMMA EntryKeeps == EntryInv /\ [Next]_vars => EntryInv'
<1>. SUFFICES ASSUME EntryInv, StrategyNext \/ UNCHANGED strategyVars  PROVE EntryInv'
  BY StrategySteps
<1>1. CASE UNCHANGED strategyVars
  BY <1>1 DEF EntryInv, strategyVars, refereeVars, listenerVars
<1>2. ASSUME NEW p \in scene.packets, Compare(p)  PROVE EntryInv'
  BY <1>2 DEF EntryInv, Compare, listenerVars
<1>3. CASE Publish
  <2>1. /\ UNCHANGED <<phase, leaf, hypotheses, entering>>
        /\ \A h \in Hypotheses : Reset(h) \in inFlight' <=> Reset(h) \in inFlight
    BY <1>3 DEF Publish, Reset, listenerVars
  <2>2. "entry" \in Hypotheses
    BY DEF Hypotheses
  <2>. QED  BY <2>1, <2>2 DEF EntryInv
<1>4. ASSUME NEW v \in scene.views, See(v)  PROVE EntryInv'
  BY <1>4 DEF EntryInv, See, refereeVars, listenerVars
<1>5. CASE Decide
  <2>1. UNCHANGED <<phase, inFlight, hypotheses, entering>> /\ Decides(leaf')
    BY <1>5 DEF Decide, refereeVars, listenerVars
  <2>2. phase = "PLAYING" => leaf' \notin {"Initial", "Set"}
    BY <2>1, Zenon DEF Decides
  <2>. QED  BY <2>1, <2>2 DEF EntryInv
<1>6. CASE Act
  <2>1. /\ UNCHANGED <<phase, hypotheses, entering>> /\ leaf' = "none"
        /\ inFlight' = inFlight
             \cup {<<"WalkStrategy", WalkOf(leaf)>>}
             \cup {<<"PanSelection", r, GazeOf(leaf)>> : r \in FieldTarget}
             \cup {Reset(h) : h \in ResetsOf(leaf)}
    BY <1>6 DEF Act, Reset, refereeVars, listenerVars
  <2>2. leaf \notin {"Initial", "Set"} => ResetsOf(leaf) = {}
    BY Zenon DEF ResetsOf
  <2>3. ASSUME leaf \notin {"Initial", "Set"}, NEW h
        PROVE  Reset(h) \in inFlight' <=> Reset(h) \in inFlight
    BY <2>1, <2>2, <2>3 DEF Reset
  <2>. QED  BY <2>1, <2>3 DEF EntryInv
<1>. QED  BY <1>1, <1>2, <1>3, <1>4, <1>5, <1>6, ListensKeep DEF StrategyNext

(* A robot that comes back in play is where it enters, whatever is decided,  *)
(* said and handled in between, and whatever the referee says                *)
(* (SoccerStrategy.cpp:140, 207): for any scenes and bounds.                 *)
THEOREM EntriesHold == Spec => []EntryHolds
<1>1. Init => EntryInv
  BY Zenon DEF Init, StrategyInit, EntryInv
<1>2. EntryInv => EntryHolds
  BY Zenon DEF EntryInv, EntryHolds, Reset, Hypotheses
<1>. QED  BY <1>1, <1>2, EntryKeeps, PTL DEF Spec
-----------------------------------------------------------------------------
(* The types of all of them.                                                 *)
Sensor == [data : {"own", "part", "empty", "uninitialised"}, errorcode : 0..255]

LEMMA ReadTypes ==
  /\ \A answer \in Answer : readPacket(answer) \in Sensor
  /\ Read("empty", CORRUPT_DATA) \in Sensor /\ Read("own", NONE) \in Sensor
  /\ Read("uninitialised", NONE) \in Sensor
<1>1. ASSUME NEW answer \in Answer  PROVE readPacket(answer) \in Sensor
  <2>1. answer \in {"ok", "none", "partial", "unsigned", "garbled"}
    BY DEF Answer
  <2>. QED
    BY <2>1 DEF readPacket, Read, Sensor, Corrupt, NONE, CORRUPT_DATA, NO_RESPONSE
<1>2. /\ Read("empty", CORRUPT_DATA) \in Sensor /\ Read("own", NONE) \in Sensor
      /\ Read("uninitialised", NONE) \in Sensor
  BY DEF Read, Sensor, NONE, CORRUPT_DATA
<1>. QED  BY <1>1, <1>2

LEMMA CollectedTypes ==
  ASSUME RequestInv, NEW answers \in [Devices -> Answer]
  PROVE  Collected(executeBulk(answers)) \in [Devices -> Sensor]
<1>. DEFINE results == executeBulk(answers)
<1>1. /\ DOMAIN results = DOMAIN bulkReadCommand
      /\ \A i \in DOMAIN bulkReadCommand :
           results[i].result \in {readPacket(answers[bulkReadCommand[i]]),
                                  Read("empty", CORRUPT_DATA)}
  BY DEF executeBulk
<1>2. \A i \in DOMAIN bulkReadCommand : answers[bulkReadCommand[i]] \in Answer
  BY DEF RequestInv
<1>3. \A i \in DOMAIN results : results[i].result \in Sensor
  BY <1>1, <1>2, ReadTypes
<1>. HIDE DEF results
<1>4. ASSUME NEW d \in Devices  PROVE Collected(results)[d] \in Sensor
  <2>1. CASE \E i \in DOMAIN results : results[i].id = d
    <3>. DEFINE r == CHOOSE r \in Range(results) : r.id = d
    <3>1. r \in Range(results)
      BY <2>1 DEF Range
    <3>2. Collected(results)[d] = r.result
      BY <2>1 DEF Collected
    <3>. HIDE DEF r
    <3>. QED  BY <1>3, <3>1, <3>2 DEF Range
  <2>2. CASE ~\E i \in DOMAIN results : results[i].id = d
    BY <2>2, ReadTypes DEF Collected
  <2>. QED  BY <2>1, <2>2
<1>. QED  BY <1>4 DEF Collected, results

(* A request of as many places as there are devices that names them all      *)
(* names each once.                                                          *)
LEMMA RequestIsOrder ==
  ASSUME NEW order \in Seq(Devices), {order[i] : i \in DOMAIN order} = Devices,
         Len(order) = Cardinality(Devices)
  PROVE  order \in SetToSeqs(Devices)
<1>. DEFINE n == Cardinality(Devices)
<1>1. n \in Nat /\ IsFiniteSet(Devices)
  BY DarwinAssumption, FS_CardinalityType DEF DarwinAssumption
<1>2. IsFiniteSet(1..n) /\ Cardinality(1..n) = n
  BY <1>1, FS_Interval
<1>3. order \in [1..n -> Devices]
  OBVIOUS
<1>4. order \in Surjection(1..n, Devices)
  BY <1>3 DEF Surjection
<1>. HIDE DEF n
<1>5. order \in Injection(1..n, Devices)
  BY <1>2, <1>4, FS_SurjSameCardinalityImpliesInj DEF n
<1>. QED  BY <1>3, <1>5 DEF SetToSeqs, Injection, IsInjective, n

DarwinInv == DarwinTypeOK /\ RequestInv

LEMMA DarwinInits == Init => DarwinInv
<1>. SUFFICES ASSUME Init  PROVE DarwinInv
  OBVIOUS
<1>1. DarwinInit(IF part = "bus" THEN Broken ELSE {"ok"})
  BY DEF Init
<1>2. bulkReadCommand \in SetToSeqs(Devices)
  BY <1>1 DEF DarwinInit, buildBulkReadPacket
<1>3. broken \in [Devices -> Answer]
  <2>1. (IF part = "bus" THEN Broken ELSE {"ok"}) \subseteq Answer
    BY PartsAssumption DEF PartsAssumption, Answer
  <2>. QED  BY <1>1, <2>1 DEF DarwinInit
<1>4. answered \in [Devices -> Answer] /\ glitches \in 0..MaxGlitches
  BY <1>1, DarwinAssumption DEF DarwinInit, DarwinAssumption, Answer
<1>5. sensors \in [Devices -> Sensor]
  BY <1>1, ReadTypes DEF DarwinInit
<1>. QED  BY <1>2, <1>3, <1>4, <1>5, RequestBuilt DEF DarwinInv, DarwinTypeOK, Sensor

LEMMA DarwinKeeps == DarwinInv /\ [Next]_vars => DarwinInv'
<1>. SUFFICES ASSUME DarwinInv, [Next]_vars  PROVE DarwinInv'
  OBVIOUS
<1>1. Report \/ UNCHANGED busVars
  BY DEF Next, vars, ServoLoop, BusLoop, Reading, Link, Timer, Turn
<1>2. CASE UNCHANGED busVars
  BY <1>2 DEF busVars, DarwinInv, DarwinTypeOK, RequestInv, Named
<1>3. CASE Report
  <2>1. PICK answers \in [Devices -> Answer] :
          /\ glitches' = glitches + Cardinality(Glitching(answers)) /\ glitches' <= MaxGlitches
          /\ answered' = answers /\ sensors' = Collected(executeBulk(answers))
          /\ bulkReadCommand' = Reordered(executeBulk(answers))
          /\ broken' = broken
    BY <1>3 DEF Report, bulkRead
  <2>2. RequestInv /\ bulkReadCommand \in SetToSeqs(Devices) /\ glitches \in Nat
    BY DEF DarwinInv, DarwinTypeOK
  <2>3. /\ DOMAIN executeBulk(answers) = DOMAIN bulkReadCommand
        /\ Len(executeBulk(answers)) = Len(bulkReadCommand)
    BY <2>2 DEF executeBulk, RequestInv
  <2>4. RequestInv' /\ Len(bulkReadCommand') = Len(bulkReadCommand)
    BY <2>1, <2>2, <2>3, RequestKept
  <2>5. Len(bulkReadCommand) = Cardinality(Devices)
    <3>1. Cardinality(Devices) \in Nat
      BY DarwinAssumption, FS_CardinalityType DEF DarwinAssumption
    <3>. QED  BY <2>2, <3>1 DEF SetToSeqs, RequestInv
  <2>6. bulkReadCommand' \in SetToSeqs(Devices)
    <3>1. /\ bulkReadCommand' \in Seq(Devices)
          /\ {bulkReadCommand'[i] : i \in DOMAIN bulkReadCommand'} = Devices
      BY <2>4 DEF RequestInv, Named
    <3>. QED  BY <2>4, <2>5, <3>1, RequestIsOrder
  <2>7. glitches' \in 0..MaxGlitches
    <3>1. Glitching(answers) \subseteq Devices
      BY DEF Glitching
    <3>2. Cardinality(Glitching(answers)) \in Nat
      BY <3>1, DarwinAssumption, FS_Subset, FS_CardinalityType DEF DarwinAssumption
    <3>. QED  BY <2>1, <2>2, <3>2, DarwinAssumption DEF DarwinAssumption
  <2>8. sensors' \in [Devices -> Sensor]
    BY <2>1, <2>2, CollectedTypes
  <2>. QED  BY <2>1, <2>4, <2>6, <2>7, <2>8 DEF DarwinInv, DarwinTypeOK, Sensor
<1>. QED  BY <1>1, <1>2, <1>3

(* What the tuner's invariant does not name.                                 *)
FieldOK == angleOrGain \in BOOLEAN /\ zeroEntered \in BOOLEAN

LEMMA TunerTypes == TunerInv /\ FieldOK => TunerTypeOK
<1>. SUFFICES ASSUME TunerInv, FieldOK  PROVE TunerTypeOK
  OBVIOUS
<1>1. script \in Seq(Seq(ScriptTarget)) /\ frame \in 0..(Word - 1)
      /\ selection \in 0..(Joints - 1)
  BY DEF TunerInv, ScriptInv, Servo
<1>2. ASSUME dialog.open
      PROVE  /\ {dialog.upperS, dialog.lowerS, dialog.upperF, dialog.lowerF} \subseteq Gains \cup {-1}
             /\ dialog.i \in 0..2 /\ dialog.j \in 0..2
  <2>1. dialog \in OpenDialogs
    BY <1>2 DEF TunerInv, DialogInv, Closed
  <2>. QED  BY <2>1 DEF OpenDialogs
<1>. QED  BY <1>1, <1>2 DEF FieldOK, TunerTypeOK

LEMMA FieldKeeps == FieldOK /\ [Next]_vars => FieldOK'
<1>. SUFFICES ASSUME FieldOK, [Next]_vars  PROVE FieldOK'
  OBVIOUS
<1>1. CASE SwapField
  BY <1>1, Zenon DEF SwapField, FieldOK
<1>2. ASSUME \/ MoveSelection \/ toggleLockMotor \/ newFrame \/ mirrorScript
             \/ UNCHANGED tunerVars
      PROVE  UNCHANGED <<angleOrGain, zeroEntered>>
  BY <1>2 DEF MoveSelection, toggleLockMotor, SetTargets, newFrame, mirrorScript, tunerVars
<1>3. ASSUME editSelection  PROVE UNCHANGED <<angleOrGain, zeroEntered>>
  BY <1>3, Zenon DEF editSelection, SetTargets
<1>4. ASSUME OpenDialog \/ Up \/ Down \/ Left \/ Right \/ EnterGain \/ CloseDialog
      PROVE  UNCHANGED <<angleOrGain, zeroEntered>>
  BY <1>4 DEF OpenDialog, Up, Down, Left, Right, MoveTo, EnterGain, CloseDialog
<1>5. ASSUME UNCHANGED <<angleOrGain, zeroEntered>>  PROVE FieldOK'
  BY <1>5, Zenon DEF FieldOK
<1>6. ASSUME jumpToFrame \/ EnterNumber  PROVE FieldOK'
  <2>1. PICK number \in Numbers : userInputToFrame(number)
    BY <1>6, Zenon DEF jumpToFrame, EnterNumber
  <2>2. angleOrGain' = angleOrGain
    BY <1>6, Zenon DEF jumpToFrame, EnterNumber
  <2>3. zeroEntered' \in BOOLEAN
    BY <2>1, Zenon DEF userInputToFrame, FieldOK
  <2>. QED  BY <2>2, <2>3, Zenon DEF FieldOK
<1>7. CASE activateFrame
  BY <1>7, Zenon DEF activateFrame, FieldOK
<1>8. CASE deleteFrame
  BY <1>8, Zenon DEF deleteFrame, FieldOK
<1>. QED
  BY <1>1, <1>2, <1>3, <1>4, <1>5, <1>6, <1>7, <1>8, TunerSteps, Zenon DEF EditKeys, GainKeys

(* The boat.                                                                 *)
MissionTypes ==
  /\ task_paths \in Missions /\ run_autonomous \in BOOLEAN /\ reported \in BOOLEAN
  /\ current_task \in Nat /\ current_path \in Nat /\ CurrentTask \in Nat
  /\ age \in {"new", "on it", "timed out"} /\ ended \in BOOLEAN

LEMMA MissionTypesKeep == MissionTypes /\ [Next]_vars => MissionTypes'
<1>. SUFFICES ASSUME MissionTypes, [Next]_vars  PROVE MissionTypes'
  OBVIOUS
<1>0. /\ task_paths \in Missions /\ run_autonomous \in BOOLEAN /\ reported \in BOOLEAN
      /\ current_task \in Nat /\ current_path \in Nat /\ CurrentTask \in Nat
      /\ age \in {"new", "on it", "timed out"} /\ ended \in BOOLEAN
  BY Zenon DEF MissionTypes
<1>1. MissionNext \/ UNCHANGED missionVars
  BY DEF Next, vars, ServoLoop, BusLoop, Reading, Link, Timer, Turn
<1>2. CASE UNCHANGED missionVars
  BY <1>0, <1>2, Zenon DEF missionVars, MissionTypes
<1>3. ASSUME NEW on \in BOOLEAN, AutonomousMode(on)  PROVE MissionTypes'
  BY <1>0, <1>3, Zenon DEF AutonomousMode, MissionTypes
<1>4. CASE TimePasses
  <2>1. age' \in {"new", "on it", "timed out"}
    BY <1>4, Zenon DEF TimePasses
  <2>. QED  BY <1>0, <1>4, <2>1, Zenon DEF TimePasses, MissionTypes
<1>5. CASE StartAgain
  BY <1>0, <1>5, Zenon DEF StartAgain, MissionTypes
<1>6. ASSUME NEW goal \in goalReached, FollowPath(goal)  PROVE MissionTypes'
  <2>1. reported' \in BOOLEAN
    BY <1>0, <1>6, Zenon DEF FollowPath
  <2>. QED  BY <1>0, <1>6, <2>1, Zenon DEF FollowPath, MissionTypes
<1>7. ASSUME NEW goal \in goalReached, NextPath(goal)  PROVE MissionTypes'
  <2>. DEFINE last == current_path + 1 >= Len(task_paths[current_task + 1])
              next == (current_task + 1) % Len(task_paths)
  <2>1. /\ current_path' = IF last THEN 0 ELSE current_path + 1
        /\ current_task' = IF last THEN next ELSE current_task
        /\ CurrentTask' = IF last THEN next ELSE CurrentTask
        /\ reported' = (~last /\ (reported \/ Finds))
        /\ age' = "new" /\ UNCHANGED <<task_paths, run_autonomous, ended>>
    BY <1>7, Zenon DEF NextPath
  <2>2. next \in Nat /\ 0 \in Nat /\ current_path + 1 \in Nat
    <3>1. task_paths \in Missions /\ current_task \in Nat /\ current_path \in Nat
      BY <1>0, Zenon
    <3>2. Len(task_paths) \in Nat /\ Len(task_paths) > 0
      BY <3>1, MissionShape
    <3>. QED  BY <3>1, <3>2
  <2>. HIDE DEF last, next
  <2>3. current_path' \in Nat /\ current_task' \in Nat /\ CurrentTask' \in Nat
    BY <1>0, <2>1, <2>2, Zenon
  <2>4. reported' \in BOOLEAN
    BY <2>1, Zenon
  <2>. QED  BY <1>0, <2>1, <2>3, <2>4, Zenon DEF MissionTypes
<1>8. ASSUME NEW goal \in goalReached, EndProgram(goal)  PROVE MissionTypes'
  <2>1. reported' \in BOOLEAN /\ ended' \in BOOLEAN
    BY <1>0, <1>8, Zenon DEF EndProgram
  <2>. QED  BY <1>0, <1>8, <2>1, Zenon DEF EndProgram, MissionTypes
<1>. QED  BY <1>1, <1>2, <1>3, <1>4, <1>5, <1>6, <1>7, <1>8, Zenon DEF MissionNext

LinkTypes ==
  /\ connection_status \in {"DISCONNECTED", "CONNECTED", "CONNECTING"}
  /\ socket \in BOOLEAN /\ breaks \in 0..MaxBreaks
  /\ worker \in {"looking", "connecting", "done", "giving up"}

LEMMA LinkTypesKeep == LinkTypes /\ [Next]_vars => LinkTypes'
<1>. SUFFICES ASSUME LinkTypes, [Next]_vars  PROVE LinkTypes'
  OBVIOUS
<1>0. /\ connection_status \in {"DISCONNECTED", "CONNECTED", "CONNECTING"}
      /\ socket \in BOOLEAN /\ breaks \in 0..MaxBreaks
      /\ worker \in {"looking", "connecting", "done", "giving up"}
  BY Zenon DEF LinkTypes
<1>1. LinkNext \/ UNCHANGED linkVars
  BY DEF Next, vars, ServoLoop, BusLoop, Reading, Link, Timer, Turn, LinkNext
<1>2. ASSUME breaks < MaxBreaks  PROVE breaks + 1 \in 0..MaxBreaks
  <2>1. breaks \in 0..MaxBreaks
    BY <1>0, Zenon
  <2>. QED  BY <1>2, <2>1, BoatAssumption DEF BoatAssumption
<1>3. CASE UNCHANGED linkVars
  BY <1>0, <1>3, Zenon DEF linkVars, LinkTypes
<1>4. CASE connect
  BY <1>0, <1>4, Zenon DEF connect, LinkTypes
<1>5. CASE Look
  <2>1. worker' \in {"looking", "connecting", "giving up"}
    BY <1>5, Zenon DEF Look
  <2>. QED  BY <1>0, <1>5, <2>1, Zenon DEF Look, LinkTypes
<1>6. ASSUME NEW refused \in BOOLEAN, Connect(refused)  PROVE LinkTypes'
  <2>1. breaks' \in 0..MaxBreaks
    BY <1>0, <1>2, <1>6, Zenon DEF Connect
  <2>2. worker' \in {"done", "giving up"} /\ socket' = TRUE
        /\ connection_status' = connection_status
    BY <1>6, Zenon DEF Connect
  <2>. QED  BY <1>0, <2>1, <2>2, Zenon DEF LinkTypes
<1>7. CASE Tell
  <2>1. connection_status' \in {"CONNECTED", "DISCONNECTED"}
    BY <1>7, Zenon DEF Tell
  <2>. QED  BY <1>0, <1>7, <2>1, Zenon DEF Tell, LinkTypes
<1>8. CASE underflow
  BY <1>0, <1>2, <1>8, Zenon DEF underflow, LinkTypes
<1>. QED  BY <1>1, <1>3, <1>4, <1>5, <1>6, <1>7, <1>8, Zenon DEF LinkNext, doWork

(* The strategy.                                                             *)
StrategyTypes ==
  /\ lastPacket \in scene.packets \cup {Fresh} /\ newPacket \in scene.packets \cup {Fresh}
  /\ gamePhase \in {"INITIAL", "READY", "SET", "TIMEOUT", "PLAYING", "FINISHED"}
  /\ phase \in {"INITIAL", "READY", "SET", "PLAYING", "FINISHED"}
  /\ gameMode \in GameModes /\ scene \in Scenes /\ view \in scene.views
  /\ selfPenalised \in BOOLEAN /\ entering \in BOOLEAN
  /\ leaf \in Leaf \cup {"none"}
  /\ inFlight \subseteq Message
  /\ plan \in Walk /\ looking \in [FieldTarget -> BOOLEAN] /\ hypotheses \in Hypotheses

(* The states of the packets of a game.                                      *)
LEMMA PacketStates ==
  ASSUME StrategyTypes, NEW p \in scene.packets \cup {Fresh}
  PROVE  /\ p.state \in {"INITIAL", "READY", "SET", "PLAYING", "FINISHED"}
         /\ p.penalised \in BOOLEAN
<1>1. scene.packets \subseteq Packet
  <2>1. scene \in Scenes
    BY Zenon DEF StrategyTypes
  <2>2. Scenes \subseteq [packets : SUBSET Packet, views : SUBSET View \ {{}}]
    BY StrategyAssumption DEF StrategyAssumption
  <2>. QED  BY <2>1, <2>2
<1>2. Fresh \in Packet
  BY DEF Fresh, Packet
<1>. QED  BY <1>1, <1>2 DEF Packet

LEMMA MessageKinds ==
  /\ \A w \in Walk : <<"WalkStrategy", w>> \in Message
  /\ \A r, t \in FieldTarget : <<"PanSelection", r, t>> \in Message
  /\ \A h \in Hypotheses : <<"ResetRobotHypotheses", h>> \in Message
  /\ \A b \in BOOLEAN : <<"Penalised", b>> \in Message
BY DEF Message

LEMMA ActTypes ==
  /\ \A l : WalkOf(l) \in Walk
  /\ \A l : GazeOf(l) \in FieldTarget
  /\ \A l : ResetsOf(l) \subseteq Hypotheses
<1>1. \A l : WalkOf(l) \in Walk
  BY Zenon DEF WalkOf, Walk
<1>2. \A l : GazeOf(l) \in FieldTarget
  BY Zenon DEF GazeOf, FieldTarget
<1>3. \A l : ResetsOf(l) \subseteq Hypotheses
  BY Zenon DEF ResetsOf, Hypotheses
<1>. QED  BY <1>1, <1>2, <1>3, Zenon

LEMMA ListenTypes ==
  ASSUME StrategyTypes, NEW m \in inFlight, Listen(m)  PROVE StrategyTypes'
<1>1. inFlight' \subseteq Message
  <2>1. inFlight \subseteq Message /\ <<"ResetRobotHypotheses", "entry">> \in Message
    BY MessageKinds, Zenon DEF StrategyTypes, Hypotheses
  <2>. QED
    BY <2>1, Zenon
    DEF Listen, PlanWalk, SelectPan, ResetHypotheses, SelfPenalisation, SelfUnpenalisation, Handled
<1>2. /\ UNCHANGED <<lastPacket, newPacket, gamePhase, phase, gameMode, scene, view, leaf>>
      /\ plan' = plan \/ plan' \in Walk
      /\ hypotheses' = hypotheses \/ hypotheses' \in Hypotheses
      /\ selfPenalised' = selfPenalised \/ selfPenalised' \in BOOLEAN
      /\ entering' = entering \/ entering' = (phase = "PLAYING" /\ NoResetComing)
      /\ looking' = looking \/ \E r, t \in FieldTarget : looking' = [looking EXCEPT ![r] = (t = r)]
  BY Zenon
  DEF Listen, PlanWalk, SelectPan, ResetHypotheses, SelfPenalisation, SelfUnpenalisation,
      refereeVars, gameVars, listenerVars
<1>3. looking' \in [FieldTarget -> BOOLEAN]
  <2>1. looking \in [FieldTarget -> BOOLEAN]
    BY Zenon DEF StrategyTypes
  <2>. QED  BY <1>2, <2>1
<1>4. entering' \in BOOLEAN
  BY <1>2, Zenon DEF StrategyTypes
<1>5. selfPenalised' \in BOOLEAN
  BY <1>2, Zenon DEF StrategyTypes
<1>6. /\ lastPacket \in scene.packets \cup {Fresh} /\ newPacket \in scene.packets \cup {Fresh}
      /\ gamePhase \in {"INITIAL", "READY", "SET", "TIMEOUT", "PLAYING", "FINISHED"}
      /\ phase \in {"INITIAL", "READY", "SET", "PLAYING", "FINISHED"}
      /\ gameMode \in GameModes /\ scene \in Scenes /\ view \in scene.views
      /\ leaf \in Leaf \cup {"none"} /\ plan \in Walk /\ hypotheses \in Hypotheses
  BY Zenon DEF StrategyTypes
<1>7. /\ lastPacket' \in scene'.packets \cup {Fresh} /\ newPacket' \in scene'.packets \cup {Fresh}
      /\ gamePhase' \in {"INITIAL", "READY", "SET", "TIMEOUT", "PLAYING", "FINISHED"}
      /\ phase' \in {"INITIAL", "READY", "SET", "PLAYING", "FINISHED"}
      /\ gameMode' \in GameModes /\ scene' \in Scenes /\ view' \in scene'.views
      /\ leaf' \in Leaf \cup {"none"} /\ plan' \in Walk /\ hypotheses' \in Hypotheses
  BY <1>2, <1>6
<1>. QED  BY <1>1, <1>3, <1>4, <1>5, <1>7, Zenon DEF StrategyTypes

LEMMA StrategyTypesKeep == StrategyTypes /\ [Next]_vars => StrategyTypes'
<1>. SUFFICES ASSUME StrategyTypes, StrategyNext \/ UNCHANGED strategyVars  PROVE StrategyTypes'
  BY StrategySteps
<1>1. CASE UNCHANGED strategyVars
  BY <1>1, Zenon DEF StrategyTypes, strategyVars, refereeVars, gameVars, listenerVars
<1>2. ASSUME NEW p \in scene.packets, Compare(p)  PROVE StrategyTypes'
  <2>1. p.state \in {"INITIAL", "READY", "SET", "PLAYING", "FINISHED"}
    BY PacketStates
  <2>2. phase' \in {"INITIAL", "READY", "SET", "PLAYING", "FINISHED"}
    BY <1>2, <2>1, Zenon DEF Compare, StrategyTypes
  <2>3. entering' \in BOOLEAN
    BY <1>2, Zenon DEF Compare
  <2>. QED  BY <1>2, <2>2, <2>3, Zenon DEF Compare, StrategyTypes, gameVars, listenerVars
<1>3. CASE Publish
  <2>1. /\ newPacket.state \in {"INITIAL", "READY", "SET", "PLAYING", "FINISHED"}
        /\ newPacket.penalised \in BOOLEAN
    <3>1. newPacket \in scene.packets \cup {Fresh}
      BY Zenon DEF StrategyTypes
    <3>. QED  BY <3>1, PacketStates
  <2>2. gamePhase' \in {"INITIAL", "READY", "SET", "TIMEOUT", "PLAYING", "FINISHED"}
    BY <1>3, <2>1, Zenon DEF Publish, StrategyTypes
  <2>3. inFlight' \subseteq Message
    BY <1>3, <2>1, MessageKinds, Zenon DEF Publish, StrategyTypes
  <2>. QED  BY <1>3, <2>2, <2>3, Zenon DEF Publish, StrategyTypes, gameVars, listenerVars
<1>4. ASSUME NEW v \in scene.views, See(v)  PROVE StrategyTypes'
  BY <1>4, Zenon DEF StrategyTypes, See, refereeVars, gameVars, listenerVars
<1>5. CASE Decide
  BY <1>5, Zenon DEF Decide, StrategyTypes, refereeVars, gameVars, listenerVars
<1>6. CASE Act
  <2>1. inFlight' \subseteq Message
    BY <1>6, ActTypes, MessageKinds, Zenon DEF Act, StrategyTypes
  <2>. QED  BY <1>6, <2>1, Zenon DEF Act, StrategyTypes, refereeVars, gameVars, listenerVars
<1>. QED
  BY <1>1, <1>2, <1>3, <1>4, <1>5, <1>6, ListenTypes, Zenon DEF StrategyNext

LEMMA RestTypes == Init => MissionTypes /\ LinkTypes /\ StrategyTypes /\ FieldOK
<1>. SUFFICES ASSUME Init
              PROVE  MissionTypes /\ LinkTypes /\ StrategyTypes /\ FieldOK
  OBVIOUS
<1>1. 0 \in Nat /\ 0 \in 0..MaxBreaks
  BY BoatAssumption DEF BoatAssumption
<1>2. MissionInit /\ LinkInit /\ TunerInit /\ StrategyInit
  BY DEF Init
<1>3. MissionTypes
  BY <1>1, <1>2, Zenon DEF MissionInit, MissionTypes
<1>4. LinkTypes
  BY <1>1, <1>2, Zenon DEF LinkInit, LinkTypes
<1>5. FieldOK
  BY <1>2, Zenon DEF TunerInit, FieldOK
<1>6. [r \in FieldTarget |-> TRUE] \in [FieldTarget -> BOOLEAN]
  OBVIOUS
<1>7. StrategyTypes
  BY <1>2, <1>6, Zenon DEF StrategyInit, StrategyTypes, Walk, Hypotheses
<1>. QED  BY <1>3, <1>4, <1>5, <1>7

(* What the servos, the bus, the tuner, the configuration, the boat and the  *)
(* strategy keep has its type: for any devices, servos, files, missions,     *)
(* scenes and bounds (HardwareIO.cpp:168, Darwin.cpp:190,                    *)
(* ScriptTuner.cpp:157, ConfigSystem.cpp:201, Behaviour.cpp:147,             *)
(* SoccerStrategy.cpp:137).                                                  *)
THEOREM MachinesTypes == Spec => []MachinesTypeOK
<1>1. ServosInv => IOTypeOK
  BY DEF ServosInv
<1>2. ConfigInv => ConfigTypeOK
  BY DEF ConfigInv, ConfigTypeInv
<1>3. DarwinInv => DarwinTypeOK
  BY DEF DarwinInv
<1>4. MissionTypes /\ LinkTypes => BoatTypeOK
  BY Zenon DEF MissionTypes, LinkTypes, BoatTypeOK
<1>5. StrategyTypes => StrategyTypeOK
  BY Zenon DEF StrategyTypes, StrategyTypeOK
<1>. DEFINE Invs == ServosInv /\ ConfigInv /\ DarwinInv /\ TunerInv /\ FieldOK
                      /\ MissionTypes /\ LinkTypes /\ StrategyTypes
<1>6. Invs => MachinesTypeOK
  <2>. SUFFICES ASSUME Invs  PROVE MachinesTypeOK
    OBVIOUS
  <2>1. TunerTypeOK
    BY TunerTypes
  <2>. QED  BY <1>1, <1>2, <1>3, <1>4, <1>5, <2>1 DEF MachinesTypeOK
<1>. QED
  BY <1>6, RestTypes, ServosInit, ServosNext, ConfigInits, ConfigKeeps, DarwinInits, DarwinKeeps,
     TunerInits, TunerKeeps, FieldKeeps, MissionTypesKeep, LinkTypesKeep, StrategyTypesKeep, PTL
  DEF Spec
=============================================================================

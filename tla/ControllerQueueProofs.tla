----------------------- MODULE ControllerQueueProofs -----------------------
(***************************************************************************)
(* Theorems about the queues of waypoints of the behaviour controller.     *)
(***************************************************************************)
EXTENDS ControllerProofs

(* The queues change in three ways only.                                     *)
LEMMA QueueSteps ==
  [Next]_vars =>
    \/ UNCHANGED commandQueues
    \/ Commit /\ commandQueues' = ClearKilled
    \/ FilterStep
    \/ \E t \in Time : Tick(t)
BY DEF Next, Prioritise, SelectStep, Startup, Register, UpdateAndReselect,
       UpdateOnly, ApplyPriorities, Activate, PassOver, Commit, CommandFilter,
       vars, queues

(* The command a filter step puts in a queue, and the queue it puts it in.   *)
LEMMA FilterStepQueues ==
  ASSUME TypeInv, FilterStep
  PROVE  /\ Head(pending) \in Command
         /\ \A s \in Servo :
              \/ commandQueues'[s] = commandQueues[s]
              \/ /\ s = Head(pending).id /\ HasAccess(Head(pending))
                 /\ commandQueues'[s] = Enqueue(commandQueues[s], Head(pending))
<1>1. /\ pending \in Seq(Command) /\ pending # <<>>
      /\ commandQueues \in [Servo -> Seq(QueuedCommand)]
  BY DEF TypeInv, TypeOK, PendingOK, FilterStep
<1>2. Head(pending) \in Command
  BY <1>1, HeadTailProperties
<1>3. \/ /\ HasAccess(Head(pending))
         /\ commandQueues' = [commandQueues EXCEPT
              ![Head(pending).id] = Enqueue(commandQueues[Head(pending).id], Head(pending))]
      \/ commandQueues' = commandQueues
  BY DEF FilterStep
<1>. QED
  BY <1>1, <1>2, <1>3 DEF Command

-----------------------------------------------------------------------------
(* The shape of the queues                                                   *)

ShapeInv ==
  /\ TypeInv
  /\ \A s \in Servo : /\ SortedQueue(commandQueues[s])
                      /\ UnsentBehindFront(commandQueues[s])

LEMMA InitShape == Init => ShapeInv
<1> SUFFICES ASSUME Init PROVE ShapeInv
  OBVIOUS
<1>1. \A s \in Servo : Len(commandQueues[s]) = 0
  BY EmptySeq DEF Init
<1>. QED
  BY <1>1, InitTypes DEF ShapeInv, SortedQueue, UnsentBehindFront

LEMMA NextShape == ShapeInv /\ [Next]_vars => ShapeInv'
<1> SUFFICES ASSUME ShapeInv, [Next]_vars PROVE ShapeInv'
  OBVIOUS
<1>1. TypeInv /\ TypeInv' /\ commandQueues \in [Servo -> Seq(QueuedCommand)]
  BY NextTypes DEF ShapeInv, TypeInv, TypeOK
<1> SUFFICES ASSUME NEW s \in Servo
             PROVE  /\ SortedQueue(commandQueues'[s])
                    /\ UnsentBehindFront(commandQueues'[s])
  BY <1>1 DEF ShapeInv
<1>2. /\ SortedQueue(commandQueues[s]) /\ UnsentBehindFront(commandQueues[s])
      /\ commandQueues[s] \in Seq(QueuedCommand)
  BY <1>1 DEF ShapeInv
<1>3. CASE UNCHANGED commandQueues
  BY <1>2, <1>3
<1>4. CASE Commit /\ commandQueues' = ClearKilled
  <2>1. commandQueues'[s] = commandQueues[s] \/ commandQueues'[s] = <<>>
    BY <1>4 DEF ClearKilled
  <2>2. SortedQueue(<<>>) /\ UnsentBehindFront(<<>>)
    BY EmptySeq DEF SortedQueue, UnsentBehindFront
  <2>. QED
    BY <1>2, <2>1, <2>2
<1>5. CASE FilterStep
  BY <1>1, <1>2, <1>5, FilterStepQueues, EnqueueKeeps
<1>6. ASSUME NEW t \in Time, Tick(t)
      PROVE  /\ SortedQueue(commandQueues'[s])
             /\ UnsentBehindFront(commandQueues'[s])
  <2> DEFINE q == AfterPop(commandQueues[s], t)
  <2>1. commandQueues'[s] = AfterSend(q)
    BY <1>6 DEF Tick
  <2>2. q \in Seq(QueuedCommand) /\ SortedQueue(q) /\ UnsentBehindFront(q)
    BY <1>2, PopKeeps
  <2> HIDE DEF q
  <2>. QED
    BY <2>1, <2>2, SendKeeps
<1>. QED
  BY <1>3, <1>4, <1>5, <1>6, QueueSteps

(* The shape of every queue, whatever the order in which commands arrive.    *)
THEOREM ShapeInvariant == Spec => []ShapeInv
BY InitShape, NextShape, PTL DEF Spec

(* Every queue is in the order of the times of its waypoints: the filter     *)
(* discards the later ones before it appends.                                *)
THEOREM QueuesSorted == Spec => []QueueSorted
<1>1. ShapeInv => QueueSorted
  BY DEF ShapeInv, SortedQueue, QueueSorted
<1>. QED
  BY <1>1, ShapeInvariant, PTL

(* A waypoint marked as sent is at the front: none is skipped by the tick,   *)
(* or buried by the filter, without having been sent.                        *)
THEOREM OnlyFrontsSent == Spec => []OnlyFrontSent
<1>1. ShapeInv => OnlyFrontSent
  BY DEF ShapeInv, UnsentBehindFront, OnlyFrontSent
<1>. QED
  BY <1>1, ShapeInvariant, PTL

-----------------------------------------------------------------------------
(* Whose waypoints the queues hold.  The premise InitialLease \cap Request = *)
(* {} says that the uninitialised limbAccess names no registered request:    *)
(* without it the claims are false (run stale_lease).                        *)

(* The requests that hold the limb of servo s.                               *)
Holders(s) == {Group(x) : x \in {y \in currentActions : LimbForServo[s] \in LimbSet[y]}}

DriveInv ==
  /\ SelectInv
  /\ \A s \in Servo : IssuersWithin(commandQueues[s], Holders(s))
  /\ NeverCrashes

LEMMA InitDrive == Init => DriveInv
<1> SUFFICES ASSUME Init PROVE DriveInv
  OBVIOUS
<1>1. \A s \in Servo : Len(commandQueues[s]) = 0
  BY EmptySeq DEF Init
<1>2. NeverCrashes
  BY DEF Init, NeverCrashes
<1>. QED
  BY <1>1, <1>2, InitSelect DEF DriveInv, IssuersWithin

(* The id limbAccess has for a servo's limb, if it is a request, holds it.   *)
LEMMA AccessIsHeld ==
  ASSUME InitialLease \cap Request = {}, SelectInv, NEW s \in Servo,
         limbAccess[LimbForServo[s]] \in Request
  PROVE  limbAccess[LimbForServo[s]] \in Holders(s)
<1>1. LimbForServo[s] \in Limb
  BY LimbAssumption
<1>2. selected
  BY <1>1 DEF SelectInv, CurrentOK
<1>. QED
  BY <1>1, <1>2 DEF SelectInv, LeaseMatchesSelection, Holders

(* And conversely: a holder is what limbAccess says, and is registered.      *)
LEMMA HolderHasAccess ==
  ASSUME SelectInv, NEW s \in Servo, NEW r \in Holders(s)
  PROVE  limbAccess[LimbForServo[s]] = r /\ r \in registered
<1>1. PICK x \in currentActions : Group(x) = r /\ LimbForServo[s] \in LimbSet[x]
  BY DEF Holders
<1>2. LimbForServo[s] \in Limb /\ r \in registered /\ registered \subseteq Request
  BY <1>1, LimbAssumption DEF SelectInv, TypeInv, TypeOK, CurrentOK
<1>3. selected
  BY <1>1 DEF SelectInv, CurrentOK
<1>. QED
  BY <1>1, <1>2, <1>3 DEF SelectInv, LeaseMatchesSelection

LEMMA CommitDrive ==
  ASSUME DriveInv, Commit, NEW s \in Servo
  PROVE  IssuersWithin(commandQueues'[s], Holders(s)')
<1>1. currentActions' = newActions /\ commandQueues' = ClearKilled
  BY DEF Commit
<1>2. CASE LimbForServo[s] \in LimbsOf(Killed)
  <2>1. commandQueues'[s] = <<>>
    BY <1>1, <1>2 DEF ClearKilled
  <2>. QED
    BY <2>1, EmptySeq DEF IssuersWithin
<1>3. CASE LimbForServo[s] \notin LimbsOf(Killed)
  <2>1. commandQueues'[s] = commandQueues[s]
    BY <1>1, <1>3 DEF ClearKilled
  <2>2. Holders(s) \subseteq Holders(s)'
    BY <1>1, <1>3 DEF Holders, LimbsOf, Killed
  <2>. QED
    BY <2>1, <2>2 DEF DriveInv, IssuersWithin
<1>. QED
  BY <1>2, <1>3

LEMMA FilterDrive ==
  ASSUME InitialLease \cap Request = {}, DriveInv, FilterStep, NEW s \in Servo
  PROVE  IssuersWithin(commandQueues'[s], Holders(s)')
<1>1. /\ TypeInv /\ commandQueues[s] \in Seq(QueuedCommand)
      /\ SelectInv /\ IssuersWithin(commandQueues[s], Holders(s))
  BY DEF DriveInv, SelectInv, TypeInv, TypeOK
<1>2. Holders(s)' = Holders(s)
  BY DEF FilterStep, allocated, Holders
<1>3. CASE commandQueues'[s] = commandQueues[s]
  BY <1>1, <1>2, <1>3
<1>4. CASE /\ s = Head(pending).id /\ HasAccess(Head(pending))
           /\ commandQueues'[s] = Enqueue(commandQueues[s], Head(pending))
  <2>1. Head(pending) \in Command
    BY <1>1, FilterStepQueues
  <2>2. Head(pending).source \in Holders(s)
    BY <1>1, <1>4, <2>1, AccessIsHeld DEF HasAccess, Command
  <2>. QED
    BY <1>1, <1>2, <1>4, <2>1, <2>2, EnqueueKeeps
<1>. QED
  BY <1>1, <1>3, <1>4, FilterStepQueues

LEMMA TickDrive ==
  ASSUME DriveInv, NEW t \in Time, Tick(t)
  PROVE  /\ \A s \in Servo : IssuersWithin(commandQueues'[s], Holders(s)')
         /\ NeverCrashes'
<1>1. ASSUME NEW s \in Servo PROVE IssuersWithin(commandQueues'[s], Holders(s)')
  <2> DEFINE q == AfterPop(commandQueues[s], t)
  <2>1. commandQueues'[s] = AfterSend(q)
    BY DEF Tick
  <2>2. q \in Seq(QueuedCommand) /\ IssuersWithin(q, Holders(s))
    BY PopKeeps DEF DriveInv, SelectInv, TypeInv, TypeOK
  <2>3. Holders(s)' = Holders(s)
    BY DEF Tick, allocated, Holders
  <2> HIDE DEF q
  <2>. QED
    BY <2>1, <2>2, <2>3, SendKeeps
<1>2. ASSUME NEW s \in Emptied(t) PROVE CompletionTo(s) \in registered
  <2>1. s \in Servo /\ Len(commandQueues[s]) = 1
    BY DEF Emptied
  <2>2. commandQueues[s][1].issuer \in Holders(s)
    BY <2>1 DEF DriveInv, IssuersWithin
  <2>. QED
    BY <2>1, <2>2, HolderHasAccess DEF DriveInv, CompletionTo
<1>. QED
  BY <1>1, <1>2 DEF Tick, NeverCrashes

LEMMA NextDrive ==
  ASSUME InitialLease \cap Request = {}
  PROVE  DriveInv /\ [Next]_vars => DriveInv'
<1> SUFFICES ASSUME DriveInv, [Next]_vars PROVE DriveInv'
  OBVIOUS
<1>1. SelectInv'
  BY NextSelect DEF DriveInv
<1>2. NeverCrashes'
  <2>1. CASE \E t \in Time : Tick(t)
    BY <2>1, TickDrive
  <2>2. CASE ~\E t \in Time : Tick(t)
    BY <2>2 DEF DriveInv, NeverCrashes, Next, Prioritise, SelectStep, Startup,
                Register, UpdateAndReselect, UpdateOnly, BeginSelection, Activate,
                PassOver, Commit, CommandFilter, FilterStep, vars
  <2>. QED
    BY <2>1, <2>2
<1>3. ASSUME NEW s \in Servo PROVE IssuersWithin(commandQueues'[s], Holders(s)')
  <2>1. CASE Commit
    BY <2>1, CommitDrive
  <2>2. CASE FilterStep
    BY <2>2, FilterDrive
  <2>3. CASE \E t \in Time : Tick(t)
    BY <2>3, TickDrive
  <2>4. CASE UNCHANGED <<commandQueues, currentActions>>
    BY <2>4 DEF DriveInv, Holders
  <2>. QED
    BY <2>1, <2>2, <2>3, <2>4
    DEF Next, Prioritise, SelectStep, Startup, Register, UpdateAndReselect,
        UpdateOnly, ApplyPriorities, Activate, PassOver, CommandFilter, vars,
        queues, allocated
<1>. QED
  BY <1>1, <1>2, <1>3 DEF DriveInv

(* The inductive invariant of the queues' owners.                            *)
THEOREM DriveInvariant ==
  ASSUME InitialLease \cap Request = {}
  PROVE  Spec => []DriveInv
<1>1. DriveInv /\ [Next]_vars => DriveInv'
  BY NextDrive
<1>. QED
  BY <1>1, InitDrive, PTL DEF Spec

(* No servo ever has a waypoint of a request that does not hold its limb,    *)
(* if limbAccess starts without the id of a request in it.                   *)
THEOREM OnlyHoldersDrive ==
  ASSUME InitialLease \cap Request = {}
  PROVE  Spec => []OnlySelectedDrive
<1>1. DriveInv => OnlySelectedDrive
  BY DEF DriveInv, IssuersWithin, Holders, OnlySelectedDrive
<1>2. Spec => []DriveInv
  BY DriveInvariant
<1>. QED
  BY <1>1, <1>2, PTL

(* The tick never reaches for the callback of an id that is not in the map,  *)
(* if limbAccess starts without the id of a request in it.                   *)
THEOREM TickNeverCrashes ==
  ASSUME InitialLease \cap Request = {}
  PROVE  Spec => []NeverCrashes
<1>1. DriveInv => NeverCrashes
  BY DEF DriveInv
<1>2. Spec => []DriveInv
  BY DriveInvariant
<1>. QED
  BY <1>1, <1>2, PTL
=============================================================================

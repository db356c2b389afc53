----------------------- MODULE ControllerLeaseProofs -----------------------
(***************************************************************************)
(* The behaviour controller implements LimbLease.                          *)
(***************************************************************************)
EXTENDS ControllerQueueProofs, ControllerLease

Entry == [time : Time, issuer : Request]
Seen == [s \in Servo |-> View(commandQueues[s])]

-----------------------------------------------------------------------------
(* The view of a queue                                                       *)

LEMMA ViewElements ==
  ASSUME NEW q \in Seq(QueuedCommand)
  PROVE  /\ View(q) \in Seq(Entry) /\ Len(View(q)) = Len(q)
         /\ \A i \in 1..Len(q) : View(q)[i] = [time |-> q[i].time, issuer |-> q[i].issuer]
<1>1. Len(q) \in Nat
  OBVIOUS
<1>2. \A i \in 1..Len(q) : [time |-> q[i].time, issuer |-> q[i].issuer] \in Entry
  <2>1. \A i \in 1..Len(q) : q[i] \in QueuedCommand
    BY ElementOfSeq
  <2>. QED
    BY <2>1 DEF QueuedCommand, Entry
<1>. QED
  BY <1>1, <1>2, IsASeq DEF View

LEMMA ViewEmpty == View(<<>>) = <<>>
<1>1. <<>> \in Seq(QueuedCommand) /\ Len(<<>>) = 0
  BY EmptySeq
<1>2. View(<<>>) \in Seq(Entry) /\ Len(View(<<>>)) = 0
  BY <1>1, ViewElements
<1>. QED
  BY <1>2, EmptySeq

(* Seen through the view, enqueueing replaces what is later than the command *)
(* by an entry of the command's source.                                      *)
LEMMA ViewEnqueue ==
  ASSUME NEW q \in Seq(QueuedCommand), NEW c \in Command
  PROVE  \E n \in 0..Len(View(q)) :
           /\ n # 0 => View(q)[n].time <= c.time
           /\ View(Enqueue(q, c)) =
                Append(SubSeq(View(q), 1, n), [time |-> c.time, issuer |-> c.source])
<1>1. c.time \in Time /\ c.source \in Request
  BY DEF Command
<1>2. PICK n \in 0..Len(q) : /\ KeptFor(q, c.time) = SubSeq(q, 1, n)
                             /\ n # 0 => q[n].time <= c.time
  BY <1>1, KeptForIsPrefix
<1> DEFINE e == [time |-> c.time, source |-> c.source, issuer |-> c.source]
           v == [time |-> c.time, issuer |-> c.source]
           p == SubSeq(q, 1, n)
           w == SubSeq(View(q), 1, n)
<1>3. e \in QueuedCommand /\ v \in Entry /\ v = [time |-> e.time, issuer |-> e.issuer]
  BY <1>1 DEF QueuedCommand, Entry
<1>4. /\ View(q) \in Seq(Entry) /\ Len(View(q)) = Len(q)
      /\ \A i \in 1..Len(q) : View(q)[i] = [time |-> q[i].time, issuer |-> q[i].issuer]
      /\ n \in Nat /\ n <= Len(q) /\ Len(q) \in Nat /\ 1 \in Int
  BY ViewElements
<1>5. /\ p \in Seq(QueuedCommand) /\ Len(p) = n
      /\ \A i \in 1..n : p[i] = q[i]
  <2>1. \A i \in 1..n : q[i] \in QueuedCommand
    BY <1>4, ElementOfSeq
  <2>. QED
    BY <1>4, <2>1, SubSeqProperties
<1>6. /\ w \in Seq(Entry) /\ Len(w) = n
      /\ \A i \in 1..n : w[i] = View(q)[i]
  <2>1. \A i \in 1..n : View(q)[i] \in Entry
    BY <1>4, ElementOfSeq
  <2>. QED
    BY <1>4, <2>1, SubSeqProperties
<1>7. Enqueue(q, c) = Append(p, e)
  BY <1>2 DEF Enqueue
<1> HIDE DEF e, v, p, w
<1>8. /\ Append(p, e) \in Seq(QueuedCommand) /\ Len(Append(p, e)) = n + 1
      /\ Append(p, e)[n + 1] = e /\ \A i \in 1..n : Append(p, e)[i] = q[i]
  BY <1>3, <1>4, <1>5
<1>9. /\ Append(w, v) \in Seq(Entry) /\ Len(Append(w, v)) = n + 1
      /\ Append(w, v)[n + 1] = v /\ \A i \in 1..n : Append(w, v)[i] = View(q)[i]
  BY <1>3, <1>4, <1>6
<1> DEFINE a == Append(p, e)
           b == Append(w, v)
<1>10. /\ View(a) \in Seq(Entry) /\ Len(View(a)) = n + 1
       /\ \A i \in 1..n + 1 : View(a)[i] = [time |-> a[i].time, issuer |-> a[i].issuer]
  <2> HIDE DEF a
  <2>1. a \in Seq(QueuedCommand) /\ Len(a) = n + 1
    BY <1>8 DEF a
  <2>. QED
    BY <2>1, ViewElements
<1>11. /\ b \in Seq(Entry) /\ Len(b) = n + 1 /\ a[n + 1] = e /\ b[n + 1] = v
       /\ \A i \in 1..n : a[i] = q[i] /\ b[i] = View(q)[i]
  BY <1>8, <1>9
<1> HIDE DEF a, b
<1>12. ASSUME NEW i \in 1..n + 1 PROVE View(a)[i] = b[i]
  <2>1. CASE i = n + 1
    BY <1>3, <1>10, <1>11, <2>1
  <2>2. CASE i # n + 1
    <3>1. i \in 1..n /\ i \in 1..Len(q)
      BY <1>4, <2>2
    <3>. QED
      BY <1>4, <1>10, <1>11, <3>1
  <2>. QED
    BY <2>1, <2>2
<1>13. View(a) = b
  BY <1>10, <1>11, <1>12, SeqEqual
<1>14. ASSUME n # 0 PROVE View(q)[n].time <= c.time
  <2>1. n \in 1..Len(q)
    BY <1>4, <1>14
  <2>2. View(q)[n].time = q[n].time
    BY <2>1 DEF View
  <2>. QED
    BY <1>2, <1>14, <2>2
<1>15. View(Enqueue(q, c)) = Append(w, v)
  BY <1>7, <1>13 DEF a, b
<1>16. n \in 0..Len(View(q))
  BY <1>4
<1>. QED
  BY <1>14, <1>15, <1>16 DEF v, w

(* Seen through the view, a waypoint sent is as before, and a waypoint       *)
(* popped is the first.                                                      *)
LEMMA ViewSend ==
  ASSUME NEW q \in Seq(QueuedCommand)
  PROVE  View(AfterSend(q)) = View(q)
<1>1. CASE q # <<>> /\ AfterSend(q) = [q EXCEPT ![1].source = Nobody]
  <2> DEFINE w == AfterSend(q)
  <2>1. Len(q) \in Nat /\ 1 \in 1..Len(q)
    BY <1>1, EmptySeq
  <2>2. q[1] \in QueuedCommand
    BY <2>1, ElementOfSeq
  <2>3. w \in Seq(QueuedCommand) /\ w = [q EXCEPT ![1] = [q[1] EXCEPT !.source = Nobody]]
    BY <1>1, SendKeeps
  <2>4. Len(w) = Len(q) /\ \A i \in 1..Len(q) : w[i].time = q[i].time /\ w[i].issuer = q[i].issuer
    <3>1. [q[1] EXCEPT !.source = Nobody] \in QueuedCommand
      BY <2>2 DEF QueuedCommand
    <3> DEFINE e == [q[1] EXCEPT !.source = Nobody]
    <3>2. e.time = q[1].time /\ e.issuer = q[1].issuer
      BY <2>2 DEF QueuedCommand
    <3> HIDE DEF e, w
    <3>3. Len(w) = Len(q) /\ \A i \in 1..Len(q) : w[i] = IF i = 1 THEN e ELSE q[i]
      BY <2>1, <2>3, <3>1, ExceptSeq DEF e
    <3>. QED
      BY <3>2, <3>3
  <2> HIDE DEF w
  <2>. QED
    BY <2>4 DEF View, w
<1>2. CASE AfterSend(q) = q
  BY <1>2
<1>. QED
  BY <1>1, <1>2 DEF AfterSend, Unsent

LEMMA ViewTail ==
  ASSUME NEW q \in Seq(QueuedCommand), q # <<>>
  PROVE  View(q) # <<>> /\ View(Tail(q)) = Tail(View(q))
<1>1. /\ View(q) \in Seq(Entry) /\ Len(View(q)) = Len(q) /\ Len(q) \in Nat /\ Len(q) # 0
      /\ \A i \in 1..Len(q) : View(q)[i] = [time |-> q[i].time, issuer |-> q[i].issuer]
  BY ViewElements, EmptySeq
<1> DEFINE w == Tail(q)
           v == Tail(View(q))
<1>2. /\ w \in Seq(QueuedCommand) /\ Len(w) = Len(q) - 1
      /\ \A i \in 1..Len(w) : w[i] = q[i + 1]
  BY HeadTailProperties
<1>3. View(q) # <<>>
  BY <1>1, EmptySeq
<1>4. /\ v \in Seq(Entry) /\ Len(v) = Len(q) - 1
      /\ \A i \in 1..Len(v) : v[i] = View(q)[i + 1]
  BY <1>1, <1>3, HeadTailProperties
<1> HIDE DEF w, v
<1>5. /\ View(w) \in Seq(Entry) /\ Len(View(w)) = Len(w)
      /\ \A i \in 1..Len(w) : View(w)[i] = [time |-> w[i].time, issuer |-> w[i].issuer]
  BY <1>2, ViewElements
<1>6. \A i \in 1..Len(w) : i + 1 \in 1..Len(q)
  BY <1>1, <1>2
<1>7. Len(View(w)) = Len(v) /\ \A i \in 1..Len(View(w)) : View(w)[i] = v[i]
  BY <1>1, <1>2, <1>4, <1>5, <1>6
<1>8. View(w) = v
  BY <1>4, <1>5, <1>7, SeqEqual
<1>. QED
  BY <1>3, <1>8 DEF w, v

-----------------------------------------------------------------------------
(* Each kind of step                                                         *)

LEMMA CommitLease ==
  ASSUME DriveInv, Commit
  PROVE  \E newOwner \in [Limb -> Request \cup {Nobody}], cleared \in SUBSET Servo :
           Lease!Reassign(newOwner, cleared)
<1> DEFINE cleared == {s \in Servo : commandQueues'[s] = <<>>}
<1>1. /\ limbAccess' = NewLease /\ commandQueues' = ClearKilled /\ phase = "select"
  BY DEF Commit
<1>2. /\ newActions \subseteq Item /\ Separate(newActions) /\ SelectInv
  BY <1>1 DEF DriveInv, SelectInv, TypeInv, TypeOK, LoopInv, ChoiceOK
<1>3. NewLease \in [Limb -> Request \cup {Nobody}]
  BY <1>2, NewLeaseType
<1>4. ASSUME NEW s \in Servo
      PROVE  View(commandQueues'[s]) = IF s \in cleared THEN <<>> ELSE View(commandQueues[s])
  BY <1>1, ViewEmpty DEF ClearKilled
<1>5. ASSUME NEW s \in Servo \ cleared
      PROVE  NewLease[LimbForServo[s]] = limbAccess[LimbForServo[s]]
  <2>1. /\ LimbForServo[s] \notin LimbsOf(Killed) /\ commandQueues[s] # <<>>
        /\ commandQueues[s] \in Seq(QueuedCommand)
    BY <1>1, <1>5 DEF ClearKilled, DriveInv, SelectInv, TypeInv, TypeOK
  <2>2. 1 \in 1..Len(commandQueues[s])
    BY <2>1, EmptySeq
  <2>3. commandQueues[s][1].issuer \in Holders(s)
    BY <2>2 DEF DriveInv, IssuersWithin
  <2>4. PICK x \in currentActions : /\ Group(x) = commandQueues[s][1].issuer
                                    /\ LimbForServo[s] \in LimbSet[x]
    BY <2>3 DEF Holders
  <2>5. x \in newActions
    BY <2>1, <2>4 DEF Killed, LimbsOf
  <2>6. NewLease[LimbForServo[s]] = Group(x)
    BY <1>2, <2>4, <2>5, NewLeaseIs, LimbAssumption
  <2>7. limbAccess[LimbForServo[s]] = Group(x)
    BY <1>2, <2>3, <2>4, HolderHasAccess
  <2>. QED
    BY <2>6, <2>7
<1>6. Seen' = [s \in Servo |-> IF s \in cleared THEN <<>> ELSE Seen[s]]
  BY <1>4 DEF Seen
<1>7. Lease!Reassign(NewLease, cleared)
  <2>1. cleared \in SUBSET Servo
    OBVIOUS
  <2>2. \A s \in Servo \ cleared : limbAccess'[LimbForServo[s]] = limbAccess[LimbForServo[s]]
    BY <1>1, <1>5
  <2> HIDE DEF cleared
  <2>. QED
    BY <1>1, <1>6, <2>1, <2>2 DEF Lease!Reassign, Lease!Owner, Seen
<1>8. cleared \in SUBSET Servo
  OBVIOUS
<1> HIDE DEF cleared
<1>. QED
  BY <1>3, <1>7, <1>8

LEMMA FilterLease ==
  ASSUME DriveInv, FilterStep
  PROVE  \/ \E s \in Servo, t \in Time : Lease!Issue(s, t)
         \/ UNCHANGED <<limbAccess, Seen>>
<1> DEFINE c == Head(pending)
<1>1. TypeInv /\ commandQueues \in [Servo -> Seq(QueuedCommand)] /\ limbAccess' = limbAccess
  BY DEF DriveInv, SelectInv, TypeInv, TypeOK, FilterStep, allocated
<1>2. c \in Command /\ c.id \in Servo /\ c.time \in Time /\ c.source \in Request
  BY <1>1, FilterStepQueues DEF Command
<1>3. CASE HasAccess(c) /\ commandQueues' = [commandQueues EXCEPT ![c.id] = Enqueue(@, c)]
  <2> HIDE DEF c
  <2>1. PICK n \in 0..Len(View(commandQueues[c.id])) :
          /\ n # 0 => View(commandQueues[c.id])[n].time <= c.time
          /\ View(Enqueue(commandQueues[c.id], c)) =
               Append(SubSeq(View(commandQueues[c.id]), 1, n),
                      [time |-> c.time, issuer |-> c.source])
    BY <1>1, <1>2, ViewEnqueue
  <2>2. /\ limbAccess[LimbForServo[c.id]] = c.source
        /\ limbAccess[LimbForServo[c.id]] # Nobody
    BY <1>2, <1>3, OtherAssumption DEF HasAccess
  <2>3. \A s \in Servo : commandQueues'[s] = IF s = c.id THEN Enqueue(commandQueues[s], c)
                                                         ELSE commandQueues[s]
    BY <1>1, <1>2, <1>3
  <2>4. Seen' = [Seen EXCEPT ![c.id] =
          Append(SubSeq(Seen[c.id], 1, n), [time |-> c.time, issuer |-> c.source])]
    BY <1>2, <2>1, <2>3 DEF Seen
  <2>5. /\ n \in 0..Len(Seen[c.id])
        /\ n # 0 => Seen[c.id][n].time <= c.time
    BY <1>2, <2>1 DEF Seen
  <2>6. Lease!Issue(c.id, c.time)
    BY <1>1, <1>2, <2>2, <2>4, <2>5 DEF Lease!Issue, Lease!Owner, Seen
  <2>. QED
    BY <1>2, <2>6
<1>4. CASE commandQueues' = commandQueues
  BY <1>1, <1>4 DEF Seen
<1>. QED
  BY <1>3, <1>4 DEF FilterStep

LEMMA TickLease ==
  ASSUME DriveInv, NEW t \in Time, Tick(t)
  PROVE  \E done \in SUBSET Servo : Lease!Advance(done)
<1> DEFINE done == {s \in Servo : Expired(commandQueues[s], t)}
<1>1. commandQueues \in [Servo -> Seq(QueuedCommand)] /\ limbAccess' = limbAccess
  BY DEF DriveInv, SelectInv, TypeInv, TypeOK, Tick, allocated
<1>2. ASSUME NEW s \in Servo
      PROVE  /\ s \in done => Seen[s] # <<>>
             /\ Seen'[s] = IF s \in done THEN Tail(Seen[s]) ELSE Seen[s]
  <2> DEFINE q == commandQueues[s]
             w == AfterPop(q, t)
  <2>1. q \in Seq(QueuedCommand) /\ w \in Seq(QueuedCommand) /\ commandQueues'[s] = AfterSend(w)
    BY <1>1, PopKeeps DEF Tick
  <2>2. Seen'[s] = View(w)
    <3> HIDE DEF w
    <3>. QED
      BY <2>1, ViewSend DEF Seen
  <2>3. CASE s \in done
    BY <2>1, <2>2, <2>3, ViewTail DEF AfterPop, Expired, Seen
  <2>4. CASE s \notin done
    BY <2>1, <2>2, <2>4 DEF AfterPop, Seen
  <2>. QED
    BY <2>3, <2>4
<1>3. Seen' = [s \in Servo |-> IF s \in done THEN Tail(Seen[s]) ELSE Seen[s]]
  BY <1>2 DEF Seen
<1>4. done \in SUBSET Servo /\ \A s \in done : Seen[s] # <<>>
  BY <1>2
<1> HIDE DEF done
<1>5. Lease!Advance(done)
  BY <1>1, <1>3, <1>4 DEF Lease!Advance, Seen
<1>. QED
  BY <1>4, <1>5

(* The controller implements LimbLease, if limbAccess starts without the id  *)
(* of a request in it: whatever is registered, reprioritised, selected,      *)
(* filtered and played back, limbs change hands at once with clean queues    *)
(* and only their owners add to them.                                        *)
THEOREM Implementation ==
  ASSUME InitialLease \cap Request = {}
  PROVE  Spec => ImplementsLease
<1>1. Init => Lease!Init
  <2> SUFFICES ASSUME Init PROVE Lease!Init
    OBVIOUS
  <2>1. limbAccess = [l \in Limb |-> Nobody]
    BY OtherAssumption DEF Init
  <2>2. Seen = [s \in Servo |-> <<>>]
    BY ViewEmpty DEF Init, Seen
  <2>. QED
    BY <2>1, <2>2 DEF Lease!Init, Seen
<1>2. DriveInv /\ [Next]_vars => [Lease!Next]_<<limbAccess, Seen>>
  <2> SUFFICES ASSUME DriveInv, [Next]_vars PROVE [Lease!Next]_<<limbAccess, Seen>>
    OBVIOUS
  <2>1. CASE Commit
    BY <2>1, CommitLease DEF Lease!Next
  <2>2. CASE FilterStep
    BY <2>2, FilterLease DEF Lease!Next
  <2>3. CASE \E t \in Time : Tick(t)
    BY <2>3, TickLease DEF Lease!Next
  <2>4. CASE UNCHANGED <<limbAccess, commandQueues>>
    BY <2>4 DEF Seen
  <2>. QED
    BY <2>1, <2>2, <2>3, <2>4
    DEF Next, Prioritise, SelectStep, Startup, Register, UpdateAndReselect,
        UpdateOnly, ApplyPriorities, Activate, PassOver, CommandFilter, vars,
        queues, allocated
<1>3. DriveInv /\ [Next]_vars
        => [Lease!Next]_<<limbAccess, [s \in Servo |-> View(commandQueues[s])]>>
  BY <1>2 DEF Seen
<1>4. Spec => []DriveInv
  BY DriveInvariant
<1>. QED
  BY <1>1, <1>3, <1>4, PTL DEF Spec, ImplementsLease, Lease!Spec
=============================================================================

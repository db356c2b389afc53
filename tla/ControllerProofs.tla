------------------------- MODULE ControllerProofs -------------------------
(***************************************************************************)
(* Theorems about the behaviour controller, for any number of requests,    *)
(* items, limbs, servos, priorities and commands.                          *)
(***************************************************************************)
EXTENDS Controller, FiniteSetTheorems, SequenceTheorems, WellFoundedInduction, TLAPS

-----------------------------------------------------------------------------
(* The command queues: what the filter and the tick do to one queue.         *)

(* A nonempty set of natural numbers has a least element.                    *)
LEMMA LeastNatural ==
  ASSUME NEW T \in SUBSET Nat, T # {}
  PROVE  \E n \in T : \A m \in T : n <= m
<1> DEFINE Less == {e \in Nat \X Nat : e[1] < e[2]}
<1>1. IsWellFoundedOn(Less, Nat)
  BY NatLessThanWellFounded DEF OpToRel
<1> HIDE DEF Less
<1>2. PICK n \in T : \A m \in T : <<m, n>> \notin Less
  BY <1>1, WFMin
<1>3. ASSUME NEW m \in T PROVE n <= m
  <2>1. m \in Nat /\ n \in Nat
    OBVIOUS
  <2>2. ASSUME m < n PROVE <<m, n>> \in Less
    BY <2>1, <2>2 DEF Less
  <2>. QED
    BY <1>2, <2>1, <2>2
<1>. QED
  BY <1>3

SortedQueue(q) == \A i, j \in 1..Len(q) : i <= j => q[i].time <= q[j].time
UnsentBehindFront(q) == \A i \in 2..Len(q) : q[i].source # Nobody
IssuersWithin(q, R) == \A i \in 1..Len(q) : q[i].issuer \in R

LEMMA QueueElements ==
  ASSUME NEW q \in Seq(QueuedCommand), NEW i \in 1..Len(q)
  PROVE  /\ q[i] \in QueuedCommand
         /\ q[i].time \in Nat /\ q[i].issuer \in Request
<1>1. q[i] \in QueuedCommand
  BY ElementOfSeq
<1>. QED
  BY <1>1, OtherAssumption DEF QueuedCommand, Time

(* What the filter keeps of a queue is a prefix that ends no later than t.   *)
LEMMA KeptForIsPrefix ==
  ASSUME NEW q \in Seq(QueuedCommand), NEW t \in Time
  PROVE  \E n \in 0..Len(q) : /\ KeptFor(q, t) = SubSeq(q, 1, n)
                              /\ n # 0 => q[n].time <= t
<1> DEFINE Enough(n) == \A i \in n + 1..Len(q) : q[i].time > t
           Ends == {n \in 0..Len(q) : Enough(n)}
<1>1. Len(q) \in Nat /\ \A i \in 1..Len(q) : q[i].time \in Nat
  BY QueueElements
<1>2. Len(q) \in Ends
  BY <1>1
<1>3. PICK n \in Ends : \A k \in Ends : n <= k
  <2>1. Ends \in SUBSET Nat /\ Ends # {}
    BY <1>1, <1>2
  <2> HIDE DEF Ends
  <2>. QED
    BY <2>1, LeastNatural
<1> DEFINE Chosen(m) == /\ Enough(m)
                        /\ \A k \in 0..Len(q) : Enough(k) => m <= k
<1>4. n \in 0..Len(q) /\ Chosen(n)
  BY <1>3
<1>5. \A m \in 0..Len(q) : Chosen(m) => m = n
  BY <1>1, <1>4
<1>6. KeptFor(q, t) = SubSeq(q, 1, n)
  <2>1. (CHOOSE m \in 0..Len(q) : Chosen(m)) = n
    <3> HIDE DEF Chosen
    <3>. QED
      BY <1>4, <1>5
  <2>. QED
    BY <2>1 DEF KeptFor
<1>7. ASSUME n # 0 PROVE q[n].time <= t
  <2>1. n - 1 \in 0..Len(q) /\ ~Enough(n - 1)
    <3>1. n - 1 \in 0..Len(q) /\ ~(n <= n - 1)
      BY <1>1, <1>4, <1>7
    <3>2. Chosen(n)
      BY <1>4
    <3> HIDE DEF Enough
    <3>. QED
      BY <3>1, <3>2
  <2>2. PICK i \in n..Len(q) : ~(q[i].time > t)
    BY <1>1, <1>4, <2>1
  <2>3. i = n
    BY <1>1, <1>4, <2>2
  <2>. QED
    BY <1>1, <1>4, <1>7, <2>2, <2>3, OtherAssumption DEF Time
<1>. QED
  BY <1>4, <1>6, <1>7

(* Appending a command keeps the queue sorted, with only its front sent, and *)
(* adds no issuer but the source of the command.                             *)
LEMMA EnqueueKeeps ==
  ASSUME NEW q \in Seq(QueuedCommand), NEW c \in Command, NEW R
  PROVE  /\ Enqueue(q, c) \in Seq(QueuedCommand)
         /\ SortedQueue(q) => SortedQueue(Enqueue(q, c))
         /\ UnsentBehindFront(q) => UnsentBehindFront(Enqueue(q, c))
         /\ IssuersWithin(q, R) /\ c.source \in R => IssuersWithin(Enqueue(q, c), R)
<1>1. c.time \in Time /\ c.source \in Request
  BY DEF Command
<1>2. PICK n \in 0..Len(q) : /\ KeptFor(q, c.time) = SubSeq(q, 1, n)
                             /\ n # 0 => q[n].time <= c.time
  BY <1>1, KeptForIsPrefix
<1> DEFINE e == [time |-> c.time, source |-> c.source, issuer |-> c.source]
           p == SubSeq(q, 1, n)
<1>3. e \in QueuedCommand
  BY <1>1 DEF QueuedCommand
<1>4. /\ p \in Seq(QueuedCommand) /\ Len(p) = n /\ n \in Nat /\ n <= Len(q)
      /\ \A i \in 1..n : p[i] = q[i]
  <2>1. Len(q) \in Nat /\ n \in Nat /\ n <= Len(q) /\ 1 \in Int
    OBVIOUS
  <2>2. \A i \in 1..n : q[i] \in QueuedCommand
    BY <2>1, ElementOfSeq
  <2>. QED
    BY <2>1, <2>2, SubSeqProperties
<1>5. Enqueue(q, c) = Append(p, e)
  BY <1>2 DEF Enqueue
<1> DEFINE w == Enqueue(q, c)
<1>6. /\ w \in Seq(QueuedCommand) /\ Len(w) = n + 1
      /\ w[n + 1] = e /\ \A i \in 1..n : w[i] = q[i]
  <2> HIDE DEF e, p
  <2>. QED
    BY <1>3, <1>4, <1>5
<1>7. /\ \A i \in 1..Len(q) : q[i].time \in Nat
      /\ e.time = c.time /\ c.time \in Nat
  BY <1>1, QueueElements, OtherAssumption DEF Time
<1>8. ASSUME SortedQueue(q) PROVE SortedQueue(w)
  <2>1. ASSUME NEW i \in 1..n PROVE w[i].time <= c.time
    <3>1. q[i].time <= q[n].time
      BY <1>4, <1>8 DEF SortedQueue
    <3>2. q[n].time <= c.time /\ i \in 1..Len(q) /\ n \in 1..Len(q)
      BY <1>2, <1>4
    <3>. QED
      BY <1>4, <1>6, <1>7, <3>1, <3>2
  <2> SUFFICES ASSUME NEW i \in 1..n + 1, NEW j \in 1..n + 1, i <= j
               PROVE  w[i].time <= w[j].time
    BY <1>6 DEF SortedQueue
  <2>2. CASE j = n + 1 /\ i # n + 1
    BY <1>4, <1>6, <1>7, <2>1, <2>2
  <2>3. CASE j # n + 1
    BY <1>4, <1>6, <1>8, <2>3 DEF SortedQueue
  <2>4. CASE i = n + 1 /\ j = n + 1
    BY <1>6, <1>7, <2>4
  <2>. QED
    BY <2>2, <2>3, <2>4
<1>9. ASSUME UnsentBehindFront(q) PROVE UnsentBehindFront(w)
  BY <1>1, <1>4, <1>6, <1>9, OtherAssumption DEF UnsentBehindFront
<1>10. ASSUME IssuersWithin(q, R), c.source \in R PROVE IssuersWithin(w, R)
  BY <1>4, <1>6, <1>10 DEF IssuersWithin
<1>. QED
  BY <1>6, <1>8, <1>9, <1>10

(* One tick keeps the queue sorted, with only its front sent, and adds no    *)
(* issuer.                                                                   *)
LEMMA PopKeeps ==
  ASSUME NEW q \in Seq(QueuedCommand), NEW t, NEW R
  PROVE  /\ AfterPop(q, t) \in Seq(QueuedCommand)
         /\ SortedQueue(q) => SortedQueue(AfterPop(q, t))
         /\ UnsentBehindFront(q) => UnsentBehindFront(AfterPop(q, t))
         /\ IssuersWithin(q, R) => IssuersWithin(AfterPop(q, t), R)
<1>1. CASE q # <<>> /\ AfterPop(q, t) = Tail(q)
  <2> DEFINE w == Tail(q)
  <2>1. /\ w \in Seq(QueuedCommand) /\ Len(q) \in Nat /\ Len(w) = Len(q) - 1
        /\ \A i \in 1..Len(w) : w[i] = q[i + 1]
    BY <1>1, HeadTailProperties
  <2> HIDE DEF w
  <2>2. ASSUME SortedQueue(q) PROVE SortedQueue(w)
    <3> SUFFICES ASSUME NEW i \in 1..Len(w), NEW j \in 1..Len(w), i <= j
                 PROVE  w[i].time <= w[j].time
      BY DEF SortedQueue
    <3>1. i + 1 \in 1..Len(q) /\ j + 1 \in 1..Len(q) /\ i + 1 <= j + 1
      BY <2>1
    <3>. QED
      BY <2>1, <2>2, <3>1 DEF SortedQueue
  <2>3. ASSUME UnsentBehindFront(q) PROVE UnsentBehindFront(w)
    BY <2>1, <2>3 DEF UnsentBehindFront
  <2>4. ASSUME IssuersWithin(q, R) PROVE IssuersWithin(w, R)
    BY <2>1, <2>4 DEF IssuersWithin
  <2>. QED
    BY <1>1, <2>1, <2>2, <2>3, <2>4 DEF w
<1>2. CASE AfterPop(q, t) = q
  BY <1>2
<1>. QED
  BY <1>1, <1>2 DEF AfterPop, Expired

LEMMA SendKeeps ==
  ASSUME NEW q \in Seq(QueuedCommand), NEW R
  PROVE  /\ AfterSend(q) \in Seq(QueuedCommand)
         /\ SortedQueue(q) => SortedQueue(AfterSend(q))
         /\ UnsentBehindFront(q) => UnsentBehindFront(AfterSend(q))
         /\ IssuersWithin(q, R) => IssuersWithin(AfterSend(q), R)
<1>1. CASE q # <<>> /\ AfterSend(q) = [q EXCEPT ![1].source = Nobody]
  <2> DEFINE e == [q[1] EXCEPT !.source = Nobody]
             w == [q EXCEPT ![1] = e]
  <2>1. Len(q) \in Nat /\ 1 \in 1..Len(q)
    BY <1>1, EmptySeq
  <2>2. q[1] \in QueuedCommand
    BY <2>1, ElementOfSeq
  <2>3. /\ e \in QueuedCommand /\ e.time = q[1].time /\ e.issuer = q[1].issuer
    BY <2>2 DEF QueuedCommand
  <2>4. /\ w \in Seq(QueuedCommand) /\ Len(w) = Len(q)
        /\ \A j \in 1..Len(q) : w[j] = IF j = 1 THEN e ELSE q[j]
    <3> HIDE DEF e
    <3>. QED
      BY <2>1, <2>3, ExceptSeq
  <2>5. AfterSend(q) = w
    BY <1>1
  <2> HIDE DEF w, e
  <2>6. \A j \in 1..Len(q) : w[j].time = q[j].time /\ w[j].issuer = q[j].issuer
    BY <2>3, <2>4
  <2>7. ASSUME SortedQueue(q) PROVE SortedQueue(w)
    BY <2>4, <2>6, <2>7 DEF SortedQueue
  <2>8. ASSUME UnsentBehindFront(q) PROVE UnsentBehindFront(w)
    BY <2>1, <2>4, <2>8 DEF UnsentBehindFront
  <2>9. ASSUME IssuersWithin(q, R) PROVE IssuersWithin(w, R)
    BY <2>4, <2>6, <2>9 DEF IssuersWithin
  <2>. QED
    BY <2>4, <2>5, <2>7, <2>8, <2>9
<1>2. CASE AfterSend(q) = q
  BY <1>2
<1>. QED
  BY <1>1, <1>2 DEF AfterSend, Unsent

-----------------------------------------------------------------------------
(* The inductive invariant, part by part.                                    *)

PendingOK == phase = "filter" => pending # <<>>

MainOK == \A r \in registered : mainElement[r] \in ItemsOf(r)

Separate(S) == \A x, y \in S : LimbSet[x] \cap LimbSet[y] # {} => x = y

(* Inside selectAction the lists are sorted; the items chosen so far share   *)
(* no limb with each other or with the limbs left, and none is chosen before *)
(* its main element.                                                         *)
ChoiceOK ==
  phase = "select" =>
    /\ considered = registered
    /\ \A e \in before : priority[e[1]] >= priority[e[2]]
    /\ \A l \in Limb : \A x \in rest[l] : Group(x) \in registered
    /\ Separate(newActions)
    /\ \A x \in newActions : /\ LimbSet[x] \cap limbs = {}
                             /\ Group(x) \in registered
                             /\ mainElement[Group(x)] \in newActions

(* x is still ahead of the iterator of l.                                    *)
Waits(x, l) == l \in limbs /\ x \in rest[l]

(* A main element leaves a list only when an item at least as important has  *)
(* one of its limbs.                                                         *)
MainsWait ==
  phase = "select" =>
    \A r \in registered : \A l \in LimbSet[mainElement[r]] :
      Waits(mainElement[r], l) \/ Blocked(mainElement[r], newActions)

(* So does a member, unless its main element can no longer be chosen.        *)
Hopeless(m) == m \notin newActions /\ \A k \in limbs : m \notin rest[k]
MembersWait ==
  phase = "select" =>
    \A x \in Item :
      Group(x) \in registered /\ priority[x] < priority[mainElement[Group(x)]] =>
        \A l \in LimbSet[x] :
          Waits(x, l) \/ Blocked(x, newActions) \/ Hopeless(mainElement[Group(x)])

CurrentOK ==
  /\ Separate(currentActions)
  /\ \A x \in currentActions : Group(x) \in registered
  /\ phase # "select" => \A x \in currentActions : Group(x) \in considered
  /\ ~selected => currentActions = {} /\ limbAccess \in [Limb -> InitialLease]
  /\ \A r \in Request : notified[r] = LimbsOf(currentActions \cap ItemsOf(r))

TypeInv == TypeOK /\ PendingOK /\ MainOK

-----------------------------------------------------------------------------
(* Types                                                                     *)

LEMMA ReprioritisedType ==
  ASSUME TypeOK, NEW r \in Request, NEW p \in [ItemsOf(r) -> Priority]
  PROVE  /\ Reprioritised(r, p) \in [Item -> Nat]
         /\ \A x \in ItemsOf(r) : Reprioritised(r, p)[x] = p[x]
         /\ \A x \in Item \ ItemsOf(r) : Reprioritised(r, p)[x] = priority[x]
BY OtherAssumption DEF TypeOK, Reprioritised, ItemsOf

LEMMA GroupType == \A x \in Item : Group(x) \in Request /\ x \in ItemsOf(Group(x))
BY ItemAssumption DEF Group, ItemsOf

LEMMA NewLeaseIs ==
  ASSUME newActions \subseteq Item, Separate(newActions), NEW l \in Limb
  PROVE  /\ \A x \in newActions : l \in LimbSet[x] => NewLease[l] = Group(x)
         /\ (\A x \in newActions : l \notin LimbSet[x]) => NewLease[l] = Nobody
<1>1. ASSUME NEW x \in newActions, l \in LimbSet[x]
      PROVE  NewLease[l] = Group(x)
  <2>1. \A y \in newActions : l \in LimbSet[y] => y = x
    BY <1>1 DEF Separate
  <2>2. (CHOOSE y \in newActions : l \in LimbSet[y]) = x
    BY <1>1, <2>1
  <2>3. l \in LimbsOf(newActions)
    BY <1>1 DEF LimbsOf
  <2>. QED
    BY <2>2, <2>3 DEF NewLease
<1>2. ASSUME \A x \in newActions : l \notin LimbSet[x]
      PROVE  NewLease[l] = Nobody
  BY <1>2 DEF NewLease, LimbsOf
<1>. QED
  BY <1>1, <1>2

LEMMA NewLeaseType ==
  ASSUME newActions \subseteq Item
  PROVE  NewLease \in [Limb -> Request \cup {Nobody}]
<1>1. ASSUME NEW l \in Limb, l \in LimbsOf(newActions)
      PROVE  Group(CHOOSE x \in newActions : l \in LimbSet[x]) \in Request
  <2>1. PICK x \in newActions : l \in LimbSet[x]
    BY <1>1 DEF LimbsOf
  <2>2. (CHOOSE y \in newActions : l \in LimbSet[y]) \in newActions
    BY <2>1
  <2>. QED
    BY <2>2, GroupType
<1>. QED
  BY <1>1 DEF NewLease

LEMMA LimbsOfType == \A S \in SUBSET Item : LimbsOf(S) \subseteq Limb
BY ItemAssumption DEF LimbsOf

LEMMA InitTypes == Init => TypeInv
<1> SUFFICES ASSUME Init PROVE TypeInv
  OBVIOUS
<1>1. /\ commandQueues \in [Servo -> Seq(QueuedCommand)]
      /\ pending \in Seq(Command)
  BY EmptySeq DEF Init
<1>2. limbAccess \in [Limb -> Request \cup {Nobody}]
  BY OtherAssumption DEF Init
<1>3. now \in Time /\ mainElement \in [Request -> Item \cup {Nobody}]
  BY OtherAssumption DEF Init, Time
<1>4. priority \in [Item -> Nat]
  BY DEF Init
<1>. QED
  BY <1>1, <1>2, <1>3, <1>4 DEF Init, TypeInv, TypeOK, PendingOK, MainOK

LEMMA BeginSelectionTypes ==
  ASSUME NEW p, BeginSelection(p), TypeOK
  PROVE  /\ phase' = "select" /\ before' \subseteq Item \X Item
         /\ limbs' \subseteq Limb /\ rest' \in [Limb -> SUBSET Item]
         /\ newActions' \subseteq Item /\ considered' = registered
BY DEF BeginSelection, StableSorted, Listed, TypeOK

LEMMA NextTypes == TypeInv /\ [Next]_vars => TypeInv'
<1> SUFFICES ASSUME TypeInv, [Next]_vars PROVE TypeInv'
  OBVIOUS
<1> USE DEF registry, allocated, loop, queues
<1>0. TypeOK /\ PendingOK /\ MainOK
  BY DEF TypeInv
<1>1. ASSUME NEW r \in Request, NEW p \in [ItemsOf(r) -> Priority],
             NEW m \in ItemsOf(r), Register(r, p, m)
      PROVE  TypeInv'
  <2>1. before' \subseteq Item \X Item
    BY <1>0, <1>1 DEF Register, PushedBack, Listed, ItemsOf, TypeOK
  <2>2. priority' \in [Item -> Nat]
    BY <1>0, <1>1, ReprioritisedType DEF Register
  <2>3. m \in Item
    BY DEF ItemsOf
  <2>4. MainOK'
    BY <1>0, <1>1 DEF Register, MainOK, TypeOK, ItemsOf
  <2>. QED
    BY <1>0, <1>1, <2>1, <2>2, <2>3, <2>4 DEF Register, TypeInv, TypeOK, PendingOK
<1>2. ASSUME Startup PROVE TypeInv'
  <2>1. BeginSelection(priority)
    BY <1>2 DEF Startup
  <2>. QED
    BY <1>0, <1>2, <2>1, BeginSelectionTypes
    DEF Startup, TypeInv, TypeOK, PendingOK, MainOK
<1>3. ASSUME NEW r \in Request, NEW p \in [ItemsOf(r) -> Priority],
             NEW m \in ItemsOf(r), ApplyPriorities(r, p, m),
             \/ BeginSelection(Reprioritised(r, p))
             \/ UNCHANGED <<loop, phase>>
      PROVE  TypeInv'
  <2>1. priority' \in [Item -> Nat]
    BY <1>0, <1>3, ReprioritisedType DEF ApplyPriorities
  <2>2. m \in Item
    BY DEF ItemsOf
  <2>3. MainOK'
    BY <1>0, <1>3 DEF ApplyPriorities, MainOK, TypeOK, ItemsOf
  <2>4. /\ before' \subseteq Item \X Item
        /\ limbs' \subseteq Limb /\ rest' \in [Limb -> SUBSET Item]
        /\ newActions' \subseteq Item /\ considered' \subseteq registered
        /\ phase' \in {"idle", "select"}
    BY <1>0, <1>3, BeginSelectionTypes DEF ApplyPriorities, TypeOK
  <2>. QED
    BY <1>0, <1>3, <2>1, <2>2, <2>3, <2>4
    DEF ApplyPriorities, TypeInv, TypeOK, PendingOK
<1>4. ASSUME NEW l \in Limb, NEW x \in Item, Activate(l, x) PROVE TypeInv'
  BY <1>0, <1>4 DEF Activate, TypeInv, TypeOK, PendingOK, MainOK
<1>5. ASSUME NEW l \in Limb, NEW x \in Item, PassOver(l, x) PROVE TypeInv'
  BY <1>0, <1>5 DEF PassOver, TypeInv, TypeOK, PendingOK, MainOK
<1>6. ASSUME Commit PROVE TypeInv'
  <2>1. NewLease \in [Limb -> Request \cup {Nobody}]
    BY <1>0, NewLeaseType DEF TypeOK
  <2>2. Notify \in [Request -> SUBSET Limb]
    <3>1. \A r \in Request : /\ LimbsOf(Killed \cap ItemsOf(r)) \subseteq Limb
                             /\ LimbsOf(Started \cap ItemsOf(r)) \subseteq Limb
      BY <1>0, LimbsOfType DEF TypeOK, Killed, Started
    <3>. QED
      BY <1>0, <3>1 DEF Notify, TypeOK
  <2>3. ClearKilled \in [Servo -> Seq(QueuedCommand)]
    BY <1>0, EmptySeq DEF ClearKilled, TypeOK
  <2>. QED
    BY <1>0, <1>6, <2>1, <2>2, <2>3 DEF Commit, TypeInv, TypeOK, PendingOK, MainOK
<1>7. ASSUME NEW batch \in Batches, CommandFilter(batch) PROVE TypeInv'
  BY <1>0, <1>7, OtherAssumption
  DEF CommandFilter, TypeInv, TypeOK, PendingOK, MainOK
<1>8. ASSUME FilterStep PROVE TypeInv'
  <2>1. pending \in Seq(Command) /\ pending # <<>>
    BY <1>0, <1>8 DEF FilterStep, TypeOK, PendingOK
  <2>2. Head(pending) \in Command /\ Tail(pending) \in Seq(Command)
    BY <2>1, HeadTailProperties
  <2>3. Head(pending).id \in Servo
    BY <2>2 DEF Command
  <2>4. Enqueue(commandQueues[Head(pending).id], Head(pending)) \in Seq(QueuedCommand)
    BY <1>0, <2>2, <2>3, EnqueueKeeps DEF TypeOK
  <2>5. commandQueues' \in [Servo -> Seq(QueuedCommand)]
    BY <1>0, <1>8, <2>3, <2>4 DEF FilterStep, TypeOK
  <2>. QED
    BY <1>0, <1>8, <2>2, <2>5 DEF FilterStep, TypeInv, TypeOK, PendingOK, MainOK
<1>9. ASSUME NEW t \in Time, Tick(t) PROVE TypeInv'
  <2>1. \A s \in Servo : AfterSend(AfterPop(commandQueues[s], t)) \in Seq(QueuedCommand)
    BY <1>0, PopKeeps, SendKeeps DEF TypeOK
  <2>2. commandQueues' \in [Servo -> Seq(QueuedCommand)]
    BY <1>9, <2>1 DEF Tick
  <2>. QED
    BY <1>0, <1>9, <2>2 DEF Tick, TypeInv, TypeOK, PendingOK, MainOK
<1>10. CASE UNCHANGED vars
  BY <1>0, <1>10 DEF vars, TypeInv, TypeOK, PendingOK, MainOK
<1>. QED
  BY <1>1, <1>2, <1>3, <1>4, <1>5, <1>6, <1>7, <1>8, <1>9, <1>10
  DEF Next, Prioritise, SelectStep, UpdateAndReselect, UpdateOnly

(* Every variable of the controller keeps its type.                          *)
THEOREM TypeCorrect == Spec => []TypeInv
BY InitTypes, NextTypes, PTL DEF Spec

(* Every variable of the controller keeps its type: leases are ids or 0,     *)
(* orders, choices and queues are over registered things.                    *)
THEOREM ControllerTypes == Spec => []TypeOK
<1>1. TypeInv => TypeOK
  BY DEF TypeInv
<1>. QED
  BY <1>1, TypeCorrect, PTL

-----------------------------------------------------------------------------
(* The selection loop                                                        *)

LoopInv == ChoiceOK /\ MainsWait /\ MembersWait

LEMMA BlockedGrows ==
  ASSUME NEW x, NEW S, NEW T, S \subseteq T, Blocked(x, S)
  PROVE  Blocked(x, T)
BY DEF Blocked

LEMMA BeginSelectionLoop ==
  ASSUME TypeInv, TypeInv', BeginSelection(priority'), registered' = registered
  PROVE  LoopInv'
<1>1. /\ phase' = "select" /\ limbs' = Limb /\ newActions' = {}
      /\ considered' = registered'
      /\ \A l \in Limb : rest'[l] = {x \in Item : Group(x) \in registered
                                                  /\ l \in LimbSet[x]}
  BY DEF BeginSelection, Listed
<1>2. priority' \in [Item -> Nat]
  BY DEF TypeInv, TypeOK
<1>3. \A e \in before' : priority'[e[1]] >= priority'[e[2]]
  <2> SUFFICES ASSUME NEW e \in before' PROVE priority'[e[1]] >= priority'[e[2]]
    OBVIOUS
  <2>1. /\ e \in Listed \X Listed
        /\ \/ priority'[e[1]] > priority'[e[2]]
           \/ priority'[e[1]] = priority'[e[2]]
    BY DEF BeginSelection, StableSorted
  <2>2. e[1] \in Item /\ e[2] \in Item
    BY <2>1 DEF Listed
  <2>. QED
    BY <1>2, <2>1, <2>2
<1>4. ChoiceOK'
  BY <1>1, <1>3 DEF ChoiceOK, Separate
<1>5. ASSUME NEW x \in Item, Group(x) \in registered, NEW l \in LimbSet[x]
      PROVE  Waits(x, l)'
  BY <1>1, <1>5, ItemAssumption DEF Waits
<1>6. \A r \in registered : mainElement'[r] \in Item /\ Group(mainElement'[r]) = r
  BY DEF TypeInv, MainOK, ItemsOf, Group
<1>7. MainsWait'
  BY <1>5, <1>6 DEF MainsWait
<1>8. MembersWait'
  BY <1>5 DEF MembersWait
<1>. QED
  BY <1>4, <1>7, <1>8 DEF LoopInv

(* What an item under consideration tells of every item still waiting.       *)
LEMMA ConsidersLargest ==
  ASSUME TypeOK, NEW l, NEW x, Considers(l, x), NEW y \in Item, NEW k, Waits(y, k)
  PROVE  priority[y] <= priority[x] /\ x \in Item
<1>1. x \in Item
  BY DEF Considers, TypeOK
<1>2. priority[x] \in Nat /\ priority[y] \in Nat
  BY <1>1 DEF TypeOK
<1>. QED
  BY <1>1, <1>2 DEF Considers, Waits

LEMMA ActivateLoop ==
  ASSUME TypeInv, LoopInv, NEW l \in Limb, NEW x \in Item, Activate(l, x)
  PROVE  LoopInv'
<1> USE DEF registry, allocated
<1>1. /\ phase = "select" /\ Considers(l, x) /\ Suitable(x)
      /\ newActions' = newActions \cup {x} /\ limbs' = limbs \ LimbSet[x]
      /\ UNCHANGED <<registered, priority, mainElement, before, rest, considered, phase>>
  BY DEF Activate
<1>2. /\ TypeOK /\ MainOK /\ ChoiceOK /\ MainsWait /\ MembersWait
      /\ x \in rest[l] /\ l \in limbs /\ Group(x) \in registered
  BY <1>1 DEF TypeInv, LoopInv, ChoiceOK, Considers
<1>3. LimbSet[x] \subseteq limbs
  BY <1>1 DEF Suitable, hasLimbs
<1>4. ChoiceOK'
  <2>1. mainElement[Group(x)] \in newActions'
    <3>1. CASE x = mainElement[Group(x)]
      BY <1>1, <3>1
    <3>2. CASE GroupActive(Group(x))
      BY <1>1, <1>2, <3>2 DEF GroupActive, ChoiceOK
    <3>. QED
      BY <1>1, <3>1, <3>2 DEF Suitable
  <2>2. \A y \in newActions : LimbSet[y] \cap LimbSet[x] = {}
    BY <1>1, <1>2, <1>3 DEF ChoiceOK
  <2>3. Separate(newActions')
    BY <1>1, <1>2, <2>2 DEF ChoiceOK, Separate
  <2>4. \A y \in newActions' : /\ LimbSet[y] \cap limbs' = {}
                               /\ Group(y) \in registered'
                               /\ mainElement'[Group(y)] \in newActions'
    BY <1>1, <1>2, <2>1 DEF ChoiceOK
  <2>. QED
    BY <1>1, <1>2, <2>3, <2>4 DEF ChoiceOK
(* An item waiting on a limb still waits on it, or x has just taken it.      *)
<1>5. ASSUME NEW y \in Item, NEW k \in LimbSet[y], Waits(y, k)
      PROVE  Waits(y, k)' \/ Blocked(y, newActions)'
  <2>1. CASE k \notin LimbSet[x]
    BY <1>1, <1>5, <2>1 DEF Waits
  <2>2. CASE k \in LimbSet[x]
    <3>1. priority[y] <= priority[x]
      BY <1>1, <1>2, <1>5, ConsidersLargest
    <3>2. priority[x] >= priority[y] /\ LimbSet[y] \cap LimbSet[x] # {}
      BY <1>2, <2>2, <3>1 DEF TypeOK
    <3>. QED
      BY <1>1, <3>2 DEF Blocked
  <2>. QED
    BY <2>1, <2>2
<1>6. \A y : Blocked(y, newActions) => Blocked(y, newActions)'
  BY <1>1 DEF Blocked
<1>7. MainsWait'
  <2>1. \A r \in registered : mainElement[r] \in Item
    BY <1>2 DEF MainOK, ItemsOf
  <2>. QED
    BY <1>1, <1>2, <1>5, <1>6, <2>1 DEF MainsWait
<1>8. \A m : Hopeless(m) => Hopeless(m)'
  BY <1>1, <1>2 DEF Hopeless
<1>9. MembersWait'
  BY <1>1, <1>2, <1>5, <1>6, <1>8 DEF MembersWait
<1>. QED
  BY <1>4, <1>7, <1>9 DEF LoopInv

LEMMA PassOverLoop ==
  ASSUME TypeInv, LoopInv, NEW l \in Limb, NEW x \in Item, PassOver(l, x)
  PROVE  LoopInv'
<1> USE DEF registry, allocated
<1>1. /\ phase = "select" /\ Considers(l, x) /\ ~Suitable(x)
      /\ rest' = [rest EXCEPT ![l] = @ \ {x}]
      /\ UNCHANGED <<registered, priority, mainElement, before, limbs,
                     newActions, considered, phase>>
  BY DEF PassOver
<1>2. /\ TypeOK /\ MainOK /\ ChoiceOK /\ MainsWait /\ MembersWait
      /\ Group(x) \in registered /\ rest \in [Limb -> SUBSET Item]
  BY <1>1 DEF TypeInv, TypeOK, LoopInv, ChoiceOK, Considers
<1>3. \A k \in Limb : rest'[k] = IF k = l THEN rest[l] \ {x} ELSE rest[k]
  BY <1>1, <1>2
<1>4. ChoiceOK'
  BY <1>1, <1>2, <1>3 DEF ChoiceOK
<1>5. \A y, k : Waits(y, k) /\ y # x => Waits(y, k)'
  BY <1>1, <1>2, <1>3 DEF Waits, TypeOK
<1>6. \A y : Blocked(y, newActions) => Blocked(y, newActions)'
  BY <1>1 DEF Blocked
<1>7. ~hasLimbs(x) => \E k \in LimbSet[x] : ~Waits(x, k)
  BY DEF hasLimbs, Waits
<1>8. MainsWait'
  <2> SUFFICES ASSUME NEW r \in registered, NEW k \in LimbSet[mainElement[r]]
               PROVE  Waits(mainElement[r], k)' \/ Blocked(mainElement[r], newActions)'
    BY <1>1 DEF MainsWait
  <2>1. CASE mainElement[r] # x
    BY <1>1, <1>2, <1>5, <1>6, <2>1 DEF MainsWait
  <2>2. CASE mainElement[r] = x
    <3>1. ~hasLimbs(x)
      BY <1>1, <1>2, <2>2 DEF Suitable, MainOK, ItemsOf, Group
    <3>. QED
      BY <1>1, <1>2, <1>6, <1>7, <2>2, <3>1 DEF MainsWait
  <2>. QED
    BY <2>1, <2>2
<1>9. \A m : Hopeless(m) => Hopeless(m)'
  BY <1>1, <1>2, <1>3 DEF Hopeless, TypeOK
<1>10. MembersWait'
  <2> SUFFICES ASSUME NEW y \in Item, NEW k \in LimbSet[y], Group(y) \in registered,
                      priority[y] < priority[mainElement[Group(y)]]
               PROVE  \/ Waits(y, k)' \/ Blocked(y, newActions)'
                      \/ Hopeless(mainElement[Group(y)])'
    BY <1>1 DEF MembersWait
  <2> DEFINE m == mainElement[Group(y)]
  <2>1. CASE y # x
    BY <1>1, <1>2, <1>5, <1>6, <1>9, <2>1 DEF MembersWait
  <2>2. CASE y = x /\ ~hasLimbs(x)
    BY <1>1, <1>2, <1>6, <1>7, <1>9, <2>2 DEF MembersWait
  <2>3. CASE y = x /\ ~GroupActive(Group(x))
    <3>1. m \in Item /\ Group(m) = Group(x)
      BY <1>2, <2>3 DEF MainOK, ItemsOf, Group
    <3>2. m \notin newActions
      BY <2>3, <3>1 DEF GroupActive
    <3>3. \A j \in limbs : m \notin rest[j]
      <4> SUFFICES ASSUME NEW j \in limbs, m \in rest[j] PROVE FALSE
        OBVIOUS
      <4>1. priority[m] <= priority[x]
        BY <1>1, <1>2, <3>1, ConsidersLargest DEF Waits
      <4>2. priority[m] \in Nat /\ priority[x] \in Nat
        BY <1>2, <3>1 DEF TypeOK
      <4>3. priority[x] < priority[m]
        BY <2>3
      <4>. QED
        BY <4>1, <4>2, <4>3
    <3>. QED
      BY <1>1, <1>9, <3>2, <3>3 DEF Hopeless
  <2>. QED
    BY <1>1, <2>1, <2>2, <2>3 DEF Suitable
<1>. QED
  BY <1>4, <1>8, <1>10 DEF LoopInv

-----------------------------------------------------------------------------
(* The leases and the current actions                                        *)

SelectInv ==
  /\ TypeInv
  /\ LoopInv
  /\ CurrentOK
  /\ LeaseMatchesSelection
  /\ MainHeld
  /\ NoInversion

LEMMA InitSelect == Init => SelectInv
<1> SUFFICES ASSUME Init PROVE SelectInv
  OBVIOUS
<1>1. LoopInv
  BY DEF Init, LoopInv, ChoiceOK, MainsWait, MembersWait
<1>2. CurrentOK
  BY DEF Init, CurrentOK, Separate, LimbsOf
<1>. QED
  BY <1>1, <1>2, InitTypes
  DEF Init, SelectInv, LeaseMatchesSelection, MainHeld, NoInversion

(* The end of the selection.                                                 *)
LEMMA CommitSelect ==
  ASSUME SelectInv, TypeInv', Commit
  PROVE  SelectInv'
<1> USE DEF registry
<1>1. /\ phase = "select" /\ phase' = "idle" /\ \A l \in limbs : rest[l] = {}
      /\ limbAccess' = NewLease /\ notified' = Notify
      /\ currentActions' = newActions /\ selected'
      /\ UNCHANGED <<registered, priority, mainElement, considered>>
  BY DEF Commit
<1>2. /\ TypeOK /\ MainOK /\ ChoiceOK /\ MainsWait /\ CurrentOK
      /\ considered = registered /\ newActions \subseteq Item
      /\ Separate(newActions) /\ Separate(currentActions)
      /\ currentActions \subseteq Item
  BY <1>1 DEF SelectInv, TypeInv, TypeOK, LoopInv, ChoiceOK, CurrentOK
<1>3. LoopInv'
  BY <1>1 DEF LoopInv, ChoiceOK, MainsWait, MembersWait
<1>4. LeaseMatchesSelection'
  <2>1. ASSUME NEW l \in Limb, NEW r \in Request
        PROVE  NewLease[l] = r <=> \E x \in newActions : Group(x) = r /\ l \in LimbSet[x]
    BY <1>2, NewLeaseIs, OtherAssumption
  <2>. QED
    BY <1>1, <1>2, <2>1 DEF LeaseMatchesSelection, Separate
<1>5. ASSUME NEW r \in Request
      PROVE  Notify[r] = LimbsOf(newActions \cap ItemsOf(r))
  <2>1. Notify[r] = (LimbsOf(currentActions \cap ItemsOf(r))
                       \ LimbsOf(Killed \cap ItemsOf(r)))
                    \cup LimbsOf(Started \cap ItemsOf(r))
    BY <1>2 DEF Notify, CurrentOK
  <2>2. ASSUME NEW x \in newActions, x \in currentActions, NEW l \in LimbSet[x]
        PROVE  l \notin LimbsOf(Killed \cap ItemsOf(r))
    BY <1>2, <2>2 DEF LimbsOf, Killed, Separate
  <2>3. ASSUME NEW x \in currentActions, x \in ItemsOf(r), NEW l \in LimbSet[x],
               l \notin LimbsOf(Killed \cap ItemsOf(r))
        PROVE  x \in newActions
    BY <2>3 DEF LimbsOf, Killed
  <2>4. Notify[r] \subseteq LimbsOf(newActions \cap ItemsOf(r))
    BY <2>1, <2>3 DEF LimbsOf, Started
  <2>5. LimbsOf(newActions \cap ItemsOf(r)) \subseteq Notify[r]
    BY <2>1, <2>2 DEF LimbsOf, Started
  <2>. QED
    BY <2>4, <2>5
<1>6. CurrentOK'
  BY <1>1, <1>2, <1>5 DEF CurrentOK, ChoiceOK
<1>7. MainHeld'
  BY <1>1, <1>2 DEF MainHeld, ChoiceOK
<1>8. NoInversion'
  <2> SUFFICES ASSUME NEW r \in registered, LimbSet[mainElement[r]] # {}
               PROVE  Blocked(mainElement[r], newActions)
    BY <1>1, <1>2 DEF NoInversion, Blocked
  <2>1. PICK l \in LimbSet[mainElement[r]] : TRUE
    OBVIOUS
  <2>2. ~Waits(mainElement[r], l)
    BY <1>1 DEF Waits
  <2>. QED
    BY <1>1, <1>2, <2>2 DEF MainsWait
<1>. QED
  BY <1>3, <1>4, <1>6, <1>7, <1>8 DEF SelectInv

(* Priorities that change without a selection.                               *)
LEMMA UpdateOnlySelect ==
  ASSUME SelectInv, TypeInv', NEW r \in Request,
         NEW p \in [ItemsOf(r) -> Priority], NEW m \in ItemsOf(r),
         UpdateOnly(r, p, m)
  PROVE  SelectInv'
<1> USE DEF allocated, loop
<1>1. /\ phase = "idle" /\ ~NeedsReselect(r, p, m)
      /\ priority' = Reprioritised(r, p)
      /\ mainElement' = [mainElement EXCEPT ![r] = m]
      /\ UNCHANGED <<registered, currentActions, limbAccess, selected, notified,
                     considered, phase>>
  BY DEF UpdateOnly, ApplyPriorities
<1>2. TypeOK /\ CurrentOK /\ LeaseMatchesSelection /\ MainHeld /\ NoInversion
  BY DEF SelectInv, TypeInv
<1>3. mainElement' = mainElement
  BY <1>1, <1>2 DEF NeedsReselect, TypeOK
<1>4. ASSUME NEW x \in Item
      PROVE  /\ priority[x] \in Nat /\ priority'[x] \in Nat
             /\ x \in currentActions => priority'[x] >= priority[x]
             /\ x \notin currentActions => priority'[x] <= priority[x]
  <2>1. priority[x] \in Nat /\ priority'[x] \in Nat
    BY <1>2 DEF TypeInv, TypeOK
  <2>2. CASE x \in ItemsOf(r)
    <3>1. priority'[x] = p[x]
      BY <1>1, <1>2, <2>2, ReprioritisedType
    <3>2. ~(x \in currentActions /\ p[x] < priority[x])
      BY <1>1, <2>2 DEF NeedsReselect
    <3>3. ~(x \notin currentActions /\ p[x] > priority[x])
      BY <1>1, <2>2 DEF NeedsReselect
    <3>. QED
      BY <2>1, <3>1, <3>2, <3>3
  <2>3. CASE x \notin ItemsOf(r)
    <3>1. priority'[x] = priority[x]
      BY <1>1, <1>2, <2>3, ReprioritisedType
    <3>. QED
      BY <2>1, <3>1
  <2>. QED
    BY <2>2, <2>3
<1>5. LoopInv'
  BY <1>1 DEF LoopInv, ChoiceOK, MainsWait, MembersWait
<1>6. CurrentOK' /\ LeaseMatchesSelection' /\ MainHeld'
  BY <1>1, <1>2, <1>3 DEF CurrentOK, LeaseMatchesSelection, MainHeld
<1>7. NoInversion'
  <2> SUFFICES ASSUME NEW q \in considered, LimbSet[mainElement[q]] # {}
               PROVE  Blocked(mainElement[q], currentActions)'
    BY <1>1, <1>3 DEF NoInversion
  <2> DEFINE x == mainElement[q]
  <2>1. x \in Item
    BY <1>2 DEF SelectInv, TypeInv, TypeOK, MainOK, ItemsOf
  <2>2. PICK y \in currentActions : LimbSet[x] \cap LimbSet[y] # {}
                                    /\ priority[y] >= priority[x]
    BY <1>1, <1>2 DEF NoInversion, Blocked
  <2>3. y \in Item /\ currentActions \subseteq Item
    BY <1>2 DEF TypeOK
  <2>4. CASE x \in currentActions
    <3>1. LimbSet[x] \cap LimbSet[x] # {} /\ priority'[x] >= priority'[x]
      BY <1>4, <2>1
    <3>. QED
      BY <1>1, <1>3, <2>4, <3>1 DEF Blocked
  <2>5. CASE x \notin currentActions
    <3>1. priority'[y] >= priority'[x]
      <4>1. priority'[y] >= priority[y] /\ priority'[x] <= priority[x]
        BY <1>4, <2>1, <2>3, <2>5
      <4>2. /\ priority[x] \in Nat /\ priority'[x] \in Nat
            /\ priority[y] \in Nat /\ priority'[y] \in Nat
        BY <1>4, <2>1, <2>3
      <4> HIDE DEF x
      <4>. QED
        BY <2>2, <4>1, <4>2
    <3>. QED
      BY <1>1, <1>3, <2>2, <3>1 DEF Blocked
  <2>. QED
    BY <2>4, <2>5
<1>. QED
  BY <1>5, <1>6, <1>7 DEF SelectInv

LEMMA RegisterSelect ==
  ASSUME SelectInv, TypeInv', NEW r \in Request,
         NEW p \in [ItemsOf(r) -> Priority], NEW m \in ItemsOf(r),
         Register(r, p, m)
  PROVE  SelectInv'
<1> USE DEF allocated
<1>1. /\ phase = "idle" /\ r \notin registered
      /\ registered' = registered \cup {r}
      /\ priority' = Reprioritised(r, p)
      /\ mainElement' = [mainElement EXCEPT ![r] = m]
      /\ UNCHANGED <<currentActions, limbAccess, selected, notified, considered, phase>>
  BY DEF Register
<1>2. TypeOK /\ MainOK /\ CurrentOK /\ LeaseMatchesSelection /\ MainHeld /\ NoInversion
  BY DEF SelectInv, TypeInv
<1>3. LoopInv'
  BY <1>1 DEF LoopInv, ChoiceOK, MainsWait, MembersWait
<1>4. CurrentOK' /\ LeaseMatchesSelection'
  BY <1>1, <1>2 DEF CurrentOK, LeaseMatchesSelection
<1>5. \A q \in registered : mainElement'[q] = mainElement[q]
  BY <1>1, <1>2 DEF TypeOK
<1>6. MainHeld'
  BY <1>1, <1>2, <1>5 DEF MainHeld, CurrentOK
<1>7. \A x \in Item : Group(x) \in registered => priority'[x] = priority[x]
  BY <1>1, <1>2, ReprioritisedType DEF ItemsOf, Group
<1>8. NoInversion'
  <2> SUFFICES ASSUME NEW q \in considered, LimbSet[mainElement'[q]] # {}
               PROVE  Blocked(mainElement[q], currentActions)'
    BY <1>1 DEF NoInversion
  <2>1. q \in registered /\ mainElement'[q] = mainElement[q]
    BY <1>2, <1>5 DEF TypeOK
  <2>2. mainElement[q] \in Item /\ Group(mainElement[q]) \in registered
    BY <1>2, <2>1 DEF MainOK, ItemsOf, Group
  <2>3. \A y \in currentActions : y \in Item /\ Group(y) \in registered
    BY <1>2 DEF TypeOK, CurrentOK
  <2>. QED
    BY <1>1, <1>2, <1>7, <2>1, <2>2, <2>3 DEF NoInversion, Blocked
<1>. QED
  BY <1>3, <1>4, <1>6, <1>8 DEF SelectInv

(* A selection begins: whatever was selected before stays in force until it  *)
(* ends.                                                                     *)
LEMMA BeginSelect ==
  ASSUME SelectInv, TypeInv', BeginSelection(priority'),
         UNCHANGED <<registered, currentActions, limbAccess, selected, notified>>
  PROVE  SelectInv'
<1>1. TypeInv /\ CurrentOK /\ LeaseMatchesSelection
  BY DEF SelectInv
<1>2. phase' = "select"
  BY DEF BeginSelection
<1>3. LoopInv'
  BY <1>1, BeginSelectionLoop
<1>4. CurrentOK' /\ LeaseMatchesSelection'
  BY <1>1, <1>2 DEF CurrentOK, LeaseMatchesSelection
<1>. QED
  BY <1>2, <1>3, <1>4 DEF SelectInv, MainHeld, NoInversion

(* The steps of the filter, of the tick and those that stutter are outside   *)
(* selectAction and leave everything it reads alone.                         *)
LEMMA OtherSelect ==
  ASSUME SelectInv, TypeInv', UNCHANGED <<registry, allocated, loop>>,
         phase' = phase \/ (phase # "select" /\ phase' # "select")
  PROVE  SelectInv'
<1> USE DEF registry, allocated, loop
<1>1. LoopInv /\ CurrentOK /\ LeaseMatchesSelection /\ MainHeld /\ NoInversion
  BY DEF SelectInv
<1>2. ChoiceOK'
  BY <1>1 DEF LoopInv, ChoiceOK
<1>3. MainsWait' /\ MembersWait'
  BY <1>1 DEF LoopInv, MainsWait, MembersWait, Waits, Blocked, Hopeless
<1>4. CurrentOK' /\ LeaseMatchesSelection'
  BY <1>1 DEF CurrentOK, LeaseMatchesSelection
<1>5. MainHeld' /\ NoInversion'
  BY <1>1 DEF MainHeld, NoInversion, Blocked
<1>. QED
  BY <1>2, <1>3, <1>4, <1>5 DEF SelectInv, LoopInv

LEMMA NextSelect == SelectInv /\ [Next]_vars => SelectInv'
<1> SUFFICES ASSUME SelectInv, [Next]_vars PROVE SelectInv'
  OBVIOUS
<1>0. TypeInv /\ TypeInv' /\ LoopInv
  BY NextTypes DEF SelectInv
<1>1. ASSUME Startup PROVE SelectInv'
  BY <1>0, <1>1, BeginSelect DEF Startup, registry, allocated
<1>2. ASSUME NEW r \in Request, NEW p \in [ItemsOf(r) -> Priority],
             NEW m \in ItemsOf(r), Register(r, p, m)
      PROVE  SelectInv'
  BY <1>0, <1>2, RegisterSelect
<1>3. ASSUME NEW r \in Request, NEW p \in [ItemsOf(r) -> Priority],
             NEW m \in ItemsOf(r), UpdateAndReselect(r, p, m)
      PROVE  SelectInv'
  BY <1>0, <1>3, BeginSelect DEF UpdateAndReselect, ApplyPriorities, allocated
<1>4. ASSUME NEW r \in Request, NEW p \in [ItemsOf(r) -> Priority],
             NEW m \in ItemsOf(r), UpdateOnly(r, p, m)
      PROVE  SelectInv'
  BY <1>0, <1>4, UpdateOnlySelect
<1>5. ASSUME NEW l \in Limb, NEW x \in Item, Activate(l, x) \/ PassOver(l, x)
      PROVE  SelectInv'
  <2>1. LoopInv'
    BY <1>0, <1>5, ActivateLoop, PassOverLoop
  <2>2. /\ phase = "select" /\ phase' = "select"
        /\ UNCHANGED <<registered, priority, mainElement, considered>>
        /\ UNCHANGED <<currentActions, limbAccess, selected, notified>>
    BY <1>5 DEF Activate, PassOver, registry, allocated
  <2>3. CurrentOK' /\ LeaseMatchesSelection'
    BY <2>2 DEF SelectInv, CurrentOK, LeaseMatchesSelection
  <2>. QED
    BY <1>0, <2>1, <2>2, <2>3 DEF SelectInv, MainHeld, NoInversion
<1>6. ASSUME Commit PROVE SelectInv'
  BY <1>0, <1>6, CommitSelect
<1>7. ASSUME NEW batch \in Batches, CommandFilter(batch) PROVE SelectInv'
  BY <1>0, <1>7, OtherSelect DEF CommandFilter
<1>8. ASSUME FilterStep PROVE SelectInv'
  BY <1>0, <1>8, OtherSelect DEF FilterStep
<1>9. ASSUME NEW t \in Time, Tick(t) PROVE SelectInv'
  BY <1>0, <1>9, OtherSelect DEF Tick
<1>10. CASE UNCHANGED vars
  BY <1>0, <1>10, OtherSelect DEF vars
<1>. QED
  BY <1>1, <1>2, <1>3, <1>4, <1>5, <1>6, <1>7, <1>8, <1>9, <1>10
  DEF Next, Prioritise, SelectStep

(* The inductive invariant of the selection.                                 *)
THEOREM SelectionInvariant == Spec => []SelectInv
BY InitSelect, NextSelect, PTL DEF Spec

(* No limb has two masters, and the array limbAccess is at all times the one *)
(* the last selection decided: the command filter never lets through a       *)
(* request that selectAction did not choose for the limb.                    *)
THEOREM LeasesMatch == Spec => []LeaseMatchesSelection
<1>1. SelectInv => LeaseMatchesSelection
  BY DEF SelectInv
<1>. QED
  BY <1>1, SelectionInvariant, PTL

(* The start and kill callbacks, which tell a request only the differences   *)
(* between two selections, add up to what the filter lets it do.             *)
THEOREM BeliefsMatch == Spec => []BeliefMatchesLease
<1>1. SelectInv => BeliefMatchesLease
  <2> SUFFICES ASSUME SelectInv, selected, NEW r \in Request
               PROVE  notified[r] = {l \in Limb : limbAccess[l] = r}
    BY DEF BeliefMatchesLease
  <2>1. /\ TypeOK /\ CurrentOK
        /\ \A l \in Limb : limbAccess[l] = r <=>
             \E x \in currentActions : Group(x) = r /\ l \in LimbSet[x]
    BY DEF SelectInv, TypeInv, LeaseMatchesSelection
  <2>2. notified[r] = LimbsOf(currentActions \cap ItemsOf(r)) /\ notified[r] \subseteq Limb
    BY <2>1 DEF CurrentOK, TypeOK
  <2>3. \A l \in Limb : l \in LimbsOf(currentActions \cap ItemsOf(r)) <=>
             \E x \in currentActions : Group(x) = r /\ l \in LimbSet[x]
    BY <2>1 DEF LimbsOf, ItemsOf, Group, TypeOK
  <2>. QED
    BY <2>1, <2>2, <2>3
<1>. QED
  BY <1>1, SelectionInvariant, PTL

(* An item never holds limbs without the main element of its request, also   *)
(* after the updates of priorities that skip the selection.                  *)
THEOREM MainsAreHeld == Spec => []MainHeld
<1>1. SelectInv => MainHeld
  BY DEF SelectInv
<1>. QED
  BY <1>1, SelectionInvariant, PTL

(* The main element of a request only goes without limbs when something at   *)
(* least as important has one of them, also after the updates of priorities  *)
(* that skip the selection: for main elements the short circuit is sound.    *)
THEOREM NoPriorityInversion == Spec => []NoInversion
<1>1. SelectInv => NoInversion
  BY DEF SelectInv
<1>. QED
  BY <1>1, SelectionInvariant, PTL

(* selectAction, when its loop ends, has left no limb unused that a member   *)
(* of an active request could have had.                                      *)
THEOREM MembersAreServed == Spec => []SelectionServesMembers
<1>1. SelectInv => SelectionServesMembers
  <2> SUFFICES ASSUME SelectInv, phase = "select", \A l \in limbs : rest[l] = {},
                      NEW x \in Item, Group(x) \in considered, LimbSet[x] # {},
                      mainElement[Group(x)] \in newActions,
                      priority[x] < priority[mainElement[Group(x)]]
               PROVE  Blocked(x, newActions)
    BY DEF SelectionServesMembers, MembersServed
  <2>1. MembersWait /\ Group(x) \in registered
    BY DEF SelectInv, LoopInv, ChoiceOK
  <2>2. PICK l \in LimbSet[x] : TRUE
    OBVIOUS
  <2>3. ~Waits(x, l) /\ ~Hopeless(mainElement[Group(x)])
    BY DEF Waits, Hopeless
  <2>. QED
    BY <2>1, <2>2, <2>3 DEF MembersWait
<1>. QED
  BY <1>1, SelectionInvariant, PTL
-----------------------------------------------------------------------------
(* The end of the selection.                                                 *)

OrderedOn(S, R) ==
  /\ R \subseteq S \X S
  /\ \A x \in S : <<x, x>> \notin R
  /\ \A x, y, z \in S : <<x, y>> \in R /\ <<y, z>> \in R => <<x, z>> \in R
  /\ \A x, y \in S : x = y \/ <<x, y>> \in R \/ <<y, x>> \in R

(* The lists are in one order, and a limb's holds who asks for the limb.     *)
ListsInv ==
  /\ OrderedOn(Listed, before)
  /\ phase = "select" =>
       \A l \in Limb : rest[l] \subseteq {x \in Listed : l \in LimbSet[x]}

(* What the iterators of the limbs that are left have still ahead of them.   *)
Ahead == {e \in Limb \X Item : e[1] \in limbs /\ e[2] \in rest[e[1]]}

LEMMA PushedBackOrdered ==
  ASSUME OrderedOn(Listed, before), NEW r \in Request, r \notin registered
  PROVE  OrderedOn(Listed \cup ItemsOf(r), PushedBack(r))
<1>. DEFINE New == ItemsOf(r)
            Within == {e \in New \X New : e[1][2] < e[2][2]}
<1>1. PushedBack(r) = before \cup (Listed \X New) \cup Within
  BY DEF PushedBack
<1>2. Listed \cap New = {}
  BY DEF Listed, ItemsOf, Group
<1>3. \A x \in New : x[2] \in Nat
  BY ItemAssumption DEF ItemsOf
<1>4. \A x, y \in New : x[2] = y[2] => x = y
  BY ItemAssumption DEF ItemsOf
<1>5. \A x, y \in New : <<x, y>> \in Within <=> x[2] < y[2]
  OBVIOUS
<1>. HIDE DEF New
<1>6. OrderedOn(New, Within)
  <2>1. \A x \in New : <<x, x>> \notin Within
    BY <1>3, <1>5
  <2>2. \A x, y, z \in New : <<x, y>> \in Within /\ <<y, z>> \in Within => <<x, z>> \in Within
    <3>. HIDE DEF Within
    <3>. QED  BY <1>3, <1>5
  <2>3. ASSUME NEW x \in New, NEW y \in New, x # y
        PROVE  <<x, y>> \in Within \/ <<y, x>> \in Within
    <3>. HIDE DEF Within
    <3>1. x[2] \in Nat /\ y[2] \in Nat /\ x[2] # y[2]
      BY <1>3, <1>4, <2>3
    <3>2. (<<x, y>> \in Within <=> x[2] < y[2]) /\ (<<y, x>> \in Within <=> y[2] < x[2])
      BY <1>5
    <3>. QED  BY <3>1, <3>2
  <2>. QED  BY <2>1, <2>2, <2>3 DEF OrderedOn
<1>. HIDE DEF Within
<1>7. OrderedOn(Listed \cup New, before \cup (Listed \X New) \cup Within)
  <2>. DEFINE R == before \cup (Listed \X New) \cup Within
  <2>1. \A x, y : <<x, y>> \in R <=>
          \/ <<x, y>> \in before
          \/ x \in Listed /\ y \in New
          \/ <<x, y>> \in Within
    OBVIOUS
  <2>2. /\ \A x, y : <<x, y>> \in before => x \in Listed /\ y \in Listed
        /\ \A x, y : <<x, y>> \in Within => x \in New /\ y \in New
    BY <1>6 DEF OrderedOn
  <2>3. R \subseteq (Listed \cup New) \X (Listed \cup New)
    BY <1>6 DEF OrderedOn
  <2>. HIDE DEF R
  <2>4. \A x \in Listed \cup New : <<x, x>> \notin R
    BY <1>2, <1>6, <2>1, <2>2 DEF OrderedOn
  <2>5. \A x, y, z \in Listed \cup New :
          <<x, y>> \in R /\ <<y, z>> \in R => <<x, z>> \in R
    <3>. SUFFICES ASSUME NEW x, NEW y, NEW z, <<x, y>> \in R, <<y, z>> \in R
                  PROVE  <<x, z>> \in R
      OBVIOUS
    <3>1. CASE y \in Listed
      <4>1. <<x, y>> \in before
        BY <1>2, <2>1, <2>2, <3>1
      <4>. QED  BY <1>2, <2>1, <2>2, <3>1, <4>1 DEF OrderedOn
    <3>2. CASE y \in New
      <4>1. <<y, z>> \in Within
        BY <1>2, <2>1, <2>2, <3>2
      <4>. QED  BY <1>2, <1>6, <2>1, <2>2, <3>2, <4>1 DEF OrderedOn
    <3>. QED  BY <2>1, <2>2, <3>1, <3>2
  <2>6. \A x, y \in Listed \cup New : x = y \/ <<x, y>> \in R \/ <<y, x>> \in R
    BY <1>6, <2>1 DEF OrderedOn
  <2>. QED  BY <2>3, <2>4, <2>5, <2>6 DEF OrderedOn, R
<1>. QED  BY <1>1, <1>7 DEF New

LEMMA SortedOrdered ==
  ASSUME OrderedOn(Listed, before), NEW p, \A x \in Listed : p[x] \in Nat
  PROVE  OrderedOn(Listed, StableSorted(p))
<1>1. \A x, y \in Listed : <<x, y>> \in StableSorted(p) <=>
        p[x] > p[y] \/ (p[x] = p[y] /\ <<x, y>> \in before)
  BY DEF StableSorted
<1>2. StableSorted(p) \subseteq Listed \X Listed
  BY DEF StableSorted
<1>3. ASSUME NEW x \in Listed  PROVE <<x, x>> \notin StableSorted(p)
  <2>1. p[x] \in Nat /\ <<x, x>> \notin before
    BY DEF OrderedOn
  <2>. QED  BY <1>1, <2>1
<1>4. ASSUME NEW x \in Listed, NEW y \in Listed, NEW z \in Listed,
             <<x, y>> \in StableSorted(p), <<y, z>> \in StableSorted(p)
      PROVE  <<x, z>> \in StableSorted(p)
  <2>1. /\ p[x] \in Nat /\ p[y] \in Nat /\ p[z] \in Nat
        /\ <<x, y>> \in before /\ <<y, z>> \in before => <<x, z>> \in before
    BY DEF OrderedOn
  <2>. QED  BY <1>1, <1>4, <2>1
<1>5. ASSUME NEW x \in Listed, NEW y \in Listed, x # y
      PROVE  <<x, y>> \in StableSorted(p) \/ <<y, x>> \in StableSorted(p)
  <2>1. p[x] \in Nat /\ p[y] \in Nat /\ (<<x, y>> \in before \/ <<y, x>> \in before)
    BY <1>5 DEF OrderedOn
  <2>. QED  BY <1>1, <2>1
<1>. QED  BY <1>2, <1>3, <1>4, <1>5 DEF OrderedOn

LEMMA InitLists == Init => ListsInv
<1>. SUFFICES ASSUME Init  PROVE ListsInv
  OBVIOUS
<1>1. Listed = {} /\ before = {} /\ phase # "select"
  BY DEF Init, Listed
<1>. QED  BY <1>1 DEF ListsInv, OrderedOn

LEMMA BeginLists ==
  ASSUME ListsInv, TypeInv', BeginSelection(priority'), registered' = registered
  PROVE  ListsInv'
<1>1. Listed' = Listed
  BY DEF Listed
<1>2. \A x \in Listed : priority'[x] \in Nat
  BY DEF Listed, TypeInv, TypeOK
<1>3. OrderedOn(Listed, before')
  BY <1>2, SortedOrdered DEF ListsInv, BeginSelection
<1>4. \A l \in Limb : rest'[l] = {x \in Listed : l \in LimbSet[x]}
  BY DEF BeginSelection
<1>. QED  BY <1>1, <1>3, <1>4 DEF ListsInv

LEMMA NextLists == SelectInv /\ ListsInv /\ [Next]_vars => ListsInv'
<1>. SUFFICES ASSUME SelectInv, ListsInv, [Next]_vars  PROVE ListsInv'
  OBVIOUS
<1>. USE DEF registry, loop
<1>0. TypeInv /\ TypeInv'
  BY NextTypes DEF SelectInv
<1>1. ASSUME UNCHANGED <<registered, before, rest, phase>>  PROVE ListsInv'
  BY <1>1 DEF ListsInv, Listed
<1>2. ASSUME UNCHANGED <<registered, before>>, phase' # "select"  PROVE ListsInv'
  BY <1>2 DEF ListsInv, Listed
<1>3. ASSUME Startup  PROVE ListsInv'
  <2>1. priority' = priority /\ registered' = registered /\ BeginSelection(priority)
    BY <1>3 DEF Startup
  <2>. QED  BY <1>0, <2>1, BeginLists
<1>4. ASSUME NEW r \in Request, NEW p \in [ItemsOf(r) -> Priority],
             NEW m \in ItemsOf(r), Register(r, p, m)
      PROVE  ListsInv'
  <2>1. /\ registered' = registered \cup {r} /\ before' = PushedBack(r)
        /\ r \notin registered /\ phase' # "select"
    BY <1>4 DEF Register
  <2>2. Listed' = Listed \cup ItemsOf(r)
    BY <2>1, ItemAssumption DEF Listed, ItemsOf, Group
  <2>. QED  BY <2>1, <2>2, PushedBackOrdered DEF ListsInv
<1>5. ASSUME NEW r \in Request, NEW p \in [ItemsOf(r) -> Priority],
             NEW m \in ItemsOf(r), UpdateAndReselect(r, p, m)
      PROVE  ListsInv'
  <2>1. registered' = registered /\ BeginSelection(priority')
    BY <1>5 DEF UpdateAndReselect, ApplyPriorities
  <2>. QED  BY <1>0, <2>1, BeginLists
<1>6. ASSUME NEW r \in Request, NEW p \in [ItemsOf(r) -> Priority],
             NEW m \in ItemsOf(r), UpdateOnly(r, p, m)
      PROVE  ListsInv'
  BY <1>1, <1>6 DEF UpdateOnly, ApplyPriorities
<1>7. ASSUME NEW l \in Limb, NEW x \in Item, Activate(l, x)  PROVE ListsInv'
  BY <1>1, <1>7 DEF Activate
<1>8. ASSUME NEW l \in Limb, NEW x \in Item, PassOver(l, x)  PROVE ListsInv'
  <2>1. /\ UNCHANGED <<registered, before, phase>> /\ phase = "select"
        /\ rest' = [rest EXCEPT ![l] = @ \ {x}]
    BY <1>8 DEF PassOver
  <2>2. rest \in [Limb -> SUBSET Item]
    BY <1>0 DEF TypeInv, TypeOK
  <2>3. \A k \in Limb : rest'[k] \subseteq rest[k]
    BY <2>1, <2>2
  <2>. QED  BY <2>1, <2>3 DEF ListsInv, Listed
<1>9. ASSUME Commit  PROVE ListsInv'
  BY <1>2, <1>9 DEF Commit
<1>10. ASSUME NEW batch \in Batches, CommandFilter(batch)  PROVE ListsInv'
  BY <1>2, <1>10 DEF CommandFilter
<1>11. ASSUME FilterStep  PROVE ListsInv'
  BY <1>2, <1>11 DEF FilterStep
<1>12. ASSUME NEW t \in Time, Tick(t)  PROVE ListsInv'
  BY <1>2, <1>12 DEF Tick
<1>13. CASE UNCHANGED vars
  BY <1>1, <1>13 DEF vars
<1>. QED
  BY <1>3, <1>4, <1>5, <1>6, <1>7, <1>8, <1>9, <1>10, <1>11, <1>12, <1>13
  DEF Next, Prioritise, SelectStep

THEOREM ListsInvariant == Spec => [](SelectInv /\ ListsInv)
BY InitSelect, NextSelect, InitLists, NextLists, PTL DEF Spec

(* A finite set has a first element of any order: the one with fewest before *)
(* it.                                                                       *)
LEMMA FiniteHasFirst ==
  ASSUME NEW S, IsFiniteSet(S), S # {}, NEW R,
         \A x \in S : <<x, x>> \notin R,
         \A x, y, z \in S : <<x, y>> \in R /\ <<y, z>> \in R => <<x, z>> \in R
  PROVE  \E x \in S : \A y \in S : <<y, x>> \notin R
<1>. DEFINE Before(x) == {y \in S : <<y, x>> \in R}
            T == {Cardinality(Before(x)) : x \in S}
<1>1. \A x \in S : IsFiniteSet(Before(x)) /\ Cardinality(Before(x)) \in Nat
  BY FS_Subset, FS_CardinalityType
<1>2. T \in SUBSET Nat /\ T # {}
  <2>. HIDE DEF Before
  <2>. QED  BY <1>1
<1>3. PICK x \in S : \A y \in S : Cardinality(Before(x)) <= Cardinality(Before(y))
  <2>1. PICK n \in T : \A m \in T : n <= m
    BY <1>2, LeastNatural
  <2>. HIDE DEF Before
  <2>2. PICK x \in S : n = Cardinality(Before(x))
    BY <2>1
  <2>3. \A y \in S : Cardinality(Before(y)) \in T
    OBVIOUS
  <2>. HIDE DEF T
  <2>. QED  BY <2>1, <2>2, <2>3
<1>4. ASSUME NEW y \in S, <<y, x>> \in R  PROVE FALSE
  <2>1. Before(y) \in SUBSET Before(x) /\ Before(y) # Before(x)
    BY <1>4
  <2>2. Cardinality(Before(y)) <= Cardinality(Before(x)) /\ Cardinality(Before(y)) # Cardinality(Before(x))
    BY <1>1, <2>1, FS_Subset
  <2>3. Cardinality(Before(x)) <= Cardinality(Before(y))
    BY <1>3
  <2>4. Cardinality(Before(x)) \in Nat /\ Cardinality(Before(y)) \in Nat
    BY <1>1
  <2>. HIDE DEF Before
  <2>. QED  BY <2>2, <2>3, <2>4
<1>. QED  BY <1>4

(* While there are candidates one of them, and only one, is considered.      *)
LEMMA OneIsConsidered ==
  ASSUME SelectInv, ListsInv, phase = "select"
  PROVE  /\ IsFiniteSet(Item) /\ ~(\A l \in limbs : rest[l] = {})
              => \E l \in Limb, x \in Item : Considers(l, x)
         /\ \A l, k \in Limb, x, y \in Item :
              Considers(l, x) /\ Considers(k, y) => l = k /\ x = y
<1>0. /\ TypeOK /\ limbs \subseteq Limb /\ Limb \subseteq Nat
      /\ \A e \in before : priority[e[1]] >= priority[e[2]]
      /\ OrderedOn(Listed, before)
      /\ \A l \in Limb : rest[l] \subseteq Listed
      /\ Listed \subseteq Item /\ \A x \in Item : priority[x] \in Nat
  BY LimbAssumption DEF SelectInv, LoopInv, ChoiceOK, TypeInv, TypeOK, ListsInv, Listed
<1>1. ASSUME IsFiniteSet(Item), NEW i \in limbs, rest[i] # {}
      PROVE  \E l \in Limb, x \in Item : Considers(l, x)
  <2>. DEFINE All == {x \in Item : \E l \in limbs : x \in rest[l]}
              Less == {e \in Item \X Item : priority[e[1]] > priority[e[2]]}
  <2>1. /\ IsFiniteSet(All) /\ All # {}
        /\ \A l \in limbs : IsFiniteSet(rest[l]) /\ rest[l] \subseteq All
    BY <1>0, <1>1, FS_Subset
  <2>2. PICK top \in All : \A y \in All : <<y, top>> \notin Less
    <3>1. \A x, y \in Item : <<x, y>> \in Less <=> priority[x] > priority[y]
      OBVIOUS
    <3>2. \A x \in All : x \in Item
      OBVIOUS
    <3>. HIDE DEF All, Less
    <3>3. \A x \in All : <<x, x>> \notin Less
      BY <1>0, <3>1, <3>2
    <3>4. \A x, y, z \in All : <<x, y>> \in Less /\ <<y, z>> \in Less => <<x, z>> \in Less
      BY <1>0, <3>1, <3>2
    <3>. QED  BY <2>1, <3>3, <3>4, FiniteHasFirst
  <2>3. ASSUME NEW y \in All  PROVE priority[y] <= priority[top]
    <3>1. y \in Item /\ top \in Item
      BY <2>2
    <3>2. <<y, top>> \notin Less
      BY <2>2
    <3>3. ~(priority[y] > priority[top])
      BY <3>1, <3>2
    <3>. QED  BY <1>0, <3>1, <3>3
  <2>. DEFINE Highest == {l \in limbs : \E x \in rest[l] : priority[x] = priority[top]}
  <2>4. Highest \in SUBSET Nat /\ Highest # {}
    BY <1>0, <2>2
  <2>5. PICK l \in Highest : \A k \in Highest : l <= k
    BY <2>4, LeastNatural
  <2>6. PICK x \in rest[l] : \A y \in rest[l] : <<y, x>> \notin before
    <3>1. IsFiniteSet(rest[l]) /\ rest[l] # {} /\ rest[l] \subseteq Listed
      BY <1>0, <2>1, <2>5
    <3>. QED  BY <1>0, <3>1, FiniteHasFirst DEF OrderedOn
  <2>7. \A y \in rest[l] \ {x} : <<x, y>> \in before
    BY <1>0, <2>5, <2>6 DEF OrderedOn
  <2>8. priority[x] = priority[top]
    <3>1. PICK y \in rest[l] : priority[y] = priority[top]
      BY <2>5
    <3>2. priority[x] >= priority[y]
      <4>1. CASE y = x
        BY <1>0, <2>1, <2>5, <4>1
      <4>2. CASE y # x
        <5>1. <<x, y>> \in before
          BY <2>7, <3>1, <4>2
        <5>. QED  BY <1>0, <5>1
      <4>. QED  BY <4>1, <4>2
    <3>3. priority[x] <= priority[top]
      BY <2>1, <2>3, <2>5
    <3>. QED  BY <1>0, <2>1, <2>5, <3>1, <3>2, <3>3
  <2>9. ASSUME NEW k \in limbs, NEW y \in rest[k]
        PROVE  priority[y] < priority[x] \/ (priority[y] = priority[x] /\ l <= k)
    <3>1. y \in Item /\ x \in Item /\ priority[y] <= priority[x]
      BY <1>0, <2>1, <2>3, <2>5, <2>8
    <3>2. priority[y] = priority[x] => k \in Highest
      BY <2>8
    <3>. HIDE DEF Highest
    <3>. QED  BY <1>0, <2>5, <3>1, <3>2
  <2>10. l \in limbs /\ l \in Limb /\ x \in Item
    BY <1>0, <2>1, <2>5
  <2>. QED  BY <2>7, <2>9, <2>10 DEF Considers
<1>2. ASSUME NEW l \in Limb, NEW k \in Limb, NEW x \in Item, NEW y \in Item,
             Considers(l, x), Considers(k, y)
      PROVE  l = k /\ x = y
  <2>1. /\ priority[x] \in Nat /\ priority[y] \in Nat /\ l \in Nat /\ k \in Nat
        /\ l \in limbs /\ k \in limbs /\ x \in rest[l] /\ y \in rest[k]
    BY <1>0, <1>2 DEF Considers
  <2>2. l = k
    BY <1>2, <2>1 DEF Considers
  <2>3. x # y => <<x, y>> \in before /\ <<y, x>> \in before
    BY <1>2, <2>1, <2>2 DEF Considers
  <2>4. x \in Listed /\ y \in Listed
    BY <1>0, <2>1
  <2>. QED  BY <1>0, <2>2, <2>3, <2>4 DEF OrderedOn
<1>. QED  BY <1>1, <1>2

(* selectAction is never stuck and never has a choice: until no limb has a   *)
(* candidate left exactly one is considered, whatever was registered and     *)
(* however priorities and lists have changed (Controller.cpp:271-320).       *)
THEOREM SelectionIsDetermined ==
  ASSUME IsFiniteSet(Item)
  PROVE  Spec => [](phase = "select" =>
           \/ \A l \in limbs : rest[l] = {}
           \/ \E l \in Limb, x \in Item :
                /\ Considers(l, x)
                /\ \A k \in Limb, y \in Item : Considers(k, y) => k = l /\ y = x)
<1>. DEFINE Determined ==
       phase = "select" =>
         \/ \A l \in limbs : rest[l] = {}
         \/ \E l \in Limb, x \in Item :
              /\ Considers(l, x)
              /\ \A k \in Limb, y \in Item : Considers(k, y) => k = l /\ y = x
<1>1. SelectInv /\ ListsInv => Determined
  <2>. SUFFICES ASSUME SelectInv, ListsInv, phase = "select", ~(\A l \in limbs : rest[l] = {})
                PROVE  \E l \in Limb, x \in Item :
                         /\ Considers(l, x)
                         /\ \A k \in Limb, y \in Item : Considers(k, y) => k = l /\ y = x
    OBVIOUS
  <2>1. PICK l \in Limb, x \in Item : Considers(l, x)
    BY OneIsConsidered
  <2>. QED  BY <2>1, OneIsConsidered
<1>. QED  BY <1>1, ListsInvariant, PTL

LEMMA TurnAdvances ==
  ASSUME SelectInv, ListsInv, Next, phase = "select", phase' = "select"
  PROVE  Ahead' \subseteq Ahead /\ Ahead' # Ahead
<1>. USE DEF registry, loop
<1>1. PICK l \in Limb, x \in Item : Activate(l, x) \/ PassOver(l, x)
  BY DEF Next, Prioritise, Startup, Register, UpdateAndReselect, UpdateOnly, ApplyPriorities,
     SelectStep, Commit, CommandFilter, FilterStep, Tick
<1>2. <<l, x>> \in Ahead /\ l \in LimbSet[x] /\ rest \in [Limb -> SUBSET Item]
  BY <1>1 DEF Activate, PassOver, Considers, Ahead, ListsInv, SelectInv, TypeInv, TypeOK
<1>3. CASE Activate(l, x)
  <2>1. limbs' = limbs \ LimbSet[x] /\ rest' = rest
    BY <1>3 DEF Activate
  <2>2. Ahead' \subseteq Ahead
    BY <2>1 DEF Ahead
  <2>3. <<l, x>> \notin Ahead'
    BY <1>2, <2>1 DEF Ahead
  <2>. QED  BY <1>2, <2>2, <2>3
<1>4. CASE PassOver(l, x)
  <2>1. limbs' = limbs /\ rest' = [rest EXCEPT ![l] = @ \ {x}]
    BY <1>4 DEF PassOver
  <2>2. rest'[l] = rest[l] \ {x} /\ \A k \in Limb : rest'[k] \subseteq rest[k]
    BY <1>2, <2>1
  <2>3. Ahead' \subseteq Ahead
    BY <2>1, <2>2 DEF Ahead
  <2>4. <<l, x>> \notin Ahead'
    BY <2>2 DEF Ahead
  <2>. QED  BY <1>2, <2>3, <2>4
<1>. QED  BY <1>1, <1>3, <1>4

(* Each turn of the loop of selectAction leaves less ahead of the iterators: *)
(* there are at most as many turns as limbs times items, besides those that  *)
(* only erase a limb: the part of SelectionTerminates without fairness       *)
(* (Controller.cpp:271-320).                                                 *)
THEOREM SelectionAdvances ==
  ASSUME IsFiniteSet(Item), IsFiniteSet(Limb)
  PROVE  Spec => [][ phase = "select" /\ phase' = "select" =>
                       Cardinality(Ahead') < Cardinality(Ahead) ]_vars
<1>1. SelectInv /\ ListsInv /\ [Next]_vars =>
        [ phase = "select" /\ phase' = "select" =>
            Cardinality(Ahead') < Cardinality(Ahead) ]_vars
  <2>. SUFFICES ASSUME SelectInv, ListsInv, Next, phase = "select", phase' = "select"
                PROVE  Cardinality(Ahead') < Cardinality(Ahead)
    OBVIOUS
  <2>1. IsFiniteSet(Limb \X Item)
    BY FS_Product
  <2>2. IsFiniteSet(Ahead)
    BY <2>1, FS_Subset DEF Ahead
  <2>3. Ahead' \in SUBSET Ahead /\ Ahead' # Ahead
    BY TurnAdvances
  <2>4. /\ IsFiniteSet(Ahead') /\ Cardinality(Ahead') <= Cardinality(Ahead)
        /\ Cardinality(Ahead') # Cardinality(Ahead)
    BY <2>2, <2>3, FS_Subset
  <2>. QED  BY <2>2, <2>4, FS_CardinalityType
<1>. QED  BY <1>1, ListsInvariant, PTL DEF Spec
=============================================================================

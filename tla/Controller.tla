----------------------------- MODULE Controller -----------------------------
(***************************************************************************)
(* The behaviour controller: the reactor that decides which of the         *)
(* registered actions may move which limbs, and that owns the queue of     *)
(* waypoints of every servo.                                               *)
(*                                                                         *)
(* All the handlers modelled here are Sync<Controller>: one runs at a      *)
(* time, to its end.  The two loops they contain (the selection loop of    *)
(* selectAction, the loop of the command filter) take one step of the      *)
(* model per iteration; `phase' keeps every other handler out meanwhile.   *)
(***************************************************************************)
EXTENDS Integers, Sequences

CONSTANTS
  Request,        (* ids of the reactors that register an action            *)
  Nobody,         (* the id 0, "reserved for internal use"                  *)
  Item,           (* <<r, i>>: the i-th (priority, limbs) pair of request r *)
  Limb,           (* LimbIDs, numbered as in the enum                       *)
  LimbSet,        (* the limbs each item asks for                           *)
  Servo,
  LimbForServo,
  Priority,       (* the floats, of which only the order is used            *)
  InitialLease,   (* what the uninitialised array limbAccess may hold       *)
  Batches,        (* the vectors of servo commands the reactors may emit    *)
  MaxTime,        (* bound on the clock                                     *)
  MaxQueue        (* bound on a command queue: no batch arrives beyond it   *)

Time == 0..MaxTime
Command == [id : Servo, source : Request, time : Time]

ASSUME ItemAssumption ==
  /\ Item \subseteq Request \X Nat
  /\ \A r \in Request : \E x \in Item : x[1] = r
  /\ LimbSet \in [Item -> SUBSET Limb]
ASSUME LimbAssumption ==
  /\ Limb \subseteq Nat
  /\ LimbForServo \in [Servo -> Limb]
ASSUME OtherAssumption ==
  /\ Nobody \notin Request \cup Item
  /\ Priority \subseteq Nat
  /\ InitialLease \subseteq Request \cup {Nobody}
  /\ MaxTime \in Nat /\ MaxQueue \in Nat
  /\ Batches \subseteq Seq(Command) \ {<<>>}

VARIABLES
  registered,     (* requests: the ids in the map                           *)
  priority,       (* RequestItem::priority                                  *)
  mainElement,    (* Request::mainElement, as the item                      *)
  before,         (* <<x, y>>: x is ahead of y in the actions lists         *)
  currentActions, (* the items in control of their limbs                    *)
  limbAccess,     (* the id each limb takes commands from                   *)
  commandQueues,
  now,            (* the time of the last tick                              *)
  phase,          (* idle, inside selectAction, in the filter, or crashed   *)
  limbs,          (* selectAction: the limbs left to allocate               *)
  rest,           (* selectAction: each limb's items not yet passed over    *)
  newActions,     (* selectAction: the items chosen so far                  *)
  pending,        (* command filter: the commands left of the vector        *)
  started,        (* the Startup trigger has fired                          *)
  \* What follows is history, read by the properties only.
  selected,       (* a selection has been carried out                       *)
  considered,     (* the requests registered at the last selection          *)
  notified        (* the limbs start and kill told each request it has      *)

registry  == <<registered, priority, mainElement>>
allocated == <<currentActions, limbAccess, selected, notified>>
loop      == <<before, limbs, rest, newActions, considered>>
queues    == <<commandQueues, now, pending>>
vars == <<registry, allocated, loop, queues, phase, started>>

-----------------------------------------------------------------------------
ItemsOf(r) == {x \in Item : x[1] = r}
Group(x) == x[1]
LimbsOf(items) == UNION {LimbSet[x] : x \in items}

(* std::max_element over a request's items: the first one of the largest    *)
(* priority.                                                                 *)
IsMain(m, r, p) ==
  /\ m \in ItemsOf(r)
  /\ \A y \in ItemsOf(r) : p[y] < p[m] \/ (p[y] = p[m] /\ m[2] <= y[2])

(* The items of request r take the priorities p, the other items keep theirs. *)
Reprioritised(r, p) ==
  [x \in Item |-> IF x \in ItemsOf(r) THEN p[x] ELSE priority[x]]

(* The items the lists hold: every list gets its items at the end when they  *)
(* are registered, and every list is sorted with the same stable sort at the *)
(* same moments, so one order over the items stands for the five lists.      *)
Listed == {x \in Item : Group(x) \in registered}

(* Registering puts the items of r, in the order of their indices, behind    *)
(* everything the lists hold.                                                *)
PushedBack(r) ==
  before \cup (Listed \X ItemsOf(r))
         \cup {e \in ItemsOf(r) \X ItemsOf(r) : e[1][2] < e[2][2]}

(* std::stable_sort by descending priority.                                  *)
StableSorted(p) ==
  {e \in Listed \X Listed :
     p[e[1]] > p[e[2]] \/ (p[e[1]] = p[e[2]] /\ e \in before)}

-----------------------------------------------------------------------------
Init ==
  /\ registered = {}
  /\ priority = [x \in Item |-> 0]
  /\ mainElement = [r \in Request |-> Nobody]
  /\ before = {}
  /\ currentActions = {}
  /\ limbAccess \in [Limb -> InitialLease]
  /\ commandQueues = [s \in Servo |-> <<>>]
  /\ now = 0
  /\ phase = "idle"
  /\ limbs = {}
  /\ rest = [l \in Limb |-> {}]
  /\ newActions = {}
  /\ pending = <<>>
  /\ started = FALSE
  /\ selected = FALSE
  /\ considered = {}
  /\ notified = [r \in Request |-> {}]

(* RegisterAction.  A second registration of an id, or of the id 0, throws   *)
(* before anything changes.  No selection follows a registration.            *)
Register(r, p, m) ==
  /\ phase = "idle"
  /\ r \notin registered
  /\ IsMain(m, r, p)
  /\ registered' = registered \cup {r}
  /\ priority' = Reprioritised(r, p)
  /\ mainElement' = [mainElement EXCEPT ![r] = m]
  /\ before' = PushedBack(r)
  /\ UNCHANGED <<allocated, limbs, rest, newActions, considered, queues,
                 phase, started>>

(* The entry of selectAction: the lists are sorted, the active flags of the  *)
(* current actions are cleared, and each limb's iterator is at the head.     *)
BeginSelection(p) ==
  /\ phase' = "select"
  /\ before' = StableSorted(p)
  /\ limbs' = Limb
  /\ rest' = [l \in Limb |-> {x \in Listed : l \in LimbSet[x]}]
  /\ newActions' = {}
  /\ considered' = registered

Startup ==
  /\ phase = "idle"
  /\ ~started
  /\ started' = TRUE
  /\ BeginSelection(priority)
  /\ UNCHANGED <<registry, allocated, queues>>

(* Mutant: a change of the main element is not a reason to reselect.         *)
ReselectIgnoresMain(r, p, m) ==
  \E x \in ItemsOf(r) :
    \/ x \in currentActions /\ p[x] < priority[x]
    \/ x \notin currentActions /\ p[x] > priority[x]

(* ActionPriorites.  `active' is set on exactly the current actions.         *)
NeedsReselect(r, p, m) ==
  \/ m # mainElement[r]
  \/ \E x \in ItemsOf(r) :
       \/ x \in currentActions /\ p[x] < priority[x]
       \/ x \notin currentActions /\ p[x] > priority[x]

ApplyPriorities(r, p, m) ==
  /\ phase = "idle"
  /\ r \in registered
  /\ IsMain(m, r, p)
  /\ priority' = Reprioritised(r, p)
  /\ mainElement' = [mainElement EXCEPT ![r] = m]
  /\ UNCHANGED <<registered, allocated, queues, started>>

UpdateAndReselect(r, p, m) ==
  /\ ApplyPriorities(r, p, m)
  /\ NeedsReselect(r, p, m)
  /\ BeginSelection(Reprioritised(r, p))

UpdateOnly(r, p, m) ==
  /\ ApplyPriorities(r, p, m)
  /\ ~NeedsReselect(r, p, m)
  /\ UNCHANGED <<loop, phase>>

-----------------------------------------------------------------------------
(* One iteration of the loop of selectAction.                                *)

(* std::max_element over the limbs that still have candidates: x heads the   *)
(* list of l, no limb has a head of a larger priority, and no limb before l  *)
(* has one as large.  (The head of a sorted list has its largest priority.)  *)
Considers(l, x) ==
  /\ l \in limbs
  /\ x \in rest[l]
  /\ \A y \in rest[l] \ {x} : <<x, y>> \in before
  /\ \A k \in limbs : \A y \in rest[k] :
       priority[y] < priority[x] \/ (priority[y] = priority[x] /\ l <= k)

GroupActive(r) == \E y \in newActions : Group(y) = r

(* Mutant: one limb available is enough.                                     *)
hasSomeLimb(x) == LimbSet[x] \cap limbs # {}
hasLimbs(x) == LimbSet[x] \subseteq limbs

(* Mutant: an item does not wait for the main element of its group.          *)
SuitableAlone(x) == hasLimbs(x)

(* Mutant: the members of an active group are not considered.                *)
SuitableMainOnly(x) == x = mainElement[Group(x)] /\ hasLimbs(x)

Suitable(x) ==
  /\ x = mainElement[Group(x)] \/ GroupActive(Group(x))
  /\ hasLimbs(x)

Activate(l, x) ==
  /\ phase = "select"
  /\ Considers(l, x)
  /\ Suitable(x)
  /\ newActions' = newActions \cup {x}
  /\ limbs' = limbs \ LimbSet[x]
  /\ UNCHANGED <<registry, allocated, before, rest, considered, queues,
                 phase, started>>

(* Mutant: the iterator does not advance.                                    *)
PassOverStuck(l, x) ==
  /\ phase = "select"
  /\ Considers(l, x)
  /\ ~Suitable(x)
  /\ UNCHANGED vars

PassOver(l, x) ==
  /\ phase = "select"
  /\ Considers(l, x)
  /\ ~Suitable(x)
  /\ rest' = [rest EXCEPT ![l] = @ \ {x}]
  /\ UNCHANGED <<registry, allocated, before, limbs, newActions, considered,
                 queues, phase, started>>

(* The end of selectAction, once no limb has a candidate left (erasing those *)
(* limbs one by one changes nothing else): the leases follow the choice, the *)
(* kill callbacks run and clear the queues of the killed limbs, then the     *)
(* start callbacks run.                                                      *)
Killed  == currentActions \ newActions
Started == newActions \ currentActions

NewLease ==
  [l \in Limb |-> IF l \in LimbsOf(newActions)
                  THEN Group(CHOOSE x \in newActions : l \in LimbSet[x])
                  ELSE Nobody]

(* Mutant: the start callbacks run before the kill callbacks.                *)
NotifyStartFirst ==
  [r \in Request |-> (notified[r] \cup LimbsOf(Started \cap ItemsOf(r)))
                     \ LimbsOf(Killed \cap ItemsOf(r))]

Notify ==
  [r \in Request |-> (notified[r] \ LimbsOf(Killed \cap ItemsOf(r)))
                     \cup LimbsOf(Started \cap ItemsOf(r))]

(* Mutant: the queues of the started limbs are cleared, not of the killed.   *)
ClearStarted ==
  [s \in Servo |-> IF LimbForServo[s] \in LimbsOf(Started)
                   THEN <<>> ELSE commandQueues[s]]

(* Mutant: no queue is cleared.                                              *)
ClearNone == commandQueues

ClearKilled ==
  [s \in Servo |-> IF LimbForServo[s] \in LimbsOf(Killed)
                   THEN <<>> ELSE commandQueues[s]]

Commit ==
  /\ phase = "select"
  /\ \A l \in limbs : rest[l] = {}
  /\ limbAccess' = NewLease
  /\ notified' = Notify
  /\ commandQueues' = ClearKilled
  /\ currentActions' = newActions
  /\ selected' = TRUE
  /\ phase' = "idle"
  /\ limbs' = {}
  /\ rest' = [l \in Limb |-> {}]
  /\ newActions' = {}
  /\ UNCHANGED <<registry, before, considered, now, pending, started>>

-----------------------------------------------------------------------------
(* The command filter.  A queued waypoint keeps the id of its issuer beside  *)
(* its source, which the tick overwrites.                                    *)
CommandFilter(batch) ==
  /\ phase = "idle"
  /\ \A s \in Servo : Len(commandQueues[s]) + Len(batch) <= MaxQueue
  /\ pending' = batch
  /\ phase' = "filter"
  /\ UNCHANGED <<registry, allocated, loop, commandQueues, now, started>>

(* Pops from the back while the back is later than t.                        *)
KeptFor(q, t) ==
  LET Enough(n) == \A i \in n + 1..Len(q) : q[i].time > t
  IN  SubSeq(q, 1, CHOOSE n \in 0..Len(q) :
                     Enough(n) /\ \A k \in 0..Len(q) : Enough(k) => n <= k)

(* Mutant: later waypoints stay in the queue.                                *)
EnqueueOnly(q, c) ==
  Append(q, [time |-> c.time, source |-> c.source, issuer |-> c.source])

(* Mutant: the waypoint is put at the front.                                 *)
EnqueueFront(q, c) ==
  <<[time |-> c.time, source |-> c.source, issuer |-> c.source]>>
    \o KeptFor(q, c.time)

Enqueue(q, c) ==
  Append(KeptFor(q, c.time), [time |-> c.time, source |-> c.source,
                              issuer |-> c.source])

(* Mutant: a request that has any limb may command all the servos.           *)
HasSomeAccess(c) == \E l \in Limb : limbAccess[l] = c.source

HasAccess(c) == limbAccess[LimbForServo[c.id]] = c.source

FilterStep ==
  /\ phase = "filter"
  /\ LET c == Head(pending)
     IN  commandQueues' = IF HasAccess(c)
                          THEN [commandQueues EXCEPT ![c.id] = Enqueue(@, c)]
                          ELSE commandQueues
  /\ pending' = Tail(pending)
  /\ phase' = IF Tail(pending) = <<>> THEN "idle" ELSE "filter"
  /\ UNCHANGED <<registry, allocated, loop, now, started>>

-----------------------------------------------------------------------------
(* The 60 Hz tick at time t.  At most one expired waypoint leaves each       *)
(* queue; the waypoint then at the front is sent to the servo, once: its     *)
(* source is set to 0.                                                       *)
Expired(q, t) == q # <<>> /\ q[1].time < t

(* Mutant: the last waypoint of a queue is never popped.                     *)
AfterPopButLast(q, t) == IF Expired(q, t) /\ Len(q) > 1 THEN Tail(q) ELSE q
AfterPop(q, t) == IF Expired(q, t) THEN Tail(q) ELSE q
Unsent(q) == q # <<>> /\ q[1].source # Nobody
AfterSend(q) == IF Unsent(q) THEN [q EXCEPT ![1].source = Nobody] ELSE q

Emptied(t) == {s \in Servo : Expired(commandQueues[s], t)
                             /\ Len(commandQueues[s]) = 1}

(* The callback of the request that holds the limb is told which of its      *)
(* servos ran out; looking up an id that is not in the map dereferences the  *)
(* null pointer operator[] inserts.                                          *)
CompletionTo(s) == limbAccess[LimbForServo[s]]

Tick(t) ==
  /\ phase = "idle"
  /\ t \in now..MaxTime
  /\ now' = t
  /\ commandQueues' = [s \in Servo |-> AfterSend(AfterPop(commandQueues[s], t))]
  /\ phase' = IF \A s \in Emptied(t) : CompletionTo(s) \in registered
              THEN "idle" ELSE "crashed"
  /\ UNCHANGED <<registry, allocated, loop, pending, started>>

-----------------------------------------------------------------------------
Prioritise ==
  \E r \in Request : \E p \in [ItemsOf(r) -> Priority], m \in ItemsOf(r) :
    \/ Register(r, p, m)
    \/ UpdateAndReselect(r, p, m)
    \/ UpdateOnly(r, p, m)

SelectStep == \E l \in Limb, x \in Item : Activate(l, x) \/ PassOver(l, x)

Next ==
  \/ Startup
  \/ Prioritise
  \/ SelectStep
  \/ Commit
  \/ \E batch \in Batches : CommandFilter(batch)
  \/ FilterStep
  \/ \E t \in Time : Tick(t)

Spec == Init /\ [][Next]_vars

(* Handlers run to their end once the thread pool has begun them, and the    *)
(* periodic tick, queued behind the other handlers of its Sync group, gets   *)
(* its turn again and again while the clock moves on.                        *)
Fairness ==
  /\ WF_vars(SelectStep) /\ WF_vars(Commit) /\ WF_vars(FilterStep)
  /\ SF_vars(\E t \in Time : t > now /\ Tick(t))
  /\ SF_vars(Tick(MaxTime))

FairSpec == Spec /\ Fairness

-----------------------------------------------------------------------------
(* Properties                                                                *)

QueuedCommand == [time : Time, source : Request \cup {Nobody}, issuer : Request]

(* Every variable keeps its type: in particular a lease is a request's id or *)
(* 0, and main elements, orders and choices are over registered items.       *)
TypeOK ==
  /\ registered \subseteq Request
  /\ priority \in [Item -> Nat]
  /\ mainElement \in [Request -> Item \cup {Nobody}]
  /\ before \subseteq Item \X Item
  /\ currentActions \subseteq Item
  /\ limbAccess \in [Limb -> Request \cup {Nobody}]
  /\ commandQueues \in [Servo -> Seq(QueuedCommand)]
  /\ now \in Time
  /\ phase \in {"idle", "select", "filter", "crashed"}
  /\ limbs \subseteq Limb
  /\ rest \in [Limb -> SUBSET Item]
  /\ newActions \subseteq Item
  /\ pending \in Seq(Command)
  /\ started \in BOOLEAN /\ selected \in BOOLEAN
  /\ considered \subseteq registered
  /\ notified \in [Request -> SUBSET Limb]

(* No limb has two masters, and once a selection has been made the array     *)
(* limbAccess says exactly which action holds each limb.                     *)
LeaseMatchesSelection ==
  /\ \A x, y \in currentActions : LimbSet[x] \cap LimbSet[y] # {} => x = y
  /\ selected =>
       \A l \in Limb, r \in Request :
         limbAccess[l] = r <=> \E x \in currentActions : Group(x) = r /\ l \in LimbSet[x]

(* What a request was told by its start and kill callbacks is what           *)
(* limbAccess lets it do, also when a selection moves a limb from one of its *)
(* items to another.                                                         *)
BeliefMatchesLease ==
  selected => \A r \in Request : notified[r] = {l \in Limb : limbAccess[l] = r}

(* A member of a request never runs without its main element, although       *)
(* selectAction is skipped after most updates of priorities.                 *)
MainHeld ==
  phase # "select" =>
    \A x \in currentActions : mainElement[Group(x)] \in currentActions

(* x has lost one of its limbs to an item of S that is at least as important *)
(* (or has it itself).                                                       *)
Blocked(x, S) ==
  \E y \in S : LimbSet[x] \cap LimbSet[y] # {} /\ priority[y] >= priority[x]

(* No priority inversion: a request whose main element is not running has    *)
(* one of its limbs taken by an item at least as important, even where the   *)
(* short circuit of the priority update skipped the selection.               *)
NoInversion ==
  phase # "select" =>
    \A r \in considered :
      LimbSet[mainElement[r]] # {} => Blocked(mainElement[r], currentActions)

(* A member of an active request, less important than its main element, that *)
(* is not running has one of its limbs taken by an item at least as          *)
(* important.                                                                *)
MembersServed(S) ==
  \A x \in Item :
    /\ Group(x) \in considered
    /\ LimbSet[x] # {}
    /\ mainElement[Group(x)] \in S
    /\ priority[x] < priority[mainElement[Group(x)]]
    => Blocked(x, S)

(* ... as selectAction leaves it.                                            *)
SelectionServesMembers ==
  phase = "select" /\ (\A l \in limbs : rest[l] = {}) => MembersServed(newActions)

(* ... and at any time: the selection skipped by the short circuit of the    *)
(* priority update ("Unless we need to") would have changed nothing.         *)
ShortCircuitSound == phase # "select" => MembersServed(currentActions)

(* Every waypoint in the queue of a servo was issued by a request that one   *)
(* of the current actions gives the servo's limb: the waypoints of a request *)
(* that lost a limb never reach its servos.                                  *)
OnlySelectedDrive ==
  \A s \in Servo : \A i \in 1..Len(commandQueues[s]) :
    \E x \in currentActions :
      Group(x) = commandQueues[s][i].issuer /\ LimbForServo[s] \in LimbSet[x]

(* The waypoints of a queue are in the order of their times.                 *)
QueueSorted ==
  \A s \in Servo : \A i, j \in 1..Len(commandQueues[s]) :
    i <= j => commandQueues[s][i].time <= commandQueues[s][j].time

(* Waypoints are sent from the front only, each at most once: whatever the   *)
(* filter pops and the tick advances, only the front one can carry the 0     *)
(* that marks it as sent.                                                    *)
OnlyFrontSent ==
  \A s \in Servo : \A i \in 2..Len(commandQueues[s]) :
    commandQueues[s][i].source # Nobody

(* The tick never looks up the callback of an id that is not registered.     *)
NeverCrashes == phase # "crashed"

(* A selection always ends.                                                  *)
SelectionTerminates == phase = "select" ~> phase = "idle"

(* When no more commands come, every queue drains, and so every request that *)
(* waits for the completion of its script is called back.                    *)
QueuesDrain ==
  <>[](phase # "filter") => []<>(\A s \in Servo : commandQueues[s] = <<>>)
=============================================================================

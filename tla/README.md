# A TLA+ model of the NUbots robot software

The repository is the software of a humanoid soccer robot (and of the RobotX boat
derived from it): about seventy reactors written for the NUClear message system.
This directory specifies the parts of it that keep state and meet one another: the
controller that decides *who moves the robot*, the skills it serves, the walk and who
leads it, the servos' bus, the configuration files, the script editor, the receiver of
the referee's packets, the strategy of a game, and the boat's mission and connection. TLC checks them, TLAPS
proves what matters most of them. The rest is listed below, with the reason why it is
not here.

| module | what it is |
|---|---|
| `Controller` | the behaviour controller (`modules/behaviour/Controller`), its properties, and the mutated definitions the properties are tried against |
| `LimbLease` | what the controller promises its clients, without priorities, lists or callbacks |
| `ControllerLease` | the refinement mapping from the first to the second |
| `MCController` | the instances TLC checks |
| `ControllerProofs` | types, the selection and the leases: theorems |
| `ControllerQueueProofs` | the queues and who fills them: theorems |
| `ControllerLeaseProofs` | the controller implements `LimbLease`: theorem |
| `LimbLeaseProofs` | exclusive use follows from `LimbLease`: theorem |
| `GameController` | the receiver of the match's game controller (`modules/input/GameController`), its properties and their mutants |
| `MCGameController` | its packets for TLC |
| `GameControllerProofs` | types, the events, our own penalty, mode and GameState: theorems |
| `Skills` | the scripted skills (`modules/behaviour/skills`): Getup, FallingRelax, KickScript, GoalSaver, Stand, and their messages to and from the controller |
| `MCSkills`, `SkillsProofs` | its instances; types, and the two safety properties: theorems |
| `WalkEngine` | starting, stopping and stepping of `modules/motion/WalkEngine` |
| `FixedWalk` | FixedWalk and the WalkOptimiser, who lead it in trials; extends `WalkEngine` |
| `Walking` | either of them, or the path planner and kicks, leading the engine; properties |
| `MCWalking`, `WalkingProofs` | its instance; types, the feet at the end, samples and their time: theorems |
| `Darwin` | the bulk read (`modules/platform/darwin/HardwareIO/src/darwin`) |
| `HardwareIO` | servo targets from their handler to the bus; extends `Darwin`, whose read ends a pass |
| `ScriptTuner` | the script editor (`modules/behaviour/tools/ScriptTuner`) |
| `ConfigSystem` | configuration files, their reactors and inotify (`modules/support/configuration/ConfigSystem`); with the ScriptEngine's reaction to a loaded script |
| `Boat` | the mission of RobotX `Behaviour` and the connection of its `Communicator` |
| `SoccerStrategy` | the strategy of a game (`modules/behaviour/strategy/SoccerStrategy`), what the GameController tells it, and what comes of its messages |
| `MCMachines` | the last six (and what they extend) side by side, and their instances |
| `MachinesProofs` | types, the servos, the bulk read, the editor, the files, the mission, the robot's entry: theorems |

## The system

### How the parts interact

A reactor reacts to messages: `on<Trigger<T>>` runs a handler for every emitted
`T`, `With<U>` adds the last `U`, `Every` is a timer. `emit` hands the message to a
pool of threads, so two messages emitted one after the other may be handled in
either order or at once. `Options<Sync<G>>` makes the handlers of a group exclude
one another, `Options<Single>` drops a trigger whose handler still runs,
`Scope::DIRECT` runs the handlers within the emitter's call and
`Scope::INITIALIZE` delays the message until the start. NUClear itself is not in
the repository; this is how its users rely on it.

The chain from decision to motion is

    SoccerStrategy, planners  --commands-->  skills (Getup, Kick, Walk, Look ...)
    skills                    --RegisterAction, ActionPriorites-->  Controller
    Controller                --start / kill / completed callbacks-->  skills
    skills --ExecuteScript--> ScriptEngine --vector<ServoCommand>--> Controller
    Controller                --vector<ServoTarget>, 60 Hz-->  HardwareIO --> servos
    HardwareIO --DarwinSensors--> SensorFilter --Sensors--> skills, localisation

### Inventory

* **Controller.** State: the registered requests with their items (a priority and
  a set of limbs each), five lists of items sorted by priority, the current
  actions, `limbAccess` (which id each limb listens to), a queue of waypoints per
  servo. Operations: registration, priority update, selection, command filter,
  tick. Hard: a greedy selection over five lists that is skipped whenever a
  shortcut says so; callbacks that tell only differences; commands in flight while
  limbs change hands; queues edited at both ends. Correct when: no limb has two
  masters, nothing more important waits for something less important, what a
  request was told is what it may do, and a servo only ever obeys the holder of its
  limb. **Modelled.**
* **ScriptEngine.** State: the scripts by name. Turns named scripts into one vector
  of waypoints with cumulative times. Hard: reloads do not replace
  (`insert`), a missing script throws in the handler. Correct when: a script that
  changes is the one executed next. **The reaction to a loaded script is modelled.**
* **Scripted skills** (Getup, FallingRelax, KickScript, GoalSaver, Stand). State: a
  flag or a pending command, and the priority they asked for. Operations: a sensor
  or command raises the priority; the start callback emits *Execute*, kill and
  completion emit *Kill* or *Finish*. Hard: these messages cross threads and
  reorder; completion and the kill it leads to both finish; a check disables itself.
  Correct when: a skill whose script has ended does not keep the body, and a robot that
  falls gets up. **Modelled.**
* **Head skills, LookPlanner, DivePlanner.** Geometry to commands; LookAt and Look
  register the head. LookAtBall and LookAtGoal enable and disable their reactions as
  the strategy chooses. **The choice is modelled**, with SoccerStrategy.
* **WalkEngine.** State: the step, `stopRequest` (0, 1, 2), `active`, velocities.
  Start raises two priorities, stop waits for the end of a step, makes one that draws
  the feet together, then lowers them. Hard: starts and stops between the statements
  of `update()`. Correct when: it stands with its feet together, a start is not lost,
  and it has the legs' priority exactly while it walks. **Modelled, without the gait.**
* **FixedWalk, WalkOptimiser.** State: segments, the time in one, whether the robot
  has fallen; samples, getups and fitnesses. Hard: two handlers outside the Sync group,
  two KillGetups for a getup, trials that are called off. Correct when: each sample is
  walked with its own parameters, in full unless called off, and all are.
  **Modelled.** WalkPathPlanner and KickPlanner: what they tell the engine.
* **SoccerStrategy.** State: `selfPenalised`, what was decided, when ball and goal were
  last seen. A decision thirty times a second, from the messages `Phase`, the events of
  the GameController and localisation, to a plan for the walk, a target for the head and
  where localisation begins. Hard: `Phase` and `GameState` are emitted apart and not
  always both, penalties come from handlers of their own, each decision goes to several
  listeners out of order. Correct when: the robot stands, plays and looks as the referee
  says, and begins where it enters. **Modelled.**
* **GameController.** State: the last packet, the last mode, whether we are
  penalised, the emitted `GameState`. A thread of its own turns differences of UDP
  packets into events; the middle button and a reload of the configuration change
  the same members from other threads. Hard: lost packets, several changes in one,
  exceptions in the middle of them, an invalid mode detected after the assignment,
  three threads without a lock. Correct when: the events add up to the packet's
  state, `GameState` says the same, and the button undoes what was last said.
  **Modelled.**
* **ConfigSystem.** State: handlers by path, watched directories, time stamps. Hard:
  events that come together, editors that truncate and write, directories that move,
  refused files, the one-second rule. Correct when: a reactor uses what is on the
  disk. **Modelled.**
* **HardwareIO (darwin), Darwin, UART.** State: servo state with dirty flags, the
  order of the bulk read. The 60 Hz loop and the target handler share the servo state
  unsynchronised; any answer on the bus may fail in several ways. Correct when: a
  target is told to its servo, each device is reported with its own bytes or an error,
  and a broken one does not starve the others. **Modelled, but for the LEDs.**
* **ScriptTuner.** State: a script, a cursor, a dialog. Hard: unsigned indices, two
  numberings of the servos, entries collected over many keys. Correct when: cursors
  exist, no servo has two targets in a frame, gains entered are gains applied.
  **Modelled.**
* **RobotX Communicator.** A stream with a thread of its own, a timer that reconnects
  it, reads that close its socket. Correct when: the connection comes back.
  **TcpClientStream is modelled.**
* **RobotX Behaviour.** Task paths and mission progress. Hard: two indices, used in
  both orders, and the column of one path used in another. Correct when: all exist.
  **Modelled.**
* **TDBoxClient.** A heartbeat over TCP, errors that are built but not thrown.
* **SignalCatcher, GrimReaper.** End the process.
* **SensorFilter, localisation, vision, audio, cameras, NUbugger, NUcap, NBZPlayer,
  other research tools, ScriptRunner.** Numerical code, device I/O and
  serialisation.

`PROJECT.json` names the files of each component and lists the hazards, each at
its line, with the properties that cover it.

## Controller: state and actions

All handlers of the controller are in the group `Sync<Controller>`, so one runs at a
time. Two contain loops whose intermediate states matter; the model takes one step
per iteration and `phase` keeps the other handlers out until the loop has ended.

| code (`Controller.cpp`) | model |
|---|---|
| `requests`, items, `mainElement` | `registered`, `priority`, `mainElement` (an item is `<<request, index>>`) |
| the five `actions` lists | `before`, one order over the items. All the lists receive their items and are stably sorted at the same moments, so each list is this order restricted to the items of its limb |
| `RequestItem::active` | `x \in currentActions` outside the loop, `x \in newActions` inside |
| `Request::active` | `GroupActive`, inside the loop, the only place that reads it |
| the map `limbs` of iterators | `limbs` (keys) and `rest` (what each iterator has ahead). A limb whose list is exhausted is erased by the code one iteration at a time and simply has `rest[l] = {}` here |
| `limbAccess`, `commandQueues` | the same names; a queued command also keeps its `issuer`, because the code overwrites `source` with 0 when it sends it |
| "Action Registration" (41-77) | `Register` (the throwing cases change nothing) |
| "Initial Action Selection" (79-83) | `Startup` |
| "Action Priority Update" (85-125) | `UpdateAndReselect`, `UpdateOnly` |
| `selectAction` (240-411) | `BeginSelection`, then `Activate` or `PassOver` per iteration, then `Commit` |
| "Command Filter" (127-155) | `CommandFilter`, then a `FilterStep` per command |
| the tick (157-216) | `Tick(t)` |

`phase = "crashed"` stands for the dereference of the null pointer that
`requests[id]` inserts for an unknown id (line 213). `selected`, `considered` and
`notified` are history: they record that a selection has taken place, which requests
were registered then, and the limbs each request has by the start and kill callbacks
it received.

Left out: `name` and `maxPriority` (written, never read), positions and gains (copied),
the ActionStart/ActionKill messages for listeners, updates for ids that were never
registered and priority vectors of the wrong length (undefined behaviour of the
caller's making; see the hazards). Priorities are floats of which only the order is
used; natural numbers stand for them. A NaN would break the sort's contract and is
not modelled.

Commands come in vectors: an empty one changes nothing and is left out of `Batches`,
and a single `ServoCommand` (lines 128-134) is wrapped into a vector of one.

## GameController: state and actions

The receiving thread (`run` and `process`) goes through `step`: *recv*, *teams*
(lines 205-423 compared), *modes* (429-545), *publish*, *tell* and *reply* once per
change, *keep*. Between two steps the button's handler, in its two steps, and
`setup`, in its two steps, may run.

| code (`GameController.cpp`) | model |
|---|---|
| `packet`, `mode`, `selfPenalised` | the same names |
| `GameState` (emitted, read by `With`) | `gameState`; `state` is the copy that `process` updates |
| the vector of closures `stateChanges` | a set of changes, told in the order of their `Rank`, which is the order they are pushed in: each comparison pushes at most one |
| `run` (183-201) | `Receive`, `Keep`; an exception is `Dropped` |
| `process` to line 423 | `CompareTeams`; `WithTeams` is the state it makes, `Changed` the changes |
| `process` 429-545 | `CompareModes`, with `PhaseAfter` and `PhaseChanged` |
| `process` 545-552 | `Publish`, `Tell`, and for our own penalty `TellSelf`, then `ReplySent` or `ReplyFails` |
| the button (140-158) | `ButtonMiddleDown`, `ButtonReport` |
| `setup` (50-126) | `ResetPacket`, `EmitInitialState` |

`heard` is what a listener builds from the events. `suspect` holds the packets that
raised an exception after some of their changes had been told and have not been
received in full since: such a packet is compared again with the packet before it
when it comes again, so it is made good, but if another comes first, that one is
compared with a packet the listener has left behind, and a change told and taken
back is never told back. The properties on events are therefore about the times
at which nothing is suspect. `cut` says that a reload and a packet have overlapped.
All three are read by properties only.

Left out: time stamps (copied), `penaltyOverride` (written, never read), the
messages `Say` and `Phase` (the strategy reads it: see below), the ALIVE replies and the
socket, a change of `TEAM_ID` or `PLAYER_ID`, packets before the first setup, a
`playersPerTeam` beyond the array. The members `setup` writes are written in one
step; a thread that reads them half written is a race whose outcomes only the
premises `~cut` and `reloads = 0` keep away from the properties. Presses and
reloads come one at a time.

## Skills: state and actions

The controller appears here by what is proved of it in `ControllerProofs`: the body
belongs to one of the most important skills, and callbacks tell who has it. All five
skills claim the legs, so one of them has the body; Stand, registered with the
smallest positive priority, has it when nobody else asks.

| code | model |
|---|---|
| the messages ExecuteGetup, KillGetup, Falling, KillFalling, ExecuteKick, FinishKick, ExecuteGoalSaver, FinishDive | letters `<<"execute" or "kill", skill>>`; `mail` says how often each is in flight; any may be handled next |
| ActionPriorites | `updates`, handled in order by the controller's group |
| `ExecuteScriptByName`, through the ScriptEngine to the command filter | `<<"waypoints", skill>>`, ignored unless the skill has the body |
| the waypoints of the holder | `script`: the ticks at which servos run out of them, and whether an ankle is among them |
| Getup.cpp 57-71, 72-84, 86-91 | `FallenCheck` and `DisableFallenCheck`, `ExecuteGetup`, `KillGetup` |
| Getup.cpp 100-115 and the other callbacks | letters of `UpdatePriority` and `ServosRunOut` |
| FallingRelax | `Falls`, `Recovers`, `Falling`, `KillFalling` |
| KickScript, GoalSaver | `KickCommand`, `DiveCommand`, `ExecuteKick`, `ExecuteDive`, `Finish` |

`scene.pace` says how fast the robot's life is: in *calm* nothing new happens before
the messages of the last thing are handled, in *busy* commands and sensors come at any
time, in *racing* KillGetup may also be handled between the two statements of the
fallen check. `GetsUp` is about calm scenes, for a reason: in busy ones a second
KillGetup, or a late ExecuteGetup, can meet each new attempt for ever. It therefore says
nothing of a KillGetup that comes late, for which there is `FallenIsAnsweredInTurn`, nor
of the two unordered writers of `falling`, for which there is no property.

Left out: the head (it has no say in who gets the legs), configuration reloads, the
messages Stand emits (nobody waits for them). Scripts are assumed to be loaded; all
that are asked for are shipped. KickScript copies a command that its execution may read
half written; the run has one valid command and one that cancels. GoalSaver has no
script for a dive to the front or back, and would keep priority 100 with nothing to do;
the planner asks for left and right only, which is the premise of the theorem.

## Walking: state and actions

`update()` runs sixty times a second; starts, stops and parameters have handlers that
share no Sync group with it. The model lets them run between updates, and at the two
places within one where the order matters: after the engine has stopped and before it
says so ("halted"), and between reading and overwriting `stopRequest` ("closing").
The read-modify-write of the stop handler itself is one step.

| code | model |
|---|---|
| WalkEngine.cpp: start, stop, parameters | `WalkStart`, `WalkStop`, `ConfigureWalk`; `SetVelocity` for WalkCommand |
| `update()`, `updateStep()` | `Halt` then `ReportStopped`; `ReadStopRequest` then `ClosingStep`; `NextStep`; `Swing` |
| `uLeft, uRight`, `uLeft2, uRight2` | `together`, `destined`: whether the feet are, or will be, side by side; which foot swings does not matter for that |
| `velCommand`, `velCurrent` | whether there is a velocity; it follows with delay |
| the controller | `priority`, `updates`, and `rival`: something more important has the legs. The start callback is `StanceReset` |
| FixedWalk.cpp | `FixedWalkCommand`, `FixedWalkTick`, `CancelFixedWalk`, `WalkStopped`, `ExecuteGetup`, `KillGetup` |
| WalkOptimiser.cpp | `OptimiseWalk`, `WalkConfigSaved` (which sleeps two seconds, so that all other messages are handled), `RecordGetup`, `GetupFinished`, `RoutineFinished` |
| WalkPathPlanner.cpp, KickPlanner.cpp | `WalkStrategy`, `Plan`, `KickFinished`, `KickBegins`, `KickEnds` |

A session is a *trial*, in which messages are handled faster than the robot moves, or
*play*, in which they are not and everything may come between. `whole` marks trials
that begin upright and are not called off: a trial that begins with the robot on the
ground counts its time there as walked. `FullWalk` and `TrialsEnd` are about trials, so
they cover the two KillGetups of a getup in any order with the other messages, but not a
handler of FixedWalk's that meets its manager half way.

Left out: the gait, where the feet are exactly, `WalkEngine`'s own saving of parameters.

## The machines: state and actions

`HardwareIO`, `Darwin`, `ScriptTuner`, `ConfigSystem` and `Boat` share no state and send
one another nothing; `SoccerStrategy` is another, since what it tells the walk and the head
goes to listeners that are part of its module. `MCMachines` puts them into one specification whose constant
variable `part` says which of them moves in a behaviour; the others rest in one of
their initial states. A property of one of them holds of it alone exactly if it holds
here.

**HardwareIO.** The handler stores a target field by field (`StoreField`, in any order,
as nothing orders them for another thread) while the loop visits the servos: it tests
the flags (`Visit`), clears `dirty` and copies the fields in any order (`Clean`, `Copy`,
or `SwitchOff`), and sends all of them (`Send`). `overlapped` is history: servos that
were stored and visited at once since they were last sent. `unmarked` is history too:
servos that were limp, with nothing left to send, when they were asked for the target they
had before, which enables the torque in `servoState` without the dirty mark. The devices
are external: a goal written to a servo turns on its torque.

**Darwin.** `bulkRead` asks in the order of `bulkReadCommand`; each device answers in
full, not at all, in part, without a checksum or with a wrong one (`readPacket`); the
first timeout ends the read (`executeBulk`), an empty result moves its device to the end
(`Reordered`). `broken` is how a device answers by itself, `glitches` the answers of sound
ones that went wrong.

**ScriptTuner.** One action per key; the dialog `editGain` is a state machine of its own
with a table of cells, whose indices wrap as unsigned words do, and so does the index of
the frame: the code computes `0 - 1` from the number 0 where a frame is asked for, and
arrows move from there. What is then done with a frame that is not there (`FrameExists`)
is undefined: those actions are not enabled, so that the model goes no further on that
key. That the frame is also read to be shown after each key, which may end the program,
is left out. `zeroEntered` is history: 0 was entered, and the index is not back yet.
`Word`, the number of values of an index, is 1 modulo 3, as every even power of 2 is.

**ConfigSystem.** `Register` at the start, one after the other; then editors truncate and
write, the program renames, directories are moved, deleted and return, and inotify
reports, an event like the last one sometimes dropped; `NextEvent` and `Load` are the
thread that reads the events, which calls one handler after the other. `timestamp`
holds the files loaded less than a second ago. Directories are named with their slash;
a directory is not deleted while it is moved away, which the code does not survive.

**Boat.** `NextPath`, `FollowPath` and `StartAgain` are the handler of the vehicle's
state, with the two comparisons of `goalReached` as they are: joined by *or*, so that
any position that is a number is a goal reached. A mission is its tasks, each a sequence
of the lengths of its paths, since `goalReached` takes the last column of the path in
work and reads it in the path at the exchanged place. Where that has fewer columns, or
does not exist, the read is undefined: it gives any number (reached or, for a position
that is none, not), or ends the program (`EndProgram`). `Look`, `Connect` and `Tell` are the
stream's thread, `connect` the timer, `underflow` the read that fails on another thread.

**SoccerStrategy.**

| code | model |
|---|---|
| `GameController.cpp` 461-555, by what it emits and in which order | `Compare(p)` (`Phase`), `Publish` (`GameState`, then our own penalty) |
| `SoccerStrategy.cpp`: the tick (143-259) | `Decide` picks the branch, `Act` sends what the branch sends; between the two anything else may happen |
| 133-141 | `SelfPenalisation`, `SelfUnpenalisation` |
| what vision and localisation say | `See(v)`, with `view` |
| `WalkPathPlanner.cpp:201` | `PlanWalk` |
| `LookAtBall.cpp:131`, `LookAtGoal.cpp:132` | `SelectPan` |
| `MMKFRobotLocalisationEngine.cpp:194` | `ResetHypotheses` |

`leaf` is the branch a tick has taken and not acted on yet, `inFlight` the messages on their
way. `entering` is history: the robot has been let back into play and no other reset is on
its way.

Left out: the geometry of zones and positions (`view` says what it decides), the kick (its
planner is in `Walking`), the debug reports. The mode of a game does not change, as it does
not in the GameController (its `Mode` is never emitted). The middle button's report of a
state is in `GameController`. A tick before the first sensors, `Phase` and `GameState`
does not run; the model begins when they are there. A packet comes when our last penalty has
been dealt with, packets being half a second apart. `Walking` takes any plan at any
time, which is what it has to assume of this module.

## What is checked

| run | instance | checks |
|---|---|---|
| `selection` | 3 requests, 5 items over 3 limbs, priorities 0..2; 136,269 states | `LeaseMatchesSelection`, `BeliefMatchesLease`, `MainHeld`, `NoInversion`, `SelectionServesMembers` |
| `queues` | 2 requests, 3 items, 2 limbs with a servo each, priorities 0..1, times 0..2, 7 vectors, queues up to 3; 264,542 states | `OnlySelectedDrive`, `QueueSorted`, `OnlyFrontSent`, `NeverCrashes`, `ImplementsLease`; `SelectionTerminates`, `QueuesDrain` |
| `short_circuit` | as `selection` | `ShortCircuitSound`, which fails |
| `stale_lease` | as `queues`, `limbAccess` starting with anything | `OnlySelectedDrive`, which fails |
| `packets` | 9 packets with 2 players a side and one reload, or 4 of them and the button; 2,177,543 states | `EventsAddUp`, `StateAgrees`, `ModeSettles`, `SelfAgrees` |
| `goals` | as `packets`, no reload | `GoalMeansRise`, which fails |
| `skills` | five scenes: all skills calm; Getup with FallingRelax, KickScript alone, Getup with GoalSaver busy; Getup racing. The priorities of the configuration files | `ExecutionBacked`, `FallenIsAnsweredInTurn`, `GetsUp` |
| `getup` | Getup and FallingRelax, racing | `FallenIsAnswered`, which fails |
| `walking` | a trial of two samples of two segments, and play; steps of two updates; 86,590 states | `TypeOK`, `FeetTogether`, `OwnParameters`, `FullWalk`; `TrialsEnd`, `StandsStill`, `WalksOn` |
| `machines` | one servo with two values; three devices; 4 servos, 2 frames and 2 targets in the editor; two files, a directory, three reactors; two missions, the shipped one and one of five tasks; two breaks; three games; 478,755 states | `MachinesTypeOK`, `TargetsReachServos`, `ReportsAreHonest`, `CursorsExist`, `TargetsUnique`, `StaleOnlyIfSkipped`, `MissionOnTrack`, `EntryHolds`; `EnteredGainsApply`, `SoundDevicesAreRead`, `LinkReturns`, `StopsForTheReferee`, `PlaysOn`, `HeadFollows` |
| `scripts` | a script, its directory and the ScriptEngine | `ScriptsAreUpdated`, which fails |
| `timeouts` | the games of `machines` | `TimeoutStandsStill`, which fails |

**Why the bounds are enough.** The interesting cases of the selection need an item
with several limbs (Script), a request whose main element is looked at after its
member (Walk: main on the arm, member on the leg, equal priorities), one whose two
items exclude each other (Point), and a limb that passes between two items of one
request in one selection (Point's arm). Three priorities allow "above, equal, below".
For the queues, two limbs suffice to hold one and lose the other, a queue of three
lets a command displace some waypoints and not others, and times 0..2 have a
waypoint before, at and after the tick. `MaxTime` and `MaxQueue` are the only
bounds in guards: the clock stops at `MaxTime`, and no vector is accepted that
could take a queue beyond `MaxQueue`. The proofs hold for all their values. All
times of waypoints are times the clock reaches, as every time point is one that the
real clock passes.

The packets of `packets` differ in each thing that is compared: state, timeout,
another mode, our penalty, a mate's and an opponent's, scores, half, ball out,
kick-off, colour, coach; and they have each of the exceptions (a penalty, a mode and
the packet of another match) and a state that no case of the switch names. Any
packet may follow any other, which covers losses and repetitions. Two players a side
are a player and a mate, one reload can fall on any step. `buttonUsed` says of a behaviour
whether it has presses of the button; those that have make do with the four packets the
button has to do with (penalties, states).

In `skills`, `InFlight` (messages in flight when the next thing happens), `MaxMail` and
`MaxUpdates` let two kills of a skill, an old execution and a new request meet; more
skills at once in busy scenes only add skills that are not involved in a conflict of
two. In `walking`, `MaxMail` 1 has one message of a kind in flight (two KillGetups), and
a start leaves the last place in `updates` to the end of a stop; `MaxElapsed` caps the
time counted in a segment beyond its end, and the optimiser's count of getups stops at
its threshold. Two updates in a step are its beginning and its end, which put every
message on either side of both. In `machines`, `MaxGlitches` 1 with three devices, each
broken in any way, has a device before and after each that fails; `MaxFrames` and
`MaxTargets` 2 have a frame and a target beside the edited one; an index has 7 values
(`Word`), so that the arrows lead from the largest through indices of no frame back to the
last; the shipped mission has a path looked up in a shorter one, that of five tasks has
none, and findings in both tasks that have them; two versions of a file
and two waiting events have an old and a new one; and `MaxBreaks` 2 has a break while
the last one is dealt with. At most one file is cut at the start. The games are one
with penalties and timeouts, one in which the ball gets lost in each of the ways the
strategy distinguishes, and a shootout that ends; `MaxInFlight` 1 has a message of an earlier
tick on its way when the next decides, and up to five more when that has acted. A larger configuration (two files and two reactors in the
directory, three events, 1.1 million states) has been checked as well. What the theorems
are about does not depend on any of these bounds.

Every property is tried against a mutated definition (`PROJECT.json`, "mutants"): for
instance `ClearNone` (no queue is cleared when limbs change hands) breaks
`OnlySelectedDrive`, `NotifyStartFirst` (start callbacks before kill callbacks) breaks
`BeliefMatchesLease`, and `ReselectIgnoresMain` breaks `NoInversion`.

**Fairness.** A handler that has begun runs to its end on its thread: weak fairness of
the loop steps. The tick competes with the other handlers for the lock of the group, so
it is not continuously enabled, but it is queued each time its timer fires and the
group serves its queue: strong fairness of a tick at which the clock has moved. Nothing
forces commands, registrations or updates to come. `QueuesDrain` is under the
assumption that commands stop.

In `Skills`, the pool handles what is emitted (weak fairness of `Deliver`); the fallen
check, the recovery and the servos' end are tried sixty times a second whatever else
happens in between (strong fairness), and a robot that tries often enough gets up. In
`Walking` the handlers run, and timers (the update, FixedWalk's manager, the planner)
fire whatever else happens; no fairness makes a robot fall, a plan change or a kick
begin. In `MCMachines` the loop runs and reads, the stream's thread looks for work every
5 ms, and the timer fires every second (weak fairness; only one of the loop and the
stream exists in a behaviour). Nothing makes a device answer or a connection succeed:
`SoundDevicesAreRead` and `LinkReturns` rest on the bounds on glitches and breaks, that
is, on their coming to an end. The strategy's tick is tried thirty times a second whatever
else happens (strong fairness), the packets' thread ends what it has begun, and each
listener goes on handling what it is sent, but not message by message: an old one may
wait for as long as there are others of its kind. Nothing forces a packet or a view to come.
The properties of the GameController are safety
properties and need none.

**Deadlock** is checked but in `skills` and `getup`: outside the loops of the controller a
tick is always possible, the receiving thread can always go on, timers always fire. In
the two runs of the skills the bounds on messages in flight can leave nothing to do
where the program would go on.

## What the runs found

* `short_circuit` - The comment at line 95 has the selection skipped unless it is
  needed. When a main element that is active rises above a member that was as
  important before, no selection follows (no inactive item rose, no active one fell),
  although the member, passed over while its group was not yet active, would now be
  chosen: it stays without a limb nobody holds until something else reselects. For
  main elements the shortcut is sound: `NoInversion`, checked and proved.
* `stale_lease` - `limbAccess` (`Controller.h:102`) is not initialised before the first
  selection, and the filter already compares sources with it. The theorems on who
  drives a limb therefore carry the premise `InitialLease \cap Request = {}`.

* `getup` - The fallen check asks for priority and then disables itself; KillGetup, which
  enables it, can be handled between the two statements (`Getup.cpp:67`, 68, 89). The
  robot then lies on the ground with priority 0 and the check off, and nothing in flight
  that could change either.
* `scripts` - The ScriptEngine inserts a script that is loaded again into a map that has
  it already, which changes nothing (`ScriptEngine.cpp:43`): the first version is
  executed until the program ends.
* `timeouts` - The `Phase` of a timeout is not emitted: the start of a timeout only changes
  the copy of `GameState` (`GameController.cpp:466`, where the comment says that the state
  is changed to timeout), and the strategy reads `Phase`. Its branch for timeouts
  (`SoccerStrategy.cpp:196`) is not reached, and the robot plays on.
* `goals` - A goal is reported, and the score in `GameState` updated, when the score of
  the last packet is greater than the new one (lines 224, 234): "we scored! :D" is
  said of a goal that was taken back, and never of one that was scored. The event
  `Score`, emitted before, is right.

Met on the way, with no document to contradict: a change of `dropInTeam` alone
reports a ball kicked out also with `dropInTime` -1, "before first dropin" (line
375); `ourKickOff` is not renewed when the teams swap colours and `kickOffTeam`
stays (402); `Score` is emitted before an exception that drops the packet (221);
the emission of `Mode` is unreachable (457).

Three properties of `machines` state an exception for what the code does:

* `TargetsReachServos` - A re-enabled torque with an unchanged target does not mark a servo
  dirty (`HardwareIO.cpp:245`, 247): the servo stays limp, and is believed enabled, until
  it is asked for another target. Nothing has to overlap for that.
* `CursorsExist` - 0 is accepted as a frame's number and wraps to the largest index
  (`ScriptTuner.cpp:1068`, 1070), which is used unchecked from then on.
* `MissionOnTrack` - `goalReached` (`Behaviour.cpp:155`) takes the column of one path in
  another: in the shipped `Behaviour.yaml` (paths of 4 and 5 points, and of 9) the second
  task's path of 9 points has column 8 read in a path of 5.

In other components: `goalReached` (`Behaviour.cpp:163`) is true of every position; a
second KillGetup or a late ExecuteGetup can put off a getup (`Getup.cpp:107`); a device that breaks off in the middle of
its answer is never moved to the end of the bulk read (`Darwin.cpp:188`), and those
behind it are not read; `deleteFrame` goes to the next frame where its comment says the
one before (`ScriptTuner.cpp:392`); the configuration directories of the cameras are named without a slash and never match;
README files speak of 50 updates a second where there are 60, and of loading "every time
a file is modified" where there is one in a second.

In and around the strategy: `ballDistance` returns a `bool`, so that no ball is close but one
at distance 0; `pickedUp` begins with `return false &&`; LookPlanner never runs, as nobody
emits a `LookStrategy`; a packet that starts play with this robot penalised has `Phase`
emitted first and the penalty last, so that a tick between them may send the robot to the
ball for a thirtieth of a second, which is why `StopsForTheReferee` asks for a reason to
stand that lasts; the heading in `ModelsAreSimilar` is compared with its sign.

No property covers three more: a second TCP configuration while the first one's thread
runs (`TcpClientStream.cpp:20`), a directory deleted while it is moved away
(`ConfigSystem.cpp:231`), and commands of an earlier lease, which pass the filter if the
request has the limb again (`Controller.cpp:141`).

## What is proved

**Controller.** For any sets of requests, items, limbs, servos and priorities, any
vectors of commands and any bounds, from the three assumptions in `Controller`
(`ItemAssumption`, `LimbAssumption`, `OtherAssumption`: every request has an item,
`limbForServo` is a function, 0 is nobody's id):

1. `ControllerTypes` (`TypeOK`). Not inductive alone: the filter takes the head of
   `pending`, so `PendingOK` (non-empty inside the filter) joins it, and `MainOK` (the
   main element of a registered request is one of its items) for what follows.
2. `SelectionInvariant`, and from it `LeasesMatch`, `BeliefsMatch`, `MainsAreHeld`,
   `NoPriorityInversion`, `MembersAreServed`. Inside the loop the invariant says that
   the lists are sorted, that the items chosen share no limb with each other or with
   the limbs left (`ChoiceOK`), and that a main element is either still ahead of the
   iterator of each of its limbs or already blocked by something as important
   (`MainsWait`): the item under consideration is the largest anywhere, so whoever it
   takes a limb from is not more important (`ConsidersLargest`, `ActivateLoop`), and it
   is only passed over for a limb that is gone (`PassOverLoop`). `MembersWait` adds the
   third way out of a list: the main element can no longer be chosen. Outside the
   loop, an update that skips the selection raises only what is active and lowers only
   what is not, so who was blocked stays blocked (`UpdateOnlySelect`).
   That the loop ends is proved up to fairness, for finitely many items and limbs:
   `SelectionIsDetermined` (until no limb has a candidate left, exactly one is considered,
   so `selectAction` neither gets stuck nor has a choice) and `SelectionAdvances` (each
   turn leaves less ahead of the iterators, so that there are at most as many turns as
   limbs times items, besides those that erase a limb). Both rest on `ListsInv`: the lists are one strict order, which
   registrations (`PushedBackOrdered`) and stable sorts (`SortedOrdered`) keep.
3. `ShapeInvariant`, from which `QueuesSorted` and `OnlyFrontsSent`, on lemmas about one
   queue (`KeptForIsPrefix`, `EnqueueKeeps`, `PopKeeps`, `SendKeeps`).
4. With `InitialLease \cap Request = {}`: `DriveInvariant`, from which `OnlyHoldersDrive`
   and `TickNeverCrashes`. The filter admits only the id in `limbAccess`, which by 2
   is a holder of the limb; a holder that stays after a selection was not killed; so
   when the tick empties a queue, somebody registered holds its limb.
5. With the same premise, `Implementation`: `Spec => LimbLease!Spec`, where `limbAccess`
   is the owner of each limb and `View` of a queue forgets the sent mark. `Commit`
   is a `Reassign`, a filter step an `Issue` or nothing, a tick an `Advance`.
6. `ExclusiveUse`: in `LimbLease`, what a servo is still to do was asked for by the
   present owner of its limb.

**GameController.** For any packets, coaches, players and bounds, from
`SquadAssumption` and `PacketAssumption` (`PLAYER_ID` is a player; a received packet
has the fields the type allows):

7. `GameControllerTypes` (`TypeOK`), together with `PlaceInv`: beyond *recv* the packet in
   hand is one that was sent.
8. `EventInvariant`, and from it `EventsAlwaysAddUp`. `EventsAddUp` speaks only of the
   moments between packets; the invariant says for each step where a thing heard
   comes from: the packet kept, the packet in hand, a suspect one, or it is still to be
   told (`ScoreInv`, `PenaltyInv`). For the phase, which is not copied but decided
   (`PhaseInv`), a dropped packet does not matter while the change of phase it made
   would be told again (`PhaseStillChanged`).
9. `SelfAlwaysAgrees`: during a reply the event agrees with the packet in hand, during a
   press the member with what is about to be reported (`SelfInv`).
10. `ModeAlwaysSettles`: the member `mode` runs ahead of the GameState while a packet is in
   hand, and of the packet kept when one was dropped (`ModeInv`).
11. `StateAlwaysAgrees`: field by field, the GameState comes from the packet kept or from a
   suspect one, past the comparison from the packet in hand or a suspect one (`AgreeInv`);
   what is not found changed is the same in both (`NothingFound`, `PhaseStays`). The
   proof found the case the property now excludes: a packet with neither a mode nor a
   state known that is otherwise like a fresh one raises an exception once, then is
   kept without a change, and the `GameState` of the start, without players, stays.

**Skills.** For any delays, priorities, commands and scenes, from `SkillAssumption`:

12. `SkillTypes`.
13. `FallenAnsweredInTurn`. The invariant (`FallenInv`) follows the last thing asked for
    Getup: it is positive, or the check is enabled, or a kill is in flight that will
    enable it.
14. `ExecutionsAreBacked`, with `DiveCommands \subseteq {"left", "right"}`. For each skill
    (`StandInv`, `KickInv`, `HolderInv`): who has the body has a script, or a message in
    flight that brings one, or ends it.

**Walking.** For any length of a step, any number of samples, segments and tolerated getups,
any length of a segment and any sessions, from `WalkAssumption`, `FixedWalkAssumption` and
`SessionAssumption`:

15. `StandsWithFeetTogether`: while the last step of a stop is made, its destination has
    the feet together, and when it is over they are (`FeetInv`).
16. `WalkTypes` (`TypeOK`). Not inductive alone: that no segment is counted below zero needs
    that a walk that goes on has one to be walked (`TypeInv`).
17. `FitnessIsOfOwnParameters`. A trial is in one place at a time: on its way in one of four
    messages that hand it on, in the engine, or in one of the two that tell of its end
    (`OwnInv` counts the places). No step adds a place, so no two samples mix.
18. `TrialsAreWalked`, where messages are handled before the robot moves: the time walked is
    that of the segments behind it and the upright part of the present one (`TimeInv`).
    It needs that FixedWalk hears of a fall and of a getup before time passes (`FallInv`)
    and that no stop is in flight while it walks (`LeadInv`).

**Machines.** For any devices, servos, values, scripts, files, missions and games:

19. `MachinesTypes` (`MachinesTypeOK`), from the assumptions of the parts. The bulk read
    (`DarwinInv`: the request is as long as there are devices), the editor (`TunerInv`)
    and the configuration (`ConfigTypeInv`: what waits are events) need more than their types.
20. `TargetsAlwaysReachServos`: a servo that was not stored and visited at once is clean
    only if the pass under construction, or the servo, has what it was asked
    (`ApartInv`), given that a pass writes only when it has seen all servos (`PassInv`);
    or it is an unmarked one, which is clean and limp until it is asked for another target
    (`UnmarkedInv`).
21. `ReportsAlwaysHonest`: the request names every device, in whatever order
    (`RequestInv`), and what is booked without error is a complete answer of its device.
22. `CursorsAlwaysExist` and `TargetsAlwaysUnique`: the edited frame exists unless 0 was
    entered, for any width of an index (`JumpLands`), no servo has two targets, as the two
    numberings of the servos agree (`ScriptInv`, `LinesAgree`) and the mirror is one to one
    (`MirrorKeeps`), and the dialog is on a cell (`DialogInv`).
23. `EnteredGainsAlwaysApply`, an action property: a gain that was entered is backed by the
    marks that have it applied, of its half of the body and of script or frame
    (`GainsBacked`); the two loops at the end of the dialog then do what the property
    says, in that order.
24. `NewsAlwaysArrive`, for any files, directories, reactors and events: a reactor that is
    told of a file and does not use what is on the disk is about to be called with it, or
    an event waits that will have it called (`NewsInv`). A call of a directory is good for
    its files because all calls under way have the same argument (`CallsInv`). An event
    can only be relied on if its directory is watched when it is taken, for which the
    return of a directory has to be the last that was heard of it, and to wait whenever
    anything older does, or when the directory is not watched (`ReturnsInv`).
25. `MissionsStayOnTrack`, for missions that are symmetric in paths and tasks, as the shipped
    one is, with paths of any lengths: then the path at the swapped indices exists. Its
    column is not part of that: the theorem says that the program can end at a lookup
    only where the path in work has more points than the one it is looked up in.
26. `EntriesHold`: while the robot is entering, the only reset on its way is its entry's, and
    no tick is about to send another (`EntryInv`).

Every strengthened invariant was first checked by TLC: `ConfigInv` of 24, for one, with
three waiting events (286,893 states). Two assumptions on constants are there for the
proofs' sake: `MaxVersion` and `MaxEvents` are numbers (`ConfigAssumption`), and a
broken device breaks in one of the ways of `Answer` (`PartsAssumption`).

**Model-checked only.** Every invariant and action property of the passing runs is the
statement of a theorem. What is left to TLC is liveness (`SelectionTerminates`,
`QueuesDrain`, `GetsUp`, `TrialsEnd`, `StandsStill`, `WalksOn`, `SoundDevicesAreRead`,
`LinkReturns`, `StopsForTheReferee`, `PlaysOn`, `HeadFollows`): it rests on fairness, that
is on ENABLED, which is out of the prover's reach. For the selection the rest of the
argument is proved (2). The type invariants of the controller,
the GameController and the skills are proved and no longer run. The six runs that expect a
violation are counterexamples and have no theorem.

## Plan

The modules were written in the order of what they decide: the controller with its
abstract specification and proofs, the GameController, the skills, the walk, the
machines, and the strategy. What would come next:

* more of the liveness properties up to fairness, as for the selection: what each step of a
  queue, a walk or a bulk read brings nearer to its end;
* `Skills` composed with `Controller` in place of the controller's summary, with the
  head as a second limb, and the ScriptEngine's vectors for the constant `Batches`;
* a mission that is configured again while it is under way.

## Not modelled

* **SensorFilter, localisation, vision, audio**: numerical code over reals, with little
  state that is not a number and no protocol.
* **Cameras, NUbugger, NUcap, NBZPlayer, eSpeak, SignalCatcher, GrimReaper**: device and
  file I/O, serialisation.
* **Head skills, LookPlanner, DivePlanner, ScriptRunner**, but for what is said above: one
  message in, one out.
* **TcpServerStream**: it does not compile (`TcpServerStream.cpp:44`). The handlers of the
  Communicator that forward a message keep nothing.
* **TDBoxClient**: sends a line every second and at each finding, and connects again when a
  write fails; it keeps nothing else.
* **HardwareIO (fakedarwin)**: integrates targets.

Most of the lines of the repository are in these, which is why the models cover a small
share of them.

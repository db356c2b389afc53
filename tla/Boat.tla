--------------------------------- MODULE Boat ---------------------------------
(***************************************************************************)
(* The boat of modules/robotx: how Behaviour goes through the paths of its *)
(* tasks, and how the Communicator's TcpClientStream keeps its connection. *)
(***************************************************************************)
EXTENDS Integers, Sequences

CONSTANTS
  Missions,   \* the lengths of the paths of each task of a configuration
  MaxBreaks   \* bound: times the connection breaks or is refused

ASSUME BoatAssumption ==
  /\ Missions \subseteq Seq(Seq(Nat \ {0}) \ {<< >>}) /\ << >> \notin Missions
  /\ MaxBreaks \in Nat

VARIABLES
  task_paths,       (* the number of points of each path of each task       *)
  run_autonomous, current_task, current_path,
  reported,         (* the finding of this task has been reported           *)
  age,              (* the time spent on this path                          *)
  CurrentTask,      (* what was last emitted                                *)
  ended,            (* a read outside of a path has ended the program       *)
  connection_status,
  socket,           (* is the socket open?                                  *)
  worker,           (* what the stream's thread does                        *)
  breaks

missionVars ==
  <<task_paths, run_autonomous, current_task, current_path, reported, age, CurrentTask, ended>>
linkVars == <<connection_status, socket, worker, breaks>>

-----------------------------------------------------------------------------
(* Behaviour. The mode is not initialised; a configuration announces a task. *)
MissionInit ==
  /\ task_paths \in Missions /\ run_autonomous \in BOOLEAN
  /\ current_task = 0 /\ current_path = 0 /\ reported = FALSE /\ age = "new"
  /\ CurrentTask = 0 /\ ended = FALSE

AutonomousMode(on) ==
  /\ ~ended
  /\ run_autonomous' = on
  /\ UNCHANGED <<task_paths, current_task, current_path, reported, age, CurrentTask, ended>>

(* Up to 5 seconds, up to 120, more.                                         *)
TimePasses ==
  /\ age' = CASE age = "new" -> "on it" [] OTHER -> "timed out"
  /\ UNCHANGED <<task_paths, run_autonomous, current_task, current_path, reported, CurrentTask, ended>>

Exists(task, path) == task < Len(task_paths) /\ path < Len(task_paths[task + 1])
Points(task, path) == task_paths[task + 1][path + 1]

(* The goal is read with task and path exchanged, in the column that is the  *)
(* last of the path in work: what is read beyond the end is any number, or   *)
(* ends the program, as no index is checked in the build. Whatever number it *)
(* is, || joins the comparisons: only a position that is no number itself    *)
(* has not reached the goal.                                                 *)
GoalIsRead ==
  /\ Exists(current_task, current_path) /\ Exists(current_path, current_task)
  /\ Points(current_task, current_path) <= Points(current_path, current_task)

goalReached == {"reached", "not reached"} \cup (IF GoalIsRead THEN {} ELSE {"ended"})

StartAgain ==
  /\ ~ended /\ ~run_autonomous
  /\ current_task' = 0 /\ age' = "new"
  /\ UNCHANGED <<task_paths, run_autonomous, current_path, reported, CurrentTask, ended>>

Finds == age = "new" /\ current_task \in {2, 4}

(* Stay on the path, or take the next; after the last comes the next task.   *)
FollowPath(goal) ==
  /\ ~ended /\ run_autonomous /\ goal = "not reached" /\ age # "timed out"
  /\ reported' = (reported \/ Finds)
  /\ UNCHANGED <<task_paths, run_autonomous, current_task, current_path, age, CurrentTask, ended>>

(* Mutant: the next task does not begin with its first path.                 *)
NextPathOnly(goal) ==
  LET last == current_path + 1 >= Len(task_paths[current_task + 1])
      next == (current_task + 1) % Len(task_paths)
  IN /\ ~ended /\ run_autonomous
     /\ goal = "reached" \/ (goal = "not reached" /\ age = "timed out")
     /\ current_path' = IF last THEN current_path ELSE current_path + 1
     /\ current_task' = IF last THEN next ELSE current_task
     /\ CurrentTask' = IF last THEN next ELSE CurrentTask
     /\ reported' = (~last /\ (reported \/ Finds))
     /\ age' = "new"
     /\ UNCHANGED <<task_paths, run_autonomous, ended>>

NextPath(goal) ==
  LET last == current_path + 1 >= Len(task_paths[current_task + 1])
      next == (current_task + 1) % Len(task_paths)
  IN /\ ~ended /\ run_autonomous
     /\ goal = "reached" \/ (goal = "not reached" /\ age = "timed out")
     /\ current_path' = IF last THEN 0 ELSE current_path + 1
     /\ current_task' = IF last THEN next ELSE current_task
     /\ CurrentTask' = IF last THEN next ELSE CurrentTask
     /\ reported' = (~last /\ (reported \/ Finds))
     /\ age' = "new"
     /\ UNCHANGED <<task_paths, run_autonomous, ended>>

(* The end comes after the report, and leaves nothing but the time.          *)
EndProgram(goal) ==
  /\ ~ended /\ run_autonomous /\ goal = "ended"
  /\ ended' = TRUE
  /\ reported' = (reported \/ Finds)
  /\ UNCHANGED <<task_paths, run_autonomous, current_task, current_path, age, CurrentTask>>

MissionNext ==
  \/ \E on \in BOOLEAN : AutonomousMode(on)
  \/ TimePasses
  \/ StartAgain
  \/ \E goal \in goalReached : FollowPath(goal) \/ NextPath(goal) \/ EndProgram(goal)

-----------------------------------------------------------------------------
(* The stream to the vehicle's controller, and the timer that renews it.     *)
LinkInit ==
  /\ connection_status = "DISCONNECTED" /\ socket = FALSE
  /\ worker = "looking" /\ breaks = 0

(* Every second: only one that is disconnected is asked to connect.          *)
connect ==
  /\ connection_status = "DISCONNECTED"
  /\ connection_status' = "CONNECTING"
  /\ UNCHANGED <<socket, worker, breaks>>

(* Mutant: does not notice that the socket was closed.                       *)
LookForWork ==
  /\ worker = "looking"
  /\ worker' = IF connection_status = "CONNECTING" THEN "connecting" ELSE "looking"
  /\ UNCHANGED <<connection_status, socket, breaks>>

(* The thread looks at the status, connects, which opens the socket whether  *)
(* or not it succeeds, and then says how it went.                            *)
Look ==
  /\ worker = "looking"
  /\ worker' = CASE connection_status = "CONNECTING" -> "connecting"
                 [] connection_status = "CONNECTED" /\ ~socket -> "giving up"
                 [] OTHER -> "looking"
  /\ UNCHANGED <<connection_status, socket, breaks>>

Connect(refused) ==
  /\ worker = "connecting"
  /\ refused => breaks < MaxBreaks
  /\ breaks' = IF refused THEN breaks + 1 ELSE breaks
  /\ socket' = TRUE
  /\ worker' = IF refused THEN "giving up" ELSE "done"
  /\ UNCHANGED connection_status

Tell ==
  /\ worker \in {"done", "giving up"}
  /\ connection_status' = IF worker = "done" THEN "CONNECTED" ELSE "DISCONNECTED"
  /\ worker' = "looking"
  /\ UNCHANGED <<socket, breaks>>

(* A read that fails closes the socket, on another thread, at any time.      *)
underflow ==
  /\ socket /\ breaks < MaxBreaks
  /\ socket' = FALSE /\ breaks' = breaks + 1
  /\ UNCHANGED <<connection_status, worker>>

doWork == Look \/ (\E refused \in BOOLEAN : Connect(refused)) \/ Tell
LinkNext == connect \/ doWork \/ underflow
-----------------------------------------------------------------------------
BoatTypeOK ==
  /\ task_paths \in Missions /\ run_autonomous \in BOOLEAN /\ reported \in BOOLEAN
  /\ {current_task, current_path, CurrentTask} \subseteq Nat /\ ended \in BOOLEAN
  /\ age \in {"new", "on it", "timed out"}
  /\ connection_status \in {"DISCONNECTED", "CONNECTED", "CONNECTING"}
  /\ socket \in BOOLEAN /\ breaks \in 0..MaxBreaks
  /\ worker \in {"looking", "connecting", "done", "giving up"}

(* However manual and autonomous phases, timeouts and reached goals follow   *)
(* each other, the path in work exists, and so does the one at the exchanged *)
(* place, where goalReached looks. Its column need not: the last one of a    *)
(* path with more points is not there, as in the mission that is shipped,    *)
(* where the path of 9 points is looked up in one of 5; only there can the   *)
(* program end. The task that was announced is the one in work, or the       *)
(* mission has been started again (Behaviour.cpp:121, 129, 133, 147, 155).   *)
MissionOnTrack ==
  /\ Exists(current_task, current_path) /\ Exists(current_path, current_task)
  /\ ended => Points(current_task, current_path) > Points(current_path, current_task)
  /\ CurrentTask = current_task \/ current_task = 0

(* Once nothing breaks it any more the connection is up for good, whichever  *)
(* step of its thread the last failed read or refusal fell on                *)
(* (TcpClientStream.cpp:42, 53, SocketBuffer.cpp:72, Communicator.cpp:282).  *)
LinkComesUp == <>[](connection_status = "CONNECTED" /\ socket)
=============================================================================

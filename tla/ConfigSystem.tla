----------------------------- MODULE ConfigSystem -----------------------------
(***************************************************************************)
(* modules/support/configuration/ConfigSystem: reactors register for a     *)
(* file or a directory, get what is there, and then get each file that     *)
(* inotify reports again, unless it was loaded less than a second ago.     *)
(***************************************************************************)
EXTENDS Integers, FiniteSets, SequencesExt

CONSTANTS
  Files, Dirs,  \* the .yaml files, and the directories some of them are in
  DirOf,        \* for each file its directory, or Base
  Base,         \* the configuration directory itself
  Types,        \* the types of which a reactor wants Configuration<Type>
  PathOf,       \* the file it names, or the directory, with its slash
  Inserting,    \* types whose reactor inserts into a map: ScriptEngine's
  MaxVersion,   \* bound: changes of the files
  MaxEvents     \* bound: inotify events that wait

ASSUME ConfigAssumption ==
  /\ DirOf \in [Files -> Dirs \cup {Base}] /\ Base \notin Dirs
  /\ PathOf \in [Types -> Files \cup Dirs] /\ Files \cap Dirs = {}
  /\ \A t \in Types : PathOf[t] \in Files => DirOf[PathOf[t]] = Base
  /\ Inserting \subseteq Types
  /\ MaxVersion \in Nat \ {0} /\ MaxEvents \in Nat

VARIABLES
  loaded,     (* the types that have registered                             *)
  handler,    (* for each path the types that are told of it, in order      *)
  watchPath,  (* the directories that are watched, beside Base              *)
  timestamp,  (* the files loaded less than a second ago                    *)
  events,     (* what inotify has to say: files, and what became of a       *)
              (* directory                                                  *)
  loading,    (* the handlers that are still to be called, and with what    *)
  disk,       (* each file: which version, and whether it is all there      *)
  place,      (* where each directory is                                    *)
  config,     (* the version each reactor uses of each file, 0 for none     *)
  skipped     (* files with a change that was passed over, see below        *)

configVars == <<loaded, handler, watchPath, timestamp, events, loading,
                disk, place, config, skipped>>
outside == <<disk, place>>
directories == <<watchPath, place>>

InDir(d) == {f \in Files : DirOf[f] = d}
FilesOf(path) == IF path \in Dirs THEN InDir(path) ELSE {path}

Standing(places) == {Base} \cup {d \in Dirs : place[d] \in places}

(* A file that is being written is cut off; one in a directory that is away, *)
(* or that went with it, is absent.                                          *)
Present(f) == disk[f].state # "absent" /\ DirOf[f] \in Standing({"there"})
Sound(f) == Present(f) /\ disk[f].state = "whole"

ConfigInit ==
  /\ loaded = {} /\ handler = [p \in Files \cup Dirs |-> << >>]
  /\ watchPath = {} /\ timestamp = {} /\ events = << >> /\ loading = << >>
  /\ disk \in [Files -> [version : {1}, state : {"whole", "cut"}]]
  /\ place = [d \in Dirs |-> "there"]
  /\ config = [t \in Types |-> [f \in Files |-> 0]]
  /\ skipped = {}

-----------------------------------------------------------------------------
(* Loading. What a reactor makes of a file: insert leaves an entry of that   *)
(* name as it is.                                                            *)
Kept(t, old, new) == IF t \in Inserting /\ old # 0 THEN old ELSE new

Emitted(t, fs) ==
  [config EXCEPT ![t] = [f \in Files |-> IF f \in fs /\ Sound(f)
                                         THEN Kept(t, @[f], disk[f].version) ELSE @[f]]]

(* The time is noted before the file is opened. A file that is cut off may   *)
(* be refused by the parser, or by the reactor, where nobody notices; one    *)
(* that is absent is refused. After a refusal nothing more is loaded.        *)
buildConfigurationNode(t, f, refused) ==
  /\ timestamp' = timestamp \cup {f}
  /\ refused \in BOOLEAN /\ (refused => ~Sound(f)) /\ (~refused => Present(f))
  /\ config' = Emitted(t, {f})

(* All .yaml files of the directory in the order the directory has them; a   *)
(* refused one leaves those behind it as they were.                          *)
loadDir(t, d, refused) ==
  \E done \in SUBSET InDir(d) :
    LET there == {f \in InDir(d) : Present(f)}
    IN /\ done \subseteq there
       /\ IF refused THEN \E f \in done : ~Sound(f) ELSE done = there
       /\ timestamp' = timestamp \cup done
       /\ config' = Emitted(t, done)

(* Registration: a type is loaded at once, and told of changes from then on, *)
(* unless the first load is refused.                                         *)
Register(t) ==
  /\ t \notin loaded
  /\ loaded' = loaded \cup {t}
  /\ LET path == PathOf[t]
     IN \E refused \in BOOLEAN :
          /\ IF path \in Dirs
             THEN /\ watchPath' = IF handler[path] = << >> THEN watchPath \cup {path} ELSE watchPath
                  /\ loadDir(t, path, refused)
             ELSE buildConfigurationNode(t, path, refused) /\ UNCHANGED watchPath
          /\ handler' = IF refused THEN handler ELSE [handler EXCEPT ![path] = Append(@, t)]
  /\ UNCHANGED <<events, loading, outside, skipped>>

Running == loaded = Types

-----------------------------------------------------------------------------
(* What happens on the disk. A watch stays with its directory until that is  *)
(* deleted or the watch removed. An event like the last one may be dropped.  *)
Notify(watched, event) ==
  LET new == Append(events, event)
  IN /\ events' \in IF ~watched THEN {events}
                    ELSE IF events # << >> /\ Last(events) = event THEN {events, new} ELSE {new}
     /\ Len(events') <= MaxEvents

FileEvent(f) == [what |-> "file", of |-> f]
DirEvent(what, d) == [what |-> what, of |-> d]
Watched(f) == DirOf[f] \in watchPath \cup {Base}

Change(f, state) ==
  /\ Running /\ DirOf[f] \in Standing({"there", "moved"})
  /\ disk[f].version < MaxVersion \/ (disk[f].state = "cut" /\ state = "whole")
  /\ disk' = [disk EXCEPT ![f] = [version |-> IF @.state = "cut" THEN @.version ELSE @.version + 1,
                                  state |-> state]]
  /\ Notify(Watched(f), FileEvent(f))
  /\ UNCHANGED <<loaded, handler, watchPath, timestamp, loading, place, config, skipped>>

(* An editor truncates the file and writes it; the program writes a copy     *)
(* with another ending and renames that.                                     *)
Truncate(f) == disk[f].state # "cut" /\ Change(f, "cut")
Write(f) == disk[f].state = "cut" /\ Change(f, "whole")
SaveConfiguration(f) == disk[f].state # "cut" /\ Change(f, "whole")

DirEventsOf(d) == {k \in DOMAIN events : events[k].what # "file" /\ events[k].of = d}

(* A directory is moved away or deleted, not before its last return is seen. *)
TakeAway(d, how) ==
  /\ Running
  /\ place[d] = "there" /\ DirEventsOf(d) = {}
  /\ place' = [place EXCEPT ![d] = how]
  /\ IF how = "moved"
     THEN Notify(TRUE, DirEvent("moved", d)) /\ UNCHANGED <<watchPath, disk>>
     ELSE /\ Notify(d \in watchPath, DirEvent("deleted", d))
          /\ watchPath' = watchPath \ {d}
          /\ disk' = [f \in Files |-> IF f \in InDir(d) THEN [disk[f] EXCEPT !.state = "absent"]
                                      ELSE disk[f]]
  /\ UNCHANGED <<loaded, handler, timestamp, loading, config, skipped>>

Return(d) ==
  /\ place[d] # "there"
  /\ place' = [place EXCEPT ![d] = "there"]
  /\ Notify(TRUE, DirEvent("there", d))
  /\ UNCHANGED <<loaded, handler, watchPath, timestamp, loading, disk, config, skipped>>

Second ==
  /\ \E f \in timestamp : timestamp' = timestamp \ {f}
  /\ UNCHANGED <<loaded, handler, watchPath, events, loading, outside, config, skipped>>

-----------------------------------------------------------------------------
(* The thread of the ConfigSystem takes one event after the other.           *)
NextEvent(what) ==
  /\ Running /\ loading = << >> /\ events # << >>
  /\ Head(events).what = what

Calls(path, what) == [k \in DOMAIN handler[path] |-> [type |-> handler[path][k], load |-> what]]

(* Only once per second; with the handler of the file, else of its directory.*)
FileChanged ==
  /\ NextEvent("file")
  /\ events' = Tail(events)
  /\ LET f == Head(events).of
         path == IF handler[f] # << >> \/ DirOf[f] = Base THEN f ELSE DirOf[f]
     IN IF f \in timestamp
        THEN skipped' = skipped \cup {f} /\ UNCHANGED loading
        ELSE skipped' = skipped \ {f} /\ loading' = Calls(path, f)
  /\ UNCHANGED <<loaded, handler, directories, timestamp, disk, config>>

(* Mutant: what is in the directory is loaded, and not watched.              *)
DirAppearedUnwatched ==
  /\ NextEvent("there")
  /\ events' = Tail(events)
  /\ LET d == Head(events).of
     IN /\ loading' = Calls(d, d)
        /\ skipped' = skipped \ InDir(d)
  /\ UNCHANGED <<loaded, handler, watchPath, timestamp, outside, config>>

(* A directory that is created or moved back is watched and loaded.          *)
DirAppeared ==
  /\ NextEvent("there")
  /\ events' = Tail(events)
  /\ LET d == Head(events).of
     IN IF handler[d] # << >>
        THEN /\ watchPath' = watchPath \cup {d}
             /\ loading' = Calls(d, d)
             /\ skipped' = skipped \ InDir(d)
        ELSE UNCHANGED <<watchPath, loading, skipped>>
  /\ UNCHANGED <<loaded, handler, timestamp, outside, config>>

(* One that is moved away is no longer watched; what is still to come of the *)
(* old watch has no name any more.                                           *)
DirMoved ==
  /\ NextEvent("moved")
  /\ LET d == Head(events).of
         left == {k \in 2..Len(events) : ~(d \in watchPath /\ events[k].of \in InDir(d))}
     IN /\ watchPath' = watchPath \ {d}
        /\ \E order \in Bijection(1..Cardinality(left), left) :
             /\ \A i, j \in DOMAIN order : i < j => order[i] < order[j]
             /\ events' = [i \in DOMAIN order |-> events[order[i]]]
  /\ UNCHANGED <<loaded, handler, timestamp, loading, outside, config, skipped>>

DirDeleted ==
  /\ NextEvent("deleted")
  /\ events' = Tail(events)
  /\ UNCHANGED <<loaded, handler, watchPath, timestamp, loading, outside, config, skipped>>

(* The next handler is called; an exception ends the calls.                  *)
Load ==
  /\ loading # << >>
  /\ \E refused \in BOOLEAN :
       /\ loading' = IF refused THEN << >> ELSE Tail(loading)
       /\ LET call == Head(loading)
              passedOver == IF refused /\ call.load \in Dirs THEN InDir(call.load) ELSE {}
          IN /\ IF call.load \in Dirs THEN loadDir(call.type, call.load, refused)
                ELSE buildConfigurationNode(call.type, call.load, refused)
             /\ skipped' = skipped \cup passedOver
  /\ UNCHANGED <<loaded, handler, watchPath, events, outside>>

ConfigNext ==
  \/ \E t \in Types : Register(t)
  \/ \E f \in Files : Truncate(f) \/ Write(f) \/ SaveConfiguration(f)
  \/ \E d \in Dirs, how \in {"moved", "deleted"} : TakeAway(d, how)
  \/ \E d \in Dirs : Return(d)
  \/ Second \/ FileChanged \/ DirAppeared \/ DirMoved \/ DirDeleted \/ Load
-----------------------------------------------------------------------------
ConfigTypeOK ==
  /\ loaded \subseteq Types /\ handler \in [Files \cup Dirs -> Seq(Types)]
  /\ watchPath \subseteq Dirs /\ timestamp \subseteq Files /\ skipped \subseteq Files
  /\ Len(events) <= MaxEvents
  /\ disk \in [Files -> [version : 1..MaxVersion, state : {"whole", "cut", "absent"}]]
  /\ place \in [Dirs -> {"there", "moved", "deleted"}]
  /\ config \in [Types -> [Files -> 0..MaxVersion]]

(* Nothing is left to do, and the type is told of this file.                 *)
AtRest == events = << >> /\ loading = << >>
Told(t, f) == f \in FilesOf(PathOf[t]) /\ t \in Range(handler[PathOf[t]])

(* Whatever happens to a file and its directory, and whenever: once all      *)
(* events are handled every reactor that is told of the file uses what is on *)
(* the disk, or has it at all if it inserts, unless a change was passed over *)
(* by the rule of one second, or because one of its directory was refused,   *)
(* which ends the loading for all                                            *)
(* (ConfigSystem.cpp:79, 167, 178, 201, 222).                                *)
StaleOnlyIfSkipped ==
  AtRest => \A t \in Types, f \in Files \ skipped :
              Told(t, f) /\ Sound(f) =>
                config[t][f] \in IF t \in Inserting THEN 1..MaxVersion ELSE {disk[f].version}

(* "For scripts we want updates on the whole scripts directory": so it would *)
(* have to be for reactors that insert, too (ScriptEngine.cpp:35, 43).       *)
ScriptsAreUpdated ==
  AtRest => \A t \in Inserting, f \in Files \ skipped :
              Told(t, f) /\ Sound(f) => config[t][f] = disk[f].version
=============================================================================

----------------------------- MODULE ScriptTuner -----------------------------
(***************************************************************************)
(* The editor of scripts: one thread reads keys and changes the script, a  *)
(* cursor over its frames and servos, and, in a dialog of its own, gains.  *)
(***************************************************************************)
EXTENDS Integers, SequencesExt

CONSTANTS
  Joints,     \* number of servos (20), the last two are the head's
  Rolling,    \* those whose angle changes sign in the mirror (rolls and yaws)
  Lower,      \* those of the legs
  Positions,  \* angles, with their opposites
  Gains,      \* gains between 0 and 100
  DefaultGain,
  Word,       \* number of values of an unsigned index
  MaxFrames, MaxTargets \* bounds: frames, and targets in all frames together

ASSUME TunerAssumption ==
  /\ Joints \in Nat /\ Joints > 2 /\ Joints % 2 = 0
  /\ Rolling \cup Lower \subseteq 0..(Joints - 1)
  /\ 0 \in Positions /\ \A p \in Positions : -p \in Positions
  /\ Gains \subseteq Nat /\ DefaultGain \in Gains /\ MaxFrames \in Nat
  /\ Word \in Nat /\ Word > MaxFrames + 1 /\ Word > 4
  /\ Word % 3 = 1 \* as that of 64 bits, and any of an even number of bits

VARIABLES
  script,     (* a sequence of frames, each a sequence of targets           *)
  frame,      (* the index, from 0, of the frame that is edited             *)
  selection,  (* the line of the servo that is selected, the head's first   *)
  angleOrGain,
  dialog,     (* the state of editGain while it reads keys                  *)
  zeroEntered (* history: 0 was a frame's number, and frame is not back yet *)

tunerVars == <<script, frame, selection, angleOrGain, dialog, zeroEntered>>

Servo == 0..(Joints - 1)
TargetOf(id, position, gain) == [id |-> id, position |-> position, gain |-> gain]
ScriptTarget == [id : Servo, position : Positions, gain : Gains]

(* Indices are unsigned: they wrap.                                          *)
Wrapped(n) == IF n < 0 THEN n + Word ELSE IF n >= Word THEN n - Word ELSE n

(* The index is not checked. What is done with a frame that is not there is  *)
(* undefined, and the model goes no further; that it is read to be shown may *)
(* also end the program, at any key, or show anything.                       *)
FrameExists == frame < Len(script)
targets == script[frame + 1]
TargetCount == FoldSeq(LAMBDA f, n : Len(f) + n, 0, script)

(* Mutant: lines are numbered as the servos are.                             *)
IdIsLine == selection

(* Whether a target is on a line, and which servo a line is about: the code  *)
(* computes the one in the renderer and the searches, the other when it adds.*)
OnLine(target) == (target.id + 2) % Joints = selection
IdOfLine == IF selection < 2 THEN Joints - 2 + selection ELSE selection - 2

Closed == [open |-> FALSE]
(* The dialog opens on the first cell with no gain entered.                  *)
Opened ==
  [open |-> TRUE, i |-> 0, j |-> 0, editScript |-> FALSE, editFrame |-> FALSE,
   upperS |-> -1, lowerS |-> -1, upperF |-> -1, lowerF |-> -1,
   changedUpper |-> FALSE, changedLower |-> FALSE]

(* A script that is loaded has frames, and each servo at most once in one.   *)
TunerInit ==
  /\ script \in {<< <<>> >>} \cup { << <<t>>, <<u>> >> : t, u \in ScriptTarget }
  /\ frame = 0 /\ selection = 0 /\ angleOrGain = TRUE
  /\ dialog = Closed /\ zeroEntered = FALSE

Editing == ~dialog.open

MoveSelection ==
  /\ Editing
  /\ selection' \in {IF selection = 0 THEN Joints - 1 ELSE selection - 1,
                     (selection + 1) % Joints}
  /\ UNCHANGED <<script, frame, angleOrGain, dialog, zeroEntered>>

SwapField ==
  /\ Editing
  /\ angleOrGain' = ~angleOrGain
  /\ UNCHANGED <<script, frame, selection, dialog, zeroEntered>>

activateFrame ==
  /\ Editing
  /\ frame' \in {IF frame = 0 THEN frame ELSE frame - 1,
                 IF frame = Len(script) - 1 THEN frame ELSE Wrapped(frame + 1)}
  /\ zeroEntered' = (zeroEntered /\ frame' >= Len(script))
  /\ UNCHANGED <<script, selection, angleOrGain, dialog>>

SetTargets(new) ==
  /\ script' = [script EXCEPT ![frame + 1] = new]
  /\ TargetCount' <= MaxTargets
  /\ UNCHANGED <<frame, selection, angleOrGain, dialog, zeroEntered>>

(* The first target of the frame on the selected line.                       *)
Found == {k \in DOMAIN targets : OnLine(targets[k])}
First == CHOOSE k \in Found : \A l \in Found : k <= l

(* Space locks a motor where it is, or removes its target.                   *)
toggleLockMotor ==
  /\ Editing /\ FrameExists
  /\ IF Found # {} THEN SetTargets(RemoveAt(targets, First))
     ELSE \E presentPosition \in Positions :
            SetTargets(Append(targets, TargetOf(IdOfLine, presentPosition, DefaultGain)))

(* Enter reads a number into the selected field; a servo without a target    *)
(* gets one first, even if the number is then refused as a gain.             *)
editSelection ==
  /\ Editing /\ FrameExists
  /\ LET with == IF Found # {} THEN targets
                 ELSE Append(targets, TargetOf(IdOfLine, 0, DefaultGain))
         at == IF Found # {} THEN First ELSE Len(with)
     IN \/ /\ angleOrGain
           /\ \E angle \in Positions : SetTargets([with EXCEPT ![at].position = angle])
        \/ /\ ~angleOrGain
           /\ \E gain \in Gains : SetTargets([with EXCEPT ![at].gain = gain])
        \/ ~angleOrGain /\ SetTargets(with)

(* A copy of this frame is inserted before it, and is the one now edited.    *)
newFrame ==
  /\ Editing /\ FrameExists
  /\ Len(script) < MaxFrames
  /\ TargetCount + Len(targets) <= MaxTargets
  /\ script' = InsertAt(script, frame + 1, targets)
  /\ UNCHANGED <<frame, selection, angleOrGain, dialog, zeroEntered>>

(* Mutant: the cursor stays where it is.                                     *)
deleteFrameUnder ==
  /\ Editing
  /\ IF Len(script) > 1 THEN FrameExists /\ script' = RemoveAt(script, frame + 1)
     ELSE script' = << <<>> >>
  /\ zeroEntered' = FALSE
  /\ UNCHANGED <<frame, selection, angleOrGain, dialog>>

(* The only frame is deleted whatever the index, which is then set right.    *)
deleteFrame ==
  /\ Editing
  /\ IF Len(script) > 1
     THEN /\ FrameExists
          /\ script' = RemoveAt(script, frame + 1)
          /\ frame' = IF frame < Len(script') THEN frame ELSE frame - 1
     ELSE /\ script' = << <<>> >>
          /\ frame' = 0
  /\ zeroEntered' = FALSE
  /\ UNCHANGED <<selection, angleOrGain, dialog>>

(* The number is made positive and must not exceed the number of frames, but *)
(* it may be 0: one less is then the largest index there is.                 *)
userInputToFrame(number) ==
  LET positive == IF number <= 0 THEN -number ELSE number
      accepted == positive <= Len(script)
  IN /\ frame' = IF accepted THEN Wrapped(positive - 1) ELSE frame
     /\ zeroEntered' = IF accepted THEN positive = 0 ELSE zeroEntered

Numbers == (-MaxFrames - 1)..(MaxFrames + 1)

jumpToFrame ==
  /\ Editing
  /\ \E number \in Numbers : userInputToFrame(number)
  /\ UNCHANGED <<script, selection, angleOrGain, dialog>>

(* The right servos are even, their left counterparts follow them.           *)
Mirrored(id) == IF id >= Joints - 2 THEN id ELSE IF id % 2 = 0 THEN id + 1 ELSE id - 1
MirroredTarget(t) ==
  TargetOf(Mirrored(t.id), IF t.id \in Rolling THEN -t.position ELSE t.position, t.gain)
Mirror(s) == [k \in DOMAIN s |-> [l \in DOMAIN s[k] |-> MirroredTarget(s[k][l])]]

mirrorScript ==
  /\ Editing
  /\ script' = Mirror(script)
  /\ UNCHANGED <<frame, selection, angleOrGain, dialog, zeroEntered>>

-----------------------------------------------------------------------------
(* editGain: a table of cells, for the script in row 0, for the frame in row *)
(* 2, its number in row 1; columns for all, upper and lower servos.          *)
Cell(d) == CASE d.i = 1 -> IF d.j = 0 THEN "number" ELSE "empty"
             [] d.i = 0 -> "script"
             [] d.i = 2 -> "frame"

OpenDialog ==
  /\ Editing
  /\ dialog' = Opened
  /\ UNCHANGED <<script, frame, selection, angleOrGain, zeroEntered>>

MoveTo(i, j) ==
  /\ dialog.open
  /\ dialog' = [dialog EXCEPT !.i = i, !.j = j]
  /\ UNCHANGED <<script, frame, selection, angleOrGain, zeroEntered>>

(* The sides of the table skip the row that has only one cell.               *)
Up ==
  LET skips == Cell(dialog) = "empty" \/ (Cell(dialog) = "frame" /\ dialog.j > 0)
  IN MoveTo(Wrapped(Wrapped(dialog.i - (IF skips THEN 2 ELSE 1)) + 3) % 3, dialog.j)

Down ==
  LET skips == Cell(dialog) = "empty" \/ (Cell(dialog) = "script" /\ dialog.j > 0)
  IN MoveTo((dialog.i + (IF skips THEN 2 ELSE 1)) % 3, dialog.j)

(* Mutant: does not go round.                                                *)
LeftOnly ==
  MoveTo(dialog.i, IF Cell(dialog) \in {"empty", "number"} THEN dialog.j ELSE dialog.j - 1)

Left ==
  MoveTo(dialog.i, CASE Cell(dialog) = "empty"  -> 0
                     [] Cell(dialog) = "number" -> dialog.j
                     [] OTHER                   -> Wrapped(dialog.j - 1) % 3)

Right ==
  MoveTo(dialog.i, CASE Cell(dialog) = "empty"  -> 0
                     [] Cell(dialog) = "number" -> dialog.j
                     [] OTHER                   -> (dialog.j + 1) % 3)

(* Enter on a gain: what is not a gain withdraws all gains entered so far.   *)
Marked == [dialog EXCEPT !.editScript = @ \/ Cell(dialog) = "script",
                         !.editFrame = @ \/ Cell(dialog) = "frame"]

Withdrawn == [Marked EXCEPT !.upperS = -1, !.lowerS = -1, !.upperF = -1, !.lowerF = -1]

(* Mutant: a gain for all servos does not count as a change of the lower.    *)
EnteredUpper(gain) ==
  LET upper == dialog.j \in {0, 1}
      lower == dialog.j \in {0, 2}
      whole == Cell(dialog) = "script"
  IN [Marked EXCEPT
        !.upperS = IF upper /\ whole THEN gain ELSE @,
        !.lowerS = IF lower /\ whole THEN gain ELSE @,
        !.upperF = IF upper /\ ~whole THEN gain ELSE @,
        !.lowerF = IF lower /\ ~whole THEN gain ELSE @,
        !.changedUpper = @ \/ upper,
        !.changedLower = @ \/ dialog.j = 2]

Entered(gain) ==
  LET upper == dialog.j \in {0, 1}
      lower == dialog.j \in {0, 2}
      whole == Cell(dialog) = "script"
  IN [Marked EXCEPT
        !.upperS = IF upper /\ whole THEN gain ELSE @,
        !.lowerS = IF lower /\ whole THEN gain ELSE @,
        !.upperF = IF upper /\ ~whole THEN gain ELSE @,
        !.lowerF = IF lower /\ ~whole THEN gain ELSE @,
        !.changedUpper = @ \/ upper,
        !.changedLower = @ \/ lower]

EnterGain ==
  /\ dialog.open /\ Cell(dialog) # "number"
  /\ dialog' \in {Withdrawn} \cup {Entered(gain) : gain \in Gains}
  /\ UNCHANGED <<script, frame, selection, angleOrGain, zeroEntered>>

EnterNumber ==
  /\ dialog.open /\ Cell(dialog) = "number"
  /\ \E number \in Numbers : userInputToFrame(number)
  /\ UNCHANGED <<script, selection, angleOrGain, dialog>>

(* X applies what was entered: first to the script, then to the frame.       *)
WithGains(f, upper, lower) ==
  [k \in DOMAIN f |->
     [f[k] EXCEPT !.gain =
        IF f[k].id \in Lower
        THEN IF dialog.changedLower /\ lower >= 0 THEN lower ELSE @
        ELSE IF dialog.changedUpper /\ upper >= 0 THEN upper ELSE @]]

CloseDialog ==
  LET all == IF dialog.editScript
             THEN [k \in DOMAIN script |-> WithGains(script[k], dialog.upperS, dialog.lowerS)]
             ELSE script
  IN /\ dialog.open
     /\ dialog.editFrame => FrameExists
     /\ script' = IF dialog.editFrame
                  THEN [all EXCEPT ![frame + 1] = WithGains(@, dialog.upperF, dialog.lowerF)]
                  ELSE all
     /\ dialog' = Closed
     /\ UNCHANGED <<frame, selection, angleOrGain, zeroEntered>>

EditKeys ==
  \/ MoveSelection \/ SwapField \/ activateFrame \/ toggleLockMotor \/ editSelection
  \/ newFrame \/ deleteFrame \/ jumpToFrame \/ mirrorScript
GainKeys ==
  \/ OpenDialog \/ Up \/ Down \/ Left \/ Right \/ EnterGain \/ EnterNumber \/ CloseDialog

TunerNext == EditKeys \/ GainKeys
-----------------------------------------------------------------------------
TunerTypeOK ==
  /\ script \in Seq(Seq(ScriptTarget)) /\ frame \in 0..(Word - 1)
  /\ selection \in 0..(Joints - 1) /\ {angleOrGain, zeroEntered} \subseteq BOOLEAN
  /\ dialog.open =>
       /\ {dialog.upperS, dialog.lowerS, dialog.upperF, dialog.lowerF} \subseteq Gains \cup {-1}
       /\ dialog.i \in 0..2 /\ dialog.j \in 0..2

(* Whatever keys are pressed, the frame that is edited exists, with one      *)
(* exception: the number 0 is accepted as a frame's and makes the index      *)
(* wrap, so that the editor works outside of the script until an arrow or    *)
(* another number brings it back. The table of gains never leaves the cursor *)
(* on a cell it does not have. Indices are unsigned and used unchecked       *)
(* (ScriptTuner.cpp:202, 395, 777, 830, 1068).                               *)
CursorsExist ==
  /\ FrameExists \/ zeroEntered
  /\ dialog.open => Cell(dialog) # "empty"

(* No servo is given two targets in a frame, over any sequence of locks,     *)
(* edits, copies and mirrorings: the two ways to number the lines agree, and *)
(* the mirror is one to one (ScriptTuner.cpp:75, 357, 489, 632).             *)
TargetsUnique ==
  \A k \in DOMAIN script : \A l, m \in DOMAIN script[k] :
    script[k][l].id = script[k][m].id => l = m

(* When the dialog is left, each target has the gain last entered for its    *)
(* half of the body, the frame's before the script's, and no other changes:  *)
(* no gain is lost by the order in which cells are filled in, by one that is *)
(* withdrawn, or by a jump to another frame meanwhile, as long as that frame *)
(* is there (ScriptTuner.cpp:855, 885, 940, 971, 1011).                      *)
EnteredGainsApply ==
  [][ dialog.open /\ ~dialog'.open =>
        \A k \in DOMAIN script : \A l \in DOMAIN script[k] :
          LET old == script[k][l]
              ofFrame == IF old.id \in Lower THEN dialog.lowerF ELSE dialog.upperF
              ofScript == IF old.id \in Lower THEN dialog.lowerS ELSE dialog.upperS
              gain == IF k = frame + 1 /\ ofFrame # -1 THEN ofFrame
                      ELSE IF ofScript # -1 THEN ofScript ELSE old.gain
          IN script'[k][l] = [old EXCEPT !.gain = gain] ]_tunerVars
=============================================================================

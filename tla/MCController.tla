--------------------------- MODULE MCController ---------------------------
EXTENDS ControllerLease, TLC

(* Three limbs: a leg (0), an arm (2) and the head (4).  Walk asks for the   *)
(* arm and, besides, for the leg: its main element is considered after its   *)
(* member when their priorities are equal.  Script asks for the whole body   *)
(* at once, as the scripted skills do.  Point has two alternatives that      *)
(* share the arm.                                                            *)
CONSTANTS Walk, Script, Point

SelectRequest == {Walk, Script, Point}
SelectLimb == {0, 2, 4}
SelectLimbSet ==
  <<Walk, 0>> :> {2} @@ <<Walk, 1>> :> {0} @@ <<Script, 0>> :> {0, 2, 4}
    @@ <<Point, 0>> :> {2, 4} @@ <<Point, 1>> :> {0, 2}
SelectItem == DOMAIN SelectLimbSet
NoServos == <<>>

(* Two limbs with a servo each, a request that holds them one by one and one *)
(* that needs both.  The vectors are those of the code: a frame of one       *)
(* servo, a frame of all the servos, a script of two frames.                 *)
CONSTANTS Ankle, Elbow

QueueRequest == {Walk, Script}
QueueLimb == {0, 2}
QueueLimbSet ==
  <<Walk, 0>> :> {2} @@ <<Walk, 1>> :> {0} @@ <<Script, 0>> :> {0, 2}
QueueItem == DOMAIN QueueLimbSet
QueueServo == {Ankle, Elbow}
QueueLimbForServo == Ankle :> 0 @@ Elbow :> 2

Waypoint(s, r, t) == [id |-> s, source |-> r, time |-> t]
CommandTime == {0, 1}
QueueBatches ==
  {<<Waypoint(Ankle, Walk, t)>> : t \in CommandTime}
    \cup {<<Waypoint(Elbow, Walk, t)>> : t \in CommandTime}
    \cup {<<Waypoint(Ankle, Script, t), Waypoint(Elbow, Script, t)>> : t \in CommandTime}
    \cup {<<Waypoint(Ankle, Script, 0), Waypoint(Ankle, Script, 1)>>}
=============================================================================

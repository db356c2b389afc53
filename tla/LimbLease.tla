----------------------------- MODULE LimbLease -----------------------------
(***************************************************************************)
(* What the behaviour controller promises to the parts of the robot that   *)
(* move it, with nothing of priorities, items, lists or callbacks.  Every  *)
(* limb has one owner or none; only its owner queues waypoints for its     *)
(* servos, in the order of their times; and a limb that changes hands      *)
(* starts with a clean slate.                                              *)
(***************************************************************************)
EXTENDS Integers, Sequences

CONSTANTS Request, Nobody, Limb, Servo, LimbForServo, Time

VARIABLES
  owner,      (* the request that has each limb, or Nobody                   *)
  waypoints   (* what each servo is still to do, and who asked for it        *)

Owner(s) == owner[LimbForServo[s]]

Init ==
  /\ owner = [l \in Limb |-> Nobody]
  /\ waypoints = [s \in Servo |-> <<>>]

(* Limbs change hands.  A servo may lose its waypoints, and does if its limb *)
(* gets another owner.                                                       *)
Reassign(newOwner, cleared) ==
  /\ owner' = newOwner
  /\ waypoints' = [s \in Servo |-> IF s \in cleared THEN <<>> ELSE waypoints[s]]
  /\ \A s \in Servo \ cleared : owner'[LimbForServo[s]] = Owner(s)

(* The owner of a servo's limb queues a waypoint; it replaces what is later. *)
Issue(s, t) ==
  /\ Owner(s) # Nobody
  /\ \E n \in 0..Len(waypoints[s]) :
       /\ n # 0 => waypoints[s][n].time <= t
       /\ waypoints' = [waypoints EXCEPT ![s] =
            Append(SubSeq(@, 1, n), [time |-> t, issuer |-> Owner(s)])]
  /\ UNCHANGED owner

(* Each of some servos is done with its first waypoint.                      *)
Advance(done) ==
  /\ \A s \in done : waypoints[s] # <<>>
  /\ waypoints' = [s \in Servo |-> IF s \in done THEN Tail(waypoints[s])
                                                  ELSE waypoints[s]]
  /\ UNCHANGED owner

Next ==
  \/ \E newOwner \in [Limb -> Request \cup {Nobody}], cleared \in SUBSET Servo :
       Reassign(newOwner, cleared)
  \/ \E s \in Servo, t \in Time : Issue(s, t)
  \/ \E done \in SUBSET Servo : Advance(done)

Spec == Init /\ [][Next]_<<owner, waypoints>>

(* What a servo is still to do was asked for by the present owner of its     *)
(* limb, and by nobody else.                                                 *)
OwnersOnly ==
  \A s \in Servo : \A i \in 1..Len(waypoints[s]) : waypoints[s][i].issuer = Owner(s)
=============================================================================

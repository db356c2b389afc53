-------------------------- MODULE ControllerLease --------------------------
(***************************************************************************)
(* The behaviour controller as an implementation of LimbLease: limbAccess  *)
(* is the owner of each limb, and the queues, without the mark that a      *)
(* waypoint has been sent, are what the servos are still to do.            *)
(***************************************************************************)
EXTENDS Controller

View(q) == [i \in 1..Len(q) |-> [time |-> q[i].time, issuer |-> q[i].issuer]]

Lease == INSTANCE LimbLease
           WITH owner <- limbAccess,
                waypoints <- [s \in Servo |-> View(commandQueues[s])]

(* Every step of the controller is a step of LimbLease, or none: limbs       *)
(* change hands in one step, with the queues of those that do cleared, and   *)
(* outside it only the owner of a limb adds waypoints.                       *)
ImplementsLease == Lease!Spec
=============================================================================

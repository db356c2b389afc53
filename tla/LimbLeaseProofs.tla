-------------------------- MODULE LimbLeaseProofs --------------------------
(***************************************************************************)
(* What LimbLease gives the parts of the robot: exclusive use of a limb.   *)
(***************************************************************************)
EXTENDS LimbLease, SequenceTheorems, TLAPS

Waypoint == [time : Time, issuer : Request]

LeaseInv ==
  /\ owner \in [Limb -> Request \cup {Nobody}]
  /\ waypoints \in [Servo -> Seq(Waypoint)]
  /\ OwnersOnly

LEMMA ReassignKeeps ==
  ASSUME LeaseInv, LimbForServo \in [Servo -> Limb],
         NEW newOwner \in [Limb -> Request \cup {Nobody}],
         NEW cleared \in SUBSET Servo, Reassign(newOwner, cleared)
  PROVE  LeaseInv'
<1>1. \A s \in Servo : waypoints'[s] = IF s \in cleared THEN <<>> ELSE waypoints[s]
  BY DEF Reassign
<1>2. waypoints' \in [Servo -> Seq(Waypoint)] /\ owner' = newOwner
  BY EmptySeq DEF Reassign, LeaseInv
<1>3. ASSUME NEW s \in Servo, NEW i \in 1..Len(waypoints'[s])
      PROVE  waypoints'[s][i].issuer = Owner(s)'
  <2>1. s \notin cleared
    BY <1>1, <1>3, EmptySeq
  <2>2. waypoints'[s] = waypoints[s] /\ Owner(s)' = Owner(s)
    BY <1>1, <2>1 DEF Reassign, Owner
  <2>. QED
    BY <1>3, <2>2 DEF LeaseInv, OwnersOnly
<1>. QED
  BY <1>2, <1>3 DEF LeaseInv, OwnersOnly

LEMMA IssueKeeps ==
  ASSUME LeaseInv, LimbForServo \in [Servo -> Limb],
         NEW s \in Servo, NEW t \in Time, Issue(s, t)
  PROVE  LeaseInv'
<1>1. /\ waypoints[s] \in Seq(Waypoint) /\ Owner(s) \in Request
      /\ owner' = owner /\ waypoints \in [Servo -> Seq(Waypoint)]
  BY DEF LeaseInv, Issue, Owner
<1>2. PICK n \in 0..Len(waypoints[s]) :
        waypoints' = [waypoints EXCEPT ![s] =
          Append(SubSeq(@, 1, n), [time |-> t, issuer |-> Owner(s)])]
  BY DEF Issue
<1> DEFINE e == [time |-> t, issuer |-> Owner(s)]
           p == SubSeq(waypoints[s], 1, n)
<1>3. /\ p \in Seq(Waypoint) /\ Len(p) = n /\ n \in Nat /\ n <= Len(waypoints[s])
      /\ \A i \in 1..n : p[i] = waypoints[s][i]
  <2>1. Len(waypoints[s]) \in Nat /\ n \in Nat /\ n <= Len(waypoints[s]) /\ 1 \in Int
    BY <1>1
  <2>2. \A i \in 1..n : waypoints[s][i] \in Waypoint
    BY <1>1, <2>1, ElementOfSeq
  <2>. QED
    BY <2>1, <2>2, SubSeqProperties
<1>4. e \in Waypoint /\ e.issuer = Owner(s)
  BY <1>1 DEF Waypoint
<1>5. waypoints' = [waypoints EXCEPT ![s] = Append(p, e)]
  BY <1>2
<1> HIDE DEF e, p
<1>6. /\ Append(p, e) \in Seq(Waypoint) /\ Len(Append(p, e)) = n + 1
      /\ Append(p, e)[n + 1] = e
      /\ \A i \in 1..n : Append(p, e)[i] = waypoints[s][i]
  BY <1>3, <1>4
<1>7. /\ waypoints' \in [Servo -> Seq(Waypoint)]
      /\ waypoints'[s] = Append(p, e)
      /\ \A u \in Servo \ {s} : waypoints'[u] = waypoints[u]
  BY <1>1, <1>5, <1>6
<1>8. ASSUME NEW u \in Servo, NEW i \in 1..Len(waypoints'[u])
      PROVE  waypoints'[u][i].issuer = Owner(u)'
  <2>1. Owner(u)' = Owner(u)
    BY <1>1 DEF Owner
  <2>2. CASE u # s
    BY <1>7, <2>1, <2>2 DEF LeaseInv, OwnersOnly
  <2>3. CASE u = s /\ i = n + 1
    BY <1>4, <1>6, <1>7, <2>1, <2>3
  <2>4. CASE u = s /\ i # n + 1
    <3>1. i \in 1..n /\ i \in 1..Len(waypoints[s])
      BY <1>1, <1>3, <1>6, <1>7, <1>8, <2>4
    <3>. QED
      BY <1>6, <1>7, <2>1, <2>4, <3>1 DEF LeaseInv, OwnersOnly
  <2>. QED
    BY <2>2, <2>3, <2>4
<1>. QED
  BY <1>1, <1>7, <1>8 DEF LeaseInv, OwnersOnly

LEMMA AdvanceKeeps ==
  ASSUME LeaseInv, NEW done \in SUBSET Servo, Advance(done)
  PROVE  LeaseInv'
<1>1. /\ waypoints \in [Servo -> Seq(Waypoint)] /\ owner' = owner
      /\ \A s \in done : waypoints[s] # <<>>
      /\ waypoints' = [s \in Servo |-> IF s \in done THEN Tail(waypoints[s])
                                                      ELSE waypoints[s]]
  BY DEF LeaseInv, Advance
<1>2. ASSUME NEW s \in done
      PROVE  /\ Tail(waypoints[s]) \in Seq(Waypoint)
             /\ \A i \in 1..Len(Tail(waypoints[s])) :
                  i + 1 \in 1..Len(waypoints[s]) /\ Tail(waypoints[s])[i] = waypoints[s][i + 1]
  <2>1. waypoints[s] \in Seq(Waypoint) /\ waypoints[s] # <<>>
    BY <1>1
  <2>. QED
    BY <2>1, HeadTailProperties
<1>3. waypoints' \in [Servo -> Seq(Waypoint)]
  BY <1>1, <1>2
<1>4. ASSUME NEW s \in Servo, NEW i \in 1..Len(waypoints'[s])
      PROVE  waypoints'[s][i].issuer = Owner(s)'
  <2>1. Owner(s)' = Owner(s)
    BY <1>1 DEF Owner
  <2>2. CASE s \in done
    <3>1. waypoints'[s] = Tail(waypoints[s])
      BY <1>1, <2>2
    <3>2. i + 1 \in 1..Len(waypoints[s]) /\ waypoints'[s][i] = waypoints[s][i + 1]
      BY <1>2, <1>4, <2>2, <3>1
    <3>. QED
      BY <2>1, <3>2 DEF LeaseInv, OwnersOnly
  <2>3. CASE s \notin done
    BY <1>1, <1>4, <2>1, <2>3 DEF LeaseInv, OwnersOnly
  <2>. QED
    BY <2>2, <2>3
<1>. QED
  BY <1>1, <1>3, <1>4 DEF LeaseInv, OwnersOnly

(* Exclusive use: everything a servo is still to do was asked for by the     *)
(* request that owns its limb now, whatever changes hands in between.        *)
THEOREM ExclusiveUse ==
  ASSUME LimbForServo \in [Servo -> Limb]
  PROVE  Spec => []OwnersOnly
<1>1. Init => LeaseInv
  BY EmptySeq DEF Init, LeaseInv, OwnersOnly
<1>2. LeaseInv /\ [Next]_<<owner, waypoints>> => LeaseInv'
  <2> SUFFICES ASSUME LeaseInv, [Next]_<<owner, waypoints>> PROVE LeaseInv'
    OBVIOUS
  <2>1. CASE UNCHANGED <<owner, waypoints>>
    BY <2>1 DEF LeaseInv, OwnersOnly, Owner
  <2>2. CASE Next
    BY <2>2, ReassignKeeps, IssueKeeps, AdvanceKeeps DEF Next
  <2>. QED
    BY <2>1, <2>2
<1>3. LeaseInv => OwnersOnly
  BY DEF LeaseInv
<1>. QED
  BY <1>1, <1>2, <1>3, PTL DEF Spec
=============================================================================

------------------------------ MODULE MCWalking ------------------------------
EXTENDS Walking

MCLetter ==
  FixedWalkLetter \cup
  { "WalkStartCommand", "WalkStopCommand", "WalkOptimiserCommand", "WalkConfigSaved",
    "WalkStopped", "KickFinished" }

Session(l, c) == [leads |-> l, calm |-> c]
MCSessions ==
  { Session("trial", TRUE), Session("play", FALSE) }
=============================================================================

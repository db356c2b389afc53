-------------------------- MODULE MCGameController --------------------------
EXTENDS GameController, FiniteSets

(* A game of two players a side, of which one is active; we are player 1.    *)
MCTeam(colour, score, coach, penalties) ==
  [colour |-> colour, score |-> score, coach |-> coach, penalty |-> penalties]

Free == <<"UNPENALISED", "SUBSTITUTE">>

MCPacket(state_, mode_, own, opponent) ==
  [ours |-> TRUE, state |-> state_, mode |-> mode_, firstHalf |-> TRUE,
   kickOffTeam |-> "CYAN", dropInTeam |-> "CYAN", dropInTime |-> -1,
   team |-> [s \in Side |-> IF s = "own" THEN own ELSE opponent]]

Ours(score, penalties) == MCTeam("CYAN", score, "none", penalties)
Theirs(score, penalties) == MCTeam("MAGENTA", score, "none", penalties)

Ready == MCPacket("READY", "NORMAL", Ours(0, Free), Theirs(0, Free))
Attack == <<"ILLEGAL_ATTACK", "SUBSTITUTE">>
Both == <<"ILLEGAL_ATTACK", "ILLEGAL_ATTACK">>

Timeout == [Ready EXCEPT !.mode = "TIMEOUT"]
Playing == [Ready EXCEPT !.state = "PLAYING"]
WePenalised == [Playing EXCEPT !.team["own"].penalty = Attack]
WithGoal == [Playing EXCEPT !.team["own"].penalty = Both,
                            !.team["opponent"].penalty = Attack,
                            !.team["opponent"].score = 1]
BadMode == [Playing EXCEPT !.team["own"].score = 1, !.mode = Invalid]

GamePackets ==
  { Ready, Timeout,
    [Playing EXCEPT !.mode = "OVERTIME"],
    \* we are penalised; then a mate and an opponent, with a goal
    WePenalised, WithGoal,
    \* the exceptions: a mode, a penalty, the packet of another match
    BadMode,
    [Playing EXCEPT !.team["own"].score = 1,
                    !.team["opponent"].penalty = <<Invalid, "SUBSTITUTE">>],
    [Playing EXCEPT !.ours = FALSE],
    \* the second half: colours, half, ball out, coach; and a state without a name
    [Ready EXCEPT !.firstHalf = FALSE, !.dropInTime = 1, !.dropInTeam = "MAGENTA",
                  !.kickOffTeam = "MAGENTA", !.team["own"].colour = "MAGENTA",
                  !.team["opponent"].colour = "CYAN", !.team["own"].coach = "hold",
                  !.state = Invalid] }

(* Enough for the button: we are penalised and free, with and without another*)
(* change; a packet that is dropped.                                         *)
SelfPackets == {Ready, WePenalised, WithGoal, BadMode}

(* Either any packet may come, or the button is pressed between those.       *)
VARIABLE buttonUsed

MCInit == Init /\ buttonUsed \in BOOLEAN

MCNext ==
  /\ Next
  /\ UNCHANGED buttonUsed
  /\ IF buttonUsed THEN newPacket' \in SelfPackets \cup {FreshPacket}
                   ELSE pressed' = "nothing"

MCSpec == MCInit /\ [][MCNext]_<<vars, buttonUsed>>
=============================================================================

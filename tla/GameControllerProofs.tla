------------------------ MODULE GameControllerProofs ------------------------
(***************************************************************************)
(* What listeners heard, the mode and the GameState agree with the packets *)
(* kept, for any packets, failed replies, presses of the button and        *)
(* repetitions.                                                            *)
(***************************************************************************)
EXTENDS GameController, TLAPS

(* The scores and penalties that the packets of S give.                      *)
ScoreIn(S, s) == {p.team[s].score : p \in S}
PenaltyIn(S, s, i) == {p.team[s].penalty[i] : p \in S}

Others == {o \in Side \X Player : o # <<"own", PLAYER_ID>>}

PlaceInv ==
  /\ step # "recv" => newPacket \in Packets
  /\ suspect \subseteq Packets
  /\ step = "keep" => stateChanges = {}
  /\ reloading => reloads # 0

(* A score comes from the last packet kept or from one that was dropped after*)
(* it was told; past its event, it comes from the packet in hand.            *)
ScoreInv ==
  \A s \in Side :
    IF step \in {"recv", "teams"} THEN heard.score[s] \in ScoreIn(suspect \cup {packet}, s)
                                  ELSE heard.score[s] \in ScoreIn(suspect \cup {newPacket}, s)

(* Likewise a penalty, which is still to be told or has been.                *)
PenaltyInv ==
  \A o \in Others :
    LET told == heard.penalty[o[1]][o[2]]
    IN /\ step \in {"recv", "teams", "modes", "publish"} =>
            told \in PenaltyIn(suspect \cup {packet}, o[1], o[2])
       /\ step # "recv" =>
            told \in PenaltyIn(suspect \cup {packet, newPacket}, o[1], o[2])
       /\ step \notin {"recv", "teams"} =>
            \/ <<"penalty", o[1], o[2]>> \in stateChanges
            \/ told \in PenaltyIn(suspect \cup {newPacket}, o[1], o[2])

(* The phase heard is that of the GameState, unless the button spoke last or *)
(* a dropped packet has a phase that will be told again when it comes again. *)
PhaseSaid ==
  \/ heard.byButton
  \/ heard.phase = gameState.phase
  \/ \E p \in suspect : PhaseChanged(packet, p)

PhaseInv ==
  /\ step \in {"recv", "teams", "modes", "publish", "keep"} => PhaseSaid
  /\ step = "modes" => state.phase = gameState.phase
  /\ step = "publish" /\ ~PhaseChanged(packet, newPacket) => state.phase = gameState.phase
  /\ step \in {"tell", "reply"} =>
       /\ gameState = state
       /\ PhaseChanged(packet, newPacket) \/ PhaseSaid
  /\ step \in {"publish", "tell", "reply"} /\ PhaseChanged(packet, newPacket) =>
       <<"phase">> \in stateChanges \/ heard.byButton \/ heard.phase = state.phase
  /\ step = "keep" => ~PhaseChanged(packet, newPacket)

EventInv == reloads = 0 => ScoreInv /\ PenaltyInv /\ PhaseInv

IInv == TypeOK /\ PlaceInv /\ EventInv

SelfInv ==
  /\ SelfAgrees
  /\ step # "reply" /\ pressed # "nothing" /\ ~selfCut =>
       selfPenalised = (pressed = "penalised")
  /\ step = "reply" /\ ~selfCut =>
       /\ pressed = "nothing"
       /\ heard.self = IF SelfFree(newPacket) THEN "unpenalised" ELSE "penalised"
-----------------------------------------------------------------------------
LEMMA FreshTypes ==
  FreshTeam \in Team /\ FreshPacket \in Packet /\ InitialState \in GameState
<1>1. FreshTeam \in Team
  <2> DEFINE penalty == [i \in Player |->
                           IF i - 1 <= Active THEN "UNPENALISED" ELSE "SUBSTITUTE"]
  <2>1. penalty \in [Player -> Penalty]
    BY DEF Penalty
  <2>2. FreshTeam = [colour |-> Unset, score |-> 0, coach |-> "none", penalty |-> penalty]
    BY DEF FreshTeam
  <2> HIDE DEF penalty
  <2>3. QED BY <2>1, <2>2, SquadAssumption DEF Team
<1>2. FreshPacket.team \in [Side -> Team]
  BY <1>1 DEF FreshPacket
<1>3. FreshPacket \in Packet
  BY <1>2 DEF FreshPacket, Packet
<1>4. /\ [s \in Side |-> 0] \in [Side -> Nat]
      /\ [s \in Side |-> "none"] \in [Side -> Coach]
      /\ [s \in Side |-> <<>>] \in [Side -> [Player -> Penalty] \cup {<<>>}]
  BY SquadAssumption
<1>5. InitialState \in GameState
  BY <1>4 DEF InitialState, GameState, Phase, State, Mode
<1>6. QED BY <1>1, <1>3, <1>5

LEMMA SentTypes == \A p \in Packets : p \in Packet
BY PacketAssumption

LEMMA WithTeamsTypes ==
  ASSUME NEW gs \in GameState, NEW old \in Packet, NEW new \in Packet
  PROVE  WithTeams(gs, old, new) \in GameState /\ WithTeams(gs, old, new).phase = gs.phase
<1> DEFINE colour == new.team["own"].colour
           Kept(c, now, was) == IF Changed(c, old, new) THEN now ELSE was
<1>1. \A s \in Side : /\ new.team[s].score \in Nat /\ new.team[s].coach \in Coach
                     /\ new.team[s].penalty \in [Player -> Penalty]
  BY DEF Packet, Team
<1>2. [s \in Side |-> Kept(<<"goal", s>>, new.team[s].score, gs.score[s])] \in [Side -> Nat]
  BY <1>1 DEF GameState
<1>3. [s \in Side |-> new.team[s].penalty] \in [Side -> [Player -> Penalty] \cup {<<>>}]
  BY <1>1
<1>4. [s \in Side |-> Kept(<<"coach", s>>, new.team[s].coach, gs.coach[s])]
        \in [Side -> Coach]
  BY <1>1 DEF GameState
<1>5. Kept(<<"half">>, new.firstHalf, gs.firstHalf) \in BOOLEAN
  BY DEF GameState, Packet
<1>6. Kept(<<"out">>, new.dropInTeam = colour, gs.kickedOutByUs) \in BOOLEAN
  BY DEF GameState
<1>7. Kept(<<"kickoff">>, new.kickOffTeam = colour, gs.ourKickOff) \in BOOLEAN
  BY DEF GameState
<1>8. WithTeams(gs, old, new) =
        [gs EXCEPT
          !.score = [s \in Side |-> Kept(<<"goal", s>>, new.team[s].score, gs.score[s])],
          !.players = [s \in Side |-> new.team[s].penalty],
          !.coach = [s \in Side |-> Kept(<<"coach", s>>, new.team[s].coach, gs.coach[s])],
          !.firstHalf = Kept(<<"half">>, new.firstHalf, gs.firstHalf),
          !.kickedOutByUs = Kept(<<"out">>, new.dropInTeam = colour, gs.kickedOutByUs),
          !.ourKickOff = Kept(<<"kickoff">>, new.kickOffTeam = colour, gs.ourKickOff)]
  BY DEF WithTeams, GameState
<1> HIDE DEF colour, Kept
<1>9. QED
  BY <1>2, <1>3, <1>4, <1>5, <1>6, <1>7, <1>8 DEF GameState

LEMMA PhaseAfterType ==
  ASSUME NEW phase \in Phase, NEW old, NEW new
  PROVE  /\ PhaseAfter(phase, old, new) \in Phase
         /\ ~PhaseChanged(old, new) => PhaseAfter(phase, old, new) = phase
BY DEF PhaseAfter, PhaseChanged, Phase

LEMMA ChangeShapes ==
  ASSUME NEW c \in Change
  PROVE  /\ c[1] = "penalty" => c[2] \in Side /\ c[3] \in Player
         /\ c[1] = "penalty" => c = <<"penalty", c[2], c[3]>>
         /\ c[1] = "phase" <=> c = <<"phase">>
<1>1. CASE c \in {"goal", "coach"} \X Side
  BY <1>1
<1>2. CASE c \in {"penalty"} \X Side \X Player
  BY <1>2
<1>3. CASE c \in {<<"half">>, <<"out">>, <<"kickoff">>, <<"colour">>}
  BY <1>3
<1>4. CASE c \in {<<"mode">>, <<"phase">>}
  BY <1>4
<1>5. QED BY <1>1, <1>2, <1>3, <1>4 DEF Change, TeamChanges

LEMMA ToldType ==
  ASSUME heard \in Heard, newPacket \in Packet, state \in GameState, NEW c \in Change
  PROVE  Told(c) \in Heard
<1> DEFINE penalty == IF c[1] = "penalty"
                      THEN [heard.penalty EXCEPT
                              ![c[2]][c[3]] = newPacket.team[c[2]].penalty[c[3]]]
                      ELSE heard.penalty
           phase == IF c[1] = "phase" THEN state.phase ELSE heard.phase
           byButton == heard.byButton /\ c[1] # "phase"
<1>1. penalty \in [Side -> [Player -> Penalty]]
  <2>1. CASE c[1] = "penalty"
    <3>1. c[2] \in Side /\ c[3] \in Player
      BY <2>1, ChangeShapes
    <3>2. newPacket.team[c[2]].penalty[c[3]] \in Penalty
      BY <3>1 DEF Packet, Team
    <3>3. heard.penalty \in [Side -> [Player -> Penalty]]
      BY DEF Heard
    <3>4. QED BY <2>1, <3>1, <3>2, <3>3
  <2>2. CASE c[1] # "penalty"
    BY <2>2 DEF Heard
  <2>3. QED BY <2>1, <2>2
<1>2. phase \in Phase /\ byButton \in BOOLEAN
  BY DEF Heard, GameState
<1>3. Told(c) = [heard EXCEPT !.penalty = penalty, !.phase = phase, !.byButton = byButton]
  BY DEF Told, Heard
<1> HIDE DEF penalty, phase, byButton
<1>4. QED BY <1>1, <1>2, <1>3 DEF Heard

LEMMA TypeInit == Init => TypeOK
<1>1. FreshTeam.penalty \in [Player -> Penalty]
  BY FreshTypes DEF Team
<1>2. Init => heard \in Heard
  BY <1>1 DEF Init, Heard, Phase, State
<1>3. 0 \in 0..MaxReloads
  BY SquadAssumption
<1>4. QED
  BY <1>2, <1>3, FreshTypes DEF Init, TypeOK

LEMMA DroppedTypes ==
  ASSUME TypeOK, NEW told, Dropped(told), newPacket \in Packets
  PROVE  /\ packet' \in Packet /\ newPacket' \in Packet /\ state' \in GameState
         /\ step' = "recv" /\ stateChanges' = {} /\ suspect' \subseteq Packets
         /\ reloading' \in BOOLEAN /\ reloads' \in 0..MaxReloads
         /\ cut' \in BOOLEAN /\ afterTimeout' \in BOOLEAN /\ pressed' = pressed
BY FreshTypes DEF TypeOK, Dropped, EndProcess, poolVars

LEMMA TypeStep == TypeOK /\ PlaceInv /\ [Next]_vars => TypeOK'
<1> SUFFICES ASSUME TypeOK, PlaceInv, [Next]_vars PROVE TypeOK'
  OBVIOUS
<1> USE DEF poolVars, threadVars, history
<1>1. ASSUME NEW p \in Packets, Receive(p) PROVE TypeOK'
  BY <1>1, SentTypes DEF Receive, TypeOK
<1>2. CASE CompareTeams
  <2>1. newPacket \in Packets
    BY <1>2 DEF CompareTeams, PlaceInv
  <2>2. heard' \in Heard
    <3>1. [s \in Side |-> newPacket.team[s].score] \in [Side -> Nat]
      BY DEF TypeOK, Packet, Team
    <3>2. QED BY <3>1, <1>2 DEF CompareTeams, TypeOK, Heard
  <2>3. CASE newPacket.ours /\ ~HasInvalidPenalty(newPacket)
    <3>1. state' \in GameState
      BY <1>2, <2>3, WithTeamsTypes DEF CompareTeams, TypeOK
    <3>2. stateChanges' \subseteq Change
      BY <1>2, <2>3 DEF CompareTeams, Change
    <3>3. QED BY <1>2, <2>2, <2>3, <3>1, <3>2 DEF CompareTeams, TypeOK
  <2>4. CASE ~(newPacket.ours /\ ~HasInvalidPenalty(newPacket))
    <3>1. Dropped(newPacket.ours /\ ScoreChanged(packet, newPacket))
      BY <1>2, <2>4 DEF CompareTeams
    <3>2. QED BY <1>2, <2>1, <2>2, <3>1, DroppedTypes DEF CompareTeams, TypeOK
  <2>5. QED BY <2>3, <2>4
<1>3. CASE CompareModes
  <2>1. newPacket \in Packets
    BY <1>3 DEF CompareModes, PlaceInv
  <2>2. mode' \in Mode \cup {Unset, Invalid}
    BY <1>3 DEF CompareModes, ModeChanged, TypeOK, Packet
  <2>3. CASE ModeChanged(packet, newPacket) /\ newPacket.mode \notin Mode
    <3>1. Dropped(ScoreChanged(packet, newPacket))
      BY <1>3, <2>3 DEF CompareModes
    <3>2. QED BY <1>3, <2>1, <2>2, <3>1, DroppedTypes DEF CompareModes, TypeOK
  <2>4. CASE ~(ModeChanged(packet, newPacket) /\ newPacket.mode \notin Mode)
    <3>1. state' = [state EXCEPT
             !.mode = IF ModeChanged(packet, newPacket) THEN newPacket.mode ELSE @,
             !.phase = PhaseAfter(@, packet, newPacket)]
      BY <1>3, <2>4 DEF CompareModes
    <3>2. PhaseAfter(state.phase, packet, newPacket) \in Phase
      BY PhaseAfterType DEF TypeOK, GameState
    <3>3. state' \in GameState
      BY <2>4, <3>1, <3>2 DEF TypeOK, GameState
    <3>4. stateChanges' \subseteq Change /\ step' \in {"keep", "publish"}
      BY <1>3, <2>4 DEF CompareModes, Change, TypeOK
    <3>5. QED BY <1>3, <2>2, <2>4, <3>3, <3>4 DEF CompareModes, TypeOK
  <2>5. QED BY <2>3, <2>4
<1>4. CASE Publish
  BY <1>4 DEF Publish, TypeOK
<1>5. ASSUME NEW c \in stateChanges, Tell(c) PROVE TypeOK'
  <2>1. heard' \in Heard
    BY <1>5, ToldType DEF Tell, TypeOK
  <2>2. QED BY <1>5, <2>1 DEF Tell, TypeOK
<1>6. ASSUME NEW c \in stateChanges, TellSelf(c) PROVE TypeOK'
  <2>1. heard' \in Heard
    BY <1>6 DEF TellSelf, TypeOK, Heard
  <2>2. QED BY <1>6, <2>1 DEF TellSelf, TypeOK
<1>7. CASE ReplySent
  BY <1>7 DEF ReplySent, SelfFree, TypeOK
<1>8. CASE ReplyFails
  <2>1. newPacket \in Packets /\ Dropped(TRUE)
    BY <1>8 DEF ReplyFails, PlaceInv
  <2>2. QED BY <1>8, <2>1, DroppedTypes DEF ReplyFails, TypeOK
<1>9. CASE Keep
  BY <1>9, FreshTypes DEF Keep, EndProcess, TypeOK
<1>10. CASE ButtonMiddleDown \/ ButtonReport
  <2>1. CASE ButtonMiddleDown
    BY <2>1 DEF ButtonMiddleDown, TypeOK
  <2>2. CASE ButtonReport
    <3>1. heard' \in Heard
      BY <2>2 DEF ButtonReport, TypeOK, Heard, Phase, State
    <3>2. QED BY <2>2, <3>1 DEF ButtonReport, TypeOK
  <2>3. QED BY <1>10, <2>1, <2>2
<1>11. CASE ResetPacket
  <2>1. reloads + 1 \in 0..MaxReloads
    BY <1>11, SquadAssumption DEF ResetPacket, TypeOK
  <2>2. QED BY <1>11, <2>1, FreshTypes DEF ResetPacket, TypeOK
<1>12. CASE EmitInitialState
  BY <1>12, FreshTypes DEF EmitInitialState, TypeOK
<1>13. CASE UNCHANGED vars
  BY <1>13 DEF vars, TypeOK
<1>14. QED
  BY <1>1, <1>2, <1>3, <1>4, <1>5, <1>6, <1>7, <1>8, <1>9, <1>10, <1>11, <1>12, <1>13
     DEF Next, Thread
-----------------------------------------------------------------------------
LEMMA PlaceStep == TypeOK /\ PlaceInv /\ [Next]_vars => PlaceInv'
<1> SUFFICES ASSUME TypeOK, PlaceInv, [Next]_vars PROVE PlaceInv'
  OBVIOUS
<1> USE DEF PlaceInv, poolVars, threadVars, history
<1>1. ASSUME NEW p \in Packets, Receive(p) PROVE PlaceInv'
  BY <1>1 DEF Receive
<1>2. CASE CompareTeams
  BY <1>2 DEF CompareTeams, Dropped, EndProcess
<1>3. CASE CompareModes
  BY <1>3 DEF CompareModes, Dropped, EndProcess
<1>4. CASE Publish
  BY <1>4 DEF Publish
<1>5. ASSUME NEW c \in stateChanges, Tell(c) \/ TellSelf(c) PROVE PlaceInv'
  BY <1>5 DEF Tell, TellSelf
<1>6. CASE ReplySent
  BY <1>6 DEF ReplySent
<1>7. CASE ReplyFails
  BY <1>7 DEF ReplyFails, Dropped, EndProcess
<1>8. CASE Keep
  BY <1>8 DEF Keep, EndProcess
<1>9. CASE ButtonMiddleDown \/ ButtonReport
  BY <1>9 DEF ButtonMiddleDown, ButtonReport
<1>10. CASE ResetPacket
  <2>1. reloads + 1 # 0
    BY DEF TypeOK
  <2>2. QED BY <1>10, <2>1 DEF ResetPacket
<1>11. CASE EmitInitialState
  BY <1>11 DEF EmitInitialState
<1>12. CASE UNCHANGED vars
  BY <1>12 DEF vars
<1>13. QED
  BY <1>1, <1>2, <1>3, <1>4, <1>5, <1>6, <1>7, <1>8, <1>9, <1>10, <1>11, <1>12
     DEF Next, Thread

(* As long as nothing has been reloaded, nothing is.                         *)
LEMMA NoReload ==
  ASSUME TypeOK, PlaceInv, [Next]_vars, reloads' = 0
  PROVE  reloads = 0 /\ ~ResetPacket /\ ~EmitInitialState
<1>1. ~ResetPacket
  BY DEF TypeOK, ResetPacket
<1>2. reloads = 0
  BY <1>1 DEF Next, Thread, vars, poolVars, Receive, CompareTeams, CompareModes,
              Publish, Tell, TellSelf, ReplySent, ReplyFails, Keep, Dropped,
              ButtonMiddleDown, ButtonReport, EmitInitialState
<1>3. QED BY <1>1, <1>2 DEF PlaceInv, EmitInitialState

(* A dropped packet does not lose what was suspect before.                   *)
LEMMA DroppedSuspects ==
  ASSUME PlaceInv, step # "recv", NEW told, Dropped(told)
  PROVE  /\ suspect \subseteq suspect'
         /\ told => newPacket \in suspect'
BY DEF PlaceInv, Dropped

(* A kept packet takes the place of the packets it makes good.               *)
LEMMA KeptSuspects ==
  ASSUME Keep
  PROVE  /\ packet' = newPacket
         /\ suspect \cup {newPacket} \subseteq suspect' \cup {packet'}
         /\ \A p \in suspect : p = newPacket \/ p \in suspect'
         /\ suspect' # {} => suspect' = suspect
BY DEF Keep

LEMMA ScoreInGrows ==
  ASSUME NEW S, NEW T, S \subseteq T, NEW s
  PROVE  ScoreIn(S, s) \subseteq ScoreIn(T, s)
BY DEF ScoreIn

LEMMA PenaltyInGrows ==
  ASSUME NEW S, NEW T, S \subseteq T, NEW s, NEW i
  PROVE  PenaltyIn(S, s, i) \subseteq PenaltyIn(T, s, i)
BY DEF PenaltyIn

LEMMA ScoreStep ==
  ASSUME TypeOK, PlaceInv, [Next]_vars, reloads' = 0, ScoreInv
  PROVE  ScoreInv'
<1> SUFFICES ASSUME NEW s \in Side
             PROVE  IF step' \in {"recv", "teams"}
                    THEN heard'.score[s] \in ScoreIn(suspect' \cup {packet'}, s)
                    ELSE heard'.score[s] \in ScoreIn(suspect' \cup {newPacket'}, s)
  BY DEF ScoreInv, ScoreIn
<1> DEFINE Goal == IF step' \in {"recv", "teams"}
                   THEN heard'.score[s] \in ScoreIn(suspect' \cup {packet'}, s)
                   ELSE heard'.score[s] \in ScoreIn(suspect' \cup {newPacket'}, s)
<1>a. IF step \in {"recv", "teams"} THEN heard.score[s] \in ScoreIn(suspect \cup {packet}, s)
                                   ELSE heard.score[s] \in ScoreIn(suspect \cup {newPacket}, s)
  BY DEF ScoreInv
<1>b. newPacket.team[s].score \in ScoreIn(suspect \cup {newPacket}, s)
  BY DEF ScoreIn
<1>c. ASSUME ~ScoreChanged(packet, newPacket)
      PROVE  ScoreIn(suspect \cup {newPacket}, s) = ScoreIn(suspect \cup {packet}, s)
  <2>1. newPacket.team[s].score = packet.team[s].score
    BY <1>c DEF ScoreChanged
  <2>2. QED BY <2>1 DEF ScoreIn
<1>d. heard \in Heard
  BY DEF TypeOK
<1>1. ASSUME NEW p \in Packets, Receive(p) PROVE Goal
  BY <1>1, <1>a DEF Receive
<1>2. CASE CompareTeams
  <2>0. heard.score[s] \in ScoreIn(suspect \cup {packet}, s)
    BY <1>2, <1>a DEF CompareTeams
  <2>1. /\ newPacket.ours /\ ScoreChanged(packet, newPacket)
           => heard'.score[s] = newPacket.team[s].score
        /\ ~(newPacket.ours /\ ScoreChanged(packet, newPacket)) => heard' = heard
    BY <1>2, <1>d DEF CompareTeams, Heard
  <2>2. CASE newPacket.ours /\ ~HasInvalidPenalty(newPacket)
    <3>1. step' = "modes" /\ suspect' = suspect /\ newPacket' = newPacket
      BY <1>2, <2>2 DEF CompareTeams
    <3>2. QED BY <2>0, <2>1, <2>2, <3>1, <1>b, <1>c
  <2>3. CASE ~(newPacket.ours /\ ~HasInvalidPenalty(newPacket))
    <3>1. Dropped(newPacket.ours /\ ScoreChanged(packet, newPacket)) /\ step # "recv"
      BY <1>2, <2>3 DEF CompareTeams
    <3>2. step' = "recv" /\ packet' = packet
      BY <3>1 DEF Dropped
    <3>3. CASE newPacket.ours /\ ScoreChanged(packet, newPacket)
      <4>1. newPacket \in suspect'
        BY <3>1, <3>3, DroppedSuspects
      <4>2. QED BY <2>1, <3>2, <3>3, <4>1 DEF ScoreIn
    <3>4. CASE ~(newPacket.ours /\ ScoreChanged(packet, newPacket))
      <4>1. suspect' = suspect
        BY <3>1, <3>4 DEF Dropped
      <4>2. QED BY <2>0, <2>1, <3>2, <3>4, <4>1
    <3>5. QED BY <3>3, <3>4
  <2>4. QED BY <2>2, <2>3
<1>3. CASE CompareModes
  <2>1. heard' = heard /\ step = "modes"
    BY <1>3 DEF CompareModes
  <2>2. CASE ModeChanged(packet, newPacket) /\ newPacket.mode \notin Mode
    <3>1. Dropped(ScoreChanged(packet, newPacket))
      BY <1>3, <2>2 DEF CompareModes
    <3>2. step' = "recv" /\ packet' = packet
      BY <3>1 DEF Dropped
    <3>3. suspect \subseteq suspect' /\ (ScoreChanged(packet, newPacket) => newPacket \in suspect')
      BY <2>1, <3>1, DroppedSuspects
    <3>4. CASE ScoreChanged(packet, newPacket)
      BY <1>a, <2>1, <3>2, <3>3, <3>4 DEF ScoreIn
    <3>5. CASE ~ScoreChanged(packet, newPacket)
      BY <1>a, <1>c, <2>1, <3>2, <3>3, <3>5 DEF ScoreIn
    <3>6. QED BY <3>4, <3>5
  <2>3. CASE ~(ModeChanged(packet, newPacket) /\ newPacket.mode \notin Mode)
    <3>1. /\ step' \in {"keep", "publish"}
          /\ suspect' = suspect /\ newPacket' = newPacket
      BY <1>3, <2>3 DEF CompareModes
    <3>2. QED BY <1>a, <2>1, <3>1
  <2>4. QED BY <2>2, <2>3
<1>4. CASE Publish
  BY <1>4, <1>a DEF Publish, history
<1>5. ASSUME NEW c \in stateChanges, Tell(c) PROVE Goal
  <2>1. heard'.score = heard.score
    BY <1>5, <1>d DEF Tell, Told, Heard
  <2>2. QED BY <1>5, <1>a, <2>1 DEF Tell
<1>6. ASSUME NEW c \in stateChanges, TellSelf(c) PROVE Goal
  <2>1. heard'.score = heard.score
    BY <1>6, <1>d DEF TellSelf, Heard
  <2>2. QED BY <1>6, <1>a, <2>1 DEF TellSelf
<1>7. CASE ReplySent
  BY <1>7, <1>a DEF ReplySent, history
<1>8. CASE ReplyFails
  <2>1. Dropped(TRUE) /\ step = "reply" /\ heard' = heard
    BY <1>8 DEF ReplyFails
  <2>2. suspect \cup {newPacket} \subseteq suspect' \cup {packet'} /\ step' = "recv"
    BY <2>1, DroppedSuspects DEF Dropped
  <2>3. QED BY <1>a, <2>1, <2>2, ScoreInGrows
<1>9. CASE Keep
  <2>1. heard' = heard /\ step \in {"keep", "tell"} /\ step' = "recv"
    BY <1>9 DEF Keep
  <2>2. QED BY <1>9, <1>a, <2>1, KeptSuspects, ScoreInGrows
<1>10. CASE ButtonMiddleDown \/ ButtonReport
  <2>1. heard'.score = heard.score
    BY <1>10, <1>d DEF ButtonMiddleDown, ButtonReport, Heard
  <2>2. QED BY <1>10, <1>a, <2>1 DEF ButtonMiddleDown, ButtonReport, threadVars
<1>11. CASE UNCHANGED vars
  BY <1>11, <1>a DEF vars, threadVars, history
<1>12. QED
  BY <1>1, <1>2, <1>3, <1>4, <1>5, <1>6, <1>7, <1>8, <1>9, <1>10, <1>11, NoReload
     DEF Next, Thread

LEMMA PenaltyStep ==
  ASSUME TypeOK, PlaceInv, [Next]_vars, reloads' = 0, PenaltyInv
  PROVE  PenaltyInv'
<1> SUFFICES ASSUME NEW o \in Others
             PROVE  LET told == heard'.penalty[o[1]][o[2]] IN
                    /\ step' \in {"recv", "teams", "modes", "publish"} =>
                         told \in PenaltyIn(suspect' \cup {packet'}, o[1], o[2])
                    /\ step' # "recv" =>
                         told \in PenaltyIn(suspect' \cup {packet', newPacket'}, o[1], o[2])
                    /\ step' \notin {"recv", "teams"} =>
                         \/ <<"penalty", o[1], o[2]>> \in stateChanges'
                         \/ told \in PenaltyIn(suspect' \cup {newPacket'}, o[1], o[2])
  BY DEF PenaltyInv, PenaltyIn
<1> DEFINE s == o[1]
           i == o[2]
           mine == <<"penalty", s, i>>
           old == heard.penalty[s][i]
           new == heard'.penalty[s][i]
           Early == step' \in {"recv", "teams", "modes", "publish"} =>
                      new \in PenaltyIn(suspect' \cup {packet'}, s, i)
           Any == step' # "recv" => new \in PenaltyIn(suspect' \cup {packet', newPacket'}, s, i)
           Late == step' \notin {"recv", "teams"} =>
                     mine \in stateChanges' \/ new \in PenaltyIn(suspect' \cup {newPacket'}, s, i)
<1>a. /\ step \in {"recv", "teams", "modes", "publish"} =>
           old \in PenaltyIn(suspect \cup {packet}, s, i)
      /\ step # "recv" => old \in PenaltyIn(suspect \cup {packet, newPacket}, s, i)
      /\ step \notin {"recv", "teams"} =>
           mine \in stateChanges \/ old \in PenaltyIn(suspect \cup {newPacket}, s, i)
  BY DEF PenaltyInv
<1>b. s \in Side /\ i \in Player /\ mine # <<"penalty", "own", PLAYER_ID>>
  BY DEF Others
<1>c. heard \in Heard /\ stateChanges \subseteq Change
  BY DEF TypeOK
<1>d. newPacket.team[s].penalty[i] \in PenaltyIn(suspect \cup {newPacket}, s, i)
  BY DEF PenaltyIn
<1> HIDE DEF s, i
<1> SUFFICES Early /\ Any /\ Late
  BY DEF s, i
<1>1. ASSUME NEW p \in Packets, Receive(p) PROVE Early /\ Any /\ Late
  BY <1>1, <1>a, PenaltyInGrows DEF Receive
<1>2. CASE CompareTeams
  <2>1. new = old
    BY <1>2, <1>c DEF CompareTeams, Heard
  <2>2. CASE newPacket.ours /\ ~HasInvalidPenalty(newPacket)
    <3>1. /\ step' = "modes" /\ suspect' = suspect
          /\ packet' = packet /\ newPacket' = newPacket
          /\ stateChanges' = {c \in TeamChanges : Changed(c, packet, newPacket)}
      BY <1>2, <2>2 DEF CompareTeams
    <3>2. CASE PenaltyChanged(packet, newPacket, s, i)
      <4>1. mine \in TeamChanges
        BY <1>b DEF TeamChanges
      <4>2. Changed(mine, packet, newPacket)
        BY <3>2 DEF Changed
      <4>3. QED BY <1>2, <1>a, <2>1, <3>1, <4>1, <4>2 DEF CompareTeams
    <3>3. CASE ~PenaltyChanged(packet, newPacket, s, i)
      <4>1. packet.team[s].penalty[i] = newPacket.team[s].penalty[i]
        BY <3>3 DEF PenaltyChanged
      <4>2. PenaltyIn(suspect \cup {packet}, s, i) = PenaltyIn(suspect \cup {newPacket}, s, i)
        BY <4>1 DEF PenaltyIn
      <4>3. QED BY <1>2, <1>a, <2>1, <3>1, <4>2 DEF CompareTeams
    <3>4. QED BY <3>2, <3>3
  <2>3. CASE ~(newPacket.ours /\ ~HasInvalidPenalty(newPacket))
    <3>1. Dropped(newPacket.ours /\ ScoreChanged(packet, newPacket)) /\ step = "teams"
      BY <1>2, <2>3 DEF CompareTeams
    <3>2. suspect \subseteq suspect' /\ packet' = packet /\ step' = "recv"
      BY <3>1, DroppedSuspects DEF Dropped
    <3>3. QED BY <1>a, <2>1, <3>1, <3>2 DEF PenaltyIn
  <2>4. QED BY <2>2, <2>3
<1>3. CASE CompareModes
  <2>1. new = old /\ step = "modes"
    BY <1>3 DEF CompareModes
  <2>2. CASE ModeChanged(packet, newPacket) /\ newPacket.mode \notin Mode
    <3>1. Dropped(ScoreChanged(packet, newPacket))
      BY <1>3, <2>2 DEF CompareModes
    <3>2. suspect \subseteq suspect' /\ packet' = packet /\ step' = "recv"
      BY <2>1, <3>1, DroppedSuspects DEF Dropped
    <3>3. QED BY <1>a, <2>1, <3>2 DEF PenaltyIn
  <2>3. CASE ~(ModeChanged(packet, newPacket) /\ newPacket.mode \notin Mode)
    <3>1. /\ stateChanges \subseteq stateChanges'
          /\ suspect' = suspect /\ newPacket' = newPacket /\ packet' = packet
      BY <1>3, <2>3 DEF CompareModes
    <3>2. QED BY <1>a, <2>1, <3>1
  <2>4. QED BY <2>2, <2>3
<1>4. CASE Publish
  BY <1>4, <1>a DEF Publish, history
<1>5. ASSUME NEW c \in stateChanges, Tell(c) PROVE Early /\ Any /\ Late
  <2>1. /\ step = "tell" /\ step' = "tell" /\ heard' = Told(c)
        /\ stateChanges' = stateChanges \ {c}
        /\ suspect' = suspect /\ packet' = packet /\ newPacket' = newPacket
    BY <1>5 DEF Tell
  <2>2. CASE c = mine
    <3>1. new = newPacket.team[s].penalty[i]
      BY <1>b, <1>c, <2>1, <2>2 DEF Told, Heard
    <3>2. new \in PenaltyIn(suspect \cup {packet, newPacket}, s, i)
      BY <3>1 DEF PenaltyIn
    <3>3. QED BY <1>d, <2>1, <3>1, <3>2
  <2>3. CASE c # mine
    <3>1. new = old
      <4>1. CASE c[1] = "penalty"
        <5>1. c[2] \in Side /\ c[3] \in Player /\ (c[2] # s \/ c[3] # i)
          BY <1>c, <2>3, <4>1, ChangeShapes
        <5>2. heard'.penalty =
                [heard.penalty EXCEPT ![c[2]][c[3]] = newPacket.team[c[2]].penalty[c[3]]]
          BY <1>c, <2>1, <4>1 DEF Told, Heard
        <5>3. heard.penalty \in [Side -> [Player -> Penalty]]
          BY <1>c DEF Heard
        <5>4. QED BY <1>b, <5>1, <5>2, <5>3
      <4>2. CASE c[1] # "penalty"
        BY <1>c, <2>1, <4>2 DEF Told, Heard
      <4>3. QED BY <4>1, <4>2
    <3>2. QED BY <1>a, <2>1, <2>3, <3>1
  <2>4. QED BY <2>2, <2>3
<1>6. ASSUME NEW c \in stateChanges, TellSelf(c) PROVE Early /\ Any /\ Late
  <2>1. new = old
    BY <1>6, <1>c DEF TellSelf, Heard
  <2>2. c # mine
    BY <1>6, <1>b DEF TellSelf, AboutSelf
  <2>3. QED BY <1>6, <1>a, <2>1, <2>2 DEF TellSelf
<1>7. CASE ReplySent
  BY <1>7, <1>a DEF ReplySent, history
<1>8. CASE ReplyFails
  <2>1. Dropped(TRUE) /\ step = "reply" /\ new = old
    BY <1>8 DEF ReplyFails
  <2>2. suspect \cup {packet, newPacket} \subseteq suspect' \cup {packet'} /\ step' = "recv"
    BY <2>1, DroppedSuspects DEF Dropped
  <2>3. QED BY <1>a, <2>1, <2>2, PenaltyInGrows
<1>9. CASE Keep
  <2>1. new = old /\ step \in {"keep", "tell"} /\ step' = "recv" /\ stateChanges = {}
    BY <1>9 DEF Keep, PlaceInv
  <2>2. QED BY <1>9, <1>a, <2>1, KeptSuspects, PenaltyInGrows
<1>10. CASE ButtonMiddleDown \/ ButtonReport
  <2>1. new = old
    BY <1>10, <1>c DEF ButtonMiddleDown, ButtonReport, Heard
  <2>2. QED BY <1>10, <1>a, <2>1 DEF ButtonMiddleDown, ButtonReport, threadVars
<1>11. CASE UNCHANGED vars
  BY <1>11, <1>a DEF vars, threadVars, history
<1>12. QED
  BY <1>1, <1>2, <1>3, <1>4, <1>5, <1>6, <1>7, <1>8, <1>9, <1>10, <1>11, NoReload
     DEF Next, Thread

(* A phase that would have been told after one packet is told after the next *)
(* one, if that did not change the phase.                                    *)
LEMMA PhaseStillChanged ==
  ASSUME NEW old, NEW new, NEW p, ~PhaseChanged(old, new), PhaseChanged(old, p)
  PROVE  PhaseChanged(new, p)
BY DEF PhaseChanged, ToTimeout, FromTimeout

LEMMA SaidGrows ==
  ASSUME PhaseSaid, gameState'.phase = gameState.phase, packet' = packet,
         heard'.phase = heard.phase, heard.byButton => heard'.byButton,
         suspect \subseteq suspect'
  PROVE  PhaseSaid'
<1>1. CASE heard.byButton \/ heard.phase = gameState.phase
  BY <1>1 DEF PhaseSaid
<1>2. CASE \E p \in suspect : PhaseChanged(packet, p)
  <2>1. PICK p \in suspect : PhaseChanged(packet, p)
    BY <1>2
  <2>2. PhaseChanged(packet', p)
    BY <2>1
  <2>3. QED BY <2>2 DEF PhaseSaid, PhaseChanged, ToTimeout, FromTimeout
<1>3. QED BY <1>1, <1>2 DEF PhaseSaid

LEMMA PhaseStep ==
  ASSUME TypeOK, PlaceInv, [Next]_vars, reloads' = 0, PhaseInv
  PROVE  PhaseInv'
<1> DEFINE PC == PhaseChanged(packet, newPacket)
           Same == /\ gameState' = gameState /\ packet' = packet
                   /\ heard'.phase = heard.phase /\ heard'.byButton = heard.byButton
                   /\ suspect \subseteq suspect'
<1>a. ASSUME packet' = packet, newPacket' = newPacket
      PROVE  PhaseChanged(packet, newPacket)' <=> PC
  BY <1>a DEF PhaseChanged, ToTimeout, FromTimeout
<1>b. Same /\ PhaseSaid => PhaseSaid'
  BY SaidGrows
<1>c. heard \in Heard /\ stateChanges \subseteq Change
  BY DEF TypeOK
<1> HIDE DEF PC
<1>1. ASSUME NEW p \in Packets, Receive(p) PROVE PhaseInv'
  <2>1. PhaseSaid' /\ step' = "teams"
    BY <1>1, <1>b DEF Receive, PhaseInv
  <2>2. QED BY <2>1 DEF PhaseInv
<1>2. CASE CompareTeams
  <2>1. /\ step = "teams" /\ gameState' = gameState
        /\ heard'.phase = heard.phase /\ heard'.byButton = heard.byButton
    BY <1>2, <1>c DEF CompareTeams, Heard
  <2>2. CASE newPacket.ours /\ ~HasInvalidPenalty(newPacket)
    <3>1. /\ step' = "modes" /\ packet' = packet /\ suspect' = suspect
          /\ state' = WithTeams(gameState, packet, newPacket)
      BY <1>2, <2>2 DEF CompareTeams
    <3>2. state'.phase = gameState'.phase
      BY <2>1, <3>1, WithTeamsTypes DEF TypeOK
    <3>3. PhaseSaid'
      BY <1>b, <2>1, <3>1 DEF PhaseInv
    <3>4. QED BY <3>1, <3>2, <3>3 DEF PhaseInv
  <2>3. CASE ~(newPacket.ours /\ ~HasInvalidPenalty(newPacket))
    <3>1. Dropped(newPacket.ours /\ ScoreChanged(packet, newPacket))
      BY <1>2, <2>3 DEF CompareTeams
    <3>2. suspect \subseteq suspect' /\ packet' = packet /\ step' = "recv"
      BY <2>1, <3>1, DroppedSuspects DEF Dropped
    <3>3. PhaseSaid'
      BY <1>b, <2>1, <3>2 DEF PhaseInv
    <3>4. QED BY <3>2, <3>3 DEF PhaseInv
  <2>4. QED BY <2>2, <2>3
<1>3. CASE CompareModes
  <2>1. step = "modes" /\ gameState' = gameState /\ heard' = heard
    BY <1>3 DEF CompareModes
  <2>2. CASE ModeChanged(packet, newPacket) /\ newPacket.mode \notin Mode
    <3>1. Dropped(ScoreChanged(packet, newPacket))
      BY <1>3, <2>2 DEF CompareModes
    <3>2. suspect \subseteq suspect' /\ packet' = packet /\ step' = "recv"
      BY <2>1, <3>1, DroppedSuspects DEF Dropped
    <3>3. PhaseSaid'
      BY <1>b, <2>1, <3>2 DEF PhaseInv
    <3>4. QED BY <3>2, <3>3 DEF PhaseInv
  <2>3. CASE ~(ModeChanged(packet, newPacket) /\ newPacket.mode \notin Mode)
    <3>1. /\ packet' = packet /\ newPacket' = newPacket /\ suspect' = suspect
          /\ step' \in {"keep", "publish"} /\ (step' = "keep" => stateChanges' = {})
          /\ PC => <<"phase">> \in stateChanges'
          /\ state' = [state EXCEPT
               !.mode = IF ModeChanged(packet, newPacket) THEN newPacket.mode ELSE @,
               !.phase = PhaseAfter(@, packet, newPacket)]
      BY <1>3, <2>3 DEF CompareModes, PC
    <3>2. ~PC => state'.phase = gameState'.phase
      <4>1. state \in GameState /\ state.phase = gameState.phase
        BY <2>1 DEF TypeOK, PhaseInv
      <4>2. ~PC => PhaseAfter(state.phase, packet, newPacket) = state.phase
        BY <4>1, PhaseAfterType DEF GameState, PC
      <4>3. QED BY <2>1, <3>1, <4>1, <4>2 DEF GameState
    <3>3. PhaseSaid'
      BY <1>b, <2>1, <3>1 DEF PhaseInv
    <3>4. QED BY <1>a, <3>1, <3>2, <3>3 DEF PhaseInv
  <2>4. QED BY <2>2, <2>3
<1>4. CASE Publish
  <2>1. /\ step = "publish" /\ step' = "tell" /\ gameState' = state /\ state' = state
        /\ packet' = packet /\ newPacket' = newPacket /\ heard' = heard
        /\ suspect' = suspect /\ stateChanges' = stateChanges
    BY <1>4 DEF Publish, history
  <2>2. PhaseSaid /\ (~PC => state.phase = gameState.phase)
    BY <2>1 DEF PhaseInv, PC
  <2>3. PC \/ PhaseSaid'
    BY <2>1, <2>2, SaidGrows
  <2>4. PC => <<"phase">> \in stateChanges' \/ heard'.byButton \/ heard'.phase = state'.phase
    BY <2>1 DEF PhaseInv, PC
  <2>5. QED BY <1>a, <2>1, <2>3, <2>4 DEF PhaseInv
<1>5. ASSUME NEW c \in stateChanges, Tell(c) PROVE PhaseInv'
  <2>1. /\ step = "tell" /\ step' = "tell" /\ heard' = Told(c)
        /\ stateChanges' = stateChanges \ {c} /\ suspect' = suspect
        /\ gameState' = gameState /\ state' = state
        /\ packet' = packet /\ newPacket' = newPacket
    BY <1>5 DEF Tell
  <2>2. /\ gameState = state /\ (PC \/ PhaseSaid)
        /\ PC => <<"phase">> \in stateChanges \/ heard.byButton \/ heard.phase = state.phase
    BY <2>1 DEF PhaseInv, PC
  <2>3. CASE c = <<"phase">>
    <3>1. heard'.phase = state.phase
      BY <1>c, <2>1, <2>3, ChangeShapes DEF Told, Heard
    <3>2. PhaseSaid'
      BY <2>1, <2>2, <3>1 DEF PhaseSaid
    <3>3. QED BY <2>1, <2>2, <3>1, <3>2 DEF PhaseInv
  <2>4. CASE c # <<"phase">>
    <3>1. heard'.phase = heard.phase /\ heard'.byButton = heard.byButton
      BY <1>c, <2>1, <2>4, ChangeShapes DEF Told, Heard
    <3>2. PhaseSaid => PhaseSaid'
      BY <1>b, <2>1, <3>1
    <3>3. PC => \/ <<"phase">> \in stateChanges' \/ heard'.byButton
                \/ heard'.phase = state'.phase
      BY <2>1, <2>2, <2>4, <3>1
    <3>4. QED BY <1>a, <2>1, <2>2, <3>2, <3>3 DEF PhaseInv
  <2>5. QED BY <2>3, <2>4
<1>6. ASSUME NEW c \in stateChanges, TellSelf(c) PROVE PhaseInv'
  <2>1. /\ step = "tell" /\ step' = "reply" /\ c # <<"phase">>
        /\ stateChanges' = stateChanges \ {c} /\ suspect' = suspect
        /\ gameState' = gameState /\ state' = state
        /\ packet' = packet /\ newPacket' = newPacket
    BY <1>6 DEF TellSelf, AboutSelf
  <2>2. heard'.phase = heard.phase /\ heard'.byButton = heard.byButton
    BY <1>6, <1>c DEF TellSelf, Heard
  <2>3. /\ gameState = state /\ (PC \/ PhaseSaid)
        /\ PC => <<"phase">> \in stateChanges \/ heard.byButton \/ heard.phase = state.phase
    BY <2>1 DEF PhaseInv, PC
  <2>4. PhaseSaid => PhaseSaid'
    BY <1>b, <2>1, <2>2
  <2>5. QED BY <1>a, <2>1, <2>2, <2>3, <2>4 DEF PhaseInv
<1>7. CASE ReplySent
  <2>1. /\ step = "reply" /\ step' = "tell" /\ suspect' = suspect /\ heard' = heard
        /\ stateChanges' = stateChanges /\ gameState' = gameState /\ state' = state
        /\ packet' = packet /\ newPacket' = newPacket
    BY <1>7 DEF ReplySent, history
  <2>2. PhaseSaid => PhaseSaid'
    BY <1>b, <2>1
  <2>3. QED BY <1>a, <2>1, <2>2 DEF PhaseInv, PC
<1>8. CASE ReplyFails
  <2>1. /\ Dropped(TRUE) /\ step = "reply" /\ heard' = heard /\ gameState' = gameState
    BY <1>8 DEF ReplyFails
  <2>2. /\ suspect \subseteq suspect' /\ newPacket \in suspect'
        /\ packet' = packet /\ step' = "recv"
    BY <2>1, DroppedSuspects DEF Dropped
  <2>3. CASE PC
    <3>1. PhaseChanged(packet', newPacket)
      BY <2>2, <2>3 DEF PC
    <3>2. PhaseSaid'
      BY <2>2, <3>1 DEF PhaseSaid, PhaseChanged, ToTimeout, FromTimeout
    <3>3. QED BY <2>2, <3>2 DEF PhaseInv
  <2>4. CASE ~PC
    <3>1. PhaseSaid'
      BY <1>b, <2>1, <2>2, <2>4 DEF PhaseInv, PC
    <3>2. QED BY <2>2, <3>1 DEF PhaseInv
  <2>5. QED BY <2>3, <2>4
<1>9. CASE Keep
  <2>1. /\ step' = "recv" /\ heard' = heard /\ gameState' = gameState
        /\ step \in {"keep", "tell"} /\ stateChanges = {}
    BY <1>9 DEF Keep, PlaceInv
  <2>2. CASE PC
    <3>1. heard.byButton \/ heard.phase = gameState.phase
      BY <2>1, <2>2 DEF PhaseInv, PC
    <3>2. PhaseSaid'
      BY <2>1, <3>1 DEF PhaseSaid
    <3>3. QED BY <2>1, <3>2 DEF PhaseInv
  <2>3. CASE ~PC
    <3>1. PhaseSaid
      BY <2>1, <2>3 DEF PhaseInv, PC
    <3>2. CASE heard.byButton \/ heard.phase = gameState.phase
      BY <2>1, <3>2 DEF PhaseSaid, PhaseInv
    <3>3. CASE \E p \in suspect : PhaseChanged(packet, p)
      <4>1. PICK p \in suspect : PhaseChanged(packet, p)
        BY <3>3
      <4>2. PhaseChanged(newPacket, p) /\ p # newPacket
        BY <2>3, <4>1, PhaseStillChanged DEF PC
      <4>3. p \in suspect' /\ packet' = newPacket
        BY <1>9, <4>2, KeptSuspects
      <4>4. PhaseChanged(packet', p)
        BY <4>2, <4>3
      <4>5. PhaseSaid'
        BY <4>3, <4>4 DEF PhaseSaid, PhaseChanged, ToTimeout, FromTimeout
      <4>6. QED BY <2>1, <4>5 DEF PhaseInv
    <3>4. QED BY <3>1, <3>2, <3>3 DEF PhaseSaid
  <2>4. QED BY <2>2, <2>3
<1>10. CASE ButtonMiddleDown \/ ButtonReport
  <2>1. /\ step' = step /\ suspect' = suspect /\ gameState' = gameState
        /\ stateChanges' = stateChanges /\ state' = state
        /\ packet' = packet /\ newPacket' = newPacket
    BY <1>10 DEF ButtonMiddleDown, ButtonReport, threadVars
  <2>2. \/ heard'.byButton
        \/ heard'.phase = heard.phase /\ heard'.byButton = heard.byButton
    BY <1>10, <1>c DEF ButtonMiddleDown, ButtonReport, Heard
  <2>3. PhaseSaid => PhaseSaid'
    BY <1>b, <2>1, <2>2 DEF PhaseSaid
  <2>4. QED BY <1>a, <2>1, <2>2, <2>3 DEF PhaseInv, PC
<1>11. CASE UNCHANGED vars
  <2>1. PhaseSaid => PhaseSaid'
    BY <1>11, <1>b DEF vars, threadVars, history
  <2>2. QED BY <1>11, <1>a, <2>1 DEF PhaseInv, PC, vars, threadVars, history
<1>12. QED
  BY <1>1, <1>2, <1>3, <1>4, <1>5, <1>6, <1>7, <1>8, <1>9, <1>10, <1>11, NoReload
     DEF Next, Thread

LEMMA EventInit == Init => IInv
<1> SUFFICES ASSUME Init PROVE IInv
  OBVIOUS
<1>1. TypeOK /\ PlaceInv
  BY TypeInit DEF Init, PlaceInv
<1>2. ScoreInv
  BY DEF Init, ScoreInv, ScoreIn, FreshPacket, FreshTeam
<1>3. PenaltyInv
  <2>1. \A o \in Others : heard.penalty[o[1]][o[2]] = packet.team[o[1]].penalty[o[2]]
    BY DEF Init, Others, FreshPacket
  <2>2. QED BY <2>1 DEF Init, PenaltyInv, PenaltyIn
<1>4. PhaseInv
  BY DEF Init, PhaseInv, PhaseSaid, InitialState
<1>5. QED BY <1>1, <1>2, <1>3, <1>4 DEF IInv, EventInv

LEMMA EventStep == IInv /\ [Next]_vars => IInv'
<1> SUFFICES ASSUME IInv, [Next]_vars PROVE IInv'
  OBVIOUS
<1>1. TypeOK' /\ PlaceInv'
  BY TypeStep, PlaceStep DEF IInv
<1>2. ASSUME reloads' = 0 PROVE ScoreInv' /\ PenaltyInv' /\ PhaseInv'
  <2>1. ScoreInv /\ PenaltyInv /\ PhaseInv
    BY <1>2, NoReload DEF IInv, EventInv
  <2>2. QED BY <1>2, <2>1, ScoreStep, PenaltyStep, PhaseStep DEF IInv
<1>3. QED BY <1>1, <1>2 DEF IInv, EventInv

THEOREM EventInvariant == Spec => []IInv
BY EventInit, EventStep, PTL DEF Spec

(* Every variable has its type, the listeners' picture of the game included. *)
THEOREM GameControllerTypes == Spec => []TypeOK
<1>1. IInv => TypeOK
  BY DEF IInv
<1>2. QED BY <1>1, EventInvariant, PTL

(* What listeners heard adds up to the last packet kept.                     *)
THEOREM EventsAlwaysAddUp == Spec => []EventsAddUp
<1>1. IInv => EventsAddUp
  <2> SUFFICES ASSUME IInv, step = "recv", suspect = {}, reloads = 0
               PROVE  /\ \A s \in Side : heard.score[s] = packet.team[s].score
                      /\ \A s \in Side, i \in Player :
                           <<s, i>> # <<"own", PLAYER_ID>> =>
                             heard.penalty[s][i] = packet.team[s].penalty[i]
                      /\ ~heard.byButton => heard.phase = gameState.phase
    BY DEF EventsAddUp, AtRest
  <2>1. \A s \in Side : heard.score[s] = packet.team[s].score
    BY DEF IInv, EventInv, ScoreInv, ScoreIn
  <2>2. ASSUME NEW s \in Side, NEW i \in Player, <<s, i>> # <<"own", PLAYER_ID>>
        PROVE  heard.penalty[s][i] = packet.team[s].penalty[i]
    <3>1. <<s, i>> \in Others
      BY <2>2 DEF Others
    <3>2. heard.penalty[s][i] \in PenaltyIn({packet}, s, i)
      BY <3>1 DEF IInv, EventInv, PenaltyInv
    <3>3. QED BY <3>2 DEF PenaltyIn
  <2>3. ~heard.byButton => heard.phase = gameState.phase
    BY DEF IInv, EventInv, PhaseInv, PhaseSaid
  <2>4. QED BY <2>1, <2>2, <2>3
<1>2. QED BY <1>1, EventInvariant, PTL
-----------------------------------------------------------------------------
LEMMA SelfStep == TypeOK /\ SelfInv /\ [Next]_vars => SelfInv'
<1> SUFFICES ASSUME TypeOK, SelfInv, [Next]_vars PROVE SelfInv'
  OBVIOUS
<1> USE DEF SelfInv, SelfAgrees, poolVars, threadVars, history
<1>a. /\ heard \in Heard /\ selfPenalised \in BOOLEAN
      /\ pressed \in {"nothing", "penalised", "unpenalised"}
  BY DEF TypeOK
<1>1. ASSUME NEW p \in Packets, Receive(p) PROVE SelfInv'
  BY <1>1 DEF Receive
<1>2. CASE CompareTeams
  <2>1. heard'.self = heard.self
    BY <1>2, <1>a DEF CompareTeams, Heard
  <2>2. QED BY <1>2, <2>1 DEF CompareTeams, Dropped
<1>3. CASE CompareModes
  BY <1>3 DEF CompareModes, Dropped
<1>4. CASE Publish
  BY <1>4 DEF Publish
<1>5. ASSUME NEW c \in stateChanges, Tell(c) PROVE SelfInv'
  <2>1. heard'.self = heard.self
    BY <1>5, <1>a DEF Tell, Told, Heard
  <2>2. QED BY <1>5, <2>1 DEF Tell
<1>6. ASSUME NEW c \in stateChanges, TellSelf(c) PROVE SelfInv'
  <2>1. heard'.self = IF SelfFree(newPacket) THEN "unpenalised" ELSE "penalised"
    BY <1>6, <1>a DEF TellSelf, Heard
  <2>2. QED BY <1>6, <2>1 DEF TellSelf, SelfFree
<1>7. CASE ReplySent
  BY <1>7 DEF ReplySent
<1>8. CASE ReplyFails
  BY <1>8 DEF ReplyFails, Dropped
<1>9. CASE Keep
  BY <1>9 DEF Keep
<1>10. CASE ButtonMiddleDown
  <2>1. /\ selfPenalised' = ~selfPenalised /\ selfCut' = (step = "reply")
        /\ step' = step /\ pressed' # "nothing"
        /\ pressed' = IF selfPenalised THEN "unpenalised" ELSE "penalised"
    BY <1>10 DEF ButtonMiddleDown
  <2>2. selfPenalised' = (pressed' = "penalised")
    <3>1. CASE selfPenalised
      BY <3>1, <2>1
    <3>2. CASE ~selfPenalised
      BY <3>2, <2>1
    <3>3. QED BY <3>1, <3>2
  <2>3. QED BY <2>1, <2>2
<1>13. CASE ButtonReport
  <2>1. heard'.self = pressed
    BY <1>13, <1>a DEF ButtonReport, Heard
  <2>2. QED BY <1>13, <2>1 DEF ButtonReport
<1>11. CASE ResetPacket \/ EmitInitialState
  BY <1>11 DEF ResetPacket, EmitInitialState
<1>12. CASE UNCHANGED vars
  BY <1>12 DEF vars, SelfFree
<1>14. QED
  BY <1>1, <1>2, <1>3, <1>4, <1>5, <1>6, <1>7, <1>8, <1>9, <1>10, <1>11, <1>12, <1>13
     DEF Next, Thread

(* The button undoes what listeners last heard of our own penalty.           *)
THEOREM SelfAlwaysAgrees == Spec => []SelfAgrees
<1>1. Init => SelfInv
  BY DEF Init, SelfInv, SelfAgrees
<1>2. SelfInv => SelfAgrees
  BY DEF SelfInv
<1>3. QED BY <1>1, <1>2, SelfStep, GameControllerTypes, PTL DEF Spec
-----------------------------------------------------------------------------
(* The mode.  The member `mode' runs ahead of the GameState while a packet   *)
(* is in hand, and of the packet kept when one was dropped; a mode that is   *)
(* no mode of the game stops it from being the GameState's, and no more.     *)
ModeInv ==
  ~cut =>
    /\ reloading => step = "recv" /\ mode = Unset /\ packet = FreshPacket
    /\ ~reloading /\ step # "publish" /\ mode \in Mode => gameState.mode = mode
    /\ /\ ~reloading /\ step \in {"recv", "teams", "modes"}
       /\ suspect = {} /\ ~afterTimeout /\ packet.mode \in Mode
       => gameState.mode = packet.mode
    /\ step = "modes" => state.mode = gameState.mode
    /\ step = "publish" /\ mode \in Mode => state.mode = mode
    /\ /\ step \in {"publish", "tell", "reply", "keep"}
       /\ packet.mode # "TIMEOUT" /\ newPacket.mode \in Mode
       => mode = newPacket.mode

LEMMA TeamsAside ==
  ASSUME NEW gs \in GameState, NEW old, NEW new
  PROVE  WithTeams(gs, old, new).mode = gs.mode
BY DEF WithTeams, GameState

LEMMA NotModes == Unset \notin Mode /\ "TIMEOUT" \notin Mode /\ FreshPacket.mode \notin Mode
BY DEF Unset, Mode, FreshPacket

LEMMA ModeStep == TypeOK /\ PlaceInv /\ ModeInv /\ [Next]_vars => ModeInv'
<1> SUFFICES ASSUME TypeOK, PlaceInv, ModeInv, [Next]_vars, ~cut'  PROVE ModeInv'
  BY DEF ModeInv
<1> USE DEF ModeInv
<1>1. ASSUME NEW p \in Packets, Receive(p)  PROVE ModeInv'
  BY <1>1 DEF Receive, poolVars
<1>2. CASE CompareTeams
  <2>1. /\ step = "teams" /\ cut' = cut /\ reloading' = reloading
        /\ UNCHANGED <<packet, mode, gameState, afterTimeout>>
    BY <1>2 DEF CompareTeams, Dropped, poolVars
  <2>2. CASE newPacket.ours /\ ~HasInvalidPenalty(newPacket)
    <3>1. step' = "modes" /\ state' = WithTeams(gameState, packet, newPacket)
          /\ suspect' = suspect
      BY <1>2, <2>2 DEF CompareTeams
    <3>2. state'.mode = gameState.mode
      BY <3>1, TeamsAside DEF TypeOK
    <3>. QED  BY <2>1, <3>1, <3>2
  <2>3. CASE ~(newPacket.ours /\ ~HasInvalidPenalty(newPacket))
    <3>1. Dropped(newPacket.ours /\ ScoreChanged(packet, newPacket)) /\ step # "recv"
      BY <1>2, <2>3 DEF CompareTeams
    <3>2. step' = "recv" /\ (suspect' = {} => suspect = {})
      BY <3>1, DroppedSuspects DEF Dropped
    <3>. QED  BY <2>1, <3>2
  <2>. QED  BY <2>2, <2>3
<1>3. CASE CompareModes
  <2>1. /\ step = "modes" /\ cut' = cut /\ reloading' = reloading
        /\ UNCHANGED <<packet, newPacket, gameState, afterTimeout>>
        /\ mode' = IF ModeChanged(packet, newPacket) THEN newPacket.mode ELSE mode
    BY <1>3 DEF CompareModes, Dropped, poolVars
  <2>2. CASE ModeChanged(packet, newPacket) /\ newPacket.mode \notin Mode
    <3>1. Dropped(ScoreChanged(packet, newPacket)) /\ step # "recv"
      BY <1>3, <2>2 DEF CompareModes
    <3>2. step' = "recv" /\ (suspect' = {} => suspect = {})
      BY <3>1, DroppedSuspects DEF Dropped
    <3>. QED  BY <2>1, <2>2, <3>2
  <2>3. CASE ~(ModeChanged(packet, newPacket) /\ newPacket.mode \notin Mode)
    <3>1. /\ step' \in {"keep", "publish"}
          /\ state'.mode = IF ModeChanged(packet, newPacket) THEN newPacket.mode ELSE state.mode
          /\ step' = "keep" => ~ModeChanged(packet, newPacket)
      BY <1>3, <2>3 DEF CompareModes, TypeOK, GameState
    <3>2. packet.mode # "TIMEOUT" /\ newPacket.mode \in Mode => mode' = newPacket.mode
      BY <2>1, NotModes DEF ModeChanged
    <3>. QED  BY <2>1, <2>3, <3>1, <3>2
  <2>. QED  BY <2>2, <2>3
<1>4. CASE Publish
  BY <1>4 DEF Publish, poolVars, history
<1>5. ASSUME NEW c \in stateChanges, Tell(c)  PROVE ModeInv'
  BY <1>5 DEF Tell, poolVars
<1>6. ASSUME NEW c \in stateChanges, TellSelf(c)  PROVE ModeInv'
  BY <1>6 DEF TellSelf, poolVars
<1>7. CASE ReplySent
  BY <1>7 DEF ReplySent, poolVars, history
<1>8. CASE ReplyFails
  <2>1. /\ step = "reply" /\ step' = "recv" /\ cut' = cut /\ reloading' = reloading
        /\ UNCHANGED <<mode, gameState>>
    BY <1>8 DEF ReplyFails, Dropped, poolVars
  <2>2. suspect' # {}
    BY <1>8, <2>1, DroppedSuspects DEF ReplyFails
  <2>. QED  BY <2>1, <2>2
<1>9. CASE Keep
  <2>1. /\ step \in {"keep", "tell"} /\ step' = "recv" /\ packet' = newPacket
        /\ afterTimeout' = (packet.mode = "TIMEOUT") /\ cut' = cut /\ reloading' = reloading
        /\ UNCHANGED <<mode, gameState>>
    BY <1>9 DEF Keep, poolVars
  <2>2. ~afterTimeout' /\ packet'.mode \in Mode => mode = newPacket.mode
    BY <2>1
  <2>. QED  BY <2>1, <2>2
<1>10. CASE ButtonMiddleDown \/ ButtonReport
  BY <1>10 DEF ButtonMiddleDown, ButtonReport, threadVars
<1>11. CASE ResetPacket
  <2>1. step = "recv" /\ ~cut /\ step' = step /\ mode' = Unset /\ packet' = FreshPacket
        /\ reloading'
    BY <1>11 DEF ResetPacket, threadVars
  <2>. QED  BY <2>1
<1>12. CASE EmitInitialState
  <2>1. /\ reloading /\ ~reloading' /\ step = "recv" /\ ~cut
        /\ UNCHANGED <<step, mode, packet>>
    BY <1>12 DEF EmitInitialState, threadVars
  <2>. QED  BY <2>1, NotModes
<1>13. CASE UNCHANGED vars
  BY <1>13 DEF vars, threadVars, poolVars, history
<1>. QED
  BY <1>1, <1>2, <1>3, <1>4, <1>5, <1>6, <1>7, <1>8, <1>9, <1>10, <1>11, <1>12, <1>13
     DEF Next, Thread

(* The mode that is published is the one remembered, and that of the last    *)
(* packet but after a timeout (429-457): for any packets.                    *)
THEOREM ModeAlwaysSettles == Spec => []ModeSettles
<1>1. Init => ModeInv
  BY NotModes DEF Init, ModeInv
<1>2. ModeInv => ModeSettles
  BY DEF ModeInv, ModeSettles, AtRest
<1>3. IInv => TypeOK /\ PlaceInv
  BY DEF IInv
<1>. QED  BY <1>1, <1>2, <1>3, ModeStep, EventInvariant, PTL DEF Spec
-----------------------------------------------------------------------------
(* The GameState.  What it says comes from the last packet kept or from one  *)
(* that was dropped after it was published.                                  *)
PhaseFrom(g, p) == p.mode # "TIMEOUT" /\ p.state \in State => g.phase = p.state

Says(g, S) ==
  /\ \A s \in Side : g.coach[s] \in {p.team[s].coach : p \in S}
  /\ g.firstHalf \in {p.firstHalf : p \in S}
  /\ \E p \in S : PhaseFrom(g, p)

Players(g, S) == \A s \in Side : g.players[s] \in {p.team[s].penalty : p \in S}

(* Until something is published there are no players; the packets kept until *)
(* then name neither a mode nor a state.                                     *)
PlayersOrNone(g, S, p) == Players(g, S) \/ (~Names(p) /\ mode \notin Mode)

AgreeInv ==
  ~cut =>
    /\ reloading => step = "recv" /\ mode = Unset /\ packet = FreshPacket
    /\ ~reloading /\ step \in {"recv", "teams", "modes"} =>
         /\ Says(gameState, suspect \cup {packet})
         /\ PlayersOrNone(gameState, suspect \cup {packet}, packet)
    /\ step = "modes" =>
         /\ state = WithTeams(gameState, packet, newPacket)
         /\ stateChanges = {c \in TeamChanges : Changed(c, packet, newPacket)}
    /\ step = "publish" => /\ Says(state, suspect \cup {newPacket})
                           /\ Players(state, suspect \cup {newPacket})
    /\ step \in {"tell", "reply"} => /\ Says(gameState, suspect \cup {newPacket})
                                     /\ Players(gameState, suspect \cup {newPacket})
    /\ step = "keep" =>
         /\ Says(gameState, suspect \cup {newPacket})
         /\ PlayersOrNone(gameState, suspect \cup {newPacket}, newPacket)

LEMMA SaysGrows ==
  ASSUME NEW g, NEW S, NEW T, S \subseteq T
  PROVE  /\ Says(g, S) => Says(g, T)
         /\ Players(g, S) => Players(g, T)
         /\ \A p : PlayersOrNone(g, S, p) => PlayersOrNone(g, T, p)
<1>1. Says(g, S) => Says(g, T)
  BY DEF Says
<1>2. Players(g, S) => Players(g, T)
  BY DEF Players
<1>. QED  BY <1>1, <1>2 DEF PlayersOrNone

LEMMA TeamsSaid ==
  ASSUME NEW gs \in GameState, NEW old, NEW new
  PROVE  LET g == WithTeams(gs, old, new)
         IN  /\ \A s \in Side :
                  /\ g.players[s] = new.team[s].penalty
                  /\ g.coach[s] = IF Changed(<<"coach", s>>, old, new) THEN new.team[s].coach
                                  ELSE gs.coach[s]
             /\ g.firstHalf = IF Changed(<<"half">>, old, new) THEN new.firstHalf
                              ELSE gs.firstHalf
             /\ g.phase = gs.phase
BY DEF WithTeams, GameState

LEMMA WhatChanged ==
  ASSUME NEW old, NEW new
  PROVE  /\ \A s \in Side :
              /\ Changed(<<"coach", s>>, old, new) <=> old.team[s].coach # new.team[s].coach
              /\ \A i \in Player : Changed(<<"penalty", s, i>>, old, new)
                                     <=> PenaltyChanged(old, new, s, i)
         /\ Changed(<<"half">>, old, new) <=> old.firstHalf # new.firstHalf
BY DEF Changed

(* Neither a comparison that finds nothing nor one that finds another phase  *)
(* loses where the phase comes from.                                         *)
LEMMA PhaseStays ==
  ASSUME NEW g, NEW old, NEW new, PhaseFrom(g, old), ~PhaseChanged(old, new)
  PROVE  PhaseFrom(g, new)
BY DEF PhaseFrom, PhaseChanged, ToTimeout, FromTimeout

(* What has changed is taken over, and what has not is the same in both.     *)
LEMMA StateSays ==
  ASSUME NEW gs, NEW D, NEW old, NEW new, NEW g, Says(gs, D \cup {old}), gs.phase \in Phase,
         \A s \in Side : g.coach[s] = IF Changed(<<"coach", s>>, old, new)
                                      THEN new.team[s].coach ELSE gs.coach[s],
         g.firstHalf = IF Changed(<<"half">>, old, new) THEN new.firstHalf ELSE gs.firstHalf,
         g.phase = PhaseAfter(gs.phase, old, new)
  PROVE  Says(g, D \cup {new})
<1>1. ASSUME NEW s \in Side  PROVE g.coach[s] \in {p.team[s].coach : p \in D \cup {new}}
  <2>1. CASE old.team[s].coach # new.team[s].coach
    <3>1. g.coach[s] = new.team[s].coach
      BY <2>1, WhatChanged
    <3>. QED  BY <3>1
  <2>2. CASE old.team[s].coach = new.team[s].coach
    <3>1. g.coach[s] = gs.coach[s]
      BY <2>2, WhatChanged
    <3>2. gs.coach[s] \in {p.team[s].coach : p \in D \cup {old}}
      BY DEF Says
    <3>. QED  BY <2>2, <3>1, <3>2
  <2>. QED  BY <2>1, <2>2
<1>2. g.firstHalf \in {p.firstHalf : p \in D \cup {new}}
  <2>1. CASE old.firstHalf # new.firstHalf
    BY <2>1, WhatChanged
  <2>2. CASE old.firstHalf = new.firstHalf
    <3>1. g.firstHalf = gs.firstHalf
      BY <2>2, WhatChanged
    <3>2. gs.firstHalf \in {p.firstHalf : p \in D \cup {old}}
      BY DEF Says
    <3>. QED  BY <2>2, <3>1, <3>2
  <2>. QED  BY <2>1, <2>2
<1>3. \E p \in D \cup {new} : PhaseFrom(g, p)
  <2>1. CASE PhaseChanged(old, new)
    <3>1. PhaseFrom(g, new)
      BY <2>1 DEF PhaseChanged, PhaseAfter, PhaseFrom, ToTimeout
    <3>. QED  BY <3>1
  <2>2. CASE ~PhaseChanged(old, new)
    <3>1. g.phase = gs.phase
      BY <2>2, PhaseAfterType
    <3>2. PICK p \in D \cup {old} : PhaseFrom(gs, p)
      BY DEF Says
    <3>3. PhaseFrom(g, p)
      BY <3>1, <3>2 DEF PhaseFrom
    <3>4. p = old => PhaseFrom(g, new)
      BY <2>2, <3>3, PhaseStays
    <3>. QED  BY <3>3, <3>4
  <2>. QED  BY <2>1, <2>2
<1>. QED  BY <1>1, <1>2, <1>3 DEF Says

(* A packet in which nothing is found changed says what the GameState says.  *)
LEMMA NothingFound ==
  ASSUME TypeOK, PlaceInv, step = "modes",
         \A c \in TeamChanges : ~Changed(c, packet, newPacket),
         ~ModeChanged(packet, newPacket), ~PhaseChanged(packet, newPacket),
         Says(gameState, suspect \cup {packet}),
         PlayersOrNone(gameState, suspect \cup {packet}, packet)
  PROVE  /\ Says(gameState, suspect \cup {newPacket})
         /\ PlayersOrNone(gameState, suspect \cup {newPacket}, newPacket)
<1>1. gameState.phase \in Phase /\ packet \in Packet /\ newPacket \in Packet
  BY DEF TypeOK, GameState
<1>2. /\ \A s \in Side : ~Changed(<<"coach", s>>, packet, newPacket)
      /\ ~Changed(<<"half">>, packet, newPacket)
      /\ \A s \in Side, i \in Player : ~Changed(<<"penalty", s, i>>, packet, newPacket)
  BY DEF TeamChanges
<1>3. gameState.phase = PhaseAfter(gameState.phase, packet, newPacket)
  BY <1>1, PhaseAfterType
<1>4. Says(gameState, suspect \cup {newPacket})
  BY <1>1, <1>2, <1>3, StateSays
<1>5. ASSUME NEW s \in Side  PROVE packet.team[s].penalty = newPacket.team[s].penalty
  <2>1. \A i \in Player : packet.team[s].penalty[i] = newPacket.team[s].penalty[i]
    BY <1>2, WhatChanged DEF PenaltyChanged
  <2>2. /\ packet.team[s].penalty \in [Player -> Penalty]
        /\ newPacket.team[s].penalty \in [Player -> Penalty]
    BY <1>1 DEF Packet, Team
  <2>. QED  BY <2>1, <2>2
<1>6. Players(gameState, suspect \cup {packet}) => Players(gameState, suspect \cup {newPacket})
  BY <1>5 DEF Players
<1>7. ASSUME ~Names(packet), mode \notin Mode  PROVE ~Names(newPacket)
  <2>1. newPacket.mode # "TIMEOUT"
    BY <1>7 DEF Names, PhaseChanged, ToTimeout
  <2>2. newPacket.mode \notin Mode
    BY <1>7, <2>1 DEF Names, ModeChanged
  <2>3. newPacket.state \notin State
    BY <1>7 DEF Names, PhaseChanged
  <2>. QED  BY <2>1, <2>2, <2>3 DEF Names
<1>. QED  BY <1>4, <1>6, <1>7 DEF PlayersOrNone

LEMMA FreshSays ==
  /\ \A D : Says(InitialState, D \cup {FreshPacket})
  /\ Says(InitialState, {FreshPacket}) /\ ~Names(FreshPacket) /\ Unset \notin Mode
<1>1. /\ \A s \in Side : InitialState.coach[s] = FreshPacket.team[s].coach
      /\ InitialState.firstHalf = FreshPacket.firstHalf
  BY DEF InitialState, FreshPacket, FreshTeam
<1>2. FreshPacket.state \notin State /\ FreshPacket.mode = Unset
  BY DEF FreshPacket, State, Unset
<1>3. ~Names(FreshPacket) /\ Unset \notin Mode
  BY <1>2 DEF Names, Unset, Mode
<1>. QED  BY <1>1, <1>2, <1>3 DEF Says, PhaseFrom

LEMMA AgreeStep == TypeOK /\ PlaceInv /\ AgreeInv /\ [Next]_vars => AgreeInv'
<1> SUFFICES ASSUME TypeOK, PlaceInv, AgreeInv, [Next]_vars, ~cut'  PROVE AgreeInv'
  BY DEF AgreeInv
<1> USE DEF AgreeInv
<1>a. ASSUME ~cut, ~reloading, step \in {"teams", "modes"}, NEW told, Dropped(told),
             gameState' = gameState, mode' \in Mode => mode \in Mode
      PROVE  AgreeInv'
  <2>1. /\ suspect \cup {packet} \subseteq suspect' \cup {packet'} /\ packet' = packet
        /\ step' = "recv" /\ ~reloading'
    BY <1>a, DroppedSuspects DEF Dropped, poolVars
  <2>2. Says(gameState, suspect' \cup {packet'})
    BY <1>a, <2>1, SaysGrows
  <2>3. Players(gameState, suspect \cup {packet}) => Players(gameState, suspect' \cup {packet'})
    BY <2>1, SaysGrows
  <2>. QED  BY <1>a, <2>1, <2>2, <2>3 DEF PlayersOrNone
<1>1. ASSUME NEW p \in Packets, Receive(p)  PROVE AgreeInv'
  BY <1>1 DEF Receive, poolVars, PlayersOrNone
<1>2. CASE CompareTeams
  <2>1. /\ step = "teams" /\ cut' = cut /\ reloading' = reloading
        /\ UNCHANGED <<mode, gameState>>
    BY <1>2 DEF CompareTeams, Dropped, poolVars
  <2>2. CASE newPacket.ours /\ ~HasInvalidPenalty(newPacket)
    <3>1. /\ step' = "modes" /\ state' = WithTeams(gameState, packet, newPacket)
          /\ stateChanges' = {c \in TeamChanges : Changed(c, packet, newPacket)}
          /\ UNCHANGED <<packet, newPacket, suspect>>
      BY <1>2, <2>2 DEF CompareTeams
    <3>2. UNCHANGED <<PlayersOrNone(gameState, suspect \cup {packet}, packet)>>
      BY <2>1, <3>1 DEF PlayersOrNone
    <3>. QED  BY <2>1, <3>1, <3>2
  <2>3. CASE ~(newPacket.ours /\ ~HasInvalidPenalty(newPacket))
    <3>1. Dropped(newPacket.ours /\ ScoreChanged(packet, newPacket))
      BY <1>2, <2>3 DEF CompareTeams
    <3>. QED  BY <1>a, <2>1, <3>1
  <2>. QED  BY <2>2, <2>3
<1>3. CASE CompareModes
  <2>1. /\ step = "modes" /\ cut' = cut /\ reloading' = reloading /\ gameState' = gameState
        /\ mode' = IF ModeChanged(packet, newPacket) THEN newPacket.mode ELSE mode
        /\ ~reloading
    BY <1>3 DEF CompareModes, Dropped, poolVars
  <2>2. /\ Says(gameState, suspect \cup {packet})
        /\ PlayersOrNone(gameState, suspect \cup {packet}, packet)
        /\ state = WithTeams(gameState, packet, newPacket)
        /\ stateChanges = {c \in TeamChanges : Changed(c, packet, newPacket)}
    BY <2>1
  <2>3. CASE ModeChanged(packet, newPacket) /\ newPacket.mode \notin Mode
    <3>1. Dropped(ScoreChanged(packet, newPacket))
      BY <1>3, <2>3 DEF CompareModes
    <3>. QED  BY <1>a, <2>1, <2>3, <3>1
  <2>4. CASE ~(ModeChanged(packet, newPacket) /\ newPacket.mode \notin Mode)
    <3>1. /\ state' = [state EXCEPT
               !.mode = IF ModeChanged(packet, newPacket) THEN newPacket.mode ELSE @,
               !.phase = PhaseAfter(@, packet, newPacket)]
          /\ stateChanges' = stateChanges
               \cup {c \in {<<"mode">>} : ModeChanged(packet, newPacket)}
               \cup {c \in {<<"phase">>} : PhaseChanged(packet, newPacket)}
          /\ step' = IF stateChanges' = {} THEN "keep" ELSE "publish"
          /\ UNCHANGED <<packet, newPacket, suspect>>
      BY <1>3, <2>4 DEF CompareModes
    <3>2. CASE stateChanges' = {}
      <4>1. /\ \A c \in TeamChanges : ~Changed(c, packet, newPacket)
            /\ ~ModeChanged(packet, newPacket) /\ ~PhaseChanged(packet, newPacket)
        BY <2>2, <3>1, <3>2
      <4>2. /\ Says(gameState, suspect \cup {newPacket})
            /\ PlayersOrNone(gameState, suspect \cup {newPacket}, newPacket)
        BY <2>1, <2>2, <4>1, NothingFound
      <4>. QED  BY <2>1, <3>1, <3>2, <4>1, <4>2 DEF PlayersOrNone
    <3>3. CASE stateChanges' # {}
      <4>0. gameState \in GameState /\ gameState.phase \in Phase
        BY DEF TypeOK, GameState
      <4>1. /\ state'.players = state.players /\ state'.coach = state.coach
            /\ state'.firstHalf = state.firstHalf
            /\ state'.phase = PhaseAfter(state.phase, packet, newPacket)
        BY <3>1 DEF TypeOK, GameState
      <4>2. /\ \A s \in Side :
                 /\ state.players[s] = newPacket.team[s].penalty
                 /\ state.coach[s] = IF Changed(<<"coach", s>>, packet, newPacket)
                                     THEN newPacket.team[s].coach ELSE gameState.coach[s]
            /\ state.firstHalf = IF Changed(<<"half">>, packet, newPacket)
                                 THEN newPacket.firstHalf ELSE gameState.firstHalf
            /\ state.phase = gameState.phase
        BY <2>2, <4>0, TeamsSaid
      <4>3. Says(state', suspect \cup {newPacket})
        <5>1. /\ \A s \in Side :
                   state'.coach[s] = IF Changed(<<"coach", s>>, packet, newPacket)
                                     THEN newPacket.team[s].coach ELSE gameState.coach[s]
              /\ state'.firstHalf = IF Changed(<<"half">>, packet, newPacket)
                                    THEN newPacket.firstHalf ELSE gameState.firstHalf
              /\ state'.phase = PhaseAfter(gameState.phase, packet, newPacket)
          BY <4>1, <4>2
        <5>. QED  BY <2>2, <4>0, <5>1, StateSays, Zenon
      <4>4. Players(state', suspect \cup {newPacket})
        BY <4>1, <4>2 DEF Players
      <4>. QED  BY <2>1, <3>1, <3>3, <4>3, <4>4
    <3>. QED  BY <3>2, <3>3
  <2>. QED  BY <2>3, <2>4
<1>4. CASE Publish
  BY <1>4 DEF Publish, poolVars, history
<1>5. ASSUME NEW c \in stateChanges, Tell(c)  PROVE AgreeInv'
  BY <1>5 DEF Tell, poolVars
<1>6. ASSUME NEW c \in stateChanges, TellSelf(c)  PROVE AgreeInv'
  BY <1>6 DEF TellSelf, poolVars
<1>7. CASE ReplySent
  BY <1>7 DEF ReplySent, poolVars, history
<1>8. CASE ReplyFails
  <2>1. /\ step = "reply" /\ step' = "recv" /\ cut' = cut /\ reloading' = reloading
        /\ UNCHANGED <<mode, gameState>>
    BY <1>8 DEF ReplyFails, Dropped, poolVars
  <2>2. suspect \cup {newPacket} \subseteq suspect' \cup {packet'}
    BY <1>8, <2>1, DroppedSuspects DEF ReplyFails
  <2>3. /\ Says(gameState, suspect' \cup {packet'})
        /\ Players(gameState, suspect' \cup {packet'})
    BY <2>1, <2>2, SaysGrows
  <2>. QED  BY <2>1, <2>3 DEF PlayersOrNone
<1>9. CASE Keep
  <2>1. /\ step \in {"keep", "tell"} /\ step' = "recv" /\ packet' = newPacket
        /\ cut' = cut /\ reloading' = reloading /\ UNCHANGED <<mode, gameState>>
    BY <1>9 DEF Keep, poolVars
  <2>2. suspect \cup {newPacket} \subseteq suspect' \cup {packet'}
    BY <1>9, KeptSuspects
  <2>3. /\ Says(gameState, suspect \cup {newPacket})
        /\ PlayersOrNone(gameState, suspect \cup {newPacket}, newPacket)
    BY <2>1 DEF PlayersOrNone
  <2>4. /\ Says(gameState, suspect' \cup {packet'})
        /\ PlayersOrNone(gameState, suspect' \cup {packet'}, newPacket)
    BY <2>2, <2>3, SaysGrows
  <2>. QED  BY <2>1, <2>4 DEF PlayersOrNone
<1>10. CASE ButtonMiddleDown \/ ButtonReport
  BY <1>10 DEF ButtonMiddleDown, ButtonReport, threadVars, PlayersOrNone
<1>11. CASE ResetPacket
  <2>1. step = "recv" /\ step' = step /\ mode' = Unset /\ packet' = FreshPacket /\ reloading'
    BY <1>11 DEF ResetPacket, threadVars
  <2>. QED  BY <2>1
<1>12. CASE EmitInitialState
  <2>1. /\ reloading /\ ~reloading' /\ step = "recv" /\ gameState' = InitialState
        /\ UNCHANGED <<step, mode, packet, suspect>> /\ mode = Unset /\ packet = FreshPacket
    BY <1>12 DEF EmitInitialState, threadVars
  <2>2. /\ Says(InitialState, suspect \cup {FreshPacket}) /\ ~Names(FreshPacket)
        /\ Unset \notin Mode
    BY FreshSays
  <2>. QED  BY <2>1, <2>2 DEF PlayersOrNone
<1>13. CASE UNCHANGED vars
  BY <1>13 DEF vars, threadVars, poolVars, history, PlayersOrNone
<1>. QED
  BY <1>1, <1>2, <1>3, <1>4, <1>5, <1>6, <1>7, <1>8, <1>9, <1>10, <1>11, <1>12, <1>13
     DEF Next, Thread

(* The GameState says what the last packet says, whichever packets were      *)
(* dropped, repeated or overtaken by the button (203-555): for any packets.  *)
THEOREM StateAlwaysAgrees == Spec => []StateAgrees
<1>1. Init => AgreeInv
  <2>1. /\ Says(InitialState, {FreshPacket}) /\ ~Names(FreshPacket) /\ Unset \notin Mode
    BY FreshSays
  <2>. QED  BY <2>1 DEF Init, AgreeInv, PlayersOrNone
<1>2. AgreeInv => StateAgrees
  BY DEF AgreeInv, StateAgrees, AtRest, Says, PlayersOrNone, Players, PhaseFrom
<1>3. IInv => TypeOK /\ PlaceInv
  BY DEF IInv
<1>. QED  BY <1>1, <1>2, <1>3, AgreeStep, EventInvariant, PTL DEF Spec
=============================================================================

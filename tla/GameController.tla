--------------------------- MODULE GameController ---------------------------
(***************************************************************************)
(* The GameController reactor.  A thread of its own receives the packets   *)
(* of the match's game controller, compares each with the last one it      *)
(* kept, publishes a new GameState, tells the listeners what has changed   *)
(* and then keeps the packet.  The middle button and a reload of the       *)
(* configuration change the same members from the threads of the pool.     *)
(***************************************************************************)
EXTENDS Integers, Sequences

CONSTANTS
  PlayersPerTeam, (* a packet's, never more than there are in a Team        *)
  Active,         (* ACTIVE_PLAYERS_PER_TEAM                                *)
  PLAYER_ID,
  Coach,          (* the messages of a coach                                *)
  Packets,        (* what the game controller may send                      *)
  MaxReloads      (* bound on the reloads of the configuration              *)

Player == 1..PlayersPerTeam
Side == {"own", "opponent"}
State == {"INITIAL", "READY", "SET", "PLAYING", "FINISHED"}
Mode == {"NORMAL", "PENALTY_SHOOTOUT", "OVERTIME"}
Unset == "unset"     \* the value -1 cast to an enumeration
Invalid == "invalid" \* a byte that no enumerator of the packet stands for

(* The penalty states with a meaning of their own here, one that stands for  *)
(* the other reasons, and what getPenaltyReason throws for.                  *)
Penalty == {"UNPENALISED", "SUBSTITUTE", "ILLEGAL_ATTACK", Invalid}

Team == [colour : {"CYAN", "MAGENTA", Unset}, score : Nat, coach : Coach,
         penalty : [Player -> Penalty]]

(* A packet; `ours' tells whether just one of its two teams is TEAM_ID.  Of  *)
(* a coach's message, "none" is the one whose bytes are all 0.  Times other  *)
(* than dropInTime are only copied and are left out.                         *)
Packet == [ours : BOOLEAN, state : State \cup {Unset, Invalid},
           mode : Mode \cup {"TIMEOUT", Unset, Invalid}, firstHalf : BOOLEAN,
           kickOffTeam : {"CYAN", "MAGENTA", Unset},
           dropInTeam : {"CYAN", "MAGENTA", Unset}, dropInTime : Int,
           team : [Side -> Team]]

ASSUME SquadAssumption ==
  /\ PlayersPerTeam \in Nat /\ Active \in Nat /\ MaxReloads \in Nat
  /\ PLAYER_ID \in Player
  /\ "none" \in Coach
ASSUME PacketAssumption ==
  Packets \subseteq {p \in Packet : p.state # Unset /\ p.mode # Unset}

Phase == State \cup {"TIMEOUT"}
GameState == [phase : Phase, mode : Mode, firstHalf : BOOLEAN,
              ourKickOff : BOOLEAN, kickedOutByUs : BOOLEAN,
              score : [Side -> Nat], coach : [Side -> Coach],
              players : [Side -> [Player -> Penalty] \cup {<<>>}]]

(* What a listener puts together from the events it is sent.                 *)
Heard == [self : {"nothing", "penalised", "unpenalised"}, phase : Phase,
          byButton : BOOLEAN, score : [Side -> Nat],
          penalty : [Side -> [Player -> Penalty]]]

VARIABLES
  packet,         (* the last packet kept                                   *)
  mode,           (* the last mode reported, a member of its own            *)
  selfPenalised,
  gameState,      (* the last GameState emitted, what With<GameState> gives *)
  step,           (* where the receiving thread is                          *)
  newPacket,      (* its buffer                                             *)
  state,          (* process: the copy of the GameState being updated       *)
  stateChanges,   (* process: the changes not yet told to the listeners     *)
  reloading,      (* setup has reset the packet and not yet the GameState   *)
  reloads,
  pressed,        (* what the handler of the button has yet to report       *)
  \* What follows is history, read by the properties only.
  heard,          (* what the events add up to for a listener               *)
  suspect,        (* packets of which only some changes were told           *)
  cut,            (* a reload and a packet have overlapped                  *)
  selfCut,        (* our last penalty was only half reported, or the button *)
                  (* and a penalty have overlapped                          *)
  afterTimeout    (* the packet kept before the last was one of a timeout   *)

poolVars == <<reloading, reloads, pressed>>
threadVars == <<step, newPacket, state, stateChanges>>
history == <<heard, suspect, cut, selfCut, afterTimeout>>
vars == <<packet, mode, selfPenalised, gameState, threadVars, poolVars, history>>

(***************************************************************************)
(* What setup writes.  The comparison i <= ACTIVE_PLAYERS_PER_TEAM counts  *)
(* from 0: one player more than active is unpenalised.                     *)
(***************************************************************************)
FreshTeam == [colour |-> Unset, score |-> 0, coach |-> "none",
              penalty |-> [i \in Player |->
                 IF i - 1 <= Active THEN "UNPENALISED" ELSE "SUBSTITUTE"]]

FreshPacket == [ours |-> TRUE, state |-> Unset, mode |-> Unset,
                firstHalf |-> TRUE, kickOffTeam |-> Unset, dropInTeam |-> Unset,
                dropInTime |-> -1, team |-> [s \in Side |-> FreshTeam]]

InitialState == [phase |-> "INITIAL", mode |-> "NORMAL", firstHalf |-> TRUE,
                 ourKickOff |-> FALSE, kickedOutByUs |-> FALSE,
                 score |-> [s \in Side |-> 0], coach |-> [s \in Side |-> "none"],
                 players |-> [s \in Side |-> <<>>]]

(* The model starts after the first setup, with the thread before recv.      *)
Init ==
  /\ packet = FreshPacket
  /\ mode = Unset
  /\ selfPenalised = TRUE
  /\ gameState = InitialState
  /\ step = "recv"
  /\ newPacket = FreshPacket
  /\ state = InitialState
  /\ stateChanges = {}
  /\ reloading = FALSE
  /\ reloads = 0
  /\ pressed = "nothing"
  /\ heard = [self |-> "nothing", phase |-> "INITIAL", byButton |-> FALSE,
              score |-> [s \in Side |-> 0],
              penalty |-> [s \in Side |-> FreshTeam.penalty]]
  /\ suspect = {}
  /\ cut = FALSE
  /\ selfCut = FALSE
  /\ afterTimeout = FALSE
-----------------------------------------------------------------------------
(***************************************************************************)
(* The comparison.  A change is named by what it is about.  The code queues*)
(* a closure for each, which emits one event, and runs them in the order   *)
(* of the comparisons: by kind, by player, ours before theirs.             *)
(***************************************************************************)
Kinds == <<"goal", "penalty", "coach", "half", "out", "kickoff", "colour", "mode",
           "phase">>

TeamChanges ==
  ({"goal", "coach"} \X Side) \cup ({"penalty"} \X Side \X Player)
    \cup { <<"half">>, <<"out">>, <<"kickoff">>, <<"colour">> }
Change == TeamChanges \cup { <<"mode">>, <<"phase">> }

Rank(c) ==
  LET kind == CHOOSE k \in DOMAIN Kinds : Kinds[k] = c[1]
      player == IF c[1] = "penalty" THEN c[3] ELSE 0
      side == IF Len(c) > 1 /\ c[2] = "opponent" THEN 1 ELSE 0
  IN 2 * ((PlayersPerTeam + 1) * kind + player) + side

Scored(old, new, s) == old.team[s].score > new.team[s].score

(* Mutant: only looks whether there is a penalty, not which.                 *)
PenaltyChangedAtAll(old, new, s, i) ==
  (old.team[s].penalty[i] = "UNPENALISED") # (new.team[s].penalty[i] = "UNPENALISED")

PenaltyChanged(old, new, s, i) == old.team[s].penalty[i] # new.team[s].penalty[i]

BallOut(old, new) ==
  \/ /\ new.dropInTime # -1
     /\ (new.dropInTime < old.dropInTime) = (old.dropInTime # -1)
  \/ new.dropInTeam # old.dropInTeam

Changed(c, old, new) ==
  \/ c[1] = "goal" /\ Scored(old, new, c[2])
  \/ c[1] = "penalty" /\ PenaltyChanged(old, new, c[2], c[3])
  \/ c[1] = "coach" /\ old.team[c[2]].coach # new.team[c[2]].coach
  \/ c[1] = "half" /\ old.firstHalf # new.firstHalf
  \/ c[1] = "out" /\ BallOut(old, new)
  \/ c[1] = "kickoff" /\ old.kickOffTeam # new.kickOffTeam
  \/ c[1] = "colour" /\ old.team["own"].colour # new.team["own"].colour

(* The GameState after the comparison of the teams: fields that have not     *)
(* changed are left, the players are built anew.                             *)
WithTeams(gs, old, new) ==
  LET colour == new.team["own"].colour
      Kept(c, now, was) == IF Changed(c, old, new) THEN now ELSE was
  IN [gs EXCEPT
        !.score = [s \in Side |-> Kept(<<"goal", s>>, new.team[s].score, @[s])],
        !.players = [s \in Side |-> new.team[s].penalty],
        !.coach = [s \in Side |-> Kept(<<"coach", s>>, new.team[s].coach, @[s])],
        !.firstHalf = Kept(<<"half">>, new.firstHalf, @),
        !.kickedOutByUs = Kept(<<"out">>, new.dropInTeam = colour, @),
        !.ourKickOff = Kept(<<"kickoff">>, new.kickOffTeam = colour, @)]

ScoreChanged(old, new) == \E s \in Side : old.team[s].score # new.team[s].score

(* Mutant: compares with the last packet, as the other fields do.            *)
ModeChangedInPacket(old, new) ==
  new.mode # old.mode /\ old.mode # "TIMEOUT" /\ new.mode # "TIMEOUT"

(* Modes other than timeouts, compared with the member `mode'.               *)
ModeChanged(old, new) ==
  new.mode # mode /\ old.mode # "TIMEOUT" /\ new.mode # "TIMEOUT"

ToTimeout(old, new) == old.mode # "TIMEOUT" /\ new.mode = "TIMEOUT"

(* Mutant: the state is looked at when it differs, and only then.            *)
FromTimeoutNever(old, new) == FALSE

FromTimeout(old, new) == old.mode = "TIMEOUT" /\ new.mode # "TIMEOUT"

(* The state of the game is looked at again when it differs or a timeout is  *)
(* over.  The switch has no default: an invalid state changes nothing.       *)
PhaseAfter(phase, old, new) ==
  IF ToTimeout(old, new) THEN "TIMEOUT"
  ELSE IF (old.state # new.state \/ FromTimeout(old, new)) /\ new.state \in State
       THEN new.state ELSE phase

PhaseChanged(old, new) ==
  \/ ToTimeout(old, new)
  \/ (old.state # new.state \/ FromTimeout(old, new)) /\ new.state \in State
-----------------------------------------------------------------------------
(***************************************************************************)
(* The receiving thread.  Packets are lost, repeated or late at the will   *)
(* of the network, and a failed recv leaves the buffer as it was: all of   *)
(* them are covered by receiving any packet at any time.                   *)
(***************************************************************************)
Receive(p) ==
  /\ step = "recv"
  /\ step' = "teams"
  /\ newPacket' = p
  /\ cut' = (cut \/ reloading)
  /\ UNCHANGED <<packet, mode, selfPenalised, gameState, state, stateChanges,
                 poolVars, heard, suspect, selfCut, afterTimeout>>

(* The locals of process are gone.                                           *)
EndProcess == state' = InitialState /\ stateChanges' = {}

(* An exception: run() logs it and does not keep the packet.  `told' says    *)
(* whether a listener has been told of something in it.                      *)
Dropped(told) ==
  /\ step' = "recv"
  /\ EndProcess
  /\ suspect' = IF ~told THEN suspect
                ELSE IF suspect \subseteq {newPacket} THEN {newPacket} ELSE Packets
  /\ UNCHANGED <<packet, newPacket, poolVars, cut, afterTimeout>>

HasInvalidPenalty(p) == \E s \in Side, i \in Player : p.team[s].penalty[i] = Invalid

(* process, down to the colour of the team: scores, penalties, coaches, half,*)
(* ball out, kick-off.  The event Score is emitted at once, before any       *)
(* exception for a penalty.                                                  *)
CompareTeams ==
  /\ step = "teams"
  /\ heard' = IF newPacket.ours /\ ScoreChanged(packet, newPacket)
              THEN [heard EXCEPT !.score = [s \in Side |-> newPacket.team[s].score]]
              ELSE heard
  /\ UNCHANGED <<mode, selfPenalised, gameState, selfCut>>
  /\ IF newPacket.ours /\ ~HasInvalidPenalty(newPacket)
     THEN /\ step' = "modes"
          /\ state' = WithTeams(gameState, packet, newPacket)
          /\ stateChanges' = {c \in TeamChanges : Changed(c, packet, newPacket)}
          /\ UNCHANGED <<packet, newPacket, poolVars, suspect, cut, afterTimeout>>
     ELSE Dropped(newPacket.ours /\ ScoreChanged(packet, newPacket))

(* process, the rest of the comparison.  The member `mode' is assigned before*)
(* an invalid mode is found out.                                             *)
CompareModes ==
  LET modeChanged == ModeChanged(packet, newPacket)
      phaseChanged == PhaseChanged(packet, newPacket)
      changes == stateChanges
                   \cup {c \in {<<"mode">>} : modeChanged}
                   \cup {c \in {<<"phase">>} : phaseChanged}
  IN /\ step = "modes"
     /\ mode' = IF modeChanged THEN newPacket.mode ELSE mode
     /\ UNCHANGED <<selfPenalised, gameState, heard, selfCut>>
     /\ IF modeChanged /\ newPacket.mode \notin Mode
        THEN Dropped(ScoreChanged(packet, newPacket))
        ELSE /\ state' = [state EXCEPT
                  !.mode = IF modeChanged THEN newPacket.mode ELSE @,
                  !.phase = PhaseAfter(@, packet, newPacket)]
             /\ stateChanges' = changes
             /\ step' = IF changes = {} THEN "keep" ELSE "publish"
             /\ UNCHANGED <<packet, newPacket, poolVars, suspect, cut, afterTimeout>>

Publish ==
  /\ step = "publish"
  /\ step' = "tell"
  /\ gameState' = state
  /\ UNCHANGED <<packet, mode, selfPenalised, newPacket, state, stateChanges,
                 poolVars, history>>

(* The events on which nothing in the properties depends leave no trace.     *)
Told(c) ==
  [heard EXCEPT
     !.penalty = IF c[1] = "penalty"
                 THEN [@ EXCEPT ![c[2]][c[3]] = newPacket.team[c[2]].penalty[c[3]]]
                 ELSE @,
     !.phase = IF c[1] = "phase" THEN state.phase ELSE @,
     !.byButton = @ /\ c[1] # "phase"]

AboutSelf(c) == c = <<"penalty", "own", PLAYER_ID>>
SelfFree(p) == p.team["own"].penalty[PLAYER_ID] = "UNPENALISED"

(* The change told next.                                                     *)
IsNext(c) == \A d \in stateChanges : Rank(c) <= Rank(d)

Tell(c) ==
  /\ step = "tell"
  /\ IsNext(c) /\ ~AboutSelf(c)
  /\ heard' = Told(c)
  /\ stateChanges' = stateChanges \ {c}
  /\ UNCHANGED <<packet, mode, selfPenalised, gameState, step, newPacket, state,
                 poolVars, suspect, cut, selfCut, afterTimeout>>

(* Our own penalty: the event, a reply over the socket, the member.          *)
TellSelf(c) ==
  /\ step = "tell"
  /\ IsNext(c) /\ AboutSelf(c)
  /\ heard' = [heard EXCEPT
                 !.self = IF SelfFree(newPacket) THEN "unpenalised" ELSE "penalised"]
  /\ stateChanges' = stateChanges \ {c}
  /\ step' = "reply"
  /\ selfCut' = (pressed # "nothing")
  /\ UNCHANGED <<packet, mode, selfPenalised, gameState, newPacket, state,
                 poolVars, suspect, cut, afterTimeout>>

(* Mutant: the member is set and never reset.                                *)
ReplySentNoReset ==
  /\ step = "reply"
  /\ selfPenalised' = (selfPenalised \/ ~SelfFree(newPacket))
  /\ step' = "tell"
  /\ UNCHANGED <<packet, mode, gameState, newPacket, state, stateChanges, poolVars,
                 history>>

ReplySent ==
  /\ step = "reply"
  /\ selfPenalised' = ~SelfFree(newPacket)
  /\ step' = "tell"
  /\ UNCHANGED <<packet, mode, gameState, newPacket, state, stateChanges, poolVars,
                 history>>

(* sendto fails: sendReplyPacket throws out of the loop over the changes.    *)
ReplyFails ==
  /\ step = "reply"
  /\ Dropped(TRUE)
  /\ selfCut' = TRUE
  /\ UNCHANGED <<mode, selfPenalised, gameState, heard>>

Keep ==
  /\ \/ step = "keep"
     \/ step = "tell" /\ stateChanges = {}
  /\ step' = "recv"
  /\ packet' = newPacket
  /\ EndProcess
  /\ suspect' = IF suspect \subseteq {newPacket} THEN {} ELSE suspect
  /\ afterTimeout' = (packet.mode = "TIMEOUT")
  /\ UNCHANGED <<mode, selfPenalised, gameState, newPacket, poolVars, heard, cut,
                 selfCut>>
-----------------------------------------------------------------------------
(***************************************************************************)
(* The middle button, on a thread of the pool: the member, then the events.*)
(* Reading and writing the member are one step: if the receiving thread    *)
(* writes it in between, the outcome is that of one of the two orders.     *)
(* Presses come one at a time.                                             *)
(***************************************************************************)
ButtonMiddleDown ==
  /\ pressed = "nothing"
  /\ selfPenalised' = ~selfPenalised
  /\ pressed' = IF selfPenalised THEN "unpenalised" ELSE "penalised"
  /\ selfCut' = (step = "reply")
  /\ UNCHANGED <<packet, mode, gameState, threadVars, reloading, reloads, heard,
                 suspect, cut, afterTimeout>>

ButtonReport ==
  /\ pressed # "nothing"
  /\ pressed' = "nothing"
  /\ heard' = IF pressed = "unpenalised"
              THEN [heard EXCEPT !.self = "unpenalised", !.phase = "PLAYING",
                                 !.byButton = TRUE]
              ELSE [heard EXCEPT !.self = "penalised"]
  /\ UNCHANGED <<packet, mode, selfPenalised, gameState, threadVars, reloading,
                 reloads, suspect, cut, selfCut, afterTimeout>>

(* setup runs again on a thread of the pool: first the members, then the     *)
(* GameState.  One reload at a time.                                         *)
ResetPacket ==
  /\ ~reloading /\ reloads < MaxReloads
  /\ reloading' = TRUE
  /\ reloads' = reloads + 1
  /\ mode' = Unset
  /\ packet' = FreshPacket
  /\ cut' = (cut \/ step # "recv")
  /\ UNCHANGED <<selfPenalised, gameState, threadVars, pressed, heard, suspect,
                 selfCut, afterTimeout>>

EmitInitialState ==
  /\ reloading
  /\ reloading' = FALSE
  /\ gameState' = InitialState
  /\ cut' = (cut \/ step # "recv")
  /\ UNCHANGED <<packet, mode, selfPenalised, threadVars, reloads, pressed, heard,
                 suspect, selfCut, afterTimeout>>

Thread ==
  \/ \E p \in Packets : Receive(p)
  \/ CompareTeams \/ CompareModes \/ Publish
  \/ \E c \in stateChanges : Tell(c) \/ TellSelf(c)
  \/ ReplySent \/ ReplyFails \/ Keep

Next ==
  \/ Thread
  \/ ButtonMiddleDown \/ ButtonReport
  \/ ResetPacket \/ EmitInitialState

Spec == Init /\ [][Next]_vars
-----------------------------------------------------------------------------
TypeOK ==
  /\ packet \in Packet /\ newPacket \in Packet
  /\ mode \in Mode \cup {Unset, Invalid}
  /\ selfPenalised \in BOOLEAN
  /\ gameState \in GameState /\ state \in GameState
  /\ step \in {"recv", "teams", "modes", "publish", "tell", "reply", "keep"}
  /\ stateChanges \subseteq Change
  /\ reloading \in BOOLEAN /\ reloads \in 0..MaxReloads
  /\ pressed \in {"nothing", "penalised", "unpenalised"}
  /\ heard \in Heard
  /\ suspect \subseteq Packets
  /\ cut \in BOOLEAN /\ selfCut \in BOOLEAN /\ afterTimeout \in BOOLEAN

(* Between two packets and outside a reload.                                 *)
AtRest == step = "recv" /\ ~reloading

(* The events of the packets add up (203-555): a listener that follows the   *)
(* penalties of the others, the score and the phase of the game by events    *)
(* alone has what is in the last packet kept, whatever was lost on the way.  *)
(* A packet that raised an exception after some of its events is made good   *)
(* when it is received again.  A reload starts the comparison afresh without *)
(* an event, and the button reports a phase that is not the game's.          *)
EventsAddUp ==
  AtRest /\ suspect = {} /\ reloads = 0 =>
    /\ \A s \in Side : heard.score[s] = packet.team[s].score
    /\ \A s \in Side, i \in Player :
         <<s, i>> # <<"own", PLAYER_ID>> =>
           heard.penalty[s][i] = packet.team[s].penalty[i]
    /\ ~heard.byButton => heard.phase = gameState.phase

(* What With<GameState> delivers is what the last packet says: players,      *)
(* coaches, half, and the phase outside timeouts, also after a timeout over  *)
(* which the state of the game did not change (473), and also after a reload *)
(* unless a packet was in hand meanwhile: then the GameState that setup      *)
(* publishes can overwrite a later one, or the packet the one setup reset.   *)
(* A packet that gives neither a mode nor a state changes so little that the *)
(* GameState of the start may be left.                                       *)
Names(p) == p.mode \in Mode \cup {"TIMEOUT"} \/ p.state \in State

StateAgrees ==
  AtRest /\ suspect = {} /\ ~cut /\ Names(packet) =>
    /\ \A s \in Side : /\ gameState.players[s] = packet.team[s].penalty
                       /\ gameState.coach[s] = packet.team[s].coach
    /\ gameState.firstHalf = packet.firstHalf
    /\ packet.mode # "TIMEOUT" /\ packet.state \in State =>
         gameState.phase = packet.state

(* A change of mode is reported, at the latest with the second packet after  *)
(* a timeout (429-431), and an invalid mode that was remembered before the   *)
(* exception (433, 456) does not stop the next valid one.                    *)
ModeSettles ==
  AtRest /\ ~cut =>
    /\ mode \in Mode => gameState.mode = mode
    /\ suspect = {} /\ ~afterTimeout /\ packet.mode \in Mode =>
         gameState.mode = packet.mode

(* selfPenalised is what listeners last heard of our own penalty, so the     *)
(* next press of the middle button (143-155) undoes it, unless the reply to  *)
(* a penalty failed or the button and a penalty overlapped; the next press   *)
(* or the next penalty repairs that.                                         *)
SelfAgrees ==
  step # "reply" /\ pressed = "nothing" /\ ~selfCut /\ heard.self # "nothing" =>
    selfPenalised = (heard.self = "penalised")

(* "we scored! :D" and "they scored :( boo" (225, 235): a goal is reported   *)
(* when a score has risen.                                                   *)
GoalMeansRise ==
  \A s \in Side :
    <<"goal", s>> \in stateChanges /\ reloads = 0 =>
      newPacket.team[s].score > packet.team[s].score
=============================================================================

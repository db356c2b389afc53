---------------------------- MODULE SkillsProofs ----------------------------
(***************************************************************************)
(* Theorems about the scripted skills, for any priorities, commands,       *)
(* scenes and bounds: types; a fall is answered where the fallen check is  *)
(* not interrupted; whoever has the body has a script to play.             *)
(***************************************************************************)
EXTENDS Skills, TLAPS

(* Appending a request of a priority.                                        *)
LEMMA AskAppends ==
  ASSUME updates \in Seq(Skill \X Nat), Len(updates) <= MaxUpdates,
         NEW s \in Skill, NEW value \in Nat, Ask(s, value)
  PROVE  /\ updates' \in Seq(Skill \X Nat) /\ Len(updates') <= MaxUpdates
         /\ Len(updates') = Len(updates) + 1
         /\ updates'[Len(updates')] = <<s, value>>
         /\ \A i \in 1..Len(updates) : updates'[i] = updates[i]
BY SkillAssumption DEF Ask, SkillAssumption

(* The same for a skill, as most actions ask.                                *)
LEMMA Asked ==
  ASSUME TypeOK, NEW s \in Skill, NEW value \in Nat, Ask(s, value)
  PROVE  /\ Len(updates') = Len(updates) + 1 /\ Len(updates) \in Nat
         /\ Len(updates') \in 1..Len(updates')
         /\ updates'[Len(updates')] = <<s, value>>
         /\ \A i \in 1..Len(updates) : updates'[i] = updates[i]
<1>1. updates \in Seq(Skill \X Nat) /\ Len(updates) <= MaxUpdates
  BY DEF TypeOK
<1>2. Len(updates) \in Nat
  BY <1>1
<1>3. /\ Len(updates') = Len(updates) + 1 /\ updates'[Len(updates')] = <<s, value>>
      /\ \A i \in 1..Len(updates) : updates'[i] = updates[i]
  BY <1>1, AskAppends
<1>. QED  BY <1>2, <1>3

(* The next request is taken from the front.                                 *)
LEMMA TakeFirst ==
  ASSUME updates \in Seq(Skill \X Nat), updates # <<>>, updates' = Tail(updates)
  PROVE  /\ updates' \in Seq(Skill \X Nat) /\ Len(updates') = Len(updates) - 1
         /\ updates[1] \in Skill \X Nat
         /\ \A i \in 1..Len(updates') : updates'[i] = updates[i + 1]
         /\ Len(updates) \in Nat \ {0}
OBVIOUS

(* Letters are taken and emitted one at a time.                              *)
LEMMA HandledCounts ==
  ASSUME mail \in [Letter -> Nat], NEW letter \in Letter, mail[letter] > 0,
         NEW letters, mail' = Handled(letter, letters)
  PROVE  /\ mail' \in [Letter -> Nat]
         /\ \A m \in Letter : m \in letters => mail'[m] > 0
         /\ \A m \in Letter : m # letter => mail'[m] >= mail[m]
         /\ \A m \in Letter : m \notin letters => mail'[m] <= mail[m]
BY DEF Handled

LEMMA PostCounts ==
  ASSUME mail \in [Letter -> Nat], NEW letters, mail' = Post(letters)
  PROVE  /\ mail' \in [Letter -> Nat]
         /\ \A m \in Letter : m \in letters => mail'[m] > 0
         /\ \A m \in Letter : mail'[m] >= mail[m]
         /\ \A m \in Letter : m \notin letters => mail'[m] = mail[m]
BY DEF Post

(* What is left of a script when servos have run out.                        *)
LEMMA Tails == \A a, b : Tail(<<a>>) = << >> /\ Tail(<<a, b>>) = <<b>>
OBVIOUS

LEMMA Rests ==
  ASSUME script \in Endings \cup {<<FALSE>>, <<>>}, script # <<>>
  PROVE  /\ Tail(script) \in Endings \cup {<<FALSE>>, <<>>}
         /\ script[1] \in BOOLEAN
         /\ Tail(script) = <<>> => script \in { <<TRUE>>, <<FALSE>> }
         /\ Tail(script) = <<FALSE>> => script[1] = TRUE
<1>1. PICK a, b \in BOOLEAN : \/ script = <<a>>
                              \/ (script = <<a, b>>) /\ (b = FALSE => a = TRUE)
  BY DEF Endings
<1>2. CASE script = <<a>>
  <2>1. Tail(script) = <<>> /\ script[1] = a
    BY <1>2, Tails
  <2>2. script \in { <<TRUE>>, <<FALSE>> }
    <3>1. <<a>> \in { <<TRUE>>, <<FALSE>> }
      OBVIOUS
    <3>. QED  BY <1>2, <3>1, Zenon
  <2>3. script[1] \in BOOLEAN
    BY <2>1, Zenon
  <2>4. Tail(script) # <<FALSE>>
    <3>1. << >> # <<FALSE>>
      OBVIOUS
    <3>. QED  BY <2>1, <3>1, Zenon
  <2>. QED  BY <2>1, <2>2, <2>3, <2>4, Zenon
<1>3. CASE script = <<a, b>> /\ (b = FALSE => a = TRUE)
  <2>1. Tail(script) = <<b>> /\ script[1] = a
    BY <1>3, Tails
  <2>2. <<b>> # <<>> /\ (<<b>> = <<FALSE>> => b = FALSE)
    OBVIOUS
  <2>3. <<b>> \in {<<TRUE>>, <<FALSE>>}
    OBVIOUS
  <2>4. Tail(script) \in Endings \cup {<<FALSE>>, <<>>}
    BY <2>1, <2>3 DEF Endings
  <2>5. script[1] \in BOOLEAN
    BY <2>1, Zenon
  <2>6. Tail(script) = <<FALSE>> => script[1] = TRUE
    BY <1>3, <2>1, <2>2, Zenon
  <2>7. Tail(script) # <<>>
    BY <2>1, <2>2, Zenon
  <2>. QED  BY <2>4, <2>5, <2>6, <2>7, Zenon
<1>. QED  BY <1>1, <1>2, <1>3
-----------------------------------------------------------------------------
LEMMA TypesInit == Init => TypeOK
<1>. SUFFICES ASSUME Init  PROVE TypeOK
  OBVIOUS
<1>1. priority \in [Skill -> Nat] /\ holder \in Skill
  BY SkillAssumption DEF Init, SkillAssumption, Skill
<1>2. updates \in Seq(Skill \X Nat) /\ Len(updates) <= MaxUpdates
  BY SkillAssumption DEF Init, SkillAssumption
<1>3. mail \in [Letter -> Nat]
  BY DEF Init
<1>. QED  BY <1>1, <1>2, <1>3 DEF Init, TypeOK

LEMMA TypesNext == TypeOK /\ [Next]_vars => TypeOK'
<1>. SUFFICES ASSUME TypeOK, [Next]_vars  PROVE TypeOK'
  OBVIOUS
<1>. USE SkillAssumption
<1>1. CASE UpdatePriority
  <2>1. /\ updates' \in Seq(Skill \X Nat) /\ Len(updates') <= MaxUpdates
        /\ updates[1] \in Skill \X Nat
    BY <1>1, TakeFirst DEF UpdatePriority, TypeOK, SkillAssumption
  <2>2. priority' \in [Skill -> Nat]
    BY <1>1, <2>1 DEF UpdatePriority, TypeOK
  <2>3. PICK next \in Skill :
          /\ holder' = next
          /\ IF next = holder
             THEN UNCHANGED <<script, mail>>
             ELSE script' = <<>> /\ mail' = Post({<<"kill", holder>>, <<"execute", next>>})
    BY <1>1 DEF UpdatePriority, TypeOK, Foremost
  <2>4. mail' \in [Letter -> Nat]
    BY <2>3, PostCounts DEF TypeOK
  <2>. QED  BY <1>1, <2>1, <2>2, <2>3, <2>4 DEF UpdatePriority, TypeOK, getupVars, commandVars
<1>2. ASSUME NEW s \in Scripted, CommandFilter(s)  PROVE TypeOK'
  <2>1. mail' \in [Letter -> Nat]
    BY <1>2, HandledCounts DEF CommandFilter, TypeOK, Letter, Kind
  <2>. QED  BY <1>2, <2>1 DEF CommandFilter, TypeOK, getupVars, commandVars
<1>3. ASSUME NEW s \in Scripted, Finish(s)  PROVE TypeOK'
  <2>1. mail' \in [Letter -> Nat]
    BY <1>3, HandledCounts DEF Finish, TypeOK, Letter, Kind
  <2>2. updates' \in Seq(Skill \X Nat) /\ Len(updates') <= MaxUpdates
    BY <1>3, AskAppends DEF Finish, TypeOK, Scripted
  <2>. QED  BY <1>3, <2>1, <2>2 DEF Finish, TypeOK, getupVars, commandVars, controllerVars
<1>4. CASE ExecuteGetup
  <2>1. mail' \in [Letter -> Nat]
    BY <1>4, HandledCounts DEF ExecuteGetup, TypeOK, Letter, Kind, Scripted, Skill
  <2>2. updates' \in Seq(Skill \X Nat) /\ Len(updates') <= MaxUpdates
    BY <1>4, AskAppends DEF ExecuteGetup, TypeOK, Skill, SkillAssumption
  <2>. QED  BY <1>4, <2>1, <2>2 DEF ExecuteGetup, TypeOK, commandVars, controllerVars
<1>5. CASE KillGetup
  <2>1. mail' \in [Letter -> Nat]
    BY <1>5, HandledCounts DEF KillGetup, TypeOK, Letter, Kind, Scripted, Skill
  <2>2. updates' \in Seq(Skill \X Nat) /\ Len(updates') <= MaxUpdates
    BY <1>5, AskAppends DEF KillGetup, TypeOK, Skill
  <2>. QED  BY <1>5, <2>1, <2>2 DEF KillGetup, TypeOK, commandVars, controllerVars
<1>6. CASE Falling
  <2>1. mail' \in [Letter -> Nat]
    BY <1>6, HandledCounts DEF Falling, TypeOK, Letter, Kind, Scripted, Skill
  <2>. QED  BY <1>6, <2>1 DEF Falling, TypeOK, getupVars, commandVars, controllerVars
<1>7. CASE KillFalling
  <2>1. mail' \in [Letter -> Nat]
    BY <1>7, HandledCounts DEF KillFalling, TypeOK, Letter, Kind, Scripted, Skill
  <2>2. updates' \in Seq(Skill \X Nat) /\ Len(updates') <= MaxUpdates
    BY <1>7, AskAppends DEF KillFalling, TypeOK, Skill
  <2>. QED  BY <1>7, <2>1, <2>2 DEF KillFalling, TypeOK, getupVars, commandVars, controllerVars
<1>8. CASE ExecuteKick
  <2>1. mail' \in [Letter -> Nat]
    BY <1>8, HandledCounts DEF ExecuteKick, TypeOK, Letter, Kind, Scripted, Skill
  <2>2. updates' \in Seq(Skill \X Nat) /\ Len(updates') <= MaxUpdates
    BY <1>8, AskAppends DEF ExecuteKick, TypeOK, Skill, SkillAssumption
  <2>. QED  BY <1>8, <2>1, <2>2 DEF ExecuteKick, TypeOK, getupVars, commandVars, controllerVars
<1>9. CASE ExecuteDive
  <2>1. mail' \in [Letter -> Nat]
    BY <1>9, HandledCounts DEF ExecuteDive, TypeOK, Letter, Kind, Scripted, Skill
  <2>2. updates' \in Seq(Skill \X Nat) /\ Len(updates') <= MaxUpdates
    BY <1>9, AskAppends DEF ExecuteDive, TypeOK, Skill, SkillAssumption
  <2>. QED  BY <1>9, <2>1, <2>2 DEF ExecuteDive, TypeOK, getupVars, commandVars, controllerVars
<1>10. CASE DisableFallenCheck
  BY <1>10 DEF DisableFallenCheck, TypeOK, commandVars, controllerVars
<1>11. CASE ServosRunOut
  <2>1. script' \in Endings \cup {<<FALSE>>, <<>>}
    BY <1>11, Rests DEF ServosRunOut, TypeOK
  <2>2. mail' \in [Letter -> Nat]
    BY <1>11, PostCounts DEF ServosRunOut, TypeOK
  <2>3. posture' \in {"up", "tilting", "down"}
    BY <1>11 DEF ServosRunOut, TypeOK
  <2>. QED  BY <1>11, <2>1, <2>2, <2>3 DEF ServosRunOut, TypeOK, getupVars, commandVars
<1>12. CASE FallenCheck
  <2>1. updates' \in Seq(Skill \X Nat) /\ Len(updates') <= MaxUpdates
    BY <1>12, AskAppends DEF FallenCheck, TypeOK, Skill, SkillAssumption
  <2>. QED  BY <1>12, <2>1 DEF FallenCheck, TypeOK, commandVars, controllerVars
<1>13. CASE Falls
  <2>1. updates' \in Seq(Skill \X Nat) /\ Len(updates') <= MaxUpdates
    BY <1>13, AskAppends DEF Falls, TypeOK, Skill, SkillAssumption
  <2>. QED  BY <1>13, <2>1 DEF Falls, TypeOK, getupVars, commandVars, controllerVars
<1>14. CASE Recovers
  <2>1. updates' \in Seq(Skill \X Nat) /\ Len(updates') <= MaxUpdates
    BY <1>14, AskAppends DEF Recovers, TypeOK, Skill
  <2>. QED  BY <1>14, <2>1 DEF Recovers, TypeOK, getupVars, commandVars, controllerVars
<1>15. ASSUME NEW c \in KickCommands, KickCommand(c)  PROVE TypeOK'
  <2>1. updates' \in Seq(Skill \X Nat) /\ Len(updates') <= MaxUpdates
    BY <1>15, AskAppends DEF KickCommand, TypeOK, Skill, SkillAssumption
  <2>2. kickCommand' \in KickCommands
    BY <1>15 DEF KickCommand, TypeOK
  <2>. QED  BY <1>15, <2>1, <2>2 DEF KickCommand, TypeOK, getupVars, controllerVars
<1>16. ASSUME NEW d \in DiveCommands, DiveCommand(d)  PROVE TypeOK'
  <2>1. updates' \in Seq(Skill \X Nat) /\ Len(updates') <= MaxUpdates
    BY <1>16, AskAppends DEF DiveCommand, TypeOK, Skill, SkillAssumption
  <2>. QED  BY <1>16, <2>1 DEF DiveCommand, TypeOK, getupVars, controllerVars
<1>17. CASE Tilts \/ Lands
  BY <1>17 DEF Tilts, Lands, TypeOK, getupVars, commandVars, controllerVars
<1>18. CASE UNCHANGED vars
  BY <1>18 DEF vars, TypeOK, getupVars, commandVars, controllerVars
<1>. QED
  BY <1>1, <1>2, <1>3, <1>4, <1>5, <1>6, <1>7, <1>8, <1>9, <1>10, <1>11, <1>12, <1>13, <1>14,
     <1>15, <1>16, <1>17, <1>18 DEF Next, Deliver, Happen

(* Every variable keeps to the values of its type, whatever the messages in  *)
(* flight and the order in which they are handled (Skill's state).           *)
THEOREM SkillTypes == Spec => []TypeOK
BY TypesInit, TypesNext, PTL DEF Spec
-----------------------------------------------------------------------------
(* A request for a positive priority is under way, and none after it.        *)
LastAskedPositive ==
  \/ /\ priority["getup"] > 0
     /\ \A i \in 1..Len(updates) : updates[i][1] # "getup"
  \/ \E i \in 1..Len(updates) :
       /\ updates[i][1] = "getup" /\ updates[i][2] > 0
       /\ \A j \in 1..Len(updates) : j > i => updates[j][1] # "getup"

(* Where the check runs to its end, what Getup believes has been asked for.  *)
BeliefAsked == ~checking /\ (gettingUp \/ ~fallenCheck => LastAskedPositive)
FallenInv == pace # "racing" => BeliefAsked

LEMMA FallenInit == Init => FallenInv
BY DEF Init, FallenInv, BeliefAsked, LastAskedPositive

(* Whatever another skill asks for leaves the last request of Getup alone.   *)
LEMMA OthersAsk ==
  ASSUME TypeOK, LastAskedPositive, UNCHANGED priority,
         NEW s \in Skill \ {"getup"}, NEW value \in Nat, Ask(s, value)
  PROVE  LastAskedPositive'
<1>. USE DEF TypeOK
<1>1. /\ Len(updates') = Len(updates) + 1 /\ Len(updates) \in Nat
      /\ updates'[Len(updates')][1] # "getup"
      /\ \A i \in 1..Len(updates) : updates'[i] = updates[i]
  BY AskAppends
<1>2. \A i \in 1..Len(updates') : i = Len(updates') \/ i \in 1..Len(updates)
  BY <1>1
<1>3. CASE priority["getup"] > 0 /\ \A i \in 1..Len(updates) : updates[i][1] # "getup"
  BY <1>1, <1>2, <1>3 DEF LastAskedPositive
<1>4. ASSUME NEW i \in 1..Len(updates), updates[i][1] = "getup", updates[i][2] > 0,
             \A j \in 1..Len(updates) : j > i => updates[j][1] # "getup"
      PROVE  LastAskedPositive'
  <2>1. i \in 1..Len(updates') /\ updates'[i] = updates[i]
    BY <1>1
  <2>2. \A j \in 1..Len(updates') : j > i => updates'[j][1] # "getup"
    BY <1>1, <1>2, <1>4
  <2>. QED  BY <1>4, <2>1, <2>2 DEF LastAskedPositive
<1>. QED  BY <1>3, <1>4 DEF LastAskedPositive

LEMMA GetupAsks ==
  ASSUME TypeOK, NEW value \in Nat \ {0}, Ask("getup", value)
  PROVE  LastAskedPositive'
<1>1. /\ Len(updates') = Len(updates) + 1 /\ Len(updates) \in Nat
      /\ updates'[Len(updates')] = <<"getup", value>>
  <2>1. "getup" \in Skill
    BY DEF Skill
  <2>. QED  BY <2>1, Asked
<1>. QED  BY <1>1 DEF LastAskedPositive

LEMMA FallenNext == TypeOK /\ FallenInv /\ [Next]_vars => FallenInv'
<1>. SUFFICES ASSUME TypeOK, FallenInv, [Next]_vars, pace' # "racing"  PROVE BeliefAsked'
  BY DEF FallenInv
<1>0. pace' = pace /\ BeliefAsked
  <2>1. UNCHANGED scene
    BY DEF Next, Deliver, Happen, vars, UpdatePriority, CommandFilter, Finish, ExecuteGetup,
       KillGetup, Falling, KillFalling, ExecuteKick, ExecuteDive, DisableFallenCheck,
       ServosRunOut, FallenCheck, Falls, Recovers, KickCommand, DiveCommand, Tilts, Lands
  <2>. QED  BY <2>1 DEF FallenInv, pace
<1>a. ASSUME UNCHANGED <<getupVars, updates, priority>>  PROVE BeliefAsked'
  BY <1>0, <1>a DEF BeliefAsked, LastAskedPositive, getupVars
<1>b. ASSUME UNCHANGED <<getupVars, priority>>, NEW s \in Skill \ {"getup"}, NEW value \in Nat,
             Ask(s, value)
      PROVE  BeliefAsked'
  BY <1>0, <1>b, OthersAsk DEF BeliefAsked, getupVars
<1>1. CASE UpdatePriority
  <2>1. /\ Len(updates') = Len(updates) - 1 /\ Len(updates) \in Nat \ {0}
        /\ updates[1] \in Skill \X Nat
        /\ \A i \in 1..Len(updates') : updates'[i] = updates[i + 1]
    BY <1>1, TakeFirst DEF UpdatePriority, TypeOK
  <2>2. priority' = [priority EXCEPT ![updates[1][1]] = updates[1][2]]
    BY <1>1 DEF UpdatePriority
  <2>3. ASSUME LastAskedPositive  PROVE LastAskedPositive'
    <3>1. CASE /\ priority["getup"] > 0
               /\ \A i \in 1..Len(updates) : updates[i][1] # "getup"
      <4>1. priority'["getup"] = priority["getup"]
        BY <2>1, <2>2, <3>1 DEF TypeOK
      <4>2. \A i \in 1..Len(updates') : updates'[i][1] # "getup"
        BY <2>1, <3>1
      <4>. QED  BY <3>1, <4>1, <4>2 DEF LastAskedPositive
    <3>2. ASSUME NEW i \in 1..Len(updates), updates[i][1] = "getup", updates[i][2] > 0,
                 \A j \in 1..Len(updates) : j > i => updates[j][1] # "getup"
          PROVE  LastAskedPositive'
      <4>1. CASE i = 1
        <5>1. priority'["getup"] > 0
          BY <2>1, <2>2, <3>2, <4>1 DEF TypeOK, Skill
        <5>2. \A j \in 1..Len(updates') : updates'[j][1] # "getup"
          BY <2>1, <3>2, <4>1
        <5>. QED  BY <5>1, <5>2 DEF LastAskedPositive
      <4>2. CASE i # 1
        <5>1. i - 1 \in 1..Len(updates') /\ updates'[i - 1] = updates[i]
          BY <2>1, <4>2
        <5>2. \A j \in 1..Len(updates') : j > i - 1 => updates'[j][1] # "getup"
          BY <2>1, <3>2
        <5>. QED  BY <3>2, <5>1, <5>2 DEF LastAskedPositive
      <4>. QED  BY <4>1, <4>2
    <3>. QED  BY <2>3, <3>1, <3>2 DEF LastAskedPositive
  <2>. QED  BY <1>0, <1>1, <2>3 DEF BeliefAsked, UpdatePriority, getupVars
<1>2. ASSUME NEW s \in Scripted, CommandFilter(s)  PROVE BeliefAsked'
  BY <1>2, <1>a DEF CommandFilter
<1>3. ASSUME NEW s \in Scripted, Finish(s)  PROVE BeliefAsked'
  BY <1>3, <1>b DEF Finish, Scripted, controllerVars
<1>4. CASE ExecuteGetup
  BY <1>0, <1>4, GetupAsks, SkillAssumption
  DEF ExecuteGetup, BeliefAsked, SkillAssumption, Skill
<1>5. CASE KillGetup
  BY <1>0, <1>5 DEF KillGetup, BeliefAsked
<1>6. CASE Falling
  BY <1>6, <1>a DEF Falling, controllerVars
<1>7. CASE KillFalling
  BY <1>7, <1>b DEF KillFalling, controllerVars, Skill
<1>8. CASE ExecuteKick
  BY <1>8, <1>b, SkillAssumption DEF ExecuteKick, controllerVars, Skill, SkillAssumption
<1>9. CASE ExecuteDive
  BY <1>9, <1>b, SkillAssumption DEF ExecuteDive, controllerVars, Skill, SkillAssumption
<1>10. CASE DisableFallenCheck
  BY <1>0, <1>10 DEF DisableFallenCheck, BeliefAsked
<1>11. CASE ServosRunOut
  BY <1>11, <1>a DEF ServosRunOut
<1>12. CASE FallenCheck
  <2>1. LastAskedPositive'
    BY <1>12, GetupAsks, SkillAssumption DEF FallenCheck, SkillAssumption, Skill
  <2>. QED  BY <1>0, <1>12, <2>1 DEF FallenCheck, BeliefAsked
<1>13. CASE Falls
  BY <1>13, <1>b, SkillAssumption DEF Falls, controllerVars, Skill, SkillAssumption
<1>14. CASE Recovers
  BY <1>14, <1>b DEF Recovers, controllerVars, Skill
<1>15. ASSUME NEW c \in KickCommands, KickCommand(c)  PROVE BeliefAsked'
  BY <1>15, <1>b, SkillAssumption DEF KickCommand, controllerVars, Skill, SkillAssumption
<1>16. ASSUME NEW d \in DiveCommands, DiveCommand(d)  PROVE BeliefAsked'
  BY <1>16, <1>b, SkillAssumption DEF DiveCommand, controllerVars, Skill, SkillAssumption
<1>17. CASE Tilts \/ Lands
  BY <1>17, <1>a DEF Tilts, Lands, controllerVars
<1>18. CASE UNCHANGED vars
  BY <1>18, <1>a DEF vars, controllerVars
<1>. QED
  BY <1>1, <1>2, <1>3, <1>4, <1>5, <1>6, <1>7, <1>8, <1>9, <1>10, <1>11, <1>12, <1>13, <1>14,
     <1>15, <1>16, <1>17, <1>18 DEF Next, Deliver, Happen

LEMMA FallenFollows == FallenInv => FallenIsAnsweredInTurn
BY DEF FallenInv, BeliefAsked, LastAskedPositive, FallenIsAnsweredInTurn, FallenIsAnswered, Quiet

(* A robot on the ground is answered once all messages are handled, where    *)
(* the fallen check runs to its end before the next kill is handled          *)
(* (Getup.cpp:59-68, 86-93): for any priorities and any order of messages.   *)
THEOREM FallenAnsweredInTurn == Spec => []FallenIsAnsweredInTurn
<1>1. Init /\ [][Next]_vars /\ []TypeOK => []FallenInv
  BY FallenInit, FallenNext, PTL
<1>. QED  BY <1>1, SkillTypes, FallenFollows, PTL DEF Spec
-----------------------------------------------------------------------------
(* The end of an execution is under way: a KillX or its priority 0.          *)
Ending(s) ==
  \/ mail[<<"kill", s>>] > 0
  \/ \E i \in 1..Len(updates) : updates[i] = <<s, 0>>

(* Its beginning or its end is.                                              *)
Backing(s) == mail[<<"execute", s>>] > 0 \/ mail[<<"waypoints", s>>] > 0 \/ Ending(s)

StandInv == priority["stand"] > 0 /\ \A i \in 1..Len(updates) : updates[i][1] # "stand"

(* No kick is executed before a valid one was asked for.                     *)
Untouched ==
  /\ priority["kick"] = 0 /\ mail[<<"execute", "kick">>] = 0
  /\ \A i \in 1..Len(updates) : updates[i][1] = "kick" => updates[i][2] = 0
KickInv == ValidKick(kickCommand) \/ Untouched

(* The last servo of a getup may not be an ankle, but then one went before.  *)
HolderInv ==
  /\ holder \in {"getup", "kick", "dive"} /\ script = <<>> => Backing(holder)
  /\ holder = "getup" /\ script = <<FALSE>> => Ending("getup")

BackedInv == StandInv /\ KickInv /\ HolderInv

(* GoalSaver is only asked for the dives it has scripts for.                 *)
SideDives == DiveCommands \subseteq {"left", "right"}

LEMMA BackedInit == Init => BackedInv
BY SkillAssumption
DEF Init, BackedInv, StandInv, KickInv, Untouched, HolderInv, SkillAssumption, Skill, Letter,
    Kind, Scripted

(* No request is forgotten.                                                  *)
Grows == \A i \in 1..Len(updates) : i \in 1..Len(updates') /\ updates'[i] = updates[i]

(* Steps that only add to the letters and requests keep what backs a holder. *)
LEMMA HolderKeeps ==
  ASSUME TypeOK, HolderInv, mail' \in [Letter -> Nat], UNCHANGED <<holder, script>>, Grows,
         \A k \in Kind : <<k, holder>> \in Letter => mail'[<<k, holder>>] >= mail[<<k, holder>>]
  PROVE  HolderInv'
<1>1. SUFFICES ASSUME holder \in {"getup", "kick", "dive"}
               PROVE  (Ending(holder) => Ending(holder)') /\ (Backing(holder) => Backing(holder)')
  BY DEF HolderInv
<1>2. \A k \in Kind : /\ mail[<<k, holder>>] \in Nat /\ mail'[<<k, holder>>] \in Nat
                      /\ mail'[<<k, holder>>] >= mail[<<k, holder>>]
  <2>1. \A k \in Kind : <<k, holder>> \in Letter
    BY <1>1 DEF Letter, Scripted, Skill
  <2>. QED  BY <2>1 DEF TypeOK
<1>3. (\E i \in 1..Len(updates) : updates[i] = <<holder, 0>>)
         => \E i \in 1..Len(updates') : updates'[i] = <<holder, 0>>
  BY DEF Grows
<1>4. Ending(holder) => Ending(holder)'
  BY <1>2, <1>3 DEF Ending, Kind
<1>. QED  BY <1>2, <1>4 DEF Backing, Kind

LEMMA StandKeeps ==
  ASSUME TypeOK, StandInv, UNCHANGED priority, NEW s \in Scripted, NEW value \in Nat, Ask(s, value)
  PROVE  StandInv'
<1>1. /\ Len(updates') = Len(updates) + 1 /\ Len(updates) \in Nat
      /\ updates'[Len(updates')] = <<s, value>> /\ s # "stand"
      /\ \A i \in 1..Len(updates) : updates'[i] = updates[i]
  <2>1. s \in Skill /\ s # "stand"
    BY DEF Scripted
  <2>. QED  BY <2>1, Asked
<1>2. \A i \in 1..Len(updates') : i = Len(updates') \/ i \in 1..Len(updates)
  BY <1>1
<1>. QED  BY <1>1, <1>2 DEF StandInv

LEMMA KickKeeps ==
  ASSUME TypeOK, KickInv, UNCHANGED <<priority, kickCommand>>, NEW s \in Scripted,
         NEW value \in Nat, Ask(s, value), s = "kick" => value = 0,
         mail' \in [Letter -> Nat], mail'[<<"execute", "kick">>] <= mail[<<"execute", "kick">>]
  PROVE  KickInv'
<1>1. /\ Len(updates') = Len(updates) + 1 /\ Len(updates) \in Nat
      /\ updates'[Len(updates')] = <<s, value>>
      /\ \A i \in 1..Len(updates) : updates'[i] = updates[i]
  <2>1. s \in Skill /\ s # "stand"
    BY DEF Scripted
  <2>. QED  BY <2>1, Asked
<1>2. \A i \in 1..Len(updates') : i = Len(updates') \/ i \in 1..Len(updates)
  BY <1>1
<1>3. mail'[<<"execute", "kick">>] \in Nat
  BY DEF Letter, Kind, Scripted, Skill
<1>4. Untouched => Untouched'
  BY <1>1, <1>2, <1>3 DEF Untouched
<1>. QED  BY <1>4 DEF KickInv, ValidKick

LEMMA AskGrows ==
  ASSUME TypeOK, NEW s \in Skill, NEW value \in Nat, Ask(s, value)
  PROVE  Grows
BY AskAppends DEF TypeOK, Grows

(* The controller takes the next request; if it was the holder's end, the    *)
(* body goes to somebody else.                                               *)
LEMMA BackedUpdate == TypeOK /\ TypeOK' /\ BackedInv /\ UpdatePriority => BackedInv'
<1>. SUFFICES ASSUME TypeOK, TypeOK', BackedInv, UpdatePriority  PROVE BackedInv'
  OBVIOUS
<1>1. /\ Len(updates') = Len(updates) - 1 /\ Len(updates) \in Nat \ {0}
      /\ updates[1] \in Skill \X Nat
      /\ \A i \in 1..Len(updates') : updates'[i] = updates[i + 1]
  BY TakeFirst DEF UpdatePriority, TypeOK
<1>2. priority' = [priority EXCEPT ![updates[1][1]] = updates[1][2]]
  BY DEF UpdatePriority
<1>3. StandInv'
  <2>1. \A i \in 1..Len(updates') : updates'[i][1] # "stand"
    BY <1>1 DEF BackedInv, StandInv
  <2>2. updates[1][1] # "stand"
    BY <1>1 DEF BackedInv, StandInv
  <2>3. priority'["stand"] = priority["stand"]
    BY <1>1, <1>2, <2>2 DEF TypeOK
  <2>. QED  BY <2>1, <2>3 DEF BackedInv, StandInv
<1>4. PICK next \in Foremost(priority') :
        /\ holder' = next
        /\ IF next = holder
           THEN UNCHANGED <<script, mail>>
           ELSE script' = <<>> /\ mail' = Post({<<"kill", holder>>, <<"execute", next>>})
  BY DEF UpdatePriority
<1>5. next \in Skill /\ priority'[next] > 0
  BY <1>3, <1>4 DEF Foremost, StandInv, TypeOK, Skill
<1>6. KickInv'
  <2>1. SUFFICES ASSUME Untouched  PROVE Untouched'
    BY DEF BackedInv, KickInv, ValidKick, UpdatePriority, commandVars
  <2>2. priority'["kick"] = 0
    <3>1. priority \in [Skill -> Nat] /\ "kick" \in Skill /\ priority["kick"] = 0
      BY <2>1 DEF TypeOK, Untouched, Skill
    <3>2. updates[1][1] = "kick" => updates[1][2] = 0
      BY <1>1, <2>1 DEF Untouched
    <3>. QED  BY <1>2, <3>1, <3>2
  <2>3. \A i \in 1..Len(updates') : updates'[i][1] = "kick" => updates'[i][2] = 0
    BY <1>1, <2>1 DEF Untouched
  <2>4. mail'[<<"execute", "kick">>] = 0
    <3>1. next # "kick"
      BY <1>5, <2>2
    <3>2. <<"execute", "kick">> \in Letter
      BY DEF Letter, Kind, Scripted, Skill
    <3>3. CASE next = holder
      BY <1>4, <2>1, <3>3 DEF Untouched
    <3>4. CASE next # holder
      <4>1. <<"execute", "kick">> \notin {<<"kill", holder>>, <<"execute", next>>}
        BY <3>1
      <4>. QED  BY <1>4, <2>1, <3>2, <3>4, <4>1, PostCounts DEF Untouched, TypeOK
    <3>. QED  BY <3>3, <3>4
  <2>. QED  BY <2>2, <2>3, <2>4 DEF Untouched
<1>7. HolderInv'
  <2>1. CASE next # holder
    <3>1. SUFFICES ASSUME next \in {"getup", "kick", "dive"}  PROVE mail'[<<"execute", next>>] > 0
      <4>1. script' = <<>> /\ << >> # <<FALSE>>
        BY <1>4, <2>1
      <4>. QED  BY <1>4, <4>1, <3>1 DEF HolderInv, Backing
    <3>2. <<"execute", next>> \in Letter
      BY <3>1 DEF Letter, Kind, Scripted, Skill
    <3>. QED  BY <1>4, <2>1, <3>2, PostCounts DEF TypeOK
  <2>2. CASE next = holder
    <3>1. holder' = holder /\ script' = script /\ mail' = mail
      BY <1>4, <2>2
    <3>2. updates[1] # <<holder, 0>>
      BY <1>1, <1>2, <1>5, <2>2 DEF TypeOK
    <3>3. (\E i \in 1..Len(updates) : updates[i] = <<holder, 0>>)
             => \E i \in 1..Len(updates') : updates'[i] = <<holder, 0>>
      <4>1. SUFFICES ASSUME NEW i \in 1..Len(updates), updates[i] = <<holder, 0>>
                     PROVE  \E k \in 1..Len(updates') : updates'[k] = <<holder, 0>>
        OBVIOUS
      <4>2. i # 1 /\ i - 1 \in 1..Len(updates') /\ updates'[i - 1] = updates[i]
        BY <1>1, <3>2, <4>1
      <4>. QED  BY <4>1, <4>2
    <3>4. (Ending(holder) => Ending(holder)') /\ (Backing(holder) => Backing(holder)')
      BY <3>1, <3>3 DEF Ending, Backing
    <3>. QED  BY <3>1, <3>4 DEF BackedInv, HolderInv
  <2>. QED  BY <2>1, <2>2
<1>. QED  BY <1>3, <1>6, <1>7 DEF BackedInv

LEMMA BackedNext ==
  ASSUME SideDives
  PROVE  TypeOK /\ TypeOK' /\ BackedInv /\ [Next]_vars => BackedInv'
<1>. SUFFICES ASSUME TypeOK, TypeOK', BackedInv, [Next]_vars  PROVE BackedInv'
  OBVIOUS
<1>0. StandInv /\ KickInv /\ HolderInv /\ mail' \in [Letter -> Nat] /\ mail \in [Letter -> Nat]
  BY DEF BackedInv, TypeOK
<1>l. /\ \A k \in Kind, s \in Scripted : <<k, s>> \in Letter
      /\ {"getup", "relax", "kick", "dive"} = Scripted /\ {"execute", "kill", "waypoints"} = Kind
  BY DEF Letter, Kind, Scripted, Skill
<1>m. \A s \in Scripted :
        /\ mail[<<"execute", s>>] \in Nat /\ mail'[<<"execute", s>>] \in Nat
        /\ mail[<<"kill", s>>] \in Nat /\ mail'[<<"kill", s>>] \in Nat
  BY <1>0, <1>l
(* Steps without letters, and with at most one request.                      *)
<1>a. ASSUME UNCHANGED <<priority, holder, script, updates, mail, kickCommand>>  PROVE BackedInv'
  BY <1>0, <1>a
  DEF BackedInv, StandInv, KickInv, Untouched, ValidKick, HolderInv, Backing, Ending
<1>b. ASSUME UNCHANGED <<priority, holder, script, mail, kickCommand>>,
             NEW s \in Scripted, NEW value \in Nat, Ask(s, value), s = "kick" => value = 0
      PROVE  BackedInv'
  <2>1. StandInv'
    BY <1>0, <1>b, StandKeeps
  <2>2. KickInv'
    <3>1. mail'[<<"execute", "kick">>] <= mail[<<"execute", "kick">>]
      BY <1>0, <1>b, <1>l
    <3>. QED  BY <1>0, <1>b, <3>1, KickKeeps
  <2>3. HolderInv'
    BY <1>0, <1>b, AskGrows, HolderKeeps DEF Scripted
  <2>. QED  BY <2>1, <2>2, <2>3 DEF BackedInv
(* A kill is handled: what it took away is asked for.                        *)
<1>k. ASSUME UNCHANGED <<priority, holder, script, kickCommand>>, NEW s \in Scripted,
             mail[<<"kill", s>>] > 0, mail' = Handled(<<"kill", s>>, {}), Ask(s, 0)
      PROVE  BackedInv'
  <2>1. \A m \in Letter : mail'[m] <= mail[m] /\ (m # <<"kill", s>> => mail'[m] >= mail[m])
    BY <1>0, <1>k, <1>l, HandledCounts
  <2>2. StandInv'
    BY <1>0, <1>k, StandKeeps
  <2>3. KickInv'
    BY <1>0, <1>k, <1>l, <2>1, KickKeeps
  <2>4. HolderInv'
    <3>1. CASE holder # s
      BY <1>0, <1>k, <2>1, <3>1, AskGrows, HolderKeeps DEF Scripted
    <3>2. CASE holder = s
      <4>1. Ending(s)'
        <5>1. Len(updates') \in 1..Len(updates') /\ updates'[Len(updates')] = <<s, 0>>
          <6>1. s \in Skill
            BY DEF Scripted
          <6>. QED  BY <1>k, <6>1, Asked
        <5>. QED  BY <5>1 DEF Ending
      <4>. QED  BY <1>k, <3>2, <4>1 DEF HolderInv, Backing
    <3>. QED  BY <3>1, <3>2
  <2>. QED  BY <2>2, <2>3, <2>4 DEF BackedInv
(* A script is emitted: that is what backs the holder from now on.           *)
<1>x. ASSUME UNCHANGED <<priority, holder, script, kickCommand>>, NEW s \in Scripted,
             NEW letters, letters = {<<"waypoints", s>>},
             mail[<<"execute", s>>] > 0, mail' = Handled(<<"execute", s>>, letters),
             \/ UNCHANGED updates
             \/ \E value \in Nat : Ask(s, value),
             s = "kick" => ValidKick(kickCommand)
      PROVE  BackedInv'
  <2>1. /\ mail'[<<"waypoints", s>>] > 0
        /\ \A m \in Letter : m # <<"execute", s>> => mail'[m] >= mail[m]
        /\ \A m \in Letter : m # <<"waypoints", s>> => mail'[m] <= mail[m]
    <3>1. <<"execute", s>> \in Letter /\ <<"waypoints", s>> \in Letter /\ <<"waypoints", s>> \in letters
      BY <1>l, <1>x
    <3>2. /\ \A m \in Letter : m \in letters => mail'[m] > 0
          /\ \A m \in Letter : m # <<"execute", s>> => mail'[m] >= mail[m]
          /\ \A m \in Letter : m \notin letters => mail'[m] <= mail[m]
      BY <1>0, <1>x, <3>1, HandledCounts
    <3>. QED  BY <1>x, <3>1, <3>2
  <2>2. StandInv'
    BY <1>0, <1>x, StandKeeps DEF StandInv
  <2>3. KickInv'
    <3>1. CASE s = "kick"
      BY <1>x, <3>1 DEF KickInv, ValidKick
    <3>2. CASE s # "kick" /\ UNCHANGED updates
      <4>1. mail'[<<"execute", "kick">>] <= mail[<<"execute", "kick">>]
        BY <1>l, <2>1
      <4>2. Untouched => Untouched'
        <5>1. mail[<<"execute", "kick">>] \in Nat /\ mail'[<<"execute", "kick">>] \in Nat
          BY <1>l, <1>m
        <5>. QED  BY <1>x, <3>2, <4>1, <5>1 DEF Untouched
      <4>. QED  BY <1>0, <1>x, <4>2 DEF KickInv, ValidKick
    <3>3. CASE s # "kick" /\ \E value \in Nat : Ask(s, value)
      <4>1. mail'[<<"execute", "kick">>] <= mail[<<"execute", "kick">>]
        BY <1>l, <2>1
      <4>. QED  BY <1>0, <1>x, <3>3, <4>1, KickKeeps
    <3>. QED  BY <1>x, <3>1, <3>2, <3>3
  <2>4. Grows
    BY <1>x, AskGrows DEF Grows, Scripted
  <2>5. HolderInv'
    <3>1. CASE holder # s
      BY <1>0, <1>x, <2>1, <2>4, <3>1, HolderKeeps
    <3>2. CASE holder = s
      <4>1. Backing(s)'
        BY <2>1 DEF Backing
      <4>2. Ending(s) => Ending(s)'
        <5>1. mail'[<<"kill", s>>] >= mail[<<"kill", s>>]
          BY <1>l, <2>1
        <5>2. (\E i \in 1..Len(updates) : updates[i] = <<s, 0>>)
                 => \E i \in 1..Len(updates') : updates'[i] = <<s, 0>>
          BY <2>4 DEF Grows
        <5>3. mail[<<"kill", s>>] \in Nat /\ mail'[<<"kill", s>>] \in Nat
          BY <1>m
        <5>. QED  BY <5>1, <5>2, <5>3 DEF Ending
      <4>. QED  BY <1>0, <1>x, <3>2, <4>1, <4>2 DEF HolderInv
    <3>. QED  BY <3>1, <3>2
  <2>. QED  BY <2>2, <2>3, <2>5 DEF BackedInv
<1>1. CASE UpdatePriority
  BY <1>1, BackedUpdate
<1>2. ASSUME NEW s \in Scripted, CommandFilter(s)  PROVE BackedInv'
  <2>1. \A m \in Letter : mail'[m] <= mail[m] /\ (m # <<"waypoints", s>> => mail'[m] >= mail[m])
    BY <1>0, <1>2, <1>l, HandledCounts DEF CommandFilter
  <2>2. StandInv' /\ UNCHANGED <<priority, holder, updates, kickCommand>>
    BY <1>0, <1>2 DEF CommandFilter, StandInv, commandVars
  <2>3. KickInv'
    <3>1. mail'[<<"execute", "kick">>] <= mail[<<"execute", "kick">>]
      BY <1>l, <2>1
    <3>2. Untouched => Untouched'
      <4>1. mail[<<"execute", "kick">>] \in Nat /\ mail'[<<"execute", "kick">>] \in Nat
        BY <1>l, <1>m
      <4>. QED  BY <2>2, <3>1, <4>1 DEF Untouched
    <3>. QED  BY <1>0, <2>2, <3>2 DEF KickInv, ValidKick
  <2>4. HolderInv'
    <3>1. CASE holder # s
      BY <1>0, <1>2, <2>1, <2>2, <3>1, HolderKeeps DEF CommandFilter, Grows
    <3>2. CASE holder = s
      <4>1. script' \in Endings
        BY <1>2, <3>2 DEF CommandFilter
      <4>2. \A a, b : <<a>> # <<>> /\ <<a, b>> # <<>> /\ <<a, b>> # <<FALSE>>
        OBVIOUS
      <4>3. <<TRUE>> # <<FALSE>>
        <5>1. <<TRUE>>[1] = TRUE /\ <<FALSE>>[1] = FALSE
          OBVIOUS
        <5>. QED  BY <5>1, Zenon
      <4>4. script' # <<>> /\ script' # <<FALSE>>
        BY <4>1, <4>2, <4>3, Zenon DEF Endings
      <4>. QED  BY <4>4 DEF HolderInv
    <3>. QED  BY <3>1, <3>2
  <2>. QED  BY <2>2, <2>3, <2>4 DEF BackedInv
<1>3. ASSUME NEW s \in Scripted, Finish(s)  PROVE BackedInv'
  BY <1>3, <1>k DEF Finish, controllerVars, commandVars
<1>4. CASE ExecuteGetup
  BY <1>4, <1>x, <1>l, SkillAssumption DEF ExecuteGetup, controllerVars, commandVars, SkillAssumption, Skill
<1>5. CASE KillGetup
  BY <1>5, <1>k, <1>l DEF KillGetup, controllerVars, commandVars
<1>6. CASE Falling
  BY <1>6, <1>x, <1>l DEF Falling, controllerVars, commandVars
<1>7. CASE KillFalling
  BY <1>7, <1>k, <1>l DEF KillFalling, controllerVars, commandVars
<1>8. CASE ExecuteKick
  <2>1. ValidKick(kickCommand)
    BY <1>0, <1>8, <1>l DEF ExecuteKick, KickInv, Untouched
  <2>2. Execution["kick"] \in Nat
    BY SkillAssumption DEF SkillAssumption, Skill
  <2>. QED  BY <1>8, <1>x, <1>l, <2>1, <2>2 DEF ExecuteKick, controllerVars, commandVars
<1>9. CASE ExecuteDive
  <2>1. diveCommand \in {"left", "right"}
    BY DEF SideDives, TypeOK
  <2>2. Execution["dive"] \in Nat
    BY SkillAssumption DEF SkillAssumption, Skill
  <2>. QED  BY <1>9, <1>x, <1>l, <2>1, <2>2 DEF ExecuteDive, controllerVars, commandVars
<1>10. CASE DisableFallenCheck
  BY <1>10, <1>a DEF DisableFallenCheck, controllerVars, commandVars
<1>11. CASE ServosRunOut
  <2>1. UNCHANGED <<priority, holder, updates, kickCommand>> /\ StandInv'
    BY <1>0, <1>11 DEF ServosRunOut, StandInv, commandVars
  <2>2. /\ \A m \in Letter : mail'[m] >= mail[m]
        /\ Completed(holder) /\ holder \in Scripted => mail'[<<"kill", holder>>] > 0
        /\ mail'[<<"execute", "kick">>] = mail[<<"execute", "kick">>]
    <3>1. CASE Completed(holder)
      <4>1. mail' = Post({<<"kill", holder>>})
        BY <1>11, <3>1 DEF ServosRunOut
      <4>2. /\ \A m \in Letter : mail'[m] >= mail[m]
            /\ \A m \in Letter : m \in {<<"kill", holder>>} => mail'[m] > 0
            /\ \A m \in Letter : m \notin {<<"kill", holder>>} => mail'[m] = mail[m]
        BY <1>0, <4>1, PostCounts
      <4>3. <<"execute", "kick">> \in Letter /\ <<"execute", "kick">> # <<"kill", holder>>
        BY <1>l
      <4>4. holder \in Scripted => <<"kill", holder>> \in Letter
        BY <1>l
      <4>. QED  BY <4>2, <4>3, <4>4
    <3>2. CASE ~Completed(holder)
      <4>1. mail' = mail
        BY <1>11, <3>2 DEF ServosRunOut
      <4>. QED  BY <1>0, <1>l, <3>2, <4>1
    <3>. QED  BY <3>1, <3>2
  <2>3. KickInv'
    BY <1>0, <2>1, <2>2 DEF KickInv, Untouched, ValidKick
  <2>4. script' = Tail(script) /\ script # <<>>
    BY <1>11 DEF ServosRunOut
  <2>5. ASSUME Ending(holder), holder \in Scripted  PROVE Ending(holder)'
    <3>1. /\ mail'[<<"kill", holder>>] >= mail[<<"kill", holder>>]
          /\ mail[<<"kill", holder>>] \in Nat /\ mail'[<<"kill", holder>>] \in Nat
      BY <1>l, <1>m, <2>2, <2>5
    <3>. QED  BY <2>1, <2>5, <3>1 DEF Ending
  <2>6. ASSUME holder \in {"getup", "kick", "dive"}, script' = <<>>  PROVE Ending(holder)'
    <3>1. script \in { <<TRUE>>, <<FALSE>> }
      BY <2>4, <2>6, Rests DEF TypeOK
    <3>2. CASE holder = "getup" /\ script = <<FALSE>>
      BY <1>0, <1>l, <2>5, <3>2 DEF HolderInv
    <3>3. CASE holder # "getup" \/ script = <<TRUE>>
      <4>1. <<TRUE>>[1] = TRUE
        OBVIOUS
      <4>2. Completed(holder)
        BY <2>6, <3>3, <4>1, Zenon DEF Completed
      <4>. QED  BY <1>l, <2>1, <2>2, <2>6, <4>2 DEF Ending
    <3>. QED  BY <3>1, <3>2, <3>3
  <2>7. ASSUME holder = "getup", script' = <<FALSE>>  PROVE Ending("getup")'
    <3>1. script[1] = TRUE
      BY <2>4, <2>7, Rests DEF TypeOK
    <3>2. Completed(holder)
      BY <2>7, <3>1, Zenon DEF Completed
    <3>. QED  BY <1>l, <2>1, <2>2, <2>7, <3>2 DEF Ending
  <2>. QED  BY <2>1, <2>3, <2>6, <2>7 DEF BackedInv, HolderInv, Backing
<1>12. CASE FallenCheck
  BY <1>12, <1>b, <1>l, SkillAssumption DEF FallenCheck, controllerVars, commandVars, SkillAssumption, Skill
<1>13. CASE Falls
  BY <1>13, <1>b, <1>l, SkillAssumption DEF Falls, controllerVars, commandVars, SkillAssumption, Skill
<1>14. CASE Recovers
  BY <1>14, <1>b, <1>l DEF Recovers, controllerVars, commandVars
<1>15. ASSUME NEW c \in KickCommands, KickCommand(c)  PROVE BackedInv'
  <2>1. UNCHANGED <<priority, holder, script, mail>>
    BY <1>15 DEF KickCommand, controllerVars
  <2>2. CASE UNCHANGED kickCommand /\ Ask("kick", 0)
    BY <1>b, <1>l, <2>1, <2>2
  <2>3. CASE ValidKick(c) /\ kickCommand' = c /\ Ask("kick", Asking["kick"])
    <3>1. Asking["kick"] \in Nat
      BY SkillAssumption DEF SkillAssumption, Skill
    <3>2. StandInv'
      BY <1>0, <1>l, <2>1, <2>3, <3>1, StandKeeps
    <3>3. KickInv'
      BY <2>3 DEF KickInv, ValidKick
    <3>4. HolderInv'
      BY <1>0, <1>l, <2>1, <2>3, <3>1, AskGrows, HolderKeeps DEF Scripted
    <3>. QED  BY <3>2, <3>3, <3>4 DEF BackedInv
  <2>. QED  BY <1>15, <2>2, <2>3 DEF KickCommand
<1>16. ASSUME NEW d \in DiveCommands, DiveCommand(d)  PROVE BackedInv'
  BY <1>16, <1>b, <1>l, SkillAssumption DEF DiveCommand, controllerVars, SkillAssumption, Skill
<1>17. CASE Tilts \/ Lands
  BY <1>17, <1>a DEF Tilts, Lands, controllerVars, commandVars
<1>18. CASE UNCHANGED vars
  BY <1>18, <1>a DEF vars, controllerVars, commandVars
<1>. QED
  BY <1>1, <1>2, <1>3, <1>4, <1>5, <1>6, <1>7, <1>8, <1>9, <1>10, <1>11, <1>12, <1>13, <1>14,
     <1>15, <1>16, <1>17, <1>18 DEF Next, Deliver, Happen

LEMMA BackedFollows == BackedInv => ExecutionBacked
<1>. SUFFICES ASSUME BackedInv, Quiet, holder \in {"getup", "kick", "dive"}, script = <<>>  PROVE FALSE
  BY DEF ExecutionBacked
<1>1. Backing(holder)
  BY DEF BackedInv, HolderInv
<1>2. \A k \in Kind : mail[<<k, holder>>] = 0
  BY DEF Quiet, Letter, Scripted, Skill
<1>3. updates = <<>>
  BY DEF Quiet
<1>. QED  BY <1>1, <1>2, <1>3 DEF Backing, Ending, Kind

(* If GoalSaver is only asked for dives to the sides, whoever has the body   *)
(* when all messages are handled has a script to play, for any priorities    *)
(* and however the messages of starts, kills and completions overtake one    *)
(* another (Getup.cpp:72, 107, KickScript.cpp:86, 130, GoalSaver.cpp:73).    *)
THEOREM ExecutionsAreBacked ==
  ASSUME SideDives
  PROVE  Spec => []ExecutionBacked
<1>1. TypeOK /\ TypeOK' /\ BackedInv /\ [Next]_vars => BackedInv'
  BY BackedNext
<1>. QED  BY <1>1, BackedInit, SkillTypes, BackedFollows, PTL DEF Spec
=============================================================================

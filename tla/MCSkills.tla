------------------------------ MODULE MCSkills ------------------------------
EXTENDS Skills

(* The priorities of the configuration files; those of Stand and, for        *)
(* keeping the body, of FallingRelax are the ones they register or ask with. *)
MCAsking == [s \in Skill |-> CASE s = "stand" -> 1 [] s = "getup" -> 50
               [] s = "relax" -> 90 [] s = "kick" -> 30 [] s = "dive" -> 30]
MCExecution == [s \in Skill |-> CASE s = "stand" -> 1 [] s = "getup" -> 100
               [] s = "relax" -> 90 [] s = "kick" -> 40 [] s = "dive" -> 100]

MCKicks == {[leg |-> "RIGHT_LEG", quadrant |-> "front"], [leg |-> "other", quadrant |-> "front"]}

MCMail == [k \in Kind |-> IF k = "kill" THEN 2 ELSE 1]
Scene(p, s) == [pace |-> p, skills |-> s]
MCScenes ==
  { Scene("calm", Scripted),
    Scene("busy", {"getup", "relax"}), Scene("busy", {"kick"}),
    Scene("busy", {"getup", "dive"}), Scene("racing", {"getup"}) }


RacingScenes == {Scene("racing", {"getup", "relax"})}
=============================================================================

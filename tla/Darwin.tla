-------------------------------- MODULE Darwin --------------------------------
(***************************************************************************)
(* The bulk read of classes Darwin and UART: one request names all devices *)
(* in an order, they answer in that order, and a device whose answer does  *)
(* not come is asked last from then on.                                    *)
(***************************************************************************)
EXTENDS Integers, FiniteSets, SequencesExt

CONSTANTS
  Devices,    \* the CM730, the servos and the FSRs
  MaxGlitches \* bound: answers that go wrong though the device is sound

ASSUME DarwinAssumption == IsFiniteSet(Devices) /\ MaxGlitches \in Nat

VARIABLES
  bulkReadCommand,  (* the devices in the order in which they are asked     *)
  broken,           (* how each device answers as long as nothing glitches  *)
  glitches,         (* how many answers have glitched                       *)
  answered,         (* what the devices answered to the last bulk read      *)
  sensors           (* what the last bulk read said of each device          *)

busVars == <<bulkReadCommand, broken, glitches, answered, sensors>>

(* What the wire brings: everything; nothing, or less than a header; a       *)
(* payload that breaks off; all but the checksum; a wrong checksum.          *)
Answer == {"ok", "none", "partial", "unsigned", "garbled"}

NONE == 0            \* ErrorCode::NONE
CORRUPT_DATA == 128  \* ErrorCode::CORRUPT_DATA
NO_RESPONSE == 255   \* ErrorCode::NO_RESPONSE, all bits of the byte

(* errorcode |= CORRUPT_DATA                                                 *)
Corrupt(errorcode) ==
  IF errorcode >= CORRUPT_DATA THEN errorcode ELSE errorcode + CORRUPT_DATA

Read(data, errorcode) == [data |-> data, errorcode |-> errorcode]

(* A result starts without data and as a timeout. A wrong checksum starts    *)
(* from a new result and adds the flag to it.                                *)
readPacket(answer) ==
  CASE answer = "ok"       -> Read("own", NONE)
    [] answer = "none"     -> Read("empty", NO_RESPONSE)
    [] answer = "partial"  -> Read("part", NO_RESPONSE)
    [] answer = "unsigned" -> Read("own", Corrupt(NONE))
    [] answer = "garbled"  -> Read("empty", Corrupt(NO_RESPONSE))

Least(S) == CHOOSE n \in S : \A m \in S : n <= m

(* Mutant: the places behind a timeout are left as they were.                *)
executeBulkUnmarked(answers) ==
  LET packet(i) == readPacket(answers[bulkReadCommand[i]])
      responses == DOMAIN bulkReadCommand
      timeouts == {i \in responses : packet(i).errorcode = NO_RESPONSE}
      stop == IF timeouts = {} THEN Len(bulkReadCommand) ELSE Least(timeouts)
  IN [i \in responses |->
        [id |-> bulkReadCommand[i],
         result |-> IF i <= stop THEN packet(i) ELSE Read("empty", NONE)]]

(* One result for each place of the request, with the device it is about.    *)
(* The first timeout ends the reading: it is booked to the device asked for, *)
(* and those behind it are marked corrupt. Other packets name their sender.  *)
executeBulk(answers) ==
  LET packet(i) == readPacket(answers[bulkReadCommand[i]])
      responses == DOMAIN bulkReadCommand
      timeouts == {i \in responses : packet(i).errorcode = NO_RESPONSE}
      stop == IF timeouts = {} THEN Len(bulkReadCommand) ELSE Least(timeouts)
  IN [i \in responses |->
        [id |-> bulkReadCommand[i],
         result |-> IF i <= stop THEN packet(i) ELSE Read("empty", CORRUPT_DATA)]]

(* What is known of the devices: nothing yet, then the results under their   *)
(* ids; a result without data overwrites the old bytes with 0xFF.            *)
Collected(results) ==
  [d \in Devices |->
     IF \E i \in DOMAIN results : results[i].id = d
     THEN (CHOOSE r \in Range(results) : r.id = d).result
     ELSE Read("uninitialised", NONE)]

(* Mutant: the order is never changed.                                       *)
KeptOrder(results) == bulkReadCommand

(* The first device without data goes to the end of the request.             *)
Reordered(results) ==
  LET empty == {i \in DOMAIN results : results[i].result.data = "empty"}
      first == Least(empty)
  IN IF empty = {} \/ first = Len(results) THEN bulkReadCommand
     ELSE Append(RemoveAt(bulkReadCommand, first), bulkReadCommand[first])

(* A device answers as it does; now and then a sound one glitches.           *)
Glitching(answers) == {d \in Devices : answers[d] # broken[d]}

bulkRead ==
  \E answers \in [Devices -> Answer] :
    LET results == executeBulk(answers)
    IN /\ \A d \in Glitching(answers) : broken[d] = "ok"
       /\ glitches' = glitches + Cardinality(Glitching(answers))
       /\ glitches' <= MaxGlitches
       /\ answered' = answers
       /\ sensors' = Collected(results)
       /\ bulkReadCommand' = Reordered(results)
       /\ UNCHANGED broken

(* The self test at the start pings every device; the request asks those     *)
(* that answered first, otherwise in any order.                              *)
buildBulkReadPacket(pinged) ==
  {order \in SetToSeqs(Devices) :
     \A i, j \in DOMAIN order : i < j => (order[j] \in pinged => order[i] \in pinged)}

DarwinInit(BrokenAnswers) ==
  /\ broken \in [Devices -> BrokenAnswers]
  /\ \E pinged \in SUBSET {d \in Devices : broken[d] = "ok"} :
       bulkReadCommand \in buildBulkReadPacket(pinged)
  /\ glitches = 0
  /\ answered = [d \in Devices |-> "ok"]
  /\ sensors = [d \in Devices |-> Read("own", NONE)]
-----------------------------------------------------------------------------
DarwinTypeOK ==
  /\ bulkReadCommand \in SetToSeqs(Devices)
  /\ broken \in [Devices -> Answer] /\ answered \in [Devices -> Answer]
  /\ glitches \in 0..MaxGlitches
  /\ sensors \in [Devices -> [data : {"own", "part", "empty", "uninitialised"}, errorcode : 0..255]]

(* A read that goes wrong anywhere never passes off as sound what it did not *)
(* get: each device is reported with its own complete answer of this read,   *)
(* or with an error (Darwin.cpp:164, UART.cpp:233, HardwareIO.cpp:117).      *)
ReportsAreHonest ==
  \A d \in Devices :
    sensors[d].errorcode < CORRUPT_DATA => sensors[d].data = "own" /\ answered[d] = "ok"

(* Devices that never answer, or only garbled, do not keep the others from   *)
(* being read: after finitely many reads all sound devices are read in each, *)
(* whatever the order was at the start (Darwin.cpp:190, UART.cpp:230).       *)
SoundDevicesAreRead ==
  (\A d \in Devices : broken[d] \in {"ok", "none", "garbled"}) =>
     <>[](\A d \in Devices : broken[d] = "ok" => sensors[d].data = "own")
=============================================================================

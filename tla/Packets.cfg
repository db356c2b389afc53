CONSTANTS
  PlayersPerTeam = 2
  Active = 0
  PLAYER_ID = 1
  Coach = {"none", "hold"}
  Packets <- GamePackets
  MaxReloads = 1
SPECIFICATION MCSpec
INVARIANTS
  EventsAddUp
  StateAgrees
  ModeSettles
  SelfAgrees

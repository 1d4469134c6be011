SPECIFICATION Spec
CONSTANTS
  depot = depot
  site = site
  w1 = w1
  w2 = w2
  near = near
  local = local
  mobile = mobile
  anywhere = anywhere
  spread = spread
  each = each
  d1 = d1
  d2 = d2
  Unplaced = Unplaced
  Zones = {depot, site}
  Workers = {w1, w2}
  Submissions = {local, mobile, anywhere, spread, each}
  Devices = {d1, d2}
  Rank <- Ranks
  Enabled = {depot, site}
  Policy <- Policies
  Targets <- ToTheDepot
  Rules <- Overlapping
  Attributes <- Equipment
  ZoneOf <- Depot
  Capacity <- OneSlot
  CanRun <- Abilities
  Definition <- Definitions
  Attempts = 2
  MaxSubmissions = 2
  MaxFaults = 1
INVARIANTS
  TypeOK
  WorkConserving
  RunsWhereAllowed
  OneChildPerDevice
CHECK_DEADLOCK FALSE
SYMMETRY Symmetry

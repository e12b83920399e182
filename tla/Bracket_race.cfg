SPECIFICATION Spec
CONSTANTS
  Entered = 4
  TopShape = 17
  Nobody = Nobody
  NoSlot = NoSlot
  Fighters <- TheFighters
  Slots <- TheSlots
  Round <- TheRound
  SelfRef <- TheSelfRef
  Source <- TheSource
  SeedOn <- TheSeedOn
  GrandFinal <- TheFinal
  Requests = {r1, r2}
  Asked = {}
  MaxAsked = 0
  Mortal = {"complete"}
  MaxCrashes = 1
CHECK_DEADLOCK FALSE
SYMMETRY RequestSymmetry
INVARIANTS
  SidesAreEarned
  RowsFollowSlots
  ResultsAreFed

SPECIFICATION Spec
CONSTANTS
  Entered = 4
  TopShape = 17
  Nobody = Nobody
  NoSlot = NoSlot
  Fighters <- TheFighters
  Slots <- TheSlots
  Round <- TheRound
  SelfRef <- TheSelfRef
  Source <- TheSource
  SeedOn <- TheSeedOn
  GrandFinal <- TheFinal
  Requests = {r1}
  Asked = {"draw", "again", "undo", "discard", "change"}
  MaxAsked = 1
  Mortal = {"complete"}
  MaxCrashes = 1
CHECK_DEADLOCK FALSE
INVARIANTS
  BracketTypeOK
  SidesAreEarned
  RowsFollowSlots
  ResultsAreFed
  PairIsCalled
  NoPhantomReset
  UndoTakesAllBack
  EveryBracketIsWired
PROPERTIES
  FoughtPairStays

SPECIFICATION UndoSpec
CONSTANTS
  TheBout = TheBout
  NoRow = NoRow
  Entries = {hit1}
  Taps = {clock1}
  Closers = {}
  Tabs = {tab1}
  MaxFailures = 2
  Troubles = {"bad", "fault", "offline", "stop"}
  LateRows = {hit1}
  Bouts <- TheBouts
  BoutOf <- TheBoutOf
INVARIANTS
  UndoTypeOK
  TakenOffStaysOff

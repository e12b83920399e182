SPECIFICATION UndoSpec
CONSTANTS
  TheBout = TheBout
  NoRow = NoRow
  Entries = {hit1, hit2}
  Taps = {}
  Closers = {}
  Tabs = {tab1}
  MaxFailures = 1
  Troubles = {"offline"}
  LateRows = {}
  Bouts <- TheBouts
  BoutOf <- TheBoutOf
INVARIANTS
  UndoHolds
  NotTakenTwice

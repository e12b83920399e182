SPECIFICATION UndoFairSpec
CONSTANTS
  TheBout = TheBout
  NoRow = NoRow
  Entries = {hit1}
  Taps = {end1}
  Closers = {end1}
  Tabs = {tab1}
  MaxFailures = 1
  Troubles = {"offline"}
  LateRows = {}
  Bouts <- TheBouts
  BoutOf <- TheBoutOf
PROPERTIES
  UndoIsAnswered
  UndoIsSettled

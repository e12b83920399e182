SPECIFICATION Spec
CONSTANTS
  FirstBout = FirstBout
  SecondBout = SecondBout
  NoRow = NoRow
  Entries = {hit1, hit2}
  Taps = {tap1}
  RowsOfSecond = {}
  Tabs = {tab1}
  MaxFailures = 2
  Troubles = {"bad", "refused", "fault", "offline", "stop"}
  Bouts <- TheBouts
  BoutOf <- TheBoutOf
INVARIANTS
  TypeOK
  NoRowLost
  SyncedIsLanded
  OutRowIsSafe
  OneTable
  OrderWithinPass
  GreenMeansSent
PROPERTY
  KeepsPromise

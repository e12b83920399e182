SPECIFICATION Spec
CONSTANTS
  FirstBout = FirstBout
  SecondBout = SecondBout
  NoRow = NoRow
  Entries = {hit1}
  Taps = {tap1}
  RowsOfSecond = {}
  Tabs = {tab1}
  MaxFailures = 3
  Troubles = {"bad", "refused", "fault", "offline", "stop"}
  Bouts <- TheBouts
  BoutOf <- TheBoutOf
INVARIANT
  PressNeverPassesRow

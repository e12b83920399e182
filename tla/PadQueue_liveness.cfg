SPECIFICATION FairSpec
CONSTANTS
  FirstBout = FirstBout
  SecondBout = SecondBout
  NoRow = NoRow
  Entries = {hit1, hit2}
  Taps = {tap1}
  RowsOfSecond = {hit2}
  Tabs = {tab1}
  MaxFailures = 2
  Troubles = {"offline"}
  Bouts <- TheBouts
  BoutOf <- TheBoutOf
PROPERTY
  EveryRowIsSent

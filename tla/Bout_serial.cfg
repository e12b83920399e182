SPECIFICATION Spec
CONSTANTS
  NoItem = NoItem
  RedHits = {red1}
  BlueHits = {blue1}
  Starts = {start1}
  Halts = {}
  Resumes = {}
  Ends = {end1}
  Hits <- TheHits
  SideOf <- TheSideOf
  Presses <- ThePresses
  ActionOf <- TheActionOf
  Slots = {slot1}
  Cap = 1
  DrawAllowed = TRUE
  Desk = {"void", "restore", "reopen", "reset"}
  MaxDesk = 2
  Mortal = {"hit", "press"}
  MaxCrashes = 1
CHECK_DEADLOCK FALSE
INVARIANTS
  BoutTypeOK
  NoWinnerInPlay
  ScoreIsTheSheet
  CapIsCounted
  NoHitOfAnOldFight
  FedFromCompleted

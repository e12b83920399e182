SPECIFICATION FairSpec
CONSTANTS
  NoItem = NoItem
  RedHits = {}
  BlueHits = {}
  Starts = {start1}
  Halts = {}
  Resumes = {}
  Ends = {end1}
  Hits <- TheHits
  SideOf <- TheSideOf
  Presses <- ThePresses
  ActionOf <- TheActionOf
  Slots = {slot1, slot2}
  Cap = 1
  DrawAllowed = TRUE
  Desk = {"reopen", "reset"}
  MaxDesk = 1
  Mortal = {"press"}
  MaxCrashes = 1
CHECK_DEADLOCK FALSE
PROPERTIES
  EndSpeaksForBout
  EveryItemIsAnswered

SPECIFICATION Spec
CONSTANTS
  Fighters = {f1, f2, f3}
  NoFighter = NoFighter
  RoundCount = 2
  Slots = {s1, s2}
  CommitTries = 2
  ReconcileRounds = 2
  Asked <- FourAsked
  MaxAsked = 4
  MaxMet = 3
SYMMETRY Alike
INVARIANTS
  SwissTypeOK
  RoundsAreLegal
  MissedRoundsExist
  OutIsFollowed
  ClosedRoundAdvances
CHECK_DEADLOCK FALSE

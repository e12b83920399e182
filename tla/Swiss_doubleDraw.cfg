SPECIFICATION Spec
CONSTANTS
  Fighters = {f1, f2, f3, f4}
  NoFighter = NoFighter
  RoundCount = 3
  Slots = {s1, s2}
  CommitTries = 3
  ReconcileRounds = 3
  Asked <- NoneAsked
  MaxAsked = 0
  MaxMet = 0
SYMMETRY Alike
INVARIANT DrawnOverFought
CHECK_DEADLOCK FALSE

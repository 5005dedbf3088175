SPECIFICATION LaunchingSpec
CONSTANTS
  Modules = {m1}
  Patience = 2
  GameModules = {g1, g2}
  Callers = {c1, c2}
  Cycles = 1
INVARIANTS ProgramBeginsHooked NoGameLeftBehind HookIsSound
PROPERTIES NothingIsTakenBack LaunchEnds
CHECK_DEADLOCK FALSE

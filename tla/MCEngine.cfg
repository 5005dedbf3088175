SPECIFICATION EngineSpec
CONSTANTS
  Keys = {k1}
  Conns = {c1, c2}
  MaximumSources = 1
  MaximumDevices = 1
  MaximumEffects = 2
  MaximumQueuedTransitions = 1
  NoKey = NoKey
  EffectIds = {e1, e2}
  Effects <- MCEffects
  Plans <- MCPlans
  Changes <- MCChanges
  Forever = Forever
  Iterations = {0, 2}
  Horizon = 4
  AllSettings <- MCSettings
  LongGap = 3
  DetectorHorizon = 6
SYMMETRY EngineSymmetry
INVARIANTS ReliableIsTrue CountsTheProducing DetectsTheTruth
PROPERTIES FollowsTheClock EpisodesAreEarned
CHECK_DEADLOCK FALSE

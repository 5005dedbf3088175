SPECIFICATION Spec
CONSTANTS
  EffectIds = {e1, e2}
  Effects <- MCEffects
  Plans <- LastingPlans
  Changes <- MCChanges
  Forever = Forever
  Iterations = {0, 2}
  Horizon = 4
PROPERTY NeverResurrected

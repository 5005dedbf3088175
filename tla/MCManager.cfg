SPECIFICATION ManagerSpec
CONSTANTS
  MaxOps = 3
  MaxOpenings = 2
  Ids = {1, 2, 3}
  MaximumProfiles = 2
  Versions = {1}
  Packages = {1, 2}
  MaxRuns = 3
  MaxEdits = 1
INVARIANTS RunsTheVerified StartsOneAtATime OneMutator SuccessIsEarned
INVARIANTS StoreFollowsTheList
INVARIANTS NothingLost AllOrNothing
PROPERTIES EditsStayHome
CHECK_DEADLOCK FALSE

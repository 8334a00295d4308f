SPECIFICATION DispatchSpec
CONSTANTS
  Callers = {c1, c2, c3}
  Owner = Owner
  Order <- MCOrder
  WithFinal = {"listener"}
INVARIANTS OneTaskPerWaiter NothingStranded
PROPERTIES ImplementsSyncCall TeardownEnds

SPECIFICATION MCSpec
CONSTANTS
  Net = TRUE
  ConsoleSocket = FALSE
  Injectors = {i1}
  RXLimit = 2
  MaxBytes = 1
  Priorities = {0, 1}
  GuestPorts = {0}
  IERValues = {{}, {"RDI"}}
  GuestSources = {1, 10}
  GuestOps = {"ier", "rbr", "priority", "enable", "vnet", "ie", "wfi"}
  Machines = {"console"}
INVARIANT CacheIsExact

SPECIFICATION MCSpec
CONSTANTS
  NThreads = 3
  Addrs = {a1}
  NoAddr = NoAddr
  ClockPolicy = "OnlyDeadlock"
  Mode = "RoundRobin"
  ChaosNum = 1
  ChaosDen = 2
  Engine = "interp"
  StartNS = 1
  Timeouts = {1, 2, 3}
  Calls = {"futex", "epoll", "pselect", "yield", "set_tid_address", "tgkill"}
  TimedCalls = {}
  Steps = {0}
  Ticks = {0}
  ChaosLens = {0}
  MaxNow = 4
  Configurations = {"jit"}
INVARIANT ExitOnlyOnRequest
CHECK_DEADLOCK FALSE

SPECIFICATION FairEventsSpec
CONSTANTS
  NThreads = 3
  Addrs = {a1}
  NoAddr = NoAddr
  ClockPolicy = "OnlyDeadlock"
  Mode = "RoundRobin"
  ChaosNum = 1
  ChaosDen = 2
  Engine = "interp"
  StartNS = 1
  Timeouts = {1}
  Calls = {"futex", "epoll", "tgkill"}
  TimedCalls = {"epoll"}
  Steps = {0}
  Ticks = {0}
  ChaosLens = {0}
  MaxNow = 2
  e1 = e1
  p1 = p1
  ep1 = ep1
  s1 = s1
  s2 = s2
  Eventfds = {e1}
  Semaphores = {e1}
  Pipes = {p1}
  Epolls = {ep1}
  MaxCounter = 2
  PipeCap = 2
  Threads <- MCThreads
  Signals = {s1, s2}
  StackTop = 4
  AltTop = 8
  MaxEvents = {1, 2}
  Amounts = {1, 2}
  GuestActions <- MCActions
  MaxDepth = 3
  MaxPending = 2
  Workloads <- EventWorkloads
INVARIANT NobodyMissesInput
INVARIANT NoStaleEdge
INVARIANT ReturnsToInterrupted
PROPERTY NewsArrives
PROPERTY ImplementsScheduler
CHECK_DEADLOCK FALSE

CONSTANTS
  Procs = {p1, p2}
  MaxCommands = 3
  MaxRefreshes = 2
  Values = {s1, s2, s3}
  NoValue = NoValue
  MaxSignals = 3
  MaxRetries = 4
  MaxLogins = 2
  Expiry = 6
  Intervals = {1, 2}
  MaxChanges = 3
  FlushesPerDraw = 2
  Names = {a, b}
  Databases = {x, y}
  NoDatabase = NoDatabase
SPECIFICATION PartsSpec
INVARIANTS
  PartsTypeOK
  ServicesMatchTheData
  SuccessMeansStopped
  StoredLeavesEvidence
  AskedOncePerSignal
  OkIsGraceful
  DeletionIsIdempotent
  RefusedMeansNotCreated
  EditsAreSafe
PROPERTIES
  WeakRegisterSpec
  SignalEndsRun
  PollsWhenAsked
  WaitEnds
  ResultTellsTheToken
  LogoutKeepsWhatLives
  ChangesAreShown
  DeadTerminalEndsIt
CHECK_DEADLOCK FALSE

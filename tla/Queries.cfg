SPECIFICATION QueriesSpec
CONSTANTS
  a = a
  b = b
  Names = {a, b}
  Chunks = {11, 12}
  LazyRows <- MCLazyRows
  TempNames = {b}
  TempRows <- MCTempRows
  Statements <- MCStatements
  Subplans <- MCSubplans
  Budgets <- MCBudgets
  Unlimited = Unlimited
  None = None
  Arcs = {1, 2, 3, 4}
  PlanCap = 1
  MaxCalls = 2
  Threads = {1, 2, 3, 4}
  Keys = {"x", "y", "z"}
  K = 4
  Home <- MCHome
  Empty = Empty
  Zero = "x"
  RhCap = 3
  SpinLimit = 1
  MaxSpill = 1
  Value <- MCValue
  NonNull <- MCNonNull
  Low <- MCLow
  Limb = 4
  SumLimit = 10
  LockAttempts = 1
  Failed = Failed
  Null = Null
INVARIANTS
  FreshIsExactUnlessTorn
  DictionariesMatchUnlessShadowed
  PlansCurrent
  ScansInstalled
  OneSlotPerKey
  NoKeyLost
  ExactOrReported
PROPERTIES GroupByEnds

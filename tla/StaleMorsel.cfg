SPECIFICATION Spec
CONSTANTS
  a = a
  b = b
  Names = {a, b}
  Chunks = {11, 12}
  LazyRows <- MCLazyRows
  TempNames = {b}
  TempRows <- MCTempRows
  Statements <- MCStatements
  Subplans <- MCSubplans
  Budgets <- MCBudgets
  Unlimited = Unlimited
  None = None
  Arcs = {1, 2, 3, 4}
  PlanCap = 1
  MaxCalls = 2
INVARIANT MorselsExact
CHECK_DEADLOCK FALSE

SPECIFICATION Spec
CONSTANTS
  t1 = t1
  t2 = t2
  first = first
  second = second
  cash = cash
  debt = debt
  Tasks = {t1, t2}
  Keys = {first, second}
  Rows = {cash, debt}
  Checked = {cash}
  UniqueFields <- Names
  InitialRows <- CashFirst
  MaxTransactions = 3
  MaxGeneration = 1
CHECK_DEADLOCK FALSE
SYMMETRY Interchangeable
INVARIANTS TypeOK TransactionsMatch
PROPERTIES ImplementsSerialStore

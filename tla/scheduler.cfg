SPECIFICATION Spec
CONSTANTS
  Times = {0, 1}
  MaxSequence = 7
  MaxEra = 2
  MaxRestarted = 3
CONSTRAINT FewRestarted
CHECK_DEADLOCK FALSE
INVARIANTS HeapExact
PROPERTIES ImplementsAgenda

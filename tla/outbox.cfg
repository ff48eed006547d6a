SPECIFICATION OutboxSpec
CONSTANTS
  OutboxTasks = {t1, t2}
  MaxDepth = 3
SYMMETRY Symmetry
INVARIANTS IntentsCommit RollbackLeavesNothing
PROPERTY KickedWhenCommitted

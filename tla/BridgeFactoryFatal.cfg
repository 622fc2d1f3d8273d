CONSTANT MaxBridges = 1
SPECIFICATION Spec
INVARIANT NeverOutOfWorkTime

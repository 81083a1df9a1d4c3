\* The program of riscv_test/barrier/barrier.c.
SPECIFICATION Spec
CONSTANTS
  Cores = {0, 1, 2, 3}
  info <- MCInfo
PROPERTIES MainPasses
CHECK_DEADLOCK FALSE

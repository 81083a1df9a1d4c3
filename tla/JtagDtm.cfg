\* A driver that toggles TCK with every call and begins with a reset.
SPECIFICATION ClockedSpec
CONSTANTS
  RequiredRti = 2
  IrValues <- MCInstructions
  DrValues = {"nop", "write", "dmireset", "hardreset"}
INVARIANTS FiveOnesReset OneAccessPerScan
PROPERTIES HonestScan PacedRequests

\* A debugger that leaves SBCS and DMCONTROL alone during an access.
SPECIFICATION DisciplinedSpec
CONSTANTS
  Bytes = {0, 1}
  WordBytes = 1
  WordWrap = 4
  Cells <- MCCells
  SbDelay = 2
  MaxSbaWidth = 16
  SbcsWrites <- MCFewModes
  AddressWrites = {0, 1}
INVARIANTS OneAccess NoAccessUnderError
PROPERTIES CarriesOutRequests AccessCompletes

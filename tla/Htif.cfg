\* Two harts, two open reads, success and failure.
SPECIFICATION Spec
CONSTANTS
  Harts = {h1, h2}
  Codes = {0, 1}
  MaxReads = 2
  CharWrap = 3
INVARIANTS NothingLostOrRepeated CharsInOrder
PROPERTIES CallReturns ExitEndsRun

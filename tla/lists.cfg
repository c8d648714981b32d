\* Three rows, one of them not shown, pages of one row, five places.
CONSTANTS
  a = a  b = b  c = c  None = None
  Rows = {a, b, c}
  Bare = {c}
  Take = 1
  MaxPlace = 5
SPECIFICATION Spec
SYMMETRY Interchangeable
INVARIANTS
  ReadingIsComplete
  ShownOnce

CONSTANTS
  shell = shell
  p1 = p1
  n1 = n1
  n2 = n2
  Proc = {shell, p1}
  Shell = shell
  Name = {n1, n2}
  MaxINo = 2
  FdMax = 4
  SlotMax = 5
  MaxSize = 3
  MaxAfter = 1
  Counts = {2}
SPECIFICATION FilesSpec
SYMMETRY Symmetry
INVARIANTS
  OneWriter

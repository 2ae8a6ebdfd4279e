CONSTANTS
  FileId = {f1, f2, f3}
  Names = 2
  Path <- MCPath
  MaxInitial = 2
  Request = {r1, r2}
  PageSize = 1
  Key = {k1}
  None = None
SPECIFICATION Spec
CHECK_DEADLOCK FALSE
SYMMETRY Symmetry
INVARIANTS  OneLivePerPath ListsStayers Authorised
 

CONSTANTS
  N = 5
  Initially = 3
  Size = {1, 2}
  DefaultSize = 2
  MaxPage = 2
  MaxChanges = 2
SPECIFICATION Spec
INVARIANTS
  TypeOK
  NothingSkipped
  NothingTwice
  OfferedPagesFilled

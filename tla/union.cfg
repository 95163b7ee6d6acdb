CONSTANTS
  NDirs = 3
  Names = {a}
  Times = {1, 2, 3}
  Lengths = {1, 2}
  Sizes = {0, 1, 2}
  MaxChanges = 2
SPECIFICATION Spec
INVARIANTS
  TypeOK
  AnswersFromNewest
  ListsEachNameOnce
  DiesOnlyOfRemoval
CHECK_DEADLOCK FALSE

CONSTANTS
  Requests = {1, 2, 3}
  Slots = {1, 2}
  Configs <- ConfigsChecked
  L = 2
  InRowsT = 3
  OutRowsT = 2
  NofcMaxRows = 2
  Row20 = 4
  Row20MaxT = 2
  MaxTokens = 3
SPECIFICATION Spec
CHECK_DEADLOCK FALSE
INVARIANTS
  AloneOrRaced
  RaisesOnlyOnStackedRkv

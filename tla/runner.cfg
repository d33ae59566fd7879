CONSTANTS
  Args <- ArgsChecked
  FallbackTop = 3
  Requests = {1, 2, 3}
  PromptLens = {1, 2}
  MaxOutput = 2
SPECIFICATION Spec
CHECK_DEADLOCK FALSE
INVARIANTS
  RunnerTypeOK
  OwnTokensOnly
  DefaultsStart

CONSTANTS
  None = None
  Vocab <- VocabChecked
  Template <- TemplateChecked
  Calls <- CallsChecked
SPECIFICATION Spec
CHECK_DEADLOCK FALSE
INVARIANTS
  StreamedIsWhole
  StopAtOnce
  AnswerIsTrue
  PromptExact

SPECIFICATION Spec
CONSTANTS
  Keywords <- MCKeywords
  Examples <- MCExamples
  Tasks <- MCTasks
  ColumnDocs <- MCColumnDocs
INVARIANT
  ReadsBack
PROPERTY
  EverythingIsRead
CHECK_DEADLOCK FALSE

SPECIFICATION Spec
CONSTANTS
  Requests <- SoundRequests
  Elements = {"e1", "e2", "e3"}
  Threads = {"t1", "t2"}
  MaxLevel = 2
INVARIANTS FieldsHoldTheirQuantity NoNameTwice ContextIsOwn
CHECK_DEADLOCK FALSE

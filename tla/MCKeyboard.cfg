SPECIFICATION Spec
CONSTANTS
  KEYBOARD_BUFFER_SIZE = 8
  IndexValues = 4
  LetterKeys = {"a"}
  OtherKeys = {"1"}
INVARIANTS
  TypeOK
  
PROPERTY
  ImplementsKeyQueue

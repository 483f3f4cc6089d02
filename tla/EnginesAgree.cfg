SPECIFICATION Spec
CONSTANT
  Programs <- PortablePrograms
INVARIANTS
  SameMeaning
  StackAccounted
  ParsesWhatIsWritten
  LoadsWhatWasSaved
PROPERTY
  Terminates
CHECK_DEADLOCK FALSE

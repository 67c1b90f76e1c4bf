SPECIFICATION Spec
CONSTANTS
  Texts <- SomeTexts
  Seps <- SomeSeps
  Delims = {":", ";"}
  Digits = {"1"}
  Space = " "
  Blank = " "
INVARIANTS
  TokensAreWords
  TrimsAgree
  LabelsConverted
CHECK_DEADLOCK FALSE

\* lab13: ten lines each, as in the code.
CONSTANTS
  Lines = 10
SPECIFICATION FairSpec
PROPERTIES AllLines
CHECK_DEADLOCK FALSE

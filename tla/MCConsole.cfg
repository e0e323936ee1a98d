CONSTANTS
  Key <- MCKey
  MaxHeld = 2
  CMD_LEN = 5
  MAX_ARG_NR = 2
  Capacity = 1
SPECIFICATION ConsoleSpec
INVARIANTS
  NoStuckModifier
  WordsOfLine

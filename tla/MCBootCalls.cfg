SPECIFICATION BootSpec
CONSTANTS
  TabStop = 2
  IntBits = 4
  Printable <- AllPrintable
  MaxPrinted = 32
  Callers = {1, 2, 3}
  Numbers <- SomeNumbers
  IntWidth = 6
  MAX_SYSCALL = 8
  Results = {0, 46}
  Screens = {}
  Numerals <- SomeNumerals
  Prints = {}
  Texts = {}
  Faults = {}
INVARIANTS
  
  NoWildCall
  
CHECK_DEADLOCK FALSE

SPECIFICATION BootSpec
CONSTANTS
  TabStop = 2
  IntBits = 4
  Printable <- AllPrintable
  MaxPrinted = 32
  Callers = {}
  Numbers <- SomeNumbers
  IntWidth = 6
  MAX_SYSCALL = 8
  Results = {0, 46}
  Screens <- SmallScreens
  Numerals <- SomeNumerals
  Prints <- SomePrints
  Texts <- TabText
  Faults = {13, 14}
INVARIANTS
  ConsoleFaithful
  NumbersReadBack
  BootOrdered
PROPERTY
  BootOutcome
CHECK_DEADLOCK FALSE

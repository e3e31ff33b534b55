SPECIFICATION IrqCutSpec
CONSTANTS
  Threads = {t1, t2, t3}
  Pages = {p1, p2, p3}
  NULL = NULL
  BootStack = BootStack
  MaxTaskCount = 1
  LateCreate = FALSE
  ExitedKeepsCalling = FALSE
  CLOCK_HZ = 100
  Delays = {5, 20}
  MaxFrames = 2
PROPERTY
  ChosenIsRunnable
CHECK_DEADLOCK FALSE

SPECIFICATION IpcFairSpec
CONSTANTS
  Threads = {t1, t2, t3}
  Pages = {p1, p2, p3}
  NULL = NULL
  BootStack = BootStack
  MaxTaskCount = 2
  LateCreate = FALSE
  ExitedKeepsCalling = FALSE
  Ports = {q1}
  Kmsgs = {k1}
  Bodies = {m1}
  Sizes = {2}
  HeaderSize = 2
  KMSG_ZONE_SIZE = 2
  IPC_PORT_QUEUE_MAX = 1
  IPC_SPACE_MAX_PORTS = 1
  RefModulus = 4
  SharedReceive = FALSE
  BusyRemove = FALSE
  Alias = FALSE
  ViaTrap = FALSE
PROPERTY
  SentIsReceived
CHECK_DEADLOCK FALSE

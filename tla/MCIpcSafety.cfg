SPECIFICATION IpcSpec
CONSTANTS
  Threads = {t1, t2, t3}
  Pages = {p1, p2, p3}
  NULL = NULL
  BootStack = BootStack
  MaxTaskCount = 2
  LateCreate = FALSE
  ExitedKeepsCalling = FALSE
  Ports = {q1}
  Kmsgs = {k1, k2, k3}
  Bodies = {m1, m2}
  Sizes = {1, 2, 3}
  HeaderSize = 2
  KMSG_ZONE_SIZE = 2
  IPC_PORT_QUEUE_MAX = 2
  IPC_SPACE_MAX_PORTS = 2
  RefModulus = 4
  SharedReceive = FALSE
  BusyRemove = FALSE
  Alias = FALSE
  ViaTrap = FALSE
SYMMETRY IpcSymmetry
INVARIANTS
  MessagesConserved
  WaiterIsBlocked
  BlockedWillBeWoken
  WokenFindsMessage
  NamesAreLive
PROPERTIES
  NamesNotReused
  IpcUsesSched
  RefinesMailbox
CHECK_DEADLOCK FALSE

SPECIFICATION Spec
INVARIANTS TypeOK CommittedBehindNextPull
CHECK_DEADLOCK FALSE
CONSTANTS
  a = a
  b = b
  Chats = {a, b}
  MaxMsg = 3
  ChatOf <- TwoChats
  Web = {2, 3}
  Late = {1}
  Slow = {1, 3}
  Blockable = {a}
  MaxFails = 1
  MaxCrashes = 1

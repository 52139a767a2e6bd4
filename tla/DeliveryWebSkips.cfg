SPECIFICATION Spec
INVARIANTS NothingSkipped
CHECK_DEADLOCK FALSE
CONSTANTS
  a = a
  b = b
  Chats = {a}
  MaxMsg = 3
  ChatOf <- OneChat
  Web = {1, 2, 3}
  Late = {}
  Slow = {}
  Blockable = {}
  MaxFails = 0
  MaxCrashes = 0

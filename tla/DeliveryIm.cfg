SPECIFICATION FairSpec
INVARIANTS NothingSkipped NothingForgotten
PROPERTY CursorsAdvance MessagesAreGiven
CHECK_DEADLOCK FALSE
CONSTANTS
  a = a
  b = b
  Chats = {a, b}
  MaxMsg = 3
  ChatOf <- TwoChats
  Web = {}
  Late = {}
  Slow = {}
  Blockable = {b}
  MaxFails = 2
  MaxCrashes = 1

SPECIFICATION MCSpec
CONSTANTS
  web = web im = im agent = agent other = other run = run
  alice = alice bob = bob
  Groups = {web, im, other}
  KeyOf <- MCKeyOf
  AgentGroups = {}
  RunGroups = {}
  Owners = {alice, bob}
  OwnerOf <- MCOwnerOf
  UserLimit <- NoLimit
  Tasks = {t1}
  Recovery = Recovery Messages = Messages Idle = Idle NoGroup = NoGroup
  MaxContainers = 2 MaxHosts = 1
  MaxRetries = 1
  ModeEditable = {web}
  MaxRequests = 3 MaxControls = 1
INVARIANTS OneRunPerKey
CHECK_DEADLOCK FALSE

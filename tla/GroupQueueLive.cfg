SPECIFICATION MCFairSpec
CONSTANTS
  web = web im = im agent = agent other = other run = run
  alice = alice bob = bob
  Groups = {web, im, agent}
  KeyOf <- MCKeyOf
  AgentGroups = {agent}
  RunGroups = {}
  Owners = {alice, bob}
  OwnerOf <- MCOwnerOf
  UserLimit <- NoLimit
  Tasks = {t1}
  Recovery = Recovery Messages = Messages Idle = Idle NoGroup = NoGroup
  MaxContainers = 1 MaxHosts = 1
  MaxRetries = 1
  ModeEditable = {}
  MaxRequests = 3 MaxControls = 1
PROPERTY QueuedWorkServed
CHECK_DEADLOCK FALSE
INVARIANTS WorkConserving

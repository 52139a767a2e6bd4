SPECIFICATION MCSpec
CONSTANTS
  web = web im = im agent = agent other = other run = run
  alice = alice bob = bob
  Groups = {web, im, agent, run}
  KeyOf <- MCKeyOf
  AgentGroups = {agent}
  RunGroups = {run}
  Owners = {alice, bob}
  OwnerOf <- MCOwnerOf
  UserLimit <- AliceHasOne
  Tasks = {t1}
  Recovery = Recovery Messages = Messages Idle = Idle NoGroup = NoGroup
  MaxContainers = 2 MaxHosts = 1
  MaxRetries = 1
  ModeEditable = {web}
  MaxRequests = 3 MaxControls = 1
INVARIANTS TypeOK SlotAccounting OneFlaggedRunner PendingTracked
PROPERTY ImplementsRunSlots
CHECK_DEADLOCK FALSE

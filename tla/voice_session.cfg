CONSTANTS
  s1 = s1
  s2 = s2
  x1 = x1
  Starter = {s1, s2}
  Session = {s1, s2}
  Stopper = {x1}
  Command <- MCCommand
  CustomerTurn = {}
  AgentTurn = {1}
  Text = {"partial", "final"}
  Absent = Absent
  None = None
  PendingCap = 1
  MaxFaults = 1
SPECIFICATION Spec
INVARIANTS TypeOK RecordIsOpen ConnectedAgentCanBeStopped
PROPERTIES AssistantTurnForwardedOnce StartSettles BuffersDrain
CHECK_DEADLOCK FALSE

\* One node with two clients, and two nodes with a client each.
CONSTANTS
  Nodes = {"n1", "n2"}
  Clients = {"c1", "c2", "c3"}
  Home <- TwoNodes
  Rooms = {"r1"}
  Messages = {"m1"}
  Bridged = TRUE
  Speakers = {"n1"}
  Stoppable = {"n1"}
  Fleeting = {"c1"}
  WriteQueueSize = 1
  MaxPublishes = 1
  SseClients = {"s1", "s2"}
  Wants <- MCWants
  SseMessages = {1, 2}
  EventOf <- MCEventOf
  QueueSize = 1
  Subs = {1, 2, 3, 4}
  Topic <- MCTopic
  Site <- MCSite
  Retries <- MCRetries
  Events = {"paid"}
  All = "*"
  Pubs = {"p1"}
  Streams = {"l1", "l2"}
  MaxClients = 2
  MaxKicks = 1
SPECIFICATION MCSpec
INVARIANTS HubSound EventsReachSubscribers ApprovedAndNamed
CHECK_DEADLOCK FALSE

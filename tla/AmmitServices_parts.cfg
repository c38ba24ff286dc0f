SPECIFICATION Spec
CHECK_DEADLOCK FALSE
CONSTANTS
  MaxLives = 2
  Tickets = {"APF-1"}
  Every = 2
  Idle = 1
  Works <- SomeWorks
  Name <- NameOf
  Holder <- HolderOf
  Ticket <- TicketOf
  Stands = {"stand-docker"}
  Ttl = 2
  Uploads <- SomeUploads
  Posts = {1, 2, 3}
  Runs = {"r1", "r2"}
  Values = {1, 2}
  Retention = 1
  MaxSaid = 2
  MaxRows = 3
  Topics = {"flag"}
  Models = {"m1", "m2"}
  Puts = {1, 2}
  Asks = {1}
INVARIANTS
  KeeperInv
  LeaseInv
  EvidenceInv
  ArchiveInv
  KnowledgeInv
PROPERTY NeverLeftLying

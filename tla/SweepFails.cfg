CONSTANTS
  Processes = {"p1", "p2"}
  Workers = {"worker"}
  Users = {"user"}
  Home <- OneHome
  Edges = {"e1", "e2"}
  Episodes = {"n1", "n2", "n3"}
  Logs = {"logA", "logB"}
  LogOf <- ArchiveOf
  States <- JustSwept
  Batch = 2
  Retries = 1
  MaxTroubles = 2
  MaxForces = 1
  Sweepers = {"p2"}
  Entities = {"x", "y", "z"}
  Ends <- EndsOf
  Source <- SourceOf
  Kept = {"z"}
  Old = {"e1"}
  Spent = {"n1", "n3"}
  None = None
SPECIFICATION SweepSpec
PROPERTIES
  CitedEpisodesStay

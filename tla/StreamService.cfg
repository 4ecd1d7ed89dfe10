SPECIFICATION StreamSpec
CONSTANTS
  Players = {1, 2}
  Tries = 2
  Fails = 2
  Stalls = 2
  ListMax = 3
  PipeRoom = 1
  Frames = 2
  Datagrams = 4
  Redos = 2
  Clients = 2
  Scenes <- Explored
INVARIANTS StreamsHonest
PROPERTY StreamsSettle
CHECK_DEADLOCK FALSE

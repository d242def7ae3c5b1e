SPECIFICATION HttpSpec
CONSTANTS
  Peer = {"p1", "p2"}
  Patient = {"p1"}
  Routes <- MCRoutes
  Params = {":id"}
  HttpRequests <- MCHttpRequests
  Frames <- MCFrames
  MaxOpen = 2
  MaxSent = 1
PROPERTIES InFlightFinishes
CHECK_DEADLOCK FALSE

CONSTANTS
  blue = blue
  green = green
  p1 = p1
  r1 = r1
  r2 = r2
  Backend = {blue, green}
  Process = {p1}
  HttpRequest = {r1, r2}
  MaxRoutes = 1
  MaxSwitches = 2
  MaxRestarts = 1
  MaxFaults = 1
SPECIFICATION DoorSpec
CONSTRAINT TypesHold
INVARIANTS ReachedAtHome NothingFallsBehind
SYMMETRY Interchangeable

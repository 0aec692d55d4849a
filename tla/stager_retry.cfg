SPECIFICATION StagerSpec
CONSTANTS
  None = None
  Urls = {a, b}
  Clients = {c1, c2}
  Items = {x, y}
  MaxItems = 2
  Retry = 2
  Tells = {a, b}
  Mixed = FALSE
INVARIANT
  ReadersHaveAll
CHECK_DEADLOCK FALSE

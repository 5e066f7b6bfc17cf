SPECIFICATION Spec
CONSTANTS
  Groups = {g1, g2}
  Handlers = {h1, h2}
  None = None
  Env = {"db", "crash"}
  MaxOps = 4
SYMMETRY Interchangeable
INVARIANTS TypeOK IdsAreFresh GroupIsListed MarkIsLatest VersionsDiffer

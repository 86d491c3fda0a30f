CONSTANTS
  Servers = {s}
  Clients = {c}
  MaxGroup = 1
  ServerSize = 2
  MaxSegs = 3
SPECIFICATION Spec
INVARIANTS CreatesOnlyWhenNone

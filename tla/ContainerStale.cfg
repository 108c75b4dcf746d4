SPECIFICATION CarefulSpec
CONSTANTS
  Tasks = {t1, t2}
  Scopes = {root}
  Shared = Shared
  None = None
  MaxVersion = 2
  MaxBuilds = 1
  Exclusive = FALSE
PROPERTY NoResurrection

SPECIFICATION Spec
CONSTANTS
  Tasks = {t1, t2}
  Scopes = {root, child}
  Shared = Shared
  None = None
  MaxVersion = 2
  MaxBuilds = 1
  Exclusive = FALSE
SYMMETRY Symmetry
INVARIANT NoEntryFromTheFuture

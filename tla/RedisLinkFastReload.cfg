CONSTANTS
  None = None
  Threads = {t1, t2}
  Pubs = {p1, p2, p3}
  QuietReload = FALSE
SPECIFICATION Spec
SYMMETRY Symmetry
INVARIANT DisplayedOnce

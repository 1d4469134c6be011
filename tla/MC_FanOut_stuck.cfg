\* Two concurrent transactions over two children.
SPECIFICATION FairSpec
CONSTANTS
  c1 = c1
  c2 = c2
  Children = {c1, c2}
  Threads = {t1, t2}
  RetryMax <- RetryFirst
  Singleton = FALSE
  Offline = {c1, c2}
  Hellos = {}
PROPERTY ParentSettles
CHECK_DEADLOCK FALSE

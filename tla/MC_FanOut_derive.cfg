\* Three concurrent transactions over two children, a cancel of the parent among them.
SPECIFICATION FairSpec
CONSTANTS
  c1 = c1
  c2 = c2
  Children = {c1, c2}
  Threads = {t1, t2, t3}
  RetryMax <- RetryFirst
  Singleton = FALSE
  Offline = {c1, c2}
  Hellos = {t3}
INVARIANT ParentSound
PROPERTY VerdictFinal CancelSpreads
CHECK_DEADLOCK FALSE

SPECIFICATION FairSpec
CONSTANTS
  a1 = a1
  a2 = a2
  t1 = t1
  n1 = n1
  n2 = n2
  Agents = {a1, a2}
  Tokens = {t1}
  TokenOf <- SharedToken
  Names = {n1, n2}
  NameOf <- OwnNames
  SingleUse = {t1}
  Consumers = {k1, k2}
  Switched = {n1}
  Callers = {a1}
  MaxCalls = 2
  MaxFaults = 1
INVARIANTS
  TypeOK
  OneWorkerPerToken
  KeyKept
  AnsweredOnce
PROPERTY
  Reconnects
CHECK_DEADLOCK FALSE

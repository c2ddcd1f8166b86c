SPECIFICATION FairSpec
CONSTANTS
  w1 = w1
  w2 = w2
  w3 = w3
  t1 = t1
  t2 = t2
  t3 = t3
  t4 = t4
  t5 = t5
  Workers = {w1, w2, w3}
  Tokens = {t1, t2, t3, t4, t5}
  None = None
  Lease = 3
  MaxLag = 2
  TTLs = {0, 1}
INVARIANTS TypeOK
PROPERTIES LeaseHonoured FencedOnly Recovers

CONSTANTS
  t1 = t1
  t2 = t2
  t3 = t3
  s1 = s1
  s2 = s2
  s3 = s3
  s4 = s4
  NoScheduler = NoScheduler
  Callers = {t1, t2}
  Schedulers = {s1, s2, s3, s4}
  MaxUpsets = 1
  MaxDue = 1
SPECIFICATION Spec
SYMMETRY Interchangeable
INVARIANTS
  TypeOK
  ReadyMeansExpiring

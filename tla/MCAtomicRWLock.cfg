SPECIFICATION FairSpec
CONSTANT Threads = {t1, t2, t3, t4}
INVARIANTS
  TypeOK
  Exclusion
  ExactCounters
  NoOvertaking
PROPERTY SomeWriterGetsIn

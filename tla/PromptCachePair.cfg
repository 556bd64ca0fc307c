SPECIFICATION Spec
CONSTANTS
  Tasks={t1,t2}
  Blank={}
  MaxEdits=3
INVARIANTS PairFromOneReload
CHECK_DEADLOCK FALSE

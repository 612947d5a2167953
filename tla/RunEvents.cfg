\* Two writers give four stamps to the events of a run.
SPECIFICATION FairSpec
CONSTANTS
  Writers = {w1, w2}
  MaxStamp = 4
  NoTxn = NoTxn
INVARIANTS
  TypeOK
  InOrderOnce
  NothingOvertaken
  EndTellsWhy
PROPERTIES
  OpenStreamDelivers
\* The stamps may be used up.
CHECK_DEADLOCK FALSE

\* Three slots of two words, and more samples than slots.
SPECIFICATION Spec
CONSTANTS
  Slots      = 3
  Words      = 2
  MaxSamples = 5
  Empty      = empty
  Garbage    = garbage
INVARIANTS
  TypeOK
  PrintedOnce
  LinesAreSamples
  NothingLost

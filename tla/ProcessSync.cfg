SPECIFICATION FairSpec
CONSTANTS
  Wrap = 6
  Keep = 4
INVARIANTS TypeOK OneWorks Counted
PROPERTIES BothWrite

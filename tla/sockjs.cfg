CONSTANTS
  Transports <- TransportsOfABrowser
  MaxSends = 4
SPECIFICATION Spec
INVARIANTS IInv
PROPERTIES RefinesConnection Settles NothingStuck
CHECK_DEADLOCK FALSE

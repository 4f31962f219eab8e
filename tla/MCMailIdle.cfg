SPECIFICATION IdleSpec
CONSTANTS
  Controllers = {ctl1, ctl2}
  MaxNotify = 2
  MaxArrivals = 3
INVARIANTS
  IdleTypeOK
PROPERTIES
  CancelSticks
  CancelEndsCall
  InterruptEndsWait

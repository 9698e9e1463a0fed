CONSTANTS
  Bytes = {0, 1}
  Zero = 0
  Torn = 9
  Depth = 2
  Overrun = FALSE
SPECIFICATION FairSpec
INVARIANT TypeOK
PROPERTY PortIsSerial
PROPERTY TransmitterDrains

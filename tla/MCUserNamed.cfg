SPECIFICATION MCSpec
CONSTANTS
  Drivers = {"pn532_uart","arygon","pn53x_usb","acr122_usb","acr122_pcsc","pn532_spi","pn532_i2c"}
  Commands = {"InDataExchange","TgInitAsTarget"}
  MaxCalls = 3
  MaxFaults = 1
  MaxAborts = 1
  Programs = {p1, p2}
  Ports = 2
  OpenCalls = 2
  MaxDevices = 2
  MaxKills = 1
  UserNames = {"a"}
  Connstrings = {"x", "y"}
  MaxUserDevices = 2
  MaxLines = 4
  MaxLen = 2
  Lookups = 1
  CounterMax = 31
  PrescalerMax = 3
  Word = 4096
  BitCycles = 2
  Lengths = {7, 8, 12, 76}
  Room = {1, 12}
  MaxCycles = {0, 95, 500}
  Late = {0, 7, 60}
  None = None
INVARIANTS UserNamed
CHECK_DEADLOCK FALSE

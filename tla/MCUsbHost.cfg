CONSTANTS
  Sticks = {127, 128, 255}
  Buttons = {1, 2}
  NakLimit = 3
  SettleDelay = 2
  SofDelay = 1
  PollInterval = 1
  XferTimeout = 3
SPECIFICATION FairHostSpec
INVARIANTS PolledDeviceConfigured InOrder JoystickFollows
PROPERTIES UpdateReturns EnumerationEnds

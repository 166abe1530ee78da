CONSTANTS
  MaxFiles = 2
  Byte = 4
  MaxResets = 0
SPECIFICATION BootSpec
INVARIANT AsksAboutSelected

CONSTANTS
  NUM_TILE_LAYERS = 2
  NUM_SPRITES = 1
  VRAM_BANK_SIZE = 2
  NUM_VRAM_BANKS = 3
  Length <- Lengths
  FontSize = 1
  BgImage = "bg"
  BgPalette = "bgpal"
  TextLayer = 1
  BgLayer = 0
  Texts = {1}
  Loads <- TheLoads
  Flags = {"8 bit"}
  Flips = {"x"}
  Values = {1}
  Offsets = {1}
  UINT16 = 8
  UINT32 = 8
  MaxCalls = 2
  MaxResets = 1
SPECIFICATION Spec
INVARIANTS BootScreen Loaded AsAsked
PROPERTIES MenuComes SketchGoesOn
CHECK_DEADLOCK FALSE

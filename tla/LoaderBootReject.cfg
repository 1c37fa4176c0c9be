SPECIFICATION Spec
CONSTANTS
  SRAM_LOAD_ORIGIN = 1
  SRAM_END = 8
  SLOT_LEN = 4
  META_LEN = 1
  MAX_AUTO_BOOT_SECS = 2
  DEFAULT_AUTO_BOOT_SECS = 1
  Elfs <- MCPastSram
  AutoBoots <- MCAutoBoots
PROPERTY RejectedImagesLeaveTheSlot

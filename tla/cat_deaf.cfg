SPECIFICATION FairSpec
CONSTANTS
  PTT_MAX_HOLD <- MCHold
  FRAME_BUDGET <- MCBudget
  CAT_GRACE <- MCGrace
  SLOT <- MCSlot
  MaxFrames = 1
  MaxFaults = 1
PROPERTY LinkComesBack

SPECIFICATION FairSpec
CONSTANTS
  PTT_MAX_HOLD <- MCHold
  FRAME_BUDGET <- MCBudget
  CAT_GRACE <- MCGrace
  SLOT <- MCSlot
  MaxFrames = 2
  MaxFaults = 1
INVARIANTS
  PttTypeOK
  KeyedIsWatched
  WatchdogSparesTendedBursts
  FramesAreKeyed
  JoinedShutdownReleases
PROPERTY HungBurstIsReleased

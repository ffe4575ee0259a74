SPECIFICATION Spec
CONSTANTS
  Frames <- MCFrames
  Crc <- CRC32
  Noise = {1, 85, 170}
  MaxFaults = 2
INVARIANTS BackInStep NothingForged LinkInv

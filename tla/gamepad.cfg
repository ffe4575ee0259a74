SPECIFICATION FairSpec
CONSTANTS
  Resolution = 256
  Positions = {0, 128, 255}
  SliderMin <- MCSliderMin
  SliderMax = 2
  Inverted = TRUE
  MaxInputs = 3
  MaxSelect = 2
  MaxQueue = 1
INVARIANTS PadInv ClicksArePresses
PROPERTIES StopReturns StickSettles
CHECK_DEADLOCK FALSE

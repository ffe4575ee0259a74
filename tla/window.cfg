SPECIFICATION Spec
CONSTANTS
  Mods = {"m", "n", "x"}
  Pars = {"p", "q"}
  Public <- ModDefaults
  Values = {0, 1}
  Exps = {"A", "B", "C", "D"}
  File <- SettingsFile
  DataMods = {"n"}
  Widgets <- SettingsWidgets
  None = None
  SendAll = FALSE
  MaxRuns = 1
  SectionExps = {"A", "B"}
  Names = {"k", "l"}
  SectionValues = {0, 1}
  SectionFile <- OneEntry
  Unique = TRUE
  MaxWidgets = 4
  ModList <- TwoMods
  ParLists <- SliderPars
  SliderFile <- SliderValues
  Ranges <- SliderRanges
  Empty = Empty
  Buttons <- SliderButtons
  Titles = {"p", "q", "Log"}
  Reserved = {"Log"}
  First = "p"
  Labels = {"x", "y"}
  DockExps = {"A", "B"}
  PointsOf <- TwoPoints
  MaxMeas = 2
  CurveNames = {"x", "y"}
  Method = "peak"
  MaxStep = 2
  Width = 2
  MaxLen = 4
  Ties = FALSE
  Restarts = FALSE
  Serials <- ThreeSerials
  Preset <- LastPreset
  AllPorts <- ThreePorts
  Arduinos = {"A1", "A2"}
  Scarce = FALSE
  PictureExps = {"A", "B"}
  Visu <- TwoVisu
  Vtk = {}
  VtkAvailable = FALSE
  Fast = FALSE
  MaxTime = 3
  MaxFrames = 4
  Parts = {"settings", "widgets", "slider", "chart", "menus", "pictures"}
INVARIANTS SettingsInv WidgetReaches SectionInv SliderInv RecordInv PortsInv PicturesInv
PROPERTIES DialogWritesNothing DrawsRecord
CHECK_DEADLOCK FALSE

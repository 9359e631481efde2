SPECIFICATION PartsSpec
CONSTANTS
  Kinds = {"timer"}
  MaxChanges = 2
  ScriptLines = 2
  RendererBars <- MCRendererBars
  RendererModules <- MCRendererModules
  RendererDraws = 2
  MpdChanges = 4
  DesktopWindows = {"w"}
  DesktopNumber = 3
  DesktopSteps = 3
  ScreenLayouts <- MCScreenLayouts
  ScreenUndashed <- MCScreenUndashed
  ScreenBars <- MCScreenBars
  ScreenChanges = 2
  HoverBars <- MCHoverBars
  HoverAreas <- MCHoverAreas
  HoverOps = 4
  BackgroundSetups <- MCBackgroundSetups
  BackgroundPixmap = 5
  BackgroundBar = 3
  BackgroundEdge = 4
  BackgroundPlaces = {0, 3}
  BackgroundIcons = 2
  BackgroundOps = 3
  WindowSetups <- MCWindowSetups
  WindowStacks <- MCWindowStacks
  WindowOps = 3
  TitledWindows = {1, 2}
  TitleSteps = 3
  TrayIcons = {"mail", "chat"}
  OtherTrays = {"stalonetray", "trayer"}
  TrayOps = 3
  AlsaMixers <- MCAlsaMixers
  AlsaTop = 2
  AlsaInterval = 50
  AlsaOps = 2
  PulseSpecified = {"", "usb"}
  PulseTop = 3
  PulseStep = 2
  PulseIndex = 3
  PulseOps = 2
  NetConfigs <- MCNetConfigs
  NetSystems <- MCNetSystems
  NetWord = 16
  NetOps = 2
  IpcClients = {"c1", "c2"}
  IpcRequests <- MCIpcRequests
  IpcModules <- MCIpcModules
  IpcBuf = 5
  IpcStarts = 2
  BatteryConfigs <- MCBatteryConfigs
  BatteryFull = 2
  BatteryOps = 2
  MeterCores = {1, 2}
  MeterWarn = 60
  MeterWord = 4
  MeterOps = 3
  BacklightScreens <- MCBacklightScreens
  BacklightOps = 4
  DateFormats <- MCDateFormats
  DateClock = 2
  DateClicks = 3
  KeyboardKeyboards <- MCKeyboardKeyboards
  KeyboardConfigs <- MCKeyboardConfigs
  KeyboardTimes = 2
  KeyboardOps = 2
  I3Outputs <- MCI3Outputs
  I3Bar = 1
  I3Ops = 3
  Parts = {"tray"}
INVARIANT TrayFollowsBar
CHECK_DEADLOCK FALSE

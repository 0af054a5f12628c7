SPECIFICATION FairSpec
CONSTANTS
  l1 = l1
  l2 = l2
  Lures = {l1, l2}
  Game = Game
  Shell = Shell
  Chrome = Chrome
  Discord = Discord
  Tool = Tool
  Unknown = Unknown
  NoProc = NoProc
  Ep = Ep
  Games <- MCGames
  Transit <- MCTransit
  Browsers <- MCBrowsers
  PlatformApps <- MCApps
  OtherApps <- MCOther
  AppOf <- MCAppOf
  StartProcs <- MCStartTool
  Workers = 1
  LateMaxAge = 1
  MaxNow = 0
  MaxMoves = 3
  MayStop = TRUE
PROPERTIES EveryDispatchEnds EveryConfirmationIsSent
CHECK_DEADLOCK FALSE

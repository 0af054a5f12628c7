SPECIFICATION Spec
CONSTANTS
  l1 = l1
  l2 = l2
  Lures = {l1, l2}
  Game = Game
  Shell = Shell
  Chrome = Chrome
  Discord = Discord
  Tool = Tool
  Unknown = Unknown
  NoProc = NoProc
  Ep = Ep
  Games <- MCGames
  Transit = {}
  Browsers <- MCBrowsers
  PlatformApps <- MCApps
  OtherApps = {}
  AppOf <- MCAppOf
  StartProcs <- MCStartLate
  Workers = 2
  LateMaxAge = 1
  MaxNow = 1
  MaxMoves = 3
  MayStop = FALSE
SYMMETRY LureSymmetry
INVARIANTS TypeOK NoDoubleConfirmation NoLureLost NoLureLeftOnDestination SwitchFollowsSomeLure
CHECK_DEADLOCK FALSE

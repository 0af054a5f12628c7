---------------------------- MODULE MCHopConfirm ----------------------------
(* Instances of HopConfirm for TLC: one game, one shell, one browser, one  *)
(* chat app and one tool; every lure belongs to the chat app's platform.   *)
EXTENDS HopConfirm, TLC

CONSTANTS Game, Shell, Chrome, Discord, Tool

MCGames     == {Game}
MCTransit   == {Shell}
MCBrowsers  == {Chrome}
MCApps      == {Discord}
MCOther     == {Tool}
MCAppOf     == [l \in Lures |-> {Discord}]
MCStartTool == {Tool}
MCStartLate == {Game, Chrome} \* the first event may be missing

LureSymmetry == Permutations(Lures)
=============================================================================

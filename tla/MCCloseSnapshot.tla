-------------------------- MODULE MCCloseSnapshot ---------------------------
(* Two instruments, one of them served by the fallback sources only; trade     *)
(* days 0 and 1.                                                               *)
EXTENDS CloseSnapshot
CONSTANTS k1, k2
MCCode == {k1, k2}
MCBj == {k2}
MCTradeDay == {0, 1}
=============================================================================

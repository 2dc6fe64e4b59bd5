---------------------------- MODULE MCPttControl ----------------------------
(***************************************************************************)
(* PttControl for TLC.  The code's seconds are 20, 20, 5 and 15; what      *)
(* matters is their order: a slot fits the default hold and a frame's      *)
(* budget, and every burst's hold exceeds the default.                     *)
(***************************************************************************)
EXTENDS PttControl

MCHold == 2
MCBudget == 2
MCGrace == 1
MCSlot == 1
=============================================================================

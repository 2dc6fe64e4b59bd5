----------------------------- MODULE MCPlayback -----------------------------
(***************************************************************************)
(* Values for TLC: a period of a few samples, of which the latency takes   *)
(* most, so that the silence left is often shorter than it.                *)
(***************************************************************************)
EXTENDS Playback

MCAudio == {2, 3, 5, 6}
MCInstants == 0..9

\* The loop of transmit_frame as it is written.
RECURSIVE AddPeriods(_)
AddPeriods(left) == IF left < 0 THEN AddPeriods(left + Period) ELSE left

\* The closed form of Silence is what the loop computes.
ASSUME LoopAssumption ==
    \A now \in 0..(3 * Slot) : Silence(now) = AddPeriods(ToBoundary(now) - Latency)
=============================================================================

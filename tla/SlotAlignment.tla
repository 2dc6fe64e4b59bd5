--------------------------- MODULE SlotAlignment ---------------------------
(***************************************************************************)
(* Where in the slot a frame starts: the arithmetic of                     *)
(* RealTxBackend.transmit_frame (src/minijs8/tx/tx_backend.py).  Time is   *)
(* counted in output samples, 48 to the millisecond.                       *)
(***************************************************************************)
EXTENDS Integers

CONSTANTS
    Slot,       \* JS8_SLOT_MS: a slot of 15 s
    Period,     \* TX_TARGET_DELAY_MS: a frame starts at a multiple of 500 ms
    Latency,    \* tx_pipeline_latency_ms of the radio
    Prefix      \* SILENCE_PREFIX_SAMPLES, which the encoder puts first

ASSUME AlignmentAssumption ==
    /\ Period \in Nat \ {0}
    /\ Slot \in Nat \ {0}
    /\ Slot % Period = 0
    /\ Latency \in Nat
    /\ Prefix \in Nat

\* What is played of `audio` samples: a buffer no longer than the prefix is
\* played whole.
ModulationLength(audio) == IF audio > Prefix THEN audio - Prefix ELSE audio

ToBoundaryBehind(now) == (now % Slot) % Period   \* mutant

\* Up to the next boundary; a full period on a boundary.
ToBoundary(now) == Period - ((now % Slot) % Period)

\* Less the latency, and periods added while that is negative.
Silence(now) ==
    LET left == ToBoundary(now) - Latency
    IN  IF left >= 0 THEN left ELSE left % Period

\* What is played n samples after `now` is heard on a boundary.
OnBoundary(now, n) == (now + n + Latency) % Period = 0
============================================================================

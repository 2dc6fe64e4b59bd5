------------------------------ MODULE Playback ------------------------------
(***************************************************************************)
(* A frame's way to the sound card: AudioPlayback (src/minijs8/audio/      *)
(* playback.py) between the TX worker in play_frame, PortAudio's thread in *)
(* the callback and the shutdown in stop().  What the three share changes  *)
(* under _state_lock, so each locked block is one step.                    *)
(*                                                                         *)
(* A sample is handed to PortAudio by the callback, waits in its buffer    *)
(* and is heard when the card plays it.  The card may stop, for good or    *)
(* for a while; a frame whose samples are asked for is done before its     *)
(* timeout.                                                                *)
(***************************************************************************)
EXTENDS SlotAlignment, Sequences, SequencesExt, FiniteSetsExt

CONSTANTS
    Block,       \* _CALLBACK_BLOCKSIZE
    Buffer,      \* samples PortAudio holds for the card
    Audio,       \* lengths of encoded frames (bound)
    Instants,    \* when the clock is read (bound)
    MaxFrames,   \* bound on the frames played
    MaxStalls    \* bound on how often the card stalls

ASSUME PlaybackAssumption ==
    /\ Block \in Nat \ {0}
    /\ Buffer \in Nat /\ Buffer >= Block
    /\ Audio \subseteq Nat
    /\ Instants \subseteq Nat
    /\ MaxFrames \in Nat
    /\ MaxStalls \in Nat

VARIABLES
    worker,      \* play_frame: "idle", "checked", "armed", "waiting", "stopping",
                 \* and "draining" in stream.stop()
    result,      \* of the last play_frame: "none", "ok", "error"
    played,      \* frames begun
    readAt,      \* the clock as transmit_frame read it
    pad, length, \* play_frame's arguments: silence, samples of modulation
    handle,      \* _stream is not None
    stream,      \* PortAudio's: "stopped", "running", "closed"
    asking,      \* the card plays a running stream and asks it for more
    stalls,      \* how often it has stopped to
    silence,     \* _silence_remaining
    modulation,  \* _modulation: the number of its frame, 0 for None
    size,        \* its length
    cursor,      \* _modulation_cursor
    done,        \* _frame_done
    handed,      \* samples handed over since the frame was begun; a sample is
                 \* the frame and its index from 0, or Zero
    heard,       \* how many of them the card has played
    cut          \* the card stood still while stream.stop() drained

callVars == <<worker, result, played, readAt, pad, length>>
deviceVars == <<handle, stream, asking, stalls>>
frameVars == <<silence, modulation, size, cursor, done, handed>>
cardVars == <<heard, cut>>
vars == <<callVars, deviceVars, frameVars, cardVars>>

Zero == <<0, 0>>
Zeros(n) == [i \in 1..n |-> Zero]
Samples(f, from, n) == [i \in 1..n |-> <<f, from + i - 1>>]

Init ==
    /\ worker = "idle" /\ result = "none" /\ played = 0
    /\ readAt = 0 /\ pad = 0 /\ length = 0
    /\ handle = TRUE /\ stream = "stopped"
    /\ asking = TRUE /\ stalls = 0
    /\ silence = 0 /\ modulation = 0 /\ size = 0 /\ cursor = 0
    /\ done = FALSE
    /\ handed = <<>> /\ heard = 0 /\ cut = FALSE

-----------------------------------------------------------------------------
(***************************************************************************)
(* The TX worker: transmit_frame and play_frame.                           *)
(***************************************************************************)

Returns(r) == worker' = "idle" /\ result' = r

\* The clock is read and the silence computed; the stream has to be open.
TransmitFrame ==
    /\ worker = "idle"
    /\ played < MaxFrames
    /\ played' = played + 1
    /\ \E now \in Instants, audio \in Audio :
           /\ readAt' = now
           /\ pad' = Silence(now)
           /\ length' = ModulationLength(audio)
    /\ handed' = <<>> /\ heard' = 0 /\ cut' = FALSE
    /\ IF handle THEN worker' = "checked" /\ result' = "none" ELSE Returns("error")
    /\ UNCHANGED <<deviceVars, silence, modulation, size, cursor, done>>

\* The locked block of play_frame.
ArmKeepsCursor ==   \* mutant
    /\ worker = "checked"
    /\ worker' = "armed"
    /\ silence' = pad /\ modulation' = played /\ size' = length
    /\ done' = FALSE
    /\ UNCHANGED <<result, played, readAt, pad, length, deviceVars, cursor, handed,
                   cardVars>>

ArmFrame ==
    /\ worker = "checked"
    /\ worker' = "armed"
    /\ silence' = pad /\ modulation' = played /\ size' = length /\ cursor' = 0
    /\ done' = FALSE
    /\ UNCHANGED <<result, played, readAt, pad, length, deviceVars, handed, cardVars>>

\* stream.start() raises when the stream is gone or going, and may when the
\* card does not answer.
StartStream ==
    /\ worker = "armed"
    /\ \/ /\ handle /\ stream = "stopped"
          /\ stream' = "running"
          /\ worker' = "waiting"
          /\ UNCHANGED result
       \/ /\ ~handle \/ stream # "stopped" \/ ~asking
          /\ Returns("error")
          /\ UNCHANGED stream
    /\ UNCHANGED <<played, readAt, pad, length, handle, asking, stalls, frameVars,
                   cardVars>>

FrameDone ==
    /\ worker = "waiting"
    /\ done
    /\ worker' = "stopping"
    /\ result' = "ok"
    /\ UNCHANGED <<played, readAt, pad, length, deviceVars, frameVars, cardVars>>

TimesOut ==
    /\ worker = "waiting"
    /\ ~done
    /\ stream # "running" \/ ~asking
    /\ worker' = "stopping"
    /\ result' = "error"
    /\ UNCHANGED <<played, readAt, pad, length, deviceVars, frameVars, cardVars>>

StopStreamOfGoodFrame ==   \* mutant
    /\ worker = "stopping"
    /\ worker' = IF handle /\ stream = "running" /\ result = "ok" THEN "draining"
                                                             ELSE "idle"
    /\ UNCHANGED <<result, played, readAt, pad, length, deviceVars, frameVars, cardVars>>

\* The finally: an error of stop() is logged, and does not change the result;
\* so it is when the shutdown has taken the stream and there is None to stop.
StopStream ==
    /\ worker = "stopping"
    /\ worker' = IF handle /\ stream = "running" THEN "draining" ELSE "idle"
    /\ UNCHANGED <<result, played, readAt, pad, length, deviceVars, frameVars, cardVars>>

DrainedAtOnce ==   \* mutant
    /\ worker = "draining"
    /\ worker' = "idle"
    /\ stream' = IF stream = "running" THEN "stopped" ELSE stream
    /\ UNCHANGED <<result, played, readAt, pad, length, handle, asking, stalls,
                   frameVars, cardVars>>

\* stop() returns when the card has played what PortAudio holds for it, when it
\* no longer plays, or when the shutdown has aborted the stream.
Drained ==
    /\ worker = "draining"
    /\ worker' = "idle"
    /\ \/ /\ stream = "running"
          /\ heard = Len(handed) \/ ~asking
          /\ stream' = "stopped"
          /\ cut' = ~asking
       \/ /\ stream # "running"
          /\ UNCHANGED <<stream, cut>>
    /\ UNCHANGED <<result, played, readAt, pad, length, handle, asking, stalls,
                   frameVars, heard>>

-----------------------------------------------------------------------------
(***************************************************************************)
(* PortAudio's thread.                                                     *)
(***************************************************************************)

\* A stream that is being stopped is not asked for more.
Asked ==
    /\ stream = "running" /\ asking
    /\ worker # "draining"
    /\ (Len(handed) - heard) + Block <= Buffer

CallbackStopsShort ==   \* mutant
    LET nSilence == Min({Block, silence})
        nMod == Min({Block - nSilence, size - cursor})
        nTail == Block - nSilence - nMod
        over == cursor + nMod >= size
    IN  /\ Asked
        /\ modulation # 0
        /\ handed' = handed \o Zeros(nSilence) \o Samples(modulation, cursor, nMod)
                          \o Zeros(nTail)
        /\ silence' = silence - nSilence
        /\ cursor' = cursor + nMod
        /\ modulation' = IF over THEN 0 ELSE modulation
        /\ done' = (done \/ (over /\ nTail > 0))
        /\ UNCHANGED <<callVars, deviceVars, size, cardVars>>

\* _audio_callback with a frame armed; without one it plays silence only.
\* What is left of the silence, then of the modulation, then zeros; the frame
\* is over when there is room for a zero.
Callback ==
    LET nSilence == Min({Block, silence})
        nMod == Min({Block - nSilence, size - cursor})
        nTail == Block - nSilence - nMod
        over == nTail > 0
    IN  /\ Asked
        /\ modulation # 0
        /\ handed' = handed \o Zeros(nSilence) \o Samples(modulation, cursor, nMod)
                          \o Zeros(nTail)
        /\ silence' = silence - nSilence
        /\ cursor' = cursor + nMod
        /\ modulation' = IF over THEN 0 ELSE modulation
        /\ done' = (done \/ over)
        /\ UNCHANGED <<callVars, deviceVars, size, cardVars>>

\* The card plays some of what it was handed.
Plays ==
    /\ stream = "running" /\ asking
    /\ \E n \in (heard + 1)..Len(handed) : heard' = n
    /\ UNCHANGED <<callVars, deviceVars, frameVars, cut>>

\* The card stops asking, and may go on.
Stalls ==
    /\ \/ asking /\ stalls < MaxStalls /\ stalls' = stalls + 1
       \/ ~asking /\ UNCHANGED stalls
    /\ asking' = ~asking
    /\ UNCHANGED <<callVars, handle, stream, frameVars, cardVars>>

-----------------------------------------------------------------------------
(***************************************************************************)
(* stop() at shutdown: under the lock the stream is taken, then aborted;   *)
(* what PortAudio still holds is not played any more.                      *)
(***************************************************************************)

TakeStream ==
    /\ handle
    /\ handle' = FALSE
    /\ UNCHANGED <<callVars, stream, asking, stalls, frameVars, cardVars>>

AbortStream ==
    /\ ~handle
    /\ stream # "closed"
    /\ stream' = "closed"
    /\ UNCHANGED <<callVars, handle, asking, stalls, frameVars, cardVars>>

-----------------------------------------------------------------------------
Next ==
    \/ TransmitFrame \/ ArmFrame \/ StartStream
    \/ FrameDone \/ TimesOut \/ StopStream \/ Drained
    \/ Callback \/ Plays \/ Stalls
    \/ TakeStream \/ AbortStream

(***************************************************************************)
(* The threads run; whether the card asks is not up to the program.        *)
(***************************************************************************)
Fairness ==
    /\ WF_vars(ArmFrame)
    /\ WF_vars(StartStream)
    /\ WF_vars(FrameDone)
    /\ WF_vars(TimesOut)
    /\ WF_vars(StopStream)
    /\ WF_vars(Drained)
    /\ WF_vars(Callback)
    /\ WF_vars(Plays)
    /\ WF_vars(AbortStream)

Spec == Init /\ [][Next]_vars /\ Fairness
-----------------------------------------------------------------------------
PlaybackTypeOK ==
    /\ worker \in {"idle", "checked", "armed", "waiting", "stopping", "draining"}
    /\ result \in {"none", "ok", "error"}
    /\ {played, readAt, pad, length, stalls, silence, modulation, size, cursor, heard}
           \subseteq Nat
    /\ {handle, asking, done, cut} \subseteq BOOLEAN
    /\ stream \in {"stopped", "running", "closed"}
    /\ modulation <= played /\ cursor <= size
    /\ handed \in Seq(Nat \X Nat)
    /\ heard <= Len(handed)

\* What a frame should sound like, without the zeros at its end.
Wanted == Zeros(pad) \o Samples(played, 0, length)

Sent == worker \in {"stopping", "draining", "idle"} /\ result = "ok"

(***************************************************************************)
(* A frame reported as sent was handed to the card: its silence, then each *)
(* of its samples once and in order, then zeros.  The callback cuts        *)
(* silence and samples into blocks that end anywhere and frames before it  *)
(* may have been given up half-way.  When play_frame has returned, it was  *)
(* also heard to its end, unless the card stood still at that moment or    *)
(* the shutdown has taken the stream: its abort() drops the end of a frame *)
(* that is reported as sent all the same (playback.py:260-285, 343-375,    *)
(* 422-470).                                                               *)
(***************************************************************************)
SentFramesWerePlayed ==
    Sent =>
        /\ IsPrefix(Wanted, handed)
        /\ \A i \in (Len(Wanted) + 1)..Len(handed) : handed[i] = Zero
        /\ worker = "idle" /\ handle /\ ~cut => heard = Len(handed)

(***************************************************************************)
(* The first sample of a frame is heard on a boundary of the slot, after   *)
(* the latency of the radio, whenever the clock was read and whether or    *)
(* not the latency is longer than the silence: time is counted in the      *)
(* samples before it (tx_backend.py:426-465).                              *)
(***************************************************************************)
OnsetOnBoundary ==
    \A i \in DOMAIN handed :
        handed[i] = <<played, 0>> => OnBoundary(readAt, i - 1)

(***************************************************************************)
(* Between frames nothing goes out, also after one that was given up while *)
(* the card did not ask: no sample is handed over, and none is heard that  *)
(* was handed over before (playback.py:364-375).                           *)
(***************************************************************************)
EndedFramesAreSilent ==
    [][handle /\ worker \in {"idle", "checked"} =>
          handed' \in {handed, <<>>} /\ heard' \in {heard, 0}]_vars

(***************************************************************************)
(* play_frame returns: the callback notices the end of every frame, also   *)
(* of one that ends with a block, and a card that stalls or a stop() makes *)
(* it time out (playback.py:352-362, 456-470).                             *)
(***************************************************************************)
FramesEnd == worker # "idle" ~> worker = "idle"
=============================================================================

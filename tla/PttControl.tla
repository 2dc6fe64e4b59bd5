----------------------------- MODULE PttControl -----------------------------
(***************************************************************************)
(* Who keys the radio and who lets it go: the scheduler thread with its    *)
(* backend (tx/scheduler.py, tx/tx_backend.py), the CAT service with its   *)
(* watchdog and reconnect threads (cat/service.py, cat/rigctl_client.py)   *)
(* and the shut-down of app.py, around the PTT line of the radio.          *)
(*                                                                         *)
(* A command is sent under the service's lock, so it is one action.  The   *)
(* watchdog's timer is read and written without the lock: each access is   *)
(* an action of its own, except the two assignments of ptt_off().          *)
(*                                                                         *)
(* Time passes in ticks.  While the scheduler tends its burst, at most     *)
(* SLOT of them pass from start_burst to the first frame, from frame to    *)
(* frame and from the last frame to end_burst; and none between the        *)
(* watchdog's reading of the timer and its decision.                       *)
(***************************************************************************)
EXTENDS Integers

CONSTANTS
    PTT_MAX_HOLD,       \* the watchdog's default limit
    FRAME_BUDGET,       \* what the scheduler allows a frame
    CAT_GRACE,          \* what the watchdog allows on top of it
    SLOT,               \* time from one frame to the next
    MaxFrames,          \* frames of the longest message
    MaxFaults           \* failing commands and statements in one behaviour

ASSUME PttAssumption ==
    /\ {PTT_MAX_HOLD, FRAME_BUDGET, CAT_GRACE, SLOT, MaxFrames} \subseteq Nat \ {0}
    /\ SLOT <= PTT_MAX_HOLD
    /\ SLOT <= FRAME_BUDGET
    /\ MaxFaults \in Nat

VARIABLES
    radio,      \* is the transmitter on
    doubt,      \* the last PTT command may not have done what it said
    sock,       \* the service's client: "none", "open" or "closed"
    connected,  \* CatService._connected, what is_connected answers
    heldFor,    \* time since _ptt_held_at, or None
    override,   \* _ptt_max_hold_override_s, or None
    txPc,       \* where the scheduler thread is
    left,       \* frames of the burst still to send
    burst,      \* RealTxBackend._burst_active
    pace,       \* time since start_burst or the last transmit_frame
    untended,   \* the scheduler has once left a burst to itself
    dogPc,      \* where the watchdog thread is
    dogHeld,    \* its local copy of _ptt_held_at, as a duration or None
    linkPc,     \* where the reconnect thread is
    stopPc,     \* where the shut-down is
    joined,     \* the scheduler had ended when CAT was stopped
    faults      \* failures so far

timer == <<heldFor, override>>
line  == <<radio, doubt, sock, connected, faults>>
tx    == <<txPc, left, burst, pace, untended>>
dog   == <<dogPc, dogHeld>>
stop  == <<stopPc, joined>>
vars  == <<line, timer, tx, dog, linkPc, stop>>

None == -1

\* The hold the scheduler asks for before a burst of n frames.
HoldFor(n) == n * FRAME_BUDGET + CAT_GRACE

\* Durations are not told apart beyond what every limit allows.
Horizon == PTT_MAX_HOLD + HoldFor(MaxFrames)
Older(t) == IF t = None \/ t = Horizon THEN t ELSE t + 1

Init ==
    /\ radio = FALSE /\ doubt = FALSE /\ sock = "none" /\ connected = FALSE
    /\ heldFor = None /\ override = None
    /\ txPc = "idle" /\ left = 0 /\ burst = FALSE /\ pace = 0 /\ untended = FALSE
    /\ dogPc = "wait" /\ dogHeld = None
    /\ linkPc = "check"
    /\ stopPc = "run" /\ joined = FALSE
    /\ faults = 0

-----------------------------------------------------------------------------
(* Commands.  A rejected command (RPRT other than 0) left the radio alone. *)
(* After a timeout or an answer that makes no sense nobody knows; only the *)
(* timeout closes the socket.                                              *)

Lost == {"timeout", "garbled"}
Faulty == Lost \cup {"rejected"}
Outcomes == Faulty \cup {"ok", "down"}

CountFault(o) ==
    /\ o \in Faulty => faults < MaxFaults
    /\ faults' = IF o \in Faulty THEN faults + 1 ELSE faults

\* RigctlClient.ptt_on / ptt_off, on a client that may be missing or closed.
Command(on, o, done) ==
    /\ (o = "down") <=> (sock # "open")
    /\ o = "ok" => done
    /\ o \in {"rejected", "down"} => ~done
    /\ radio' = IF done THEN on ELSE radio
    /\ doubt' = (o # "ok" /\ (doubt \/ ~on \/ o \in Lost))
    /\ sock' = IF o = "timeout" THEN "closed" ELSE sock
    /\ CountFault(o)

\* CatService._call around it.
Call(on, o, done) ==
    /\ Command(on, o, done)
    /\ connected' = (connected /\ o \notin Lost)

-----------------------------------------------------------------------------
(* The scheduler thread *)

MoveTx(from, to) == txPc = from /\ txPc' = to

\* A fresh burst: _tick's set_burst_hold_seconds.
SetsHold ==
    /\ MoveTx("idle", "gate")
    /\ stopPc = "run"
    /\ left' \in 1..MaxFrames
    /\ override' = HoldFor(left')
    /\ UNCHANGED <<line, heldFor, burst, pace, untended, dog, linkPc, stop>>

\* start_burst's checks; its RuntimeError ends the tick.
ChecksLink ==
    /\ txPc = "gate"
    /\ txPc' = IF burst THEN "idle" ELSE IF connected THEN "key" ELSE "unhold"
    /\ UNCHANGED <<line, timer, left, burst, pace, untended, dog, linkPc, stop>>

KeysUnnoted(o, done) ==   \* mutant: the watchdog's timer is not started
    /\ txPc = "key"
    /\ Call(TRUE, o, done)
    /\ txPc' = IF o = "ok" THEN "mark" ELSE "unhold"
    /\ UNCHANGED <<timer, left, burst, pace, untended, dog, linkPc, stop>>

KeysRegardless(o, done) ==   \* mutant: ptt_on's answer is not looked at
    /\ txPc = "key"
    /\ Call(TRUE, o, done)
    /\ txPc' = "note"
    /\ UNCHANGED <<timer, left, burst, pace, untended, dog, linkPc, stop>>

Keys(o, done) ==
    /\ txPc = "key"
    /\ Call(TRUE, o, done)
    /\ txPc' = IF o = "ok" THEN "note" ELSE "unhold"
    /\ UNCHANGED <<timer, left, burst, pace, untended, dog, linkPc, stop>>

NotesHeld ==
    /\ MoveTx("note", "mark")
    /\ heldFor' = 0 /\ burst' = TRUE /\ pace' = 0
    /\ UNCHANGED <<line, override, left, untended, dog, linkPc, stop>>

\* start_burst failed: set_burst_hold_seconds(0).
DropsHold ==
    /\ MoveTx("unhold", "idle")
    /\ override' = None
    /\ UNCHANGED <<line, heldFor, left, burst, pace, untended, dog, linkPc, stop>>

MarksSending ==
    /\ MoveTx("mark", "kick")
    /\ UNCHANGED <<line, timer, left, burst, pace, untended, dog, linkPc, stop>>

\* mark_sending raises: the tick is over, PTT stays on, and the next tick
\* drops the burst's context without ending it.
MarkingRaises ==
    /\ MoveTx("mark", "idle")
    /\ faults < MaxFaults /\ faults' = faults + 1
    /\ untended' = TRUE
    /\ UNCHANGED <<radio, doubt, sock, connected, timer, left, burst, pace, dog, linkPc, stop>>

\* ptt_kick's test, then its assignment.
KickLooks ==
    /\ txPc = "kick"
    /\ \/ heldFor = None /\ txPc' = "play" /\ pace' = 0
       \/ heldFor # None /\ txPc' = "rekick" /\ pace' = pace
    /\ UNCHANGED <<line, timer, left, burst, untended, dog, linkPc, stop>>

KickResets ==
    /\ MoveTx("rekick", "play")
    /\ heldFor' = 0 /\ pace' = 0
    /\ UNCHANGED <<line, override, left, burst, untended, dog, linkPc, stop>>

FrameEndsLate(ok) ==   \* mutant: one frame too many
    /\ txPc \in {"play", "hung"}
    /\ left' = IF ok THEN left - 1 ELSE left
    /\ txPc' = IF ok /\ left > 0 THEN "slot" ELSE "forget"
    /\ UNCHANGED <<line, timer, burst, pace, untended, dog, linkPc, stop>>

\* play_frame returns, in time or after it hung, well or with an exception.
FrameEnds(ok) ==
    /\ txPc \in {"play", "hung"}
    /\ left' = IF ok THEN left - 1 ELSE left
    /\ txPc' = IF ok /\ left > 1 THEN "slot" ELSE "forget"
    /\ UNCHANGED <<line, timer, burst, pace, untended, dog, linkPc, stop>>

PlayHangs ==
    /\ MoveTx("play", "hung")
    /\ untended' = TRUE
    /\ UNCHANGED <<line, timer, left, burst, pace, dog, linkPc, stop>>

NextSlot ==
    /\ MoveTx("slot", "kick")
    /\ stopPc = "run"
    /\ UNCHANGED <<line, timer, left, burst, pace, untended, dog, linkPc, stop>>

\* _check_burst_watchdog, in a tick that finds the deadline passed.
DeadlinePassed ==
    /\ MoveTx("slot", "forget")
    /\ stopPc = "run"
    /\ UNCHANGED <<line, timer, left, burst, pace, untended, dog, linkPc, stop>>

ForgetsHoldOnly ==   \* mutant: _ptt_held_at is not reset
    /\ MoveTx("forget", "off")
    /\ override' = None
    /\ UNCHANGED <<line, heldFor, left, burst, pace, untended, dog, linkPc, stop>>

\* ptt_off as end_burst calls it: the timer first, then the command, whose
\* failure nobody looks at.
Forgets ==
    /\ MoveTx("forget", "off")
    /\ heldFor' = None /\ override' = None
    /\ UNCHANGED <<line, left, burst, pace, untended, dog, linkPc, stop>>

Releases(o, done) ==
    /\ MoveTx("off", "idle")
    /\ Call(FALSE, o, done)
    /\ burst' = FALSE
    /\ UNCHANGED <<timer, left, pace, untended, dog, linkPc, stop>>

\* The loop sees the stop event between ticks, also between two frames.
SchedulerExits ==
    /\ txPc \in {"idle", "slot"}
    /\ stopPc # "run"
    /\ txPc' = "exited"
    /\ untended' = (untended \/ burst)
    /\ UNCHANGED <<line, timer, left, burst, pace, dog, linkPc, stop>>

-----------------------------------------------------------------------------
(* The watchdog thread *)

Halting == stopPc \in {"halting", "closed"}

WatchdogReads ==
    /\ dogPc = "wait" /\ ~Halting
    /\ heldFor # None
    /\ dogPc' = "decide" /\ dogHeld' = heldFor
    /\ UNCHANGED <<line, timer, tx, linkPc, stop>>

Cap == IF override = None THEN PTT_MAX_HOLD ELSE override

WatchdogDecides ==
    /\ dogPc = "decide"
    /\ dogPc' = IF dogHeld > Cap THEN "forget" ELSE "wait"
    /\ dogHeld' = None
    /\ UNCHANGED <<line, timer, tx, linkPc, stop>>

WatchdogForgetsOnly ==   \* mutant: resets the timer, sends nothing
    /\ dogPc = "forget" /\ dogPc' = "wait"
    /\ heldFor' = None /\ override' = None
    /\ UNCHANGED <<line, dogHeld, tx, linkPc, stop>>

WatchdogForgets ==
    /\ dogPc = "forget" /\ dogPc' = "release"
    /\ heldFor' = None /\ override' = None
    /\ UNCHANGED <<line, dogHeld, tx, linkPc, stop>>

WatchdogReleases(o, done) ==
    /\ dogPc = "release" /\ dogPc' = "wait"
    /\ Call(FALSE, o, done)
    /\ UNCHANGED <<timer, dogHeld, tx, linkPc, stop>>

WatchdogExits ==
    /\ dogPc = "wait" /\ Halting
    /\ dogPc' = "exited"
    /\ UNCHANGED <<line, timer, dogHeld, tx, linkPc, stop>>

-----------------------------------------------------------------------------
(* The reconnect thread *)

MoveLink(from, to) == linkPc = from /\ linkPc' = to

ChecksClient ==
    /\ linkPc = "check" /\ ~Halting
    /\ linkPc' = IF sock = "open" THEN "ping" ELSE "connect"
    /\ UNCHANGED <<line, timer, tx, dog, stop>>

\* A rejected ping reports the radio, not the socket, which stays open.
Pings(o) ==
    /\ MoveLink("ping", "check") /\ ~Halting
    /\ o # "garbled"
    /\ (o = "down") <=> (sock # "open")
    /\ sock' = IF o = "timeout" THEN "closed" ELSE sock
    /\ connected' = (connected /\ o = "ok")
    /\ CountFault(o)
    /\ UNCHANGED <<radio, doubt, timer, tx, dog, stop>>

\* The connection and its first ping; a failed attempt is retried.
Connects ==
    /\ MoveLink("connect", "install") /\ ~Halting
    /\ UNCHANGED <<line, timer, tx, dog, stop>>

Installs ==
    /\ MoveLink("install", "announce")
    /\ sock' = "open"
    /\ UNCHANGED <<radio, doubt, connected, faults, timer, tx, dog, stop>>

\* Outside the lock.
Announces ==
    /\ MoveLink("announce", "check")
    /\ connected' = TRUE
    /\ UNCHANGED <<radio, doubt, sock, faults, timer, tx, dog, stop>>

LinkExits ==
    /\ linkPc \in {"check", "ping", "connect"} /\ Halting
    /\ linkPc' = "exited"
    /\ UNCHANGED <<line, timer, tx, dog, stop>>

-----------------------------------------------------------------------------
(* Everything else *)

\* get_frequency_hz or set_frequency_hz of the asyncio or reconnect thread
\* is lost.
FrequencyCallFails(o) ==
    /\ o \in Lost
    /\ sock = "open"
    /\ sock' = IF o = "timeout" THEN "closed" ELSE sock
    /\ connected' = FALSE
    /\ CountFault(o)
    /\ UNCHANGED <<radio, doubt, timer, tx, dog, linkPc, stop>>

\* app.py's _cleanup: stop the scheduler, wait three seconds for it at most.
\* The wait may end either way when the scheduler takes longer.
StopsScheduler ==
    /\ stopPc = "run" /\ stopPc' = "joining"
    /\ UNCHANGED <<line, timer, tx, dog, linkPc, joined>>

JoinsScheduler ==
    /\ stopPc = "joining" /\ stopPc' = "release"
    /\ joined' = (txPc = "exited")
    /\ UNCHANGED <<line, timer, tx, dog, linkPc>>

\* The clean-up's own three seconds, which began no later, are over first: it
\* is cancelled in its wait, and CatService.stop is never called.  The other
\* threads run on until the process ends.
GraceExpires ==
    /\ stopPc = "joining" /\ stopPc' = "abandoned"
    /\ UNCHANGED <<line, timer, tx, dog, linkPc, joined>>

StopReleasesNothing(o, done) ==   \* mutant: stop() without its final T 0
    /\ stopPc = "release" /\ stopPc' = "halting"
    /\ o = "ok" /\ done
    /\ UNCHANGED <<line, timer, tx, dog, linkPc, joined>>

\* CatService.stop: release PTT, end the threads or wait no longer for
\* them, close the client.
StopReleases(o, done) ==
    /\ stopPc = "release" /\ stopPc' = "halting"
    /\ Command(FALSE, o, done)
    /\ UNCHANGED <<connected, timer, tx, dog, linkPc, joined>>

StopCloses ==
    /\ stopPc = "halting" /\ stopPc' = "closed"
    /\ sock' = "none" /\ connected' = FALSE
    /\ UNCHANGED <<radio, doubt, faults, timer, tx, dog, linkPc, joined>>

\* Between start_burst and end_burst, with the scheduler attending.
Tending ==
    ~untended /\ txPc \in {"mark", "kick", "rekick", "play", "slot", "forget"}

Tick ==
    /\ Tending => pace < SLOT
    /\ dogPc # "decide"
    /\ heldFor' = Older(heldFor)
    /\ pace' = IF Tending THEN pace + 1 ELSE pace
    /\ UNCHANGED <<line, override, txPc, left, burst, untended, dog, linkPc, stop>>

-----------------------------------------------------------------------------
\* The scheduler thread, apart from a hung play_frame.
TxStep ==
    \/ SetsHold \/ ChecksLink \/ NotesHeld \/ DropsHold
    \/ MarksSending \/ MarkingRaises \/ KickLooks \/ KickResets \/ PlayHangs
    \/ NextSlot \/ DeadlinePassed \/ Forgets \/ SchedulerExits
    \/ \E ok \in BOOLEAN : FrameEnds(ok)
    \/ \E o \in Outcomes, done \in BOOLEAN : Keys(o, done) \/ Releases(o, done)

WatchdogStep ==
    \/ WatchdogReads \/ WatchdogDecides \/ WatchdogForgets \/ WatchdogExits
    \/ \E o \in Outcomes, done \in BOOLEAN : WatchdogReleases(o, done)

LinkStep ==
    \/ ChecksClient \/ Connects \/ Installs \/ Announces \/ LinkExits
    \/ \E o \in Outcomes : Pings(o)

StopStep ==
    \/ StopsScheduler \/ JoinsScheduler \/ GraceExpires \/ StopCloses
    \/ \E o \in Outcomes, done \in BOOLEAN : StopReleases(o, done)

Next ==
    \/ TxStep \/ WatchdogStep \/ LinkStep \/ StopStep \/ Tick
    \/ \E o \in Outcomes : FrequencyCallFails(o)

Spec == Init /\ [][Next]_vars

\* The threads run and time passes.  play_frame may hang for ever; whether
\* there is a message to send, and whether the daemon is stopped, is open.
FairSpec ==
    /\ Spec
    /\ WF_vars(TxStep /\ txPc \notin {"idle", "hung"})
    /\ WF_vars(WatchdogStep) /\ WF_vars(LinkStep) /\ SF_vars(Tick)

-----------------------------------------------------------------------------
(* Properties *)

TxPcs == {"idle", "gate", "key", "note", "mark", "kick", "rekick", "play",
          "hung", "slot", "forget", "off", "unhold", "exited"}

\* Type correctness of every variable, with the bounds of the counters.
PttTypeOK ==
    /\ radio \in BOOLEAN /\ doubt \in BOOLEAN /\ connected \in BOOLEAN
    /\ burst \in BOOLEAN /\ untended \in BOOLEAN /\ joined \in BOOLEAN
    /\ sock \in {"none", "open", "closed"}
    /\ {heldFor, dogHeld} \subseteq {None} \cup (0..Horizon)
    /\ override \in {None} \cup (1..Horizon)
    /\ txPc \in TxPcs
    /\ left \in 0..MaxFrames /\ pace \in 0..SLOT
    /\ dogPc \in {"wait", "decide", "forget", "release", "exited"}
    /\ linkPc \in {"check", "ping", "connect", "install", "announce", "exited"}
    /\ stopPc \in {"run", "joining", "abandoned", "release", "halting", "closed"}
    /\ faults \in 0..MaxFaults

\* The shut-down has neither sent its final T 0 nor been abandoned before it.
BeforeFinalRelease == stopPc \in {"run", "joining", "release"}

\* A radio that is keyed, as far as the commands' answers tell, is never
\* without somebody who will release it: the watchdog's timer runs, or is
\* about to be started, or a release is on its way.  The timer is shared by
\* two threads that take no lock for it (cat/service.py 163-235, 346-362).
KeyedIsWatched ==
    radio /\ ~doubt /\ BeforeFinalRelease =>
        \/ heldFor # None /\ dogPc # "exited"
        \/ txPc \in {"note", "off"}
        \/ dogPc = "release"

\* The watchdog leaves bursts alone that the scheduler tends: the kicks, the
\* hold asked for and the reset at the end keep its timer from running out,
\* whatever it read before (tx/scheduler.py 463-471).
WatchdogSparesTendedBursts == ~untended => dogPc \notin {"forget", "release"}

\* A tended burst's frames go out on a keyed radio, although the link may fail
\* and come back meanwhile.
FramesAreKeyed ==
    txPc \in {"mark", "kick", "rekick", "play"} /\ ~untended /\ BeforeFinalRelease
        => radio

\* A shut-down that saw the scheduler end, and got as far as closing CAT, leaves
\* the radio off, unless the final command failed (app.py 2870-2900).  Nothing
\* is said of one that is abandoned in its wait.
JoinedShutdownReleases == stopPc = "closed" /\ joined /\ ~doubt => ~radio

\* While the commands' answers can be relied upon, a keyed radio is
\* eventually released, even when play_frame hangs for ever or the scheduler
\* has lost the burst (cat/service.py 328-362).
HungBurstIsReleased ==
    radio /\ ~doubt ~> ~radio \/ doubt \/ stopPc # "run"

\* Documentation of cat/service.py 10-14: PTT is released "no matter what";
\* whatever is still keyed when the timer runs out is sent T 0.
PttIsReleased == radio ~> ~radio \/ stopPc # "run"

\* Documentation of cat/service.py 6-8: a transient failure does not brick
\* CAT until the daemon is restarted.
LinkComesBack == ~connected ~> connected \/ stopPc # "run"
=============================================================================

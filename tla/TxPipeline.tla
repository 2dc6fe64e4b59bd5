----------------------------- MODULE TxPipeline -----------------------------
(***************************************************************************)
(* The transmit pipeline: the threads that share the outbound table.       *)
(*                                                                         *)
(*   - the asyncio thread enqueues operator messages and automatic replies *)
(*     and matches incoming ACKs (app.py, OutboundQueue.record_ack);       *)
(*   - beacon threads enqueue heartbeats and SOS calls (tx/beacon.py);     *)
(*   - the encode worker renders audio for ENCODING rows                   *)
(*     (tx/encode_worker.py);                                              *)
(*   - the scheduler runs one tick per 15 s slot (tx/scheduler.py).        *)
(*                                                                         *)
(* One action is one SQL statement, or one call on the backend, with the   *)
(* in-memory bookkeeping the code does before its next one; threads        *)
(* interleave between actions.  The daemon may be killed and restarted     *)
(* (Crash ... Recover), and one statement of the scheduler may raise       *)
(* (StatementFails) when DbMayFail.                                        *)
(***************************************************************************)
EXTENDS OutboundQueue

CONSTANTS
    Clients,        \* threads that enqueue; "asyncio" is one of them
    Submits,        \* [Clients -> SUBSET Payloads]: what each one enqueues
    MaxCrashes,     \* bound: restarts of the daemon
    DbMayFail       \* may a statement of the scheduler raise?

ASSUME PipelineAssumption ==
    /\ "asyncio" \in Clients
    /\ Submits \in [Clients -> SUBSET Payloads]
    /\ MaxCrashes \in Nat
    /\ DbMayFail \in BOOLEAN

VARIABLES
    outbound,   \* the table
    nextId,     \* AUTOINCREMENT
    client,     \* per client: the payload it counted room for, if any
    ackRow,     \* asyncio: the row record_ack selected, or NoRow
    encPc,      \* encode worker: "idle", "encode" or "mark"
    encRow,     \* encode worker: the row in hand
    cache,      \* EncodedAudioCache: ids with rendered audio
    pc,         \* scheduler: where it is in its tick
    swept,      \* scheduler: timed-out rows still to be handled this tick
    fresh,      \* scheduler: skip_ids, the rows re-queued by this tick
    cur,        \* scheduler: the message picked this tick
    ctx,        \* scheduler: _mf_state, the burst in progress
    burst,      \* backend: _burst_active, PTT is held
    boot,       \* the daemon: "down", "purged", "up"
    epoch,      \* history: nextId when the daemon last came up
    crashes,    \* how often the daemon was killed
    faulted     \* history: a scheduler statement raised since the start

asyncioVars == <<client, ackRow>>
workerVars  == <<encPc, encRow>>
tickVars    == <<swept, fresh, cur>>
lifeVars    == <<boot, epoch, crashes>>
vars == <<outbound, nextId, asyncioVars, workerVars, cache, pc, tickVars,
          ctx, burst, lifeVars, faulted>>

Idle == {}
NoCtx == [id |-> NoRow, next |-> 0, age |-> 0]

\* Scheduler program counter: "boot" before abandon_stale_sending, "sleep"
\* between ticks, then the steps of _tick in order.
SchedulerPcs == {"boot", "sleep", "sweep", "retry", "watchdog", "pick", "gate",
                 "audio", "reject", "start", "mark", "frame", "finish", "fail"}

TypeOK ==
    /\ outbound \in [Ids -> Row]
    /\ nextId \in 1..(MaxRows + 1)
    /\ client \in [Clients -> SUBSET Payloads]
    /\ ackRow \in Ids \cup {NoRow}
    /\ encPc \in {"idle", "encode", "mark"}
    /\ encRow \in Ids \cup {NoRow}
    /\ encPc # "idle" => encRow \in Ids
    /\ cache \subseteq Ids
    /\ pc \in SchedulerPcs
    /\ swept \subseteq Ids
    /\ fresh \subseteq Ids
    /\ cur \in Ids \cup {NoRow}
    /\ pc \in {"gate", "audio", "reject", "start", "mark", "frame", "finish", "fail"}
          => cur \in Ids
    /\ ctx \in [id : Ids, next : Nat, age : Nat] \cup {NoCtx}
    /\ pc \in {"mark", "frame"} => ctx # NoCtx /\ ctx.id = cur
    /\ burst \in BOOLEAN
    /\ boot \in {"down", "purged", "up"}
    /\ epoch \in 1..(MaxRows + 1)
    /\ crashes \in 0..MaxCrashes
    /\ faulted \in BOOLEAN

Init ==
    /\ outbound = EmptyTable
    /\ nextId = 1
    /\ client = [c \in Clients |-> Idle]
    /\ ackRow = NoRow
    /\ encPc = "idle" /\ encRow = NoRow
    /\ cache = {}
    /\ pc = "boot"
    /\ swept = {} /\ fresh = {} /\ cur = NoRow
    /\ ctx = NoCtx /\ burst = FALSE
    /\ boot = "down" /\ epoch = 1 /\ crashes = 0
    /\ faulted = FALSE

----------------------------------------------------------------------------
(* asyncio and beacon threads *)

\* enqueue_for_encoding, first statement: SELECT COUNT(*).  A full queue
\* returns None and leaves nothing behind.
CountRoom(c, p) ==
    /\ boot = "up"
    /\ client[c] = Idle
    /\ c = "asyncio" => ackRow = NoRow
    /\ nextId + Cardinality({d \in Clients : client[d] # Idle}) <= MaxRows
    /\ ActiveCount(outbound) < QUEUE_DEPTH
    /\ client' = [client EXCEPT ![c] = {p}]
    /\ UNCHANGED <<outbound, nextId, ackRow, workerVars, cache, pc, tickVars,
                   ctx, burst, lifeVars, faulted>>

\* enqueue_for_encoding, second statement: INSERT.
InsertRow(c, p) ==
    /\ p \in client[c]
    /\ nextId \in Ids
    /\ outbound' = Insert(outbound, nextId, p)
    /\ nextId' = nextId + 1
    /\ client' = [client EXCEPT ![c] = Idle]
    /\ UNCHANGED <<ackRow, workerVars, cache, pc, tickVars, ctx, burst,
                   lifeVars, faulted>>

\* An ACK addressed to us is decoded: record_ack selects a row.
SelectAcked(call, id) ==
    /\ boot = "up"
    /\ client["asyncio"] = Idle
    /\ ackRow = NoRow
    /\ MatchesAck(outbound, id, call)
    /\ ackRow' = id
    /\ UNCHANGED <<outbound, nextId, client, workerVars, cache, pc, tickVars,
                   ctx, burst, lifeVars, faulted>>

DeliverAckedKeepsAudio ==   \* mutant
    /\ ackRow \in Ids
    /\ outbound' = MarkDelivered(outbound, ackRow)
    /\ ackRow' = NoRow
    /\ UNCHANGED <<nextId, client, workerVars, cache, pc, tickVars, ctx, burst,
                   lifeVars, faulted>>

\* record_ack updates the row it selected, then the app frees its audio.
DeliverAcked ==
    /\ ackRow \in Ids
    /\ outbound' = MarkDelivered(outbound, ackRow)
    /\ cache' = cache \ {ackRow}
    /\ ackRow' = NoRow
    /\ UNCHANGED <<nextId, client, workerVars, pc, tickVars, ctx, burst,
                   lifeVars, faulted>>

----------------------------------------------------------------------------
(* Encode worker *)

PickEncoding(id) ==
    /\ boot = "up"
    /\ encPc = "idle"
    /\ IsOldest(outbound, id, "ENCODING")
    /\ encRow' = id
    /\ encPc' = "encode"
    /\ UNCHANGED <<outbound, nextId, asyncioVars, cache, pc, tickVars, ctx,
                   burst, lifeVars, faulted>>

\* The audio is cached before the row becomes visible to the scheduler.
CacheAudio ==
    /\ encPc = "encode"
    /\ cache' = cache \cup {encRow}
    /\ encPc' = "mark"
    /\ UNCHANGED <<outbound, nextId, asyncioVars, encRow, pc, tickVars, ctx,
                   burst, lifeVars, faulted>>

AnnounceEncoded ==
    /\ encPc = "mark"
    /\ outbound' = MarkEncoded(outbound, encRow)
    /\ encPc' = "idle" /\ encRow' = NoRow
    /\ UNCHANGED <<nextId, asyncioVars, cache, pc, tickVars, ctx, burst,
                   lifeVars, faulted>>

EncodeFails ==
    /\ encPc = "encode"
    /\ outbound' = MarkAbandoned(outbound, encRow)
    /\ encPc' = "idle" /\ encRow' = NoRow
    /\ UNCHANGED <<nextId, asyncioVars, cache, pc, tickVars, ctx, burst,
                   lifeVars, faulted>>

----------------------------------------------------------------------------
(* Scheduler *)

notScheduler == <<nextId, asyncioVars, workerVars, lifeVars>>

EndTick ==
    /\ pc' = "sleep"
    /\ swept' = {} /\ fresh' = {} /\ cur' = NoRow

\* burst_deadline = burst start + n_frames * 20 s, checked at slot ticks.
SLOT_SECONDS == 15
FRAME_BUDGET_SECONDS == 20
FramesOf(id) == outbound[id].msg.frames
PastDeadline(c) == SLOT_SECONDS * c.age > FRAME_BUDGET_SECONDS * FramesOf(c.id)

SlotGoesBy ==
    /\ outbound' = Elapse(outbound)
    /\ ctx' = IF ctx # NoCtx /\ ~PastDeadline(ctx)
              THEN [ctx EXCEPT !.age = @ + 1] ELSE ctx

StartSchedulerNoCleanup ==   \* mutant
    /\ boot = "up"
    /\ pc = "boot"
    /\ EndTick
    /\ UNCHANGED <<outbound, cache, ctx, burst, faulted, notScheduler>>

\* run(): rows a killed daemon left in SENDING are closed once.
StartScheduler ==
    /\ boot = "up"
    /\ pc = "boot"
    /\ outbound' = AbandonStaleSending(outbound)
    /\ EndTick
    /\ UNCHANGED <<cache, ctx, burst, faulted, notScheduler>>

\* The sleep to the next slot ends.  record_ack's two statements run back to
\* back on the asyncio thread and do not straddle a 15 s slot.
WakeForSlot ==
    /\ pc = "sleep"
    /\ ackRow = NoRow
    /\ SlotGoesBy
    /\ pc' = "sweep"
    /\ UNCHANGED <<cache, burst, faulted, tickVars, notScheduler>>

\* A slot with no tick: the last tick overran its slot, the thread was
\* starved, or the daemon is down.
MissSlot ==
    /\ pc \in {"sleep", "boot"}
    /\ ackRow = NoRow
    /\ SlotGoesBy
    /\ UNCHANGED <<cache, pc, burst, faulted, tickVars, notScheduler>>

\* _process_ack_timeouts: one SELECT, then an UPDATE per row it returned.
SelectTimedOut ==
    /\ pc = "sweep"
    /\ \E late \in SUBSET NearCutoff(outbound) :
          swept' = PastCutoff(outbound) \cup late
    /\ pc' = "retry"
    /\ UNCHANGED <<outbound, cache, fresh, cur, ctx, burst, faulted, notScheduler>>

SweepRow(id) ==
    /\ pc = "retry"
    /\ id \in swept
    /\ swept' = swept \ {id}
    /\ outbound' = RetryOrAbandon(outbound, id)
    /\ IF outbound[id].attempts >= MAX_ATTEMPTS
       THEN cache' = cache \ {id} /\ UNCHANGED fresh
       ELSE fresh' = fresh \cup {id} /\ UNCHANGED cache
    /\ UNCHANGED <<pc, cur, ctx, burst, faulted, notScheduler>>

SweepDone ==
    /\ pc = "retry"
    /\ swept = {}
    /\ pc' = "watchdog"
    /\ UNCHANGED <<outbound, cache, tickVars, ctx, burst, faulted, notScheduler>>

BurstInTimeUnchecked ==   \* mutant
    /\ pc = "watchdog"
    /\ pc' = "pick"
    /\ UNCHANGED <<outbound, cache, tickVars, ctx, burst, faulted, notScheduler>>

\* _check_burst_watchdog.  Its mark_abandoned runs under a try of its own:
\* if it raises, the burst is over but the row stays as it is.
BurstInTime ==
    /\ pc = "watchdog"
    /\ ctx # NoCtx => ~PastDeadline(ctx)
    /\ pc' = "pick"
    /\ UNCHANGED <<outbound, cache, tickVars, ctx, burst, faulted, notScheduler>>

ForceEndBurstStaysKeyed ==   \* mutant
    /\ pc = "watchdog"
    /\ ctx # NoCtx
    /\ PastDeadline(ctx)
    /\ ctx' = NoCtx
    /\ cache' = cache \ {ctx.id}
    /\ pc' = "pick"
    /\ outbound' = MarkAbandoned(outbound, ctx.id)
    /\ UNCHANGED <<tickVars, burst, faulted, notScheduler>>

ForceEndBurst ==
    /\ pc = "watchdog"
    /\ ctx # NoCtx
    /\ PastDeadline(ctx)
    /\ burst' = FALSE
    /\ ctx' = NoCtx
    /\ cache' = cache \ {ctx.id}
    /\ pc' = "pick"
    /\ \/ outbound' = MarkAbandoned(outbound, ctx.id) /\ UNCHANGED faulted
       \/ DbMayFail /\ ~faulted /\ faulted' = TRUE /\ UNCHANGED outbound
    /\ UNCHANGED <<tickVars, notScheduler>>

ContinueBurstForgetsRow ==   \* mutant
    /\ pc = "pick"
    /\ ctx # NoCtx
    /\ outbound[ctx.id].state = "SENDING"
    /\ pc' = "frame"
    /\ UNCHANGED <<outbound, cache, tickVars, ctx, burst, faulted, notScheduler>>

\* _pick_for_this_slot.  A burst in progress goes first ...
ContinueBurst ==
    /\ pc = "pick"
    /\ ctx # NoCtx
    /\ outbound[ctx.id].state = "SENDING"
    /\ cur' = ctx.id
    /\ pc' = "frame"
    /\ UNCHANGED <<outbound, cache, swept, fresh, ctx, burst, faulted, notScheduler>>

\* ... unless its row is no longer SENDING: the context is dropped, nothing
\* else, and a fresh row is looked for in the same tick.
DropContext ==
    /\ pc = "pick"
    /\ ctx # NoCtx
    /\ outbound[ctx.id].state # "SENDING"
    /\ ctx' = NoCtx
    /\ UNCHANGED <<outbound, cache, pc, tickVars, burst, faulted, notScheduler>>

PickQueuedAtOnce(id) ==   \* mutant
    /\ pc = "pick"
    /\ ctx = NoCtx
    /\ IsOldest(outbound, id, "QUEUED")
    /\ cur' = id
    /\ pc' = "gate"
    /\ UNCHANGED <<outbound, cache, swept, fresh, ctx, burst, faulted, notScheduler>>

PickQueued(id) ==
    /\ pc = "pick"
    /\ ctx = NoCtx
    /\ IsOldest(outbound, id, "QUEUED")
    /\ id \notin fresh
    /\ cur' = id
    /\ pc' = "gate"
    /\ UNCHANGED <<outbound, cache, swept, fresh, ctx, burst, faulted, notScheduler>>

\* Nothing queued, or the oldest row was re-queued by this very tick.
PickNothing ==
    /\ pc = "pick"
    /\ ctx = NoCtx
    /\ \A id \in Ids : IsOldest(outbound, id, "QUEUED") => id \in fresh
    /\ EndTick
    /\ UNCHANGED <<outbound, cache, ctx, burst, faulted, notScheduler>>

\* TxSafetyGate.check_can_transmit, for fresh messages only.
GateOpens ==
    /\ pc = "gate"
    /\ pc' = "audio"
    /\ UNCHANGED <<outbound, cache, tickVars, ctx, burst, faulted, notScheduler>>

GateBlocks ==
    /\ pc = "gate"
    /\ EndTick
    /\ UNCHANGED <<outbound, cache, ctx, burst, faulted, notScheduler>>

\* Rendered audio from the cache, or on a miss an encode inside the tick.
GetAudio ==
    /\ pc = "audio"
    /\ pc' = "start"
    /\ UNCHANGED <<outbound, cache, tickVars, ctx, burst, faulted, notScheduler>>

EncodeInlineFails ==
    /\ pc = "audio"
    /\ cur \notin cache
    /\ outbound' = MarkSending(outbound, cur)
    /\ pc' = "reject"
    /\ UNCHANGED <<cache, tickVars, ctx, burst, faulted, notScheduler>>

RejectUnencodable ==
    /\ pc = "reject"
    /\ outbound' = MarkAbandoned(outbound, cur)
    /\ cache' = cache \ {cur}
    /\ EndTick
    /\ UNCHANGED <<ctx, burst, faulted, notScheduler>>

\* start_burst keys PTT.  The context is recorded before mark_sending runs.
StartBurst ==
    /\ pc = "start"
    /\ ~burst
    /\ burst' = TRUE
    /\ ctx' = [id |-> cur, next |-> 0, age |-> 0]
    /\ pc' = "mark"
    /\ UNCHANGED <<outbound, cache, tickVars, faulted, notScheduler>>

\* CAT is down or PTT could not be keyed.
StartBurstFails ==
    /\ pc = "start"
    /\ ~burst
    /\ outbound' = MarkSending(outbound, cur)
    /\ pc' = "fail"
    /\ UNCHANGED <<cache, tickVars, ctx, burst, faulted, notScheduler>>

\* start_burst raises when a burst is already active; run() swallows it.
StartBurstRaises ==
    /\ pc = "start"
    /\ burst
    /\ EndTick
    /\ UNCHANGED <<outbound, cache, ctx, burst, faulted, notScheduler>>

MarkCurSending ==
    /\ pc = "mark"
    /\ outbound' = MarkSending(outbound, cur)
    /\ pc' = "frame"
    /\ UNCHANGED <<cache, tickVars, ctx, burst, faulted, notScheduler>>

LastFrame == ctx.next + 1 = FramesOf(ctx.id)

SendFrame ==
    /\ pc = "frame"
    /\ ~LastFrame
    /\ ctx' = [ctx EXCEPT !.next = @ + 1]
    /\ EndTick
    /\ UNCHANGED <<outbound, cache, burst, faulted, notScheduler>>

SendLastFrame ==
    /\ pc = "frame"
    /\ LastFrame
    /\ burst' = FALSE
    /\ ctx' = NoCtx
    /\ pc' = "finish"
    /\ UNCHANGED <<outbound, cache, tickVars, faulted, notScheduler>>

FrameFailsStaysKeyed ==   \* mutant
    /\ pc = "frame"
    /\ ctx' = NoCtx
    /\ pc' = "fail"
    /\ UNCHANGED <<outbound, cache, tickVars, burst, faulted, notScheduler>>

\* transmit_frame failed: the whole message fails, from whichever frame.
FrameFails ==
    /\ pc = "frame"
    /\ burst' = FALSE
    /\ ctx' = NoCtx
    /\ pc' = "fail"
    /\ UNCHANGED <<outbound, cache, tickVars, faulted, notScheduler>>

SkipWaitAck(p) == p.kind # "DIRECTED" \/ p.inferred # "DIRECTED"

FinishMessageAlwaysWaits ==   \* mutant
    /\ pc = "finish"
    /\ outbound' = MarkWaitAck(outbound, cur)
    /\ EndTick
    /\ UNCHANGED <<cache, ctx, burst, faulted, notScheduler>>

FinishMessage ==
    /\ pc = "finish"
    /\ IF SkipWaitAck(outbound[cur].msg)
       THEN outbound' = MarkDelivered(outbound, cur) /\ cache' = cache \ {cur}
       ELSE outbound' = MarkWaitAck(outbound, cur) /\ UNCHANGED cache
    /\ EndTick
    /\ UNCHANGED <<ctx, burst, faulted, notScheduler>>

\* _fail_message
FailMessage ==
    /\ pc = "fail"
    /\ outbound' = RetryOrAbandon(outbound, cur)
    /\ cache' = IF outbound[cur].attempts >= MAX_ATTEMPTS
                THEN cache \ {cur} ELSE cache
    /\ EndTick
    /\ UNCHANGED <<ctx, burst, faulted, notScheduler>>

\* A statement raises (disk full, I/O error on the SD card): the exception
\* ends the tick, or abandon_stale_sending, and run() swallows it.
StatementFails ==
    /\ DbMayFail /\ ~faulted
    /\ boot = "up"
    /\ pc \in {"boot", "sweep", "retry", "pick", "audio", "reject", "start",
              "mark", "finish", "fail"}
    /\ faulted' = TRUE
    /\ EndTick
    /\ UNCHANGED <<outbound, cache, ctx, burst, notScheduler>>

----------------------------------------------------------------------------
(* Restart *)

\* The process dies (kill, power, radio change); the table survives.
Crash ==
    /\ boot # "down"
    /\ crashes < MaxCrashes
    /\ crashes' = crashes + 1
    /\ boot' = "down"
    /\ client' = [c \in Clients |-> Idle]
    /\ ackRow' = NoRow
    /\ encPc' = "idle" /\ encRow' = NoRow
    /\ cache' = {}
    /\ pc' = "boot"
    /\ swept' = {} /\ fresh' = {} /\ cur' = NoRow
    /\ ctx' = NoCtx /\ burst' = FALSE
    /\ faulted' = FALSE
    /\ UNCHANGED <<outbound, nextId, epoch>>

\* _start_tx_pipeline_best_effort: purge, reset, then start the threads.
Purge ==
    /\ boot = "down"
    /\ boot' = "purged"
    /\ outbound' = PurgeStaleBroadcasts(outbound)
    /\ UNCHANGED <<nextId, asyncioVars, workerVars, cache, pc, tickVars, ctx,
                   burst, epoch, crashes, faulted>>

Recover ==
    /\ boot = "purged"
    /\ boot' = "up"
    /\ outbound' = ResetUnencoded(outbound)
    /\ epoch' = nextId
    /\ UNCHANGED <<nextId, asyncioVars, workerVars, cache, pc, tickVars, ctx,
                   burst, crashes, faulted>>

\* A recovery statement raises: logged, and the threads start regardless.
RecoverFails ==
    /\ DbMayFail /\ ~faulted
    /\ boot \in {"down", "purged"}
    /\ boot' = "up"
    /\ epoch' = nextId
    /\ faulted' = TRUE
    /\ UNCHANGED <<outbound, nextId, asyncioVars, workerVars, cache, pc, tickVars,
                   ctx, burst, crashes>>

----------------------------------------------------------------------------
Asyncio ==
    \/ \E call \in Stations, id \in Ids : SelectAcked(call, id)
    \/ DeliverAcked

Enqueue == \E c \in Clients :
    \/ \E p \in Submits[c] : CountRoom(c, p)
    \/ \E p \in client[c] : InsertRow(c, p)

Worker ==
    \/ \E id \in Ids : PickEncoding(id)
    \/ CacheAudio
    \/ AnnounceEncoded
    \/ EncodeFails

Scheduler ==
    \/ StartScheduler
    \/ WakeForSlot
    \/ SelectTimedOut
    \/ \E id \in Ids : SweepRow(id)
    \/ SweepDone
    \/ BurstInTime
    \/ ForceEndBurst
    \/ ContinueBurst
    \/ DropContext
    \/ \E id \in Ids : PickQueued(id)
    \/ PickNothing
    \/ GateOpens
    \/ GateBlocks
    \/ GetAudio
    \/ EncodeInlineFails
    \/ RejectUnencodable
    \/ StartBurst
    \/ StartBurstFails
    \/ StartBurstRaises
    \/ MarkCurSending
    \/ SendFrame
    \/ SendLastFrame
    \/ FrameFails
    \/ FinishMessage
    \/ FailMessage
    \/ StatementFails

Startup == Purge \/ Recover \/ RecoverFails

Next == Asyncio \/ Enqueue \/ Worker \/ Scheduler \/ MissSlot \/ Crash \/ Startup

Spec == Init /\ [][Next]_vars

\* Each thread keeps running, and a slot is not missed for ever.  The safety
\* gate belongs to the operator and the clock: it may refuse any number of
\* slots in a row, but not every slot from some point on.
Fairness ==
    /\ WF_vars(Scheduler)
    /\ SF_vars(GateOpens)
    /\ WF_vars(Worker)
    /\ WF_vars(DeliverAcked)
    /\ WF_vars(\E c \in Clients : \E p \in client[c] : InsertRow(c, p))
    /\ WF_vars(Startup)

FairSpec == Spec /\ Fairness

----------------------------------------------------------------------------
(* Safety *)

\* A message is keyed up at most MAX_ATTEMPTS times, and a row that may
\* still be picked has an attempt left: the sweep, the failure path and the
\* recovery after a restart all respect the budget.
AttemptsBounded ==
    \A id \in Ids :
        /\ outbound[id].attempts <= MAX_ATTEMPTS
        /\ outbound[id].state \in {"ENCODING", "QUEUED"}
              => outbound[id].attempts < MAX_ATTEMPTS

\* PTT is held exactly as long as there is a burst context, the context's
\* row is the only row on the air, and no row is left in SENDING without a
\* thread that will finish it.  (As long as no statement raised.)
BurstOwned ==
    ~faulted =>
        /\ burst <=> ctx # NoCtx
        /\ ctx # NoCtx /\ pc # "mark" => outbound[ctx.id].state = "SENDING"
        /\ boot = "up" /\ pc # "boot" =>
              \A id \in Ids : outbound[id].state = "SENDING" =>
                  \/ id = ctx.id
                  \/ id = cur /\ pc \in {"reject", "finish", "fail"}

\* The scheduler never asks the backend for a burst while one is active,
\* which start_burst answers with RuntimeError: every path that gives up a
\* burst has released PTT by the time a fresh message is picked.
NoBurstOverBurst == ~faulted => ~(pc = "start" /\ burst)

\* No frame goes out once the burst's watchdog deadline has passed, however
\* many slots the scheduler slept through.
NoFrameAfterDeadline == pc = "frame" => ~PastDeadline(ctx)

\* A message that has never been on the air is QUEUED only with its audio in
\* the cache, also after a restart has emptied the cache: its first frame is
\* not delayed by an encode inside the slot.
FirstFrameIsCached ==
    ~faulted /\ boot = "up" =>
        \A id \in Ids :
            outbound[id].state = "QUEUED" /\ outbound[id].attempts = 0
                => id \in cache

\* An SOS, heartbeat or @ALLCALL message from before the last start of the
\* daemon never keys the radio again.
Stale(id) == id < epoch
StaleBroadcastsStaySilent ==
    ~faulted /\ ctx # NoCtx /\ Stale(ctx.id) =>
        outbound[ctx.id].msg.kind \notin {"ALLCALL", "HEARTBEAT"}

\* Audio is freed on every path to a terminal state, whichever thread takes
\* it: the cache holds no audio of a finished message.
CacheHoldsLiveRows == \A id \in cache : outbound[id].state \in Active

----------------------------------------------------------------------------
(* What a step may never do *)

\* mark_sending is an unconditional UPDATE, yet a row enters SENDING from
\* QUEUED only: no other thread moves the row between the scheduler's pick
\* and its mark_sending, a late ACK for a re-queued message included.
SendsOnlyQueuedRows ==
    [][\A id \in Ids :
          outbound[id].state # "SENDING" /\ outbound'[id].state = "SENDING"
              => outbound[id].state = "QUEUED"]_vars

----------------------------------------------------------------------------
(* What must happen *)

\* Every message settles: no row stays active for ever, whatever fails on the
\* air, however often ACKs are lost, and across a restart.
EveryMessageSettles ==
    \A id \in Ids :
        outbound[id].state \in Active ~> outbound[id].state \notin Active

\* Whatever ends a burst (the last frame, a failed frame, the watchdog, a row
\* changed by another thread), the radio is unkeyed in the end.
EveryBurstEnds == burst ~> ~burst

----------------------------------------------------------------------------
(* Refinement *)

PhaseOf(state) ==
    CASE state = "NONE"                 -> "absent"
      [] state \in {"ENCODING", "QUEUED"} -> "pending"
      [] state = "SENDING"              -> "onair"
      [] state = "WAIT_ACK"             -> "waiting"
      [] state = "DELIVERED"            -> "delivered"
      [] state = "ABANDONED"            -> "abandoned"

Lifecycle == INSTANCE MessageLifecycle WITH
    phase    <- [id \in Ids |-> PhaseOf(outbound[id].state)],
    tries    <- [id \in Ids |-> outbound[id].attempts],
    needsAck <- [id \in Ids |-> /\ outbound[id].state # "NONE"
                                /\ ~SkipWaitAck(outbound[id].msg)]

\* Every thread interleaving, restart and failed statement of the pipeline
\* moves each message as MessageLifecycle allows.
ImplementsLifecycle == Lifecycle!Spec

----------------------------------------------------------------------------
(* What the comments claim and the code does not do *)

\* "reached a terminal state (DELIVERED/ABANDONED)" (scheduler.py).
DeliveredIsTerminal ==
    [][\A id \in Ids :
          outbound[id].state = "DELIVERED" => outbound'[id].state = "DELIVERED"]_vars
=============================================================================

# A verification project for MiniJS8

MiniJS8 is a Python daemon that turns a Raspberry Pi and an HF radio into a
JS8 messaging terminal.  This directory models its behaviour in TLA+, checks
the models with TLC and proves the main properties with TLAPS.  Paths below are
relative to `src/src/minijs8/`.

## The system

One process, a handful of threads, three pieces of durable or physical state:
the SQLite table `outbound`, the SQLite mailbox, and the radio's PTT line.

| Component | State it keeps | Operations | Hard behaviour |
|---|---|---|---|
| Outbound queue, `tx/queue.py` | table `outbound`: kind, text, to_call, state, attempts, enqueued_at, last_tx_at | enqueue, pick, encoded, sending, wait-ack, delivered, retry, abandoned, ACK match, start-up recovery | no transactions: each statement stands alone, and four threads issue them |
| TX scheduler, `tx/scheduler.py` | `_mf_state`: the burst in progress, next frame, deadline | one tick per 15 s slot: ACK sweep, burst watchdog, pick, gate, audio, key, frame, finish | bursts span ticks; other threads change rows between its statements; any step may fail |
| Encode worker and cache, `tx/encode_worker.py` | rendered audio per row id, in memory | encode the oldest ENCODING row, cache it, mark it QUEUED | audio is lost on restart, freed by hand on every terminal path |
| TX backend, `tx/tx_backend.py` | `_burst_active` | start_burst, transmit_frame, end_burst; slot alignment | PTT held across slots; failing release |
| CAT / RTS service, `cat/` | connection, `_ptt_held_at`, per-burst hold | ptt_on, ptt_off, kick; reconnect loop; PTT watchdog loop | a call may take effect and still fail; the watchdog reads without a lock |
| Playback, `audio/playback.py` | sample cursor shared with the PortAudio callback | play_frame | callback against waiter and its timeouts |
| Safety gate and time source, `tx/safety.py`, `time_source.py`, `timing.py` | recent clock offsets | may a fresh burst start? | chrony and consensus disagreeing |
| Beacons, `tx/beacon.py`, `app.py` | a thread and a stop event each; which one is current | start, stop and join, enqueue a heartbeat or an SOS, report the end of a single shot | stop, mode change and single-shot completion cross; joins time out |
| Reassembly, `protocol/reassembly.py` | partial messages per sender, recipient and audio offset | starter, continuation, time-out, sweep | frames lost, interleaved, attached to the wrong buffer |
| Inbound dispatch, `app.py` | none of its own | ACK forwarding, mailbox delivery, automatic replies, activity log | full queue, repeated messages |
| Mailbox, `store/inbox.py` | UNREAD, READ, STORE, DELIVERED rows | add, read, hold, deliver, delete | what is held, promised and delivered |
| Gestures and buttons, `input/` | countdown tasks, buttons down, press consumed | arm, disarm, shut down, power off | presses, releases and countdowns cross, wherever the operator is by then |
| UI state and router, `ui/state.py`, `input/router.py` | screen and the one to return to, field being edited, draft, list of mail with focus and badge, heartbeat mode, armed flag | one handler per key | modes that must exclude each other; copies of the mailbox; an index into a list that others replace |
| Start-up and shutdown, `app.py` | which threads run | start in order, stop in order | a kill between any two steps; joins that time out |
| GPS, audio capture, decoder, encoder, configuration, screens | | | I/O, signal processing, rendering |

How they interact.  The asyncio thread (operator input, decoded frames) and
the beacon threads put rows into `outbound`.  The encode worker takes ENCODING
rows, renders them and marks them QUEUED.  Once per slot the scheduler sweeps
overdue ACKs, checks the burst in progress, and sends one frame: the next one of
the burst, or the first of the oldest QUEUED row, keying PTT through the backend
and the CAT service.  Directed mail then waits in WAIT_ACK until the asyncio
thread decodes the peer's ACK or the sweep times it out; everything else is
DELIVERED at once.  The table survives a restart; audio, burst and PTT do not.
The operator's keys and buttons, the countdowns, arriving mail and the
completions that beacons post all run on the asyncio thread, one handler at a
time; a handler that ends a beacon blocks that thread in the join.  A frame is
armed by the scheduler's thread and fetched by PortAudio's, block by block, which
holds it for the card; a stop may take the card away, and what is held with it.

What makes it correct, component by component:

* pipeline: no message lost in an active state, sent more often than allowed,
  or sent after the operator's situation has changed; one owner for the burst;
  PTT released on every path;
* CAT: PTT of the radio goes off within a bound of the daemon wanting it off;
* reassembly and dispatch: only verified mail is stored and acknowledged, and
  what is acknowledged is stored;
* mailbox: held mail is delivered to its addressee and stays until confirmed;
* beacons and gestures: what the display says is armed is what transmits, and
  every hold and countdown is resolved;
* router and UI state: a screen never outlives what it stands for, the list
  shows the newest rows of the mailbox as they are, and nothing the operator wrote
  is lost;
* playback: a frame reported sent was handed to the card whole and heard to its
  end, as far as card and stream were there, on a boundary of the slot.

`PROJECT.json` lists every component with its status, and every hazard with its
line.

## Modules

| Module | Role |
|---|---|
| `OutboundQueue` | the table and one operator per SQL statement |
| `TxPipeline` | the threads around the table: one action per statement or backend call |
| `MessageLifecycle` | abstract specification: what is promised about one message |
| `MCTxPipeline` | values for TLC |
| `TxPipelineProofs` | effects of the statements on a row; type correctness; the attempt budget |
| `TxControlProofs` | the inductive invariant of the control, and what follows from it |
| `TxLifecycleProofs` | the refinement: every step of the pipeline is one of `MessageLifecycle`, or a stutter |
| `PttControl` | scheduler, backend, CAT service and shut-down around the PTT line |
| `MCPttControl` | values for TLC |
| `PttControlProofs` | its type correctness and inductive invariant |
| `Reassembly` | the buffers of `MessageAssembler` and one operator per method |
| `Mailbox` | the table `inbox_v1` and one operator per method |
| `InboundMail` | decoded frames, sweeps, dispatch, mailbox, replies and ACKs: one action per step of a handler |
| `MailCustody` | abstract specification: what is promised about one letter |
| `MCInboundMail` | values for TLC |
| `InboundMailProofs` | its type correctness, where stored, offered and delivered mail comes from, that what is heard in full is dispatched, and the refinement of `MailCustody` |
| `ComposeForm` | the draft as a record and one operator per mutator |
| `InboxView` | the list on the display over `Mailbox`: open, delete, arrivals, focus, badge |
| `Beacons` | heartbeat and SOS threads and the callbacks that start, join and forget them |
| `Console` | composes the three: router, buttons, gestures, mail, stations, clean-up |
| `MCConsole` | values for TLC |
| `InboxViewProofs` | what each step does to list, table, focus and badge |
| `ConsoleProofs` | screens, draft, beacons and list, for any station and any keys |
| `SlotAlignment` | where in the slot a frame starts: the arithmetic of `transmit_frame` |
| `Playback` | a frame between worker, callback and stop, sample by sample |
| `MCPlayback` | values for TLC; the alignment loop as it is written |
| `PlaybackProofs` | the arithmetic, the blocks, and what is handed over and heard of a frame |

Pipeline and PTT meet in the backend's three calls: `TxPipeline` has
`start_burst`, `transmit_frame` and `end_burst` as steps that succeed or fail,
`PttControl` has what happens to PTT inside them and leaves the table out, and
`Playback` has the inside of `transmit_frame`, of which `PttControl` knows only
that it returns or hangs.
`InboundMail` meets the pipeline through `MessageLifecycle`: what the scheduler
may do to a reply is a step of that specification, which `TxPipeline` is proved
to implement.  `InboundMail` and `Console` share the module `Mailbox`: the first
has what is stored in the table and why, the second the copy of it on the
display, with mail arriving as a step of its own.  The count and the insert of a
beacon's enqueue are in `TxPipeline`, where a beacon is one of the clients.

### How `TxPipeline` corresponds to the code

The grain is the statement.  The connection is in autocommit mode and no
method opens a transaction, so a method with two statements is two actions
(`CountRoom`, `InsertRow`; `SelectAcked`, `DeliverAcked`; `SelectTimedOut`,
`SweepRow`), and other threads run in between.  In-memory bookkeeping between
two statements joins one of them: the context of a burst is recorded with
`StartBurst`, before `MarkCurSending`, as in the code.

| Code | Model |
|---|---|
| `outbound` row | `outbound[id]`: state, message, attempts, age (slots since `last_tx_at`) |
| `_MultiFrameContext`, `_mf_state` | `ctx`: row, next frame, slots since the start; at most one, which the code allows to be more and BurstOwned shows is not |
| `_burst_active` | `burst` |
| position inside `_tick` | `pc`; `cur` is the message picked, `swept` the sweep's result set, `fresh` its `skip_ids` |
| worker's local `msg` | `encPc`, `encRow` |
| `EncodedAudioCache` | `cache`, a set of ids |
| `record_ack`'s selected id | `ackRow` |
| caller between count and insert | `client[c]` |
| start-up of `app.py` | `boot`; `Purge`, `Recover`, `RecoverFails` |

A message is a record of stored kind, kind inferred from its text, addressee
and number of frames; the text itself is not kept.  A row id also stands for
`enqueued_at`.

Time is counted in 15 s slots.  Three things depend on it: the tick, the ACK
window and the burst deadline (20 s per frame).  `WakeForSlot` is a slot with a
tick, `MissSlot` a slot without one, at any time and any number of times.  An ACK
window that is exactly used up may or may not be past the cutoff, because the
tick's own latency decides (`NearCutoff`).

Failures: an encode may fail in the worker or in the tick; `start_burst` and
every frame may fail; the gate may refuse; an ACK may never come, or come at any
time; the daemon may be killed between any two actions (`Crash`) and come up
again through the same recovery; with `DbMayFail` one statement of the
scheduler or of the recovery raises per start, and ends the tick as `run()`'s
handler does.

Assumptions of the model, each narrower than the code: statements of the
asyncio thread and of the worker do not raise; the two statements of
`record_ack`, which run back to back, do not straddle a 15 s slot; a tick ends
within its slot, or the slots it overran pass after it; CAT's own failures are
seen only as failing calls, and `burst` is what the backend believes of PTT, not
what the radio does.  `enqueue()`, which only tests call, is left out.

### How `PttControl` corresponds to the code

| Code | Model |
|---|---|
| the transmitter, behind rigctld | `radio` (external; changed by a command that is carried out) |
| `CatService._client` and its socket | `sock` |
| `_connected` | `connected` |
| `_ptt_held_at`, `_ptt_max_hold_override_s` | `heldFor` (time since), `override` |
| scheduler thread between `set_burst_hold_seconds` and the end of `end_burst` | `txPc`, `left` |
| `_burst_active` | `burst` |
| `_watchdog_loop`, local `held_at` | `dogPc`, `dogHeld` |
| `_reconnect_loop` | `linkPc` |
| `_cleanup_with_grace`, `_cleanup`, `CatService.stop` | `stopPc`, `joined` |

Commands run under the service's lock and are single actions; the timer is read
and written without it, so `ptt_on`, `ptt_off`, `ptt_kick` and the watchdog are
split at each access.  (The two assignments of `ptt_off` are one action: no
thread tells their order apart.)

A command ends in one of five ways: `ok`; `rejected` (RPRT other than 0, the
radio is unchanged); `timeout` (the socket is closed) or `garbled` (it is not),
after either of which the radio may have obeyed or not; `down` (no open
client, nothing sent).  `doubt` records that the last PTT command did not
end well; it is cleared by one that did.

`untended` records that the scheduler has left a burst to itself: `play_frame`
hung, `mark_sending` raised after `start_burst`, or the thread ended between two
frames.  `pace` is the time since the burst's last frame began, and it bounds
how slow a scheduler that tends its burst may be.

A shut-down waits three seconds for the scheduler (`JoinsScheduler`) inside a
clean-up that has three seconds as a whole, counted from its beginning
(`_SHUTDOWN_GRACE_SEC`).  When these are over first, `GraceExpires`, the clean-up
is cancelled in its wait and CAT is never stopped: `stopPc` is "abandoned", no
final T 0 is sent, and the threads run until the process ends with them.  The
end of the process is not modelled, and no property speaks of what comes after.

Assumptions: a command that timed out is carried out before the next one or
never; the watchdog is not pre-empted for seconds between reading the timer and
deciding; the radio keeps PTT as it is when the link drops.  The RTS service is
not modelled.

### How `InboundMail` corresponds to the code

| Code | Model |
|---|---|
| `MessageAssembler._buffers` | `buffers`, a set; `since` is the order of `started_at`, `idle` the sweeps since `last_frame_at` |
| `feed` | `Fed` (the buffers left) and `EmittedBy` (the messages returned) |
| `sweep_completed`, `sweep_timeouts` | `Swept`, in `Sweep` |
| the frame and the list `_on_decoded_frame` works on | `frame`, `todo` |
| `record_ack`'s `msg_id` | `matched` |
| `inbox_v1` | `box`; a deleted row keeps its id |
| outbound replies | `phase`, `tries`, `needsAck` of `MessageLifecycle`, and `wire`, what the text says |
| stations, band, slots | `onair`, `due`, `tick`, `sent` (external) |

A transmission is a record of sender, addressee, verb and number of frames, and
a frame is a transmission with a position in it.  A text is the sequence of the
frames it was put together from, so "the whole text" is an equation and the
checksum is right exactly for the whole text of a checksummed transmission.
`run` is a history variable: the last frame heard on an offset as long as none
of its transmission was missed and nothing else came between.

Every station sends at most one frame per slot, and each may be heard or not
(fading, collision, our own transmission).  A slot is three sweeps of five
seconds.  A buffer exactly at its time-out may be found past it by `feed` or
not, whatever the latency decides (`late`); the sweep only takes those past it.

`_on_decoded_frame` is one action per message dispatched, and the ACK branch is
two: the scheduler and the operator act in between.  The frame itself counts as
heard at once, and neither a slot nor a sweep passes inside a handler, which
runs on the thread that would see it.  An INSERT may fail at any time; a
full queue drops the reply.  A restart loses buffers and the handler, and keeps
both tables.

`MailCustody` is the same seen from outside, letter by letter.  A letter is a row
of `inbox_v1` (`Standing`, `Letter`); it was acknowledged, asked for or read out
if a reply that says so was queued to its sender or its addressee, or was on the
air (`Acknowledged`, `AskedFor`, `OnTheAir`).  So the abstract steps are not
at the ends of the handlers: `TakeIn` is the INSERT with the enqueue of its ACK,
`Request` the enqueue of a delivery, `ReadOut` its first transmission, and
`Deliver` the UPDATE that an ACK leads to.

Assumptions: no two texts share a checksum; each frame is decoded at most once;
the offset of a transmission does not drift into another bucket; an operator's own
message does not read "X MSG 5 ..." (`app.py:2802` accepts that one would be
taken for a delivery); replies are not encoded differently from what they say.
`record_ack` takes any message waiting for the station.  The branch of
`AnswersQuery` for @ALLCALL is in the code and in the model, and is never
taken: see below.  Left out are the activity log, the heard list and the automatic
answers to SNR?, GRID? and the like, which touch neither buffers nor mailbox.

### How `Console` corresponds to the code

The grain is the handler: key, button, countdown, arriving mail and posted
callback each run on the asyncio thread without a pause, except in a join.

| Code | Model |
|---|---|
| `UIState._screen`, `_previous_screen`, `_editing_field` | `screen`, `previous`, `editing` |
| the focus of SETUP, ALLCALL and the mode selection | `setupFocus`, `allcallFocus`, `hbFocus` |
| the draft, `_compose_to`, `_compose_cmd` and the like | `form`, a record |
| `_heard`, reduced to call signs | `heard` |
| `inbox_v1`; `_inbox_messages` and its index | `mailbox`; `rows`, `focusRow` |
| `_inbox_detail_id`, `_inbox_unread_count` | `detail`, `unread` |
| `limit=50` of `_refresh_inbox_ui` | `Limit`; `fetched` remembers how many rows the last reading found |
| `_hb_mode`, `_emergency_beacon_armed` | `hbMode`, `armed` |
| `MiniJS8App._hb_beacon`, `_emergency_beacon` | `hbBeacon`, `sosBeacon`: a thread, or `None` |
| a beacon's position, kind and stop event | `pc[b]`, `kind[b]`, `stopped[b]` |
| the loop inside `beacon.join(timeout=2.0)` | `joining` |
| `call_soon_threadsafe(_hb_revert_to_off)`, pending | `reverts` |
| `ShutdownGesture`, `EmergencyArmGesture` | `shutdown`, `hold` |
| gpiozero's buttons, `_gesture_consumed` | `top`, `bottom`, `consumed` |
| configuration: a call sign, a grid; GPS: a position | `call`, `grid`, `located` |

`Ready` says that the loop is free and not yet cleaning up: every handler needs
it.  A beacon thread needs nothing: it fires, waits, wakes and ends between any
two handlers and during a join.  `HeartbeatJoined` and `SosJoined` do not ask
whether the thread has ended, for a join may time out: the old thread is
forgotten and may go on, with its stop event set.

Of a text only what decides something is kept: of the draft, which call sign is
in TO and FOR and whether there is a text; of a configured field, whether it is
empty; of a beacon's text, whether there is one.  An interval or a countdown may end
at any time.  An SQL statement of the inbox may raise where `DB_FAILS` is among
the events, and `dbFailed` remembers it.  The list holds the newest `Limit` rows
as of the last reading; a deletion does not read again, so the list stays one short
until something arrives.  Keys that change none of the variables have
no action.

Assumptions: gpiozero reports each press and release once; the loop survives its
handlers' exceptions.  `keyboard.py` (evdev) is left out, as are the characters of
an edit buffer and the text a draft becomes on the air.

### How `Playback` corresponds to the code

| Code | Model |
|---|---|
| `transmit_frame` and `play_frame`, position in them | `worker`, `result` |
| `time.time()` as read, silence, length of the modulation | `readAt`, `pad`, `length` |
| `_stream` | `handle`; PortAudio's side of it is `stream` |
| `_silence_remaining`, `_modulation`, `_modulation_cursor` | `silence`, `modulation` and `size`, `cursor` |
| `_frame_done` | `done` |
| what the callback gave PortAudio | `handed`, a sequence of samples |
| how much of it the card has played | `heard`; the rest is in PortAudio's buffer |
| `stream.stop()`, while it lasts | `worker` = "draining" |

Everything the three threads share is changed under `_state_lock`, so a locked
block is one action; what a thread does between two blocks (start the stream,
wait, stop it, abort it) is an action of its own.  A sample is the frame it
belongs to and its index, which is enough to tell order, loss, repetition and
another frame's samples apart.  The alignment is counted in samples, 48 to the
millisecond, with the code's two conversions exact.

`_frame_done` is set when the last samples are handed over, not when they are
heard.  `stream.stop()` then waits for the card to play them (`Drained`, `Plays`);
`stream.abort()` drops them (`AbortStream`).  So a stop of the daemon that comes
before the worker's `stream.stop()`, or during it, cuts the end off a frame that
is reported as sent.

Assumptions: PortAudio's `stop()` of a running stream plays what is buffered, as
`playback.py:371` expects, asks for no more, and returns, also when the card stands
still, with the stream stopped and its buffer dropped; `cut` records that this
happened.  A card that asks for samples all the time lets a frame end before its
time-out.  `OnsetOnBoundary` counts samples: a card that stalls before the onset
is late by the time it stalled.

## Runs

Three use `MCTxPipeline`: one peer station and four messages, chosen so that every
branch on a message differs: `mail` (two frames, the one that waits for an
ACK), `reply` (stored REPLY, text looks like mail), `heartbeat` (purged on
restart) and `cq` (not purged).  Two threads enqueue: the operator's `mail`, `reply`
and `cq`, and the heartbeat beacon.

| Run | Specification | Checks | Shows |
|---|---|---|---|
| `tx_safety` | `Spec`, one restart, failing statements | `TypeOK`, seven invariants, `SendsOnlyQueuedRows`, `ImplementsLifecycle` | holds in about 260,000 states; each message lives as `MessageLifecycle` says |
| `tx_live` | `FairSpec`, one restart | `EveryMessageSettles`, `EveryBurstEnds` | no row stays active, no burst stays keyed |
| `tx_late_ack` | `FairSpec`, mail only | `DeliveredIsTerminal` | violated: the sweep overwrites an ACK |

Three use `MCPttControl`.

| Run | Specification | Checks | Shows |
|---|---|---|---|
| `ptt_watchdog` | `FairSpec`, two-frame bursts, one fault | `PttTypeOK`, `KeyedIsWatched`, `WatchdogSparesTendedBursts`, `FramesAreKeyed`, `JoinedShutdownReleases`, `HungBurstIsReleased` | holds in about 510,000 states |
| `ptt_stuck` | `FairSpec`, one fault | `PttIsReleased` | violated: one lost command, and PTT stays on |
| `cat_deaf` | `FairSpec`, one fault | `LinkComesBack` | violated: one error answer, and CAT is given up |

Two use `MCInboundMail`: stations `k1`, `k2`, `k3` on one offset.
`k1` sends mail in three frames and may query, ask for row 1 and ACK; `k2` sends
mail to hold for `k1` to a group, a command, and asks for a row that is not its
own; `k3` works another station, with mail and with talk.

| Run | Specification | Checks | Shows |
|---|---|---|---|
| `mail` | `Spec` | `TypeOK`, `StoredMailIsWhole`, `AcksAnswerStoredMail`, `HeldMailGoesToItsRecipient`, `OnlyCallersAreServed`, `CleanMessagesAreDispatched`, `ImplementsCustody` | holds in about 580,000 states |
| `mail_incomplete` | `Spec`, mail and talk of `k1` | `AckedMailIsWhole` | violated: half a message stored and acknowledged |

Three use `MCConsole`: eleven ways to use the terminal (`Scenarios`), each a
station as it is at start-up and the keys and events that occur.

| Run | Specification | Checks | Shows |
|---|---|---|---|
| `console` | `Spec` | `ConsoleTypeOK`, `HeartbeatMatchesMode`, `SosMatchesArmed`, `ShutdownScreenIsOwned`, `KeyboardLock`, `ListAgreesWithMailbox`, `BadgeCoversUnread`, `DraftSurvives`, `SingleShotEnds`, `GesturesEnd` | holds in about 130,000 states |
| `console_sos` | `Spec` | `SosIsEncodable` | violated: an SOS that is never transmitted |
| `console_wrong_delete` | `Spec` | `DeletesWhatIsShown` | violated: another message is deleted |

One uses `MCPlayback`.

| Run | Specification | Checks | Shows |
|---|---|---|---|
| `transmit` | `Spec` | `PlaybackTypeOK`, `SentFramesWerePlayed`, `OnsetOnBoundary`, `EndedFramesAreSilent`, `FramesEnd` | holds in about 160,000 states |

Bounds of the pipeline.  `QUEUE_DEPTH`, `MAX_ATTEMPTS` and `ACK_SLOTS` are 2 (3, 3 and 6 in the
code): two rows let one be on the air while another is queued, encoded, swept or
acknowledged; two attempts have a first, a retried and a last one; two slots
have a moment inside, at and past the cutoff.  `MaxRows` (rows ever inserted) is
2; the safety run was repeated with 3 rows (without `cq`, 4.7 million states), without
error, and the theorems below hold for every value.  `MaxCrashes` is 1: recovery
forgets everything but the table, so a second restart starts from a table the
first could have left.  Ages stop counting one past the value at which they
matter.

Bounds of PTT control.  The code's 20 s, 20 s, 5 s and 15 s become 2, 2, 1 and
1: what matters is that a slot fits both holds and that a burst's hold is
longer than the default.  A two-frame burst has a first, an inner and a last
access to the timer.  One fault is enough for every single failure; the safety
properties were also checked with two (1.1 million states), and the theorems
hold for any number.  Durations are not told apart past `Horizon`, which is
beyond every limit.

Bounds of inbound mail.  The time-outs and the slot are those of the code, in
sweeps.  Two transmissions (`MaxSent`) interleave frame by frame, or one follows
the other into a stale buffer, or asks for what the other left; what needs three,
such as offer, request and ACK with other mail in between, is left to the
theorems, which hold for any number (`StoreLocally` lets the operator leave the
held row, so request and ACK fit in two).  He leaves one for `k1` or `k2`, the
stations that ask (`StoredFor`).  `MAX_ATTEMPTS` is 2, so that an ACK
may cross a retry; `QUEUE_DEPTH` is 1, so that the queue is full while one reply
is pending; two rows and two replies (`MaxMail`, `MaxOut`) let two be confused.

Bounds of the console.  All keys on all screens at once, with eleven independent
pieces of state, would be a product that says little more than its factors: a
scenario gives the keys and events that meet in one part of the state (setting up
and the lock; buttons against shutdown; heartbeats with and without SOS and
clean-up; SOS with positions; no queue; the bypass; mail with and without
failing statements; drafts), and between them they reach every action.  What
crosses scenarios is left to the theorems, which speak of any station, keys and
events.  `MaxBeacons` is 2: one current and one whose join timed out, or a
heartbeat and the SOS.  `MaxReverts` is 1: a completion pending while another
mode is selected.  `Limit` is 2 (50 in the code), a list in which one row is not the
other, and `MaxMail` is 3, so that a row is left out, and may come in after a deletion.
The two violations need two rows only.

Bounds of playback.  A slot of 8, a period of 4 and a latency of 3 samples (in
the code 15 s, 500 ms and the radio's) leave less silence than the latency at most
instants; a block of 3 ends inside, at the end of and beyond silence and
modulation; lengths of 2, 3, 5 and 6 are up to, one and more past the prefix,
which is 2.  `Buffer` is two blocks: one is played while the next is fetched.  Two
frames let the second meet what the first left, two stalls let the card
go away, come back and go away.  `LoopAssumption` compares the closed form of
`Silence` with the code's loop.

Fairness of the pipeline (`FairSpec`).  The scheduler, the worker, a started enqueue, an
ACK being recorded and the start-up sequence are weakly fair: each is a thread
in a loop, or straight-line code, whose handlers never let an exception end it.
`GateOpens` is strongly fair: the gate depends on the operator and the clock, so
it may refuse any number of slots, but a station that is never allowed to
transmit settles nothing.  No fairness is assumed of ACKs, new
messages or crashes, nor of a particular outcome of an encode or a frame.
`tx_live` has no failing statements: with one, a burst may indeed stay keyed
(see the hazard at `tx/scheduler.py:499`).

Fairness of PTT control.  The three threads are loops whose handlers let no
exception end them, so they are weakly fair, except that the scheduler need not
take up a new message and a hung `play_frame` need not return.  Time is strongly
fair: no thread spends for ever without it passing.  Stopping the daemon is
not fair, and the liveness properties let go of a daemon that is being stopped.

Fairness of the console.  Beacon threads, the encode worker and a join (which
times out) are weakly fair.  The callbacks and countdowns of the loop, `Revert`,
`HoldCompletes`, `ShutdownCompletes` and `PoweroffEnds`, are strongly fair: the
event loop runs what is due in the order it became due, but a join may hold it
up again and again.  No key, button, arrival or stop is fair.

Fairness of playback.  The three threads are weakly fair, and so is the card as
long as it runs.  Whether it goes on asking is not up to the program, and has none.

### What the violations are

*ACK against the sweep* (`tx_late_ack`).  `_process_ack_timeouts` selects the
overdue rows and then updates each by id only.  An ACK recorded in between makes
the row DELIVERED and frees its audio; the update turns it back to QUEUED, and
the message is sent again with an encode inside the slot, or to ABANDONED.
`MessageLifecycle` has to allow this, as `AckCrossesTimeOut`.

*PTT left on* (`ptt_stuck`).  `ptt_off` resets the watchdog's timer and then
sends T 0.  If that command is lost nobody repeats it: the backend has ended its
burst, the watchdog sees no timer, and the reconnect loop installs a new client
without looking at PTT.  The same happens when T 1 is carried out and its answer
is lost.  `HungBurstIsReleased` is what remains true.

*CAT deaf after one error* (`cat_deaf`).  `_connected` is cleared by an error
answer that leaves the socket open, but set only after a new socket was made.

*Half a message acknowledged* (`mail_incomplete`).  A directed text that is not
a command displaces a buffer with the same sender, addressee and offset, and
emits it with `checksum_valid=True` (`reassembly.py:750`), meant for displaced
talk.  If the displaced buffer is a MSG whose last frame was lost, the part
received is stored and acknowledged.  `StoredMailIsWhole` is what remains true:
it does not happen to mail of a station that sends no talk.

*An SOS that is never sent* (`console_sos`).  A station without call sign may
take the emergency bypass and arm.  Its beacon enqueues an SOS from N0CALL, as
`beacon.py:265` intends, and the backend refuses to encode it: `_tx_identity`
has no identity for N0CALL or an empty grid (`app.py:936`).  The display says armed.

*The wrong message deleted* (`console_wrong_delete`).  The focus of the list is
an index.  Mail that arrives while a message is read is put in front, the index
stays, and DELETE in the detail view removes the row it then points at
(`router.py:406`).

### Known divergences

Met while modelling, and not each given a run of its own.

* A CQ survives a restart.  `app.py:847` says that stale SOS, HEARTBEAT, CQ and
  ALLCALL rows "must NEVER auto-resume after a restart"; the purge names ALLCALL
  and HEARTBEAT, and a CQ is stored with its own kind (`app.py:1840`), so
  `Recover` hands it to the encode worker.  `StaleBroadcastsStaySilent` is of
  the kinds the purge names.
* Keyed after the final release.  A tick that outlives the three-second join
  calls `start_burst` between the final T 0 and the closing of the client.
* No final release.  The three seconds of the whole clean-up (`app.py:98`) begin
  before the three of the join (`app.py:2873`).  A scheduler that is inside a frame
  outlives both, the clean-up is cancelled, and `CatService.stop` with its final T 0
  (`app.py:2893`) is not called.  `JoinedShutdownReleases` is what remains true, of a
  shut-down that saw the scheduler end and came to stop CAT.
* The end of a frame may be dropped.  `stop()` aborts the stream; of a frame whose last
  samples are still buffered the end is lost, `self._stream.stop()` on None is
  logged (`playback.py:374`), and the frame is reported as sent.
  `SentFramesWerePlayed` excepts it.
* Mail beyond the list.  With more than 50 rows the oldest are not shown; deleting
  a row does not bring the next one in before the list is read again.
* Broadcast queries are ignored.  The grammar gives whatever is addressed to
  @ALLCALL the kind ALLCALL (`grammar.py:233`), and the assembler starts a
  message on the three DIRECTED kinds only; the tests hand it a frame of a kind
  the grammar never gives such a text.  `CleanMessagesAreDispatched` excepts it.
* One `_previous_screen` for two purposes.  A shutdown begun on the detail view
  and cancelled returns there with `_previous_screen` naming the detail view:
  Esc no longer leaves it, though Ctrl-S and the buttons do.  The model has it; no
  property says that a detail view can be closed.
* Hidden state.  Ctrl-S, Ctrl-Q and the buttons leave EMERGENCY with the hold
  going on, and it arms or disarms on another screen; Ctrl-S leaves the
  shutdown screen with the countdown running, where Esc does not cancel it; a
  button leaves SETUP or a message with the edit or the detail still set.
  `GesturesEnd` and `SosMatchesArmed` hold all the same.
* The buttons ignore the lock to SETUP, of which `KeyboardLock` is therefore a
  property of the keyboard.
* A single shot's completion that is posted before another mode is selected
  switches that mode off again.
* A power-off command that runs and fails does not raise: the shutdown screen stays.
* The badge is not recounted after a deletion; it may count too many until the
  next refresh, never too few.
* Armed without a queue, the display says so, no beacon runs, and arming again
  is refused; `SosMatchesArmed` excepts it.  A heartbeat without a queue dies at
  its first row and the mode stays.
* Clean-up stops the heartbeat, not the SOS beacon; keys pressed during its later
  steps may start a heartbeat again, which `Ready` cuts off: `HeartbeatMatchesMode`
  says nothing of it.
* A latitude or longitude of exactly 0.0 counts as no position (`app.py:1780`).
* A request that is complete in its first frame (`QUERY MSGS`, or a row id) is
  dispatched at once, and text behind it lost; a verb without the text it needs is
  dropped.  `reassembly.py:555` argues that neither is sent; `WellFormed` excepts
  them from `CleanMessagesAreDispatched`.
* `feed` drops a timed-out checksummed buffer without the INCOMPLETE notice that
  the sweep would have given (`reassembly.py:960`).
* `time_source.py:26` describes `correction_seconds` as an offset to apply to
  the scheduler's slot grid; nothing applies it, and `transmit_frame` aligns with
  the system clock.

## Proofs

### Pipeline

For every queue depth, attempt limit, ACK window, number of rows, set of
clients and messages, and number of restarts, under `QueueAssumption` and
`PipelineAssumption` only (positive limits, finite messages with at least one
frame, the asyncio thread among the clients):

| Theorem | States |
|---|---|
| `TypeCorrect` | `Spec => []TypeOK` |
| `AttemptBudget` | `Spec => []AttemptsBounded` |
| `BurstIsOwned` | `Spec => []BurstOwned` |
| `NoNestedBurst` | `Spec => []NoBurstOverBurst` |
| `NoLateFrame` | `Spec => []NoFrameAfterDeadline` |
| `AudioBeforeTurn` | `Spec => []FirstFrameIsCached` |
| `CacheDoesNotLeak` | `Spec => []CacheHoldsLiveRows` |
| `StaleBroadcastsStop` | `Spec => []StaleBroadcastsStaySilent` |
| `OnlyQueuedRowsAreSent` | `Spec => SendsOnlyQueuedRows` |
| `LifecycleImplemented` | `Spec => ImplementsLifecycle` |

`TxPipelineProofs` first states, statement by statement, what each operator of
`OutboundQueue` does to one row (`RowStatements`, `RowEffects`, `SweepEffects`,
...), so that later proofs speak of rows and never of `EXCEPT`.

`AttemptsBounded` is not inductive: a row the tick holds between pick and
`mark_sending` must still have a try left, although a sweep or an ACK may act in
between.  `AttemptsInv` adds that.

The control properties rest on one inductive invariant, `ControlInv`.  Its
parts say what each thread knows between its statements: a daemon that is down
holds nothing (`DownIsQuiet`); which of the tick's variables are in use at which
point (`TickShape`); rows exist only below `nextId` (`Inserted`); what a row
used so far (`Spent`); which state the row in the worker's, the asyncio
thread's and the tick's hands can be in (`WorkerRow`, `AckedRow`, `SweptRows`,
`RowInHand`); that the burst's row is SENDING and nobody else's (`BurstRow`);
whose audio is cached (`CachedRows`); that an unfinished burst's deadline was
looked at before a frame (`Watched`); that only mail waits for an ACK
(`OnlyMailWaits`); and that broadcasts older than the last start are finished
(`StaleAreDone`).  The crucial facts are the pair `AckedRow` / `SweptRows`: an
ACK and the sweep may hold the same row at once, and whichever writes last, the
row is never one that is queued to be sent in this tick.  TLC checked
`ControlInv` before it was proved.

`LifecycleImplemented` is the refinement of `MessageLifecycle`, step by step, for
every message at once: `InsertRow` is `Submit`; each way out of `mark_sending`,
the three in which the burst then fails included, is `Transmit`;
`FinishMessage` is `Sent` and `FailMessage` is `Fail`; `EncodeFails`,
`RejectUnencodable` and `ForceEndBurst` are `GiveUp`; `SweepRow` is `TimeOut`, or
`AckCrossesTimeOut` if the ACK came in between, and so is `DeliverAcked` the
other way round, and otherwise `Acked`; the purge is `Forget`, and what is SENDING
at a start is `CloseInterrupted`; everything else changes nothing that
`MessageLifecycle` speaks of.  `LifecycleInv` is `ControlInv` and `AttemptsInv`
with three facts that only the mapping needs: whatever waits for an ACK, or is in
the hands of the sweep or of an ACK, is mail that needs one (`AwaitedNeedsAck`); if
the row an ACK is about is ABANDONED meanwhile, it had no attempt left
(`AckedWasGivenUp`); and a row that is not in the table has no attempts
(`AbsentIsUntried`).  `PhaseOfState`, `StutterIfKept` and one lemma per abstract
step reduce a step of the pipeline to what it does to the state, attempts and ACK
flag of a row.

### PTT control

Under `PttAssumption` only (positive limits, a slot not longer than the default
hold and a frame's budget), for messages of any length and any number of faults:

| Theorem | States |
|---|---|
| `PttTypeCorrect` | `Spec => []PttTypeOK` |
| `KeyedStaysWatched` | `Spec => []KeyedIsWatched` |
| `TendedBurstsAreSpared` | `Spec => []WatchdogSparesTendedBursts` |
| `FramesGoOutKeyed` | `Spec => []FramesAreKeyed` |
| `JoinedShutdownIsSafe` | `Spec => []JoinedShutdownReleases` |

`PttInv` adds to the four properties that the timer of a tended burst equals
its `pace` and runs at no other time (`TendedTimer`), that every hold asked
for is at least a slot (`HoldsFitSlot`, by `HoldBounds`), that the radio is on
from `start_burst` to `end_burst` (`TendedKeyed`), what `_burst_active` says
(`BurstFlag`), and what the shut-down knows (`Joined`, `DogStays`).  The properties
about keying end with the final release, or with a clean-up that was abandoned.
`CommandEffect` says once what a command may do.  TLC checked `PttInv` first.

### Inbound mail

Under the three assumptions of the modules only (types of the transmissions,
row ids that are no callsigns), for any stations, transmissions, offsets, time-outs
and bounds:

| Theorem | States |
|---|---|
| `InboundTypeCorrect` | `Spec => []TypeOK` |
| `MailIsWhole` | `Spec => []StoredMailIsWhole` |
| `AcksAnswerMail` | `Spec => []AcksAnswerStoredMail` |
| `HeldMailIsPrivate` | `Spec => []HeldMailGoesToItsRecipient` |
| `DeliveredMailWasOnTheAir` | `Spec => []DeliveredMailWasSent` |
| `StrangersAreNotServed` | `Spec => []OnlyCallersAreServed` |
| `CleanMessagesArrive` | `Spec => CleanMessagesAreDispatched` |
| `CustodyImplemented` | `Spec => ImplementsCustody`, that is `MailCustody`'s `Spec` under the mapping |

`InboundInv` has two halves.  `RxInv` says of every buffer, and of every message
on its way to dispatch, that a station addressed it so (`Sourced`), and of mail
on its way that its checksum was right or its sender talks (`Vouched`);
`FeedIsSound` and `TimeoutsAreSound` show it of the assembler alone.
`MailInv` adds to the properties that a message not yet submitted says nothing
(`WireInv`) and that only a delivery of held mail waits for an ACK, and only
after it was on the air (`AckInv`): without it, an ACK could mark a row that was
only offered.  The handlers reduce to three ways of changing the tables, shown
harmless once each: new rows and a reply (`RepliesKeepMail`), a row that changes
its type (`RetypingKeepsMail`), and a step of the pipeline (`TxKeepsMail`).
TLC checked the invariant before it was proved.

`CleanMessagesArrive` rests on `CleanInv`, also checked by TLC first.  `SlotInv` says that a
station sends its own frames, one to a slot, and that no buffer is numbered
higher than the transmissions there were.  `RunInv` says of each offset on which the
frames of a message were heard so far without a gap: the sender has
the next frame ready, and there is a buffer (`Holds`) with the sender, the addressee
and exactly the text heard, as old as the time since the slot, and started last
of all on that offset.  So the next frame goes there; it is not evicted, since
a slot is shorter than the time-out of a buffer (15 s and 30 s, the one thing
`InboundAssumption` says of the two); and it is not complete early, since
the beginning of a message checks only if it is the whole
(`OnlyTheWholeChecks`).  The rest is what `feed` makes of one frame
(`StarterHolds`, `ContinuationGoesOn`, `OtherOffsetKeeps`).

`CustodyImplemented` needs one more invariant, that a message nobody submitted was
never on the air (`FreshInv`, checked by TLC first).  By `MailInv` every ACK and every
delivery is addressed as it should be, so who was told what depends on `wire`
alone (`RepliesAreTrue`); then each kind of step has its lemma: a
reply adds its own row (`ReplySaid`), a row is inserted (`RowComes`) or moves
(`RowMoves`), a first transmission reads out (`TxReadsOut`), an ACK delivers what
was read out (`AcksDeliver`, by `AckInv`).  `DeliveredMailWasSent` follows for
the states; the run checks the refinement, which says it of the steps.

### Console

Under the five assumptions of its modules only (types of the scenarios, our call
sign is not a peer's, groups are strings, natural bounds and limit), for any
station, keys, events, beacon threads, pending completions and mail:

| Theorem | States |
|---|---|
| `ShutdownScreenOwned` | `Spec => []ShutdownScreenIsOwned` |
| `KeyboardLocked` | `Spec => []KeyboardLock` |
| `DraftsSurvive` | `Spec => DraftSurvives` |
| `BeaconsTyped` | `Spec => []BeaconTypeOK` |
| `HeartbeatFollowsMode` | `Spec => []HeartbeatMatchesMode` |
| `SosFollowsArmed` | `Spec => []SosMatchesArmed` |
| `InboxTyped` | `Spec => []InboxTypeOK` |
| `ListShowsMailbox` | `Spec => []ListAgreesWithMailbox` |
| `BadgeCovers` | `Spec => []BadgeCoversUnread` |
| `ConsoleTyped` | `Spec => []ConsoleTypeOK` |

Each part of the state has an invariant of its own.  `ShutdownInv` adds that the
screen to return to is never the shutdown screen; `LockInv` what a locked
station can have behind it.  `BeaconInv` is what the beacons need:
`ThreadsInv` (which threads are referred to, and by whom; the one the loop is
joined on is one of them and was told to stop), `HeartbeatInv` and `SosInv`, which are the two
properties with a case for the moment in which the loop is joined on the beacon
(`HbGoes`): display and threads then differ, and agree again when the join ends, in
time or not.  There is one lemma per callback (`ArmKeeps`, `RevertKeeps`,
`SosJoinedKeeps`, ...), and one for everything that leaves the beacons alone.

`ConsoleTyped` puts these together with `TerminalTypeOK`: screens, gestures, draft
and HEARD list.  Its work is in the lists the draft is picked from, which
change while it is being written: the HEARD list names a station once, as its
table does by its key (`store/db.py:166`), so that leaving a station out takes one
position (`RemoveAtEffect`, `WithoutEffect`), the dropdown never offers our own
call sign (`OthersAreOthers`), and a pick is made within the list as it is then,
whatever it was when the last pick was made (`NextPick`).

`ListInv`, in `InboxViewProofs`, adds to agreement and badge that the list names
no row twice: a deletion takes one position out of the list, and only then does
the row leave it.  `ListAgreesWithMailbox` is of the newest rows: shown ones are as
the table has them, in order and without a gap, and what is not shown is older, and
there only if the last reading found `Limit` rows.  `ListingLists` says what a refresh makes of any table; it rests on
`RankIsPosition`: ranking a finite set of ids by counting those not below
each is a one-to-one map onto 1..n.

### Playback

Under `AlignmentAssumption` and `PlaybackAssumption` only (positive period, slot
a multiple of it, natural bounds), for every latency, block size, buffer of at least a block, length and
instant, and any number of frames, stalls and stops:

| Theorem | States |
|---|---|
| `SilenceAligns` | the silence is natural, and what follows it is on a boundary |
| `PlaybackTypeCorrect` | `Spec => []PlaybackTypeOK` |
| `SentFramesPlayed` | `Spec => []SentFramesWerePlayed` |
| `FramesStartOnBoundary` | `Spec => []OnsetOnBoundary` |
| `EndedFramesStaySilent` | `Spec => EndedFramesAreSilent` |

`SilenceAligns` is arithmetic, from `Division`, `Multiple` and `BoundaryAhead`.
`PlaybackInv` says that an open stream does not run between frames
(`DeviceInv`) and that what is armed when a frame is begun is an earlier one
(`CheckedInv`); how far the callback has come, the length of what was handed over
against silence and cursor (`ProgressInv`); that a frame's first sample is at the end of
its silence (`OnsetInv`); that each sample handed over is the one the frame has in that
place (`SoundInv`); and that of a frame whose `play_frame` has returned well everything was
heard, unless the card stood still or the stream was taken (`HeardInv`).  `Block4`
describes one block as the concatenation it is, and `CallbackHands` what it appends.

### Only model-checked

The liveness properties: `EveryMessageSettles`, `EveryBurstEnds`,
`HungBurstIsReleased`, `SingleShotEnds`, `GesturesEnd` and `FramesEnd`.  They need
fairness, and the prover has neither `ENABLED` nor the rules for it.  Every invariant
and every action property of the passing runs is a theorem, and so are the two
refinements.

## Not modelled, and the plan

Not modelled:

* screens and display: they render a snapshot and keep no state;
* encoder, audio capture and decoder: signal processing and hardware; what they
  yield, rendered audio or an error, decoded frames, is an input of the models;
* GPS reader: a reconnecting stream; its effect, a position that comes and goes, is
  in `Console`;
* RTS PTT service: the protocol of the CAT service over a serial line, without
  a ping;
* message store and activity log: append-only, nothing is decided by them;
* parsing and validation of the configuration, the grammar's regular
  expressions, the CRC, the wire text of a draft: pure functions of text;
* the clock arithmetic of chrony and consensus: floating point over
  measurements; the gate is a free choice in `TxPipeline`;
* `keyboard.py`, edit buffers, bars, DIRECTED notices, the queries of the
  Outbound screen.

Planned, in this order:

1. What the operator is promised of the list on the display, as an abstract
   specification `InboxView` implements, as `MailCustody` is what the stations are.
2. The later steps of `_cleanup` in `Console`: which stores are closed under
   which threads.
3. `PttControl` for the RTS service; a longer message in `TxPipeline`, whose
   ACK window (`tx/queue.py:641`) closes before its burst ends; the scheduler's
   deadline against the CAT watchdog's (`tx/scheduler.py:177-179` says the first
   always wins).
4. `InboundMail`: automatic answers and the activity log (an INCOMPLETE notice
   `feed` swallows, a dropped reply logged as sent).
5. Pure algorithms: time-source decision, kind inference, offset buckets (frames
   of one transmission on both sides of a bucket edge), as operators against
   reference definitions.

-------------------------- MODULE TxControlProofs --------------------------
(***************************************************************************)
(* The safety properties of the transmit pipeline, proved from one         *)
(* inductive invariant that says which thread has which row in hand.       *)
(***************************************************************************)
EXTENDS TxPipelineProofs

----------------------------------------------------------------------------
(* Who has which row in hand *)

\* While the daemon is down no thread runs.
DownIsQuiet ==
    boot # "up" => /\ pc = "boot" /\ encPc = "idle" /\ ackRow = NoRow
                   /\ cache = {} /\ \A c \in Clients : client[c] = Idle

\* What the scheduler keeps between the steps of a tick.
TickShape ==
    /\ pc = "boot" => ctx = NoCtx /\ ~burst
    /\ pc # "retry" => swept = {}
    /\ pc \in {"boot", "sleep", "sweep"} => fresh = {}
    /\ pc \in {"gate", "audio", "start", "reject", "finish", "fail"} => ctx = NoCtx

\* Rows are inserted in the order of their ids.
Inserted == \A id \in Ids : id >= nextId => outbound[id].state = "NONE"

\* A row past its first transmission has spent an attempt.
Spent == \A id \in Ids :
    outbound[id].state \in {"SENDING", "WAIT_ACK", "DELIVERED"} => outbound[id].attempts > 0

\* The row the encode worker renders stays ENCODING until the worker is done.
WorkerRow == encPc # "idle" => outbound[encRow].state = "ENCODING"

\* The row an ACK is about was waiting when it was selected; since then only
\* the sweep may have touched it, and then the scheduler leaves it alone.
AckedRow ==
    ackRow \in Ids =>
        /\ outbound[ackRow].attempts > 0
        /\ outbound[ackRow].state \in {"WAIT_ACK", "ABANDONED", "QUEUED"}
        /\ outbound[ackRow].state = "QUEUED" => ackRow \in fresh \/ pc = "sleep"

\* A row about to be swept may only have been delivered meanwhile.
SweptRows == \A id \in swept : outbound[id].state \in {"WAIT_ACK", "DELIVERED"}

\* The scheduler's own row.
RowInHand ==
    /\ pc \in {"gate", "audio", "start", "mark"}
          => outbound[cur].state = "QUEUED" /\ cur \notin fresh /\ cur # ackRow
    /\ pc \in {"frame", "reject", "finish", "fail"} => outbound[cur].state = "SENDING"

\* The row of the burst, which a failed mark_sending leaves QUEUED.
BurstRow ==
    ctx # NoCtx =>
        /\ outbound[ctx.id].state \in {"QUEUED", "SENDING"}
        /\ ctx.id # ackRow
        /\ ctx.id \notin fresh

\* Audio is cached for unfinished rows only, and for an ENCODING row only in
\* the worker's moment between put() and mark_encoded().
CachedRows ==
    /\ CacheHoldsLiveRows
    /\ \A id \in cache : outbound[id].state = "ENCODING" => encPc = "mark" /\ id = encRow
    /\ \A id \in cache : pc = "boot" => outbound[id].state \in {"ENCODING", "QUEUED"}
    /\ encPc = "mark" => encRow \in cache

\* The watchdog has just looked at the burst.
Watched == pc \in {"pick", "mark", "frame"} /\ ctx # NoCtx => ~PastDeadline(ctx)

\* Only directed mail ever waits for an ACK.
OnlyMailWaits ==
    \A id \in Ids : outbound[id].msg.kind # "DIRECTED" =>
        outbound[id].state # "WAIT_ACK" /\ id \notin swept /\ id # ackRow

\* Broadcasts from before the last start are finished or gone, once purged.
StaleAreDone ==
    /\ epoch <= nextId
    /\ ~faulted /\ boot # "down" =>
          \A id \in Ids :
              /\ outbound[id].msg.kind \in PurgedKinds
              /\ boot = "up" => Stale(id)
              => outbound[id].state \notin Active

\* The inductive invariant.
ControlInv ==
    /\ TypeOK /\ DownIsQuiet /\ TickShape /\ Inserted /\ Spent
    /\ WorkerRow /\ AckedRow /\ SweptRows /\ RowInHand /\ BurstRow
    /\ CachedRows /\ Watched /\ OnlyMailWaits /\ StaleAreDone
    /\ BurstOwned /\ FirstFrameIsCached

\* What SET state=? WHERE id=? does to the table.
Becomes(id, st) ==
    /\ outbound'[id].state = st
    /\ outbound'[id].attempts = outbound[id].attempts
    /\ outbound'[id].msg = outbound[id].msg
    /\ \A j \in Ids \ {id} : outbound'[j] = outbound[j]

\* Every mark_* statement but mark_sending has that effect.
LEMMA SetStateBecomes ==
    ASSUME TypeOK, NEW id \in Ids, NEW st \in States,
           outbound' = SetState(outbound, id, st)
    PROVE  Becomes(id, st)
BY RowEffects DEF TypeOK, Becomes

\* The step half of SendsOnlyQueuedRows.
OnlyQueuedSent == \A id \in Ids :
    outbound[id].state # "SENDING" /\ outbound'[id].state = "SENDING"
        => outbound[id].state = "QUEUED"

\* A new row is in nobody's hand.
LEMMA ControlInsert ==
    ASSUME ControlInv, TypeOK', NEW c \in Clients, NEW p \in client[c], InsertRow(c, p)
    PROVE  ControlInv' /\ OnlyQueuedSent
<1> USE DEF ControlInv, InsertRow, asyncioVars, workerVars, tickVars, lifeVars
<1>1. p \in Payloads /\ nextId \in Ids
  BY DEF TypeOK
<1>2. /\ outbound'[nextId].state = "ENCODING"
      /\ \A j \in Ids \ {nextId} : outbound'[j] = outbound[j]
  BY <1>1, RowEffects DEF TypeOK
<1>3. outbound[nextId].state = "NONE"
  BY <1>1, QueueAssumption DEF Ids, Inserted
<1>4. Inserted'
  BY <1>1, <1>2, QueueAssumption DEF Ids, Inserted
<1>5. NoRow \notin Ids /\ NoCtx.id = NoRow
  BY QueueAssumption DEF NoRow, NoCtx, Ids
<1>6. \A j \in Ids : outbound'[j].state = "SENDING" <=> outbound[j].state = "SENDING"
  BY <1>2, <1>3
<1>7. BurstOwned'
  BY <1>5, <1>6 DEF BurstOwned, BurstRow, TypeOK
<1>8. DownIsQuiet' /\ TickShape' /\ Spent' /\ WorkerRow' /\ AckedRow' /\ SweptRows'
  BY <1>1, <1>2, <1>3, <1>5
     DEF TypeOK, DownIsQuiet, TickShape, Spent, WorkerRow, AckedRow, SweptRows, Idle
<1>9. RowInHand' /\ BurstRow' /\ CachedRows' /\ Watched' /\ FirstFrameIsCached'
  BY <1>1, <1>2, <1>3, <1>5
     DEF TypeOK, RowInHand, BurstRow, CachedRows, CacheHoldsLiveRows, Watched,
         FirstFrameIsCached, PastDeadline, FramesOf, Active
<1>10. OnlyMailWaits'
  BY <1>1, <1>2, <1>3 DEF TypeOK, OnlyMailWaits, SweptRows, AckedRow
<1>11. StaleAreDone'
  <2>1. boot = "up"
    BY DEF DownIsQuiet, Idle
  <2>2. epoch' <= nextId' /\ ~(nextId < epoch')
    BY <1>1, QueueAssumption DEF StaleAreDone, Stale, TypeOK, Ids
  <2>3. \A j \in Ids \ {nextId} : outbound'[j] = outbound[j]
    BY <1>2
  <2> QED BY <2>1, <2>2, <2>3 DEF StaleAreDone, Stale
<1> QED BY <1>4, <1>6, <1>7, <1>8, <1>9, <1>10, <1>11 DEF OnlyQueuedSent

\* An empty table and idle threads satisfy the invariant.
LEMMA ControlInit == Init => ControlInv
<1> SUFFICES ASSUME Init PROVE ControlInv
  OBVIOUS
<1>1. \A id \in Ids : outbound[id].state = "NONE"
  BY DEF Init, EmptyTable, EmptyRow
<1>2. NoRow \notin Ids
  BY QueueAssumption DEF NoRow, Ids
<1>3. CachedRows /\ Watched /\ BurstOwned /\ FirstFrameIsCached
  BY <1>1 DEF Init, CachedRows, CacheHoldsLiveRows, Watched, BurstOwned, FirstFrameIsCached
<1>4. OnlyMailWaits /\ StaleAreDone
  BY <1>1, <1>2 DEF Init, OnlyMailWaits, StaleAreDone
<1> QED
  BY <1>1, <1>2, <1>3, <1>4, TypeInit
     DEF Init, ControlInv, DownIsQuiet, TickShape, Inserted, Spent, WorkerRow,
         AckedRow, SweptRows, RowInHand, BurstRow

\* Every step of every thread preserves the invariant, and puts on the air
\* only what is QUEUED.
LEMMA ControlStep == ControlInv /\ [Next]_vars => ControlInv' /\ OnlyQueuedSent
<1> SUFFICES ASSUME ControlInv, [Next]_vars PROVE ControlInv' /\ OnlyQueuedSent
  OBVIOUS
<1>t. TypeOK /\ TypeOK'
  BY TypeStep DEF ControlInv
<1>r. outbound \in [Ids -> Row] /\ \A id \in Ids : outbound[id].attempts \in Nat
  BY <1>t DEF TypeOK, Row
<1>z. NoRow \notin Ids /\ NoCtx.id = NoRow /\ MAX_ATTEMPTS \in Nat \ {0}
  BY QueueAssumption DEF NoRow, NoCtx, Ids
<1> USE <1>t, <1>r, <1>z
<1> USE DEF ControlInv, TypeOK, DownIsQuiet, TickShape, Inserted, Spent, WorkerRow,
            AckedRow, SweptRows, RowInHand, BurstRow, CachedRows, CacheHoldsLiveRows,
            Watched, OnlyMailWaits, StaleAreDone, Stale, BurstOwned, FirstFrameIsCached,
            PastDeadline, FramesOf, Active, Becomes, OnlyQueuedSent,
            notScheduler, asyncioVars, workerVars, tickVars, lifeVars, EndTick
<1>1. ASSUME NEW c \in Clients, NEW p \in Submits[c], CountRoom(c, p) PROVE ControlInv' /\ OnlyQueuedSent
  BY <1>1 DEF CountRoom, Idle
<1>2. ASSUME NEW c \in Clients, NEW p \in client[c], InsertRow(c, p) PROVE ControlInv' /\ OnlyQueuedSent
  BY <1>2, ControlInsert
<1>3. ASSUME NEW call \in Stations, NEW id \in Ids, SelectAcked(call, id) PROVE ControlInv' /\ OnlyQueuedSent
  BY <1>3 DEF SelectAcked, MatchesAck, AwaitsAckFrom
<1>4. CASE DeliverAcked
  <2>1. ackRow \in Ids
    BY <1>4 DEF DeliverAcked
  <2>2. Becomes(ackRow, "DELIVERED")
    BY <1>4, <2>1, SetStateBecomes DEF DeliverAcked, MarkDelivered, States, Terminal
  <2> QED
    BY <1>4, <2>1, <2>2 DEF DeliverAcked
<1>5. ASSUME NEW id \in Ids, PickEncoding(id) PROVE ControlInv' /\ OnlyQueuedSent
  BY <1>5 DEF PickEncoding, IsOldest
<1>6. CASE CacheAudio
  BY <1>6 DEF CacheAudio
<1>7. CASE AnnounceEncoded
  <2>1. encRow \in Ids /\ outbound[encRow].state = "ENCODING"
    BY <1>7 DEF AnnounceEncoded
  <2>2. Becomes(encRow, "QUEUED")
    BY <1>7, <2>1, SetStateBecomes DEF AnnounceEncoded, MarkEncoded, States, Terminal
  <2> QED
    BY <1>7, <2>1, <2>2 DEF AnnounceEncoded
<1>8. CASE EncodeFails
  <2>1. encRow \in Ids
    BY <1>8 DEF EncodeFails
  <2>2. Becomes(encRow, "ABANDONED")
    BY <1>8, <2>1, SetStateBecomes DEF EncodeFails, MarkAbandoned, States, Terminal
  <2> QED
    BY <1>8, <2>1, <2>2 DEF EncodeFails
<1>9. CASE StartScheduler
  <2>1. outbound' = AbandonStaleSending(outbound)
    BY <1>9 DEF StartScheduler, SlotGoesBy
  <2>2. \A j \in Ids :
          /\ outbound'[j].state = IF outbound[j].state = "SENDING" THEN "ABANDONED" ELSE outbound[j].state
          /\ outbound'[j].attempts = outbound[j].attempts
          /\ outbound'[j].msg = outbound[j].msg
    BY <2>1, SweepEffects
  <2> QED
    BY <1>9, <2>1, <2>2 DEF StartScheduler
<1>10. CASE WakeForSlot
  <2>1. outbound' = Elapse(outbound)
    BY <1>10 DEF WakeForSlot, SlotGoesBy
  <2>2. \A j \in Ids :
          /\ outbound'[j].state = outbound[j].state
          /\ outbound'[j].attempts = outbound[j].attempts
          /\ outbound'[j].msg = outbound[j].msg
    BY <2>1, SweepEffects
  <2> QED
    BY <1>10, <2>1, <2>2 DEF WakeForSlot, SlotGoesBy
<1>11. CASE SelectTimedOut
  BY <1>11 DEF SelectTimedOut, PastCutoff, NearCutoff, InState
<1>12. ASSUME NEW id \in Ids, SweepRow(id) PROVE ControlInv' /\ OnlyQueuedSent
  <2>1. Becomes(id, IF outbound[id].attempts >= MAX_ATTEMPTS THEN "ABANDONED" ELSE "QUEUED")
    BY <1>12, RetryEffect DEF SweepRow
  <2>2. outbound[id].msg.kind \notin PurgedKinds
    BY <1>12 DEF SweepRow, PurgedKinds
  <2> QED
    BY <1>12, <2>1, <2>2 DEF SweepRow
<1>13. CASE SweepDone
  BY <1>13 DEF SweepDone
<1>14. CASE BurstInTime
  BY <1>14 DEF BurstInTime
<1>15. CASE ForceEndBurst
  <2>1. ctx.id \in Ids
    BY <1>15 DEF ForceEndBurst
  <2>2. \/ Becomes(ctx.id, "ABANDONED")
        \/ UNCHANGED outbound /\ faulted'
    BY <1>15, <2>1, SetStateBecomes DEF ForceEndBurst, MarkAbandoned, States, Terminal
  <2> QED
    BY <1>15, <2>1, <2>2 DEF ForceEndBurst
<1>16. CASE ContinueBurst
  BY <1>16 DEF ContinueBurst
<1>17. CASE DropContext
  BY <1>17 DEF DropContext
<1>18. ASSUME NEW id \in Ids, PickQueued(id) PROVE ControlInv' /\ OnlyQueuedSent
  BY <1>18 DEF PickQueued, IsOldest
<1>19. CASE PickNothing
  BY <1>19 DEF PickNothing, IsOldest
<1>20. CASE GateOpens
  BY <1>20 DEF GateOpens
<1>21. CASE GateBlocks
  BY <1>21 DEF GateBlocks
<1>22. CASE GetAudio
  BY <1>22 DEF GetAudio
<1>23. CASE EncodeInlineFails
  <2>1. cur \in Ids
    BY <1>23 DEF EncodeInlineFails
  <2>2. /\ outbound'[cur].state = "SENDING"
        /\ outbound'[cur].attempts > 0
        /\ outbound'[cur].msg = outbound[cur].msg
        /\ \A j \in Ids \ {cur} : outbound'[j] = outbound[j]
    BY <1>23, <2>1, RowEffects DEF EncodeInlineFails
  <2> QED
    BY <1>23, <2>1, <2>2 DEF EncodeInlineFails
<1>24. CASE RejectUnencodable
  <2>1. cur \in Ids
    BY <1>24 DEF RejectUnencodable
  <2>2. Becomes(cur, "ABANDONED")
    BY <1>24, <2>1, SetStateBecomes DEF RejectUnencodable, MarkAbandoned, States, Terminal
  <2> QED
    BY <1>24, <2>1, <2>2 DEF RejectUnencodable
<1>25. CASE StartBurst
  <2>1. cur \in Ids /\ outbound[cur].msg \in Payload
    BY <1>25, QueueAssumption DEF StartBurst, Row
  <2>2. outbound[cur].msg.frames \in Nat
    BY <2>1 DEF Payload
  <2>3. ~PastDeadline(ctx)'
    BY <1>25, <2>2 DEF StartBurst, PastDeadline, FramesOf, SLOT_SECONDS, FRAME_BUDGET_SECONDS
  <2> QED
    BY <1>25, <2>1, <2>2, <2>3 DEF StartBurst
<1>26. CASE StartBurstFails
  <2>1. cur \in Ids
    BY <1>26 DEF StartBurstFails
  <2>2. /\ outbound'[cur].state = "SENDING"
        /\ outbound'[cur].attempts > 0
        /\ outbound'[cur].msg = outbound[cur].msg
        /\ \A j \in Ids \ {cur} : outbound'[j] = outbound[j]
    BY <1>26, <2>1, RowEffects DEF StartBurstFails
  <2> QED
    BY <1>26, <2>1, <2>2 DEF StartBurstFails
<1>27. CASE StartBurstRaises
  BY <1>27 DEF StartBurstRaises
<1>28. CASE MarkCurSending
  <2>1. cur \in Ids
    BY <1>28 DEF MarkCurSending
  <2>2. /\ outbound'[cur].state = "SENDING"
        /\ outbound'[cur].attempts > 0
        /\ outbound'[cur].msg = outbound[cur].msg
        /\ \A j \in Ids \ {cur} : outbound'[j] = outbound[j]
    BY <1>28, <2>1, RowEffects DEF MarkCurSending
  <2> QED
    BY <1>28, <2>1, <2>2 DEF MarkCurSending
<1>29. CASE SendFrame
  BY <1>29 DEF SendFrame, LastFrame
<1>30. CASE SendLastFrame
  BY <1>30 DEF SendLastFrame, LastFrame
<1>31. CASE FrameFails
  BY <1>31 DEF FrameFails
<1>32. CASE FinishMessage
  <2>1. cur \in Ids
    BY <1>32 DEF FinishMessage
  <2>2. \/ Becomes(cur, "DELIVERED") /\ cache' = cache \ {cur}
        \/ /\ Becomes(cur, "WAIT_ACK") /\ cache' = cache
           /\ outbound[cur].msg.kind = "DIRECTED"
    BY <1>32, <2>1, SetStateBecomes DEF FinishMessage, MarkDelivered, MarkWaitAck, States, Terminal, SkipWaitAck
  <2> QED
    BY <1>32, <2>1, <2>2 DEF FinishMessage, SkipWaitAck
<1>33. CASE FailMessage
  <2>1. cur \in Ids
    BY <1>33 DEF FailMessage
  <2>2. Becomes(cur, IF outbound[cur].attempts >= MAX_ATTEMPTS THEN "ABANDONED" ELSE "QUEUED")
    BY <1>33, <2>1, RetryEffect DEF FailMessage
  <2> QED
    BY <1>33, <2>1, <2>2 DEF FailMessage
<1>34. CASE StatementFails
  BY <1>34 DEF StatementFails
<1>35. CASE MissSlot
  <2>1. outbound' = Elapse(outbound)
    BY <1>35 DEF MissSlot, SlotGoesBy
  <2>2. \A j \in Ids :
          /\ outbound'[j].state = outbound[j].state
          /\ outbound'[j].attempts = outbound[j].attempts
          /\ outbound'[j].msg = outbound[j].msg
    BY <2>1, SweepEffects
  <2> QED
    BY <1>35, <2>1, <2>2 DEF MissSlot, SlotGoesBy
<1>36. CASE Crash
  BY <1>36 DEF Crash, Idle
<1>37. CASE Purge
  <2>1. outbound' = PurgeStaleBroadcasts(outbound)
    BY <1>37 DEF Purge, SlotGoesBy
  <2>2. \A j \in Ids :
          /\ outbound'[j] = outbound[j] \/ outbound'[j].state = "NONE"
          /\ outbound[j].state \in Active /\ outbound[j].msg.kind \in PurgedKinds
               => outbound'[j].state = "NONE"
    BY <2>1, SweepEffects
  <2> QED
    BY <1>37, <2>1, <2>2 DEF Purge
<1>38. CASE Recover
  <2>1. outbound' = ResetUnencoded(outbound)
    BY <1>38 DEF Recover, SlotGoesBy
  <2>2. \A j \in Ids :
          /\ outbound'[j].state = IF outbound[j].state = "QUEUED" THEN "ENCODING" ELSE outbound[j].state
          /\ outbound'[j].attempts = outbound[j].attempts
          /\ outbound'[j].msg = outbound[j].msg
    BY <2>1, SweepEffects
  <2> QED
    BY <1>38, <2>1, <2>2 DEF Recover
<1>39. CASE RecoverFails
  BY <1>39 DEF RecoverFails
<1>40. CASE UNCHANGED vars
  BY <1>40 DEF vars
<1> QED
  BY <1>1, <1>2, <1>3, <1>4, <1>5, <1>6, <1>7, <1>8, <1>9, <1>10, <1>11,
     <1>12, <1>13, <1>14, <1>15, <1>16, <1>17, <1>18, <1>19, <1>20, <1>21,
     <1>22, <1>23, <1>24, <1>25, <1>26, <1>27, <1>28, <1>29, <1>30, <1>31,
     <1>32, <1>33, <1>34, <1>35, <1>36, <1>37, <1>38, <1>39, <1>40
     DEF Next, Asyncio, Enqueue, Worker, Scheduler, Startup

\* The invariant holds throughout: who has which row in hand never gets mixed up.
LEMMA Control == Spec => []ControlInv
<1>1. Init => ControlInv
  BY ControlInit
<1>2. ControlInv /\ [Next]_vars => ControlInv'
  BY ControlStep
<1> QED BY <1>1, <1>2, PTL DEF Spec

----------------------------------------------------------------------------
(* The properties *)

\* PTT is held exactly while a burst context exists, and only the row of that
\* burst, or the one the scheduler is just finishing, is SENDING.
THEOREM BurstIsOwned == Spec => []BurstOwned
<1>1. ControlInv => BurstOwned
  BY DEF ControlInv
<1> QED BY <1>1, Control, PTL

\* start_burst's "previous burst was not ended" is never raised.
THEOREM NoNestedBurst == Spec => []NoBurstOverBurst
<1>1. ControlInv => NoBurstOverBurst
  BY DEF ControlInv, NoBurstOverBurst, BurstOwned, TickShape
<1> QED BY <1>1, Control, PTL

\* The watchdog stops a late burst before its next frame.
THEOREM NoLateFrame == Spec => []NoFrameAfterDeadline
<1>1. ControlInv => NoFrameAfterDeadline
  BY DEF ControlInv, TypeOK, NoFrameAfterDeadline, Watched
<1> QED BY <1>1, Control, PTL

\* A message's first transmission finds its audio in the cache.
THEOREM AudioBeforeTurn == Spec => []FirstFrameIsCached
<1>1. ControlInv => FirstFrameIsCached
  BY DEF ControlInv
<1> QED BY <1>1, Control, PTL

\* The cache does not leak: finished messages have no audio.
THEOREM CacheDoesNotLeak == Spec => []CacheHoldsLiveRows
<1>1. ControlInv => CacheHoldsLiveRows
  BY DEF ControlInv, CachedRows
<1> QED BY <1>1, Control, PTL

\* A heartbeat, SOS or @ALLCALL from before a restart never keys the radio.
THEOREM StaleBroadcastsStop == Spec => []StaleBroadcastsStaySilent
<1>1. ControlInv => StaleBroadcastsStaySilent
  BY DEF ControlInv, TypeOK, StaleBroadcastsStaySilent, StaleAreDone, BurstRow, DownIsQuiet,
         TickShape, PurgedKinds, Active
<1> QED BY <1>1, Control, PTL

\* Between the scheduler's pick and its unconditional mark_sending no thread
\* moves the row.
THEOREM OnlyQueuedRowsAreSent == Spec => SendsOnlyQueuedRows
<1>1. ControlInv /\ [Next]_vars => [OnlyQueuedSent]_vars
  BY ControlStep
<1>2. SendsOnlyQueuedRows <=> [][OnlyQueuedSent]_vars
  BY PTL DEF SendsOnlyQueuedRows, OnlyQueuedSent
<1> QED BY <1>1, <1>2, Control, PTL DEF Spec
=============================================================================

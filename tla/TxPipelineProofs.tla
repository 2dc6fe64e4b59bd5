-------------------------- MODULE TxPipelineProofs --------------------------
(***************************************************************************)
(* Theorems about the transmit pipeline, for every table size, queue       *)
(* depth, attempt budget, set of clients and mix of messages.              *)
(***************************************************************************)
EXTENDS TxPipeline, TLAPS

----------------------------------------------------------------------------
(* The statements of the table keep it a table *)

\* EmptyRow is a row because there is at least one payload.
LEMMA EmptyRowType == EmptyRow \in Row
BY QueueAssumption DEF EmptyRow, Row, States, Active, Terminal

\* Every statement that changes one row returns a table.
LEMMA RowStatements ==
    ASSUME NEW tbl \in [Ids -> Row], NEW id \in Ids
    PROVE  /\ \A p \in Payloads : Insert(tbl, id, p) \in [Ids -> Row]
           /\ MarkEncoded(tbl, id) \in [Ids -> Row]
           /\ MarkSending(tbl, id) \in [Ids -> Row]
           /\ MarkWaitAck(tbl, id) \in [Ids -> Row]
           /\ MarkDelivered(tbl, id) \in [Ids -> Row]
           /\ MarkRetry(tbl, id) \in [Ids -> Row]
           /\ MarkAbandoned(tbl, id) \in [Ids -> Row]
           /\ RetryOrAbandon(tbl, id) \in [Ids -> Row]
<1>1. \A s \in States : SetState(tbl, id, s) \in [Ids -> Row]
  BY DEF SetState, InStateRow, Row
<1>2. \A p \in Payloads : Insert(tbl, id, p) \in [Ids -> Row]
  BY DEF Insert, Row, States, Active, Terminal
<1>3. MarkSending(tbl, id) \in [Ids -> Row]
  <2>1. tbl[id] \in Row
    OBVIOUS
  <2>2. SentRow(tbl[id]) \in Row
    BY <2>1 DEF SentRow, Row, States, Active, Terminal
  <2> QED BY <2>2 DEF MarkSending
<1> QED
  BY <1>1, <1>2, <1>3 DEF MarkEncoded, MarkWaitAck, MarkDelivered, MarkRetry,
     MarkAbandoned, RetryOrAbandon, States, Active, Terminal

\* Every statement that sweeps the whole table returns a table.
LEMMA TableStatements ==
    ASSUME NEW tbl \in [Ids -> Row]
    PROVE  /\ PurgeStaleBroadcasts(tbl) \in [Ids -> Row]
           /\ ResetUnencoded(tbl) \in [Ids -> Row]
           /\ AbandonStaleSending(tbl) \in [Ids -> Row]
           /\ Elapse(tbl) \in [Ids -> Row]
<1>1. PurgeStaleBroadcasts(tbl) \in [Ids -> Row]
  BY EmptyRowType DEF PurgeStaleBroadcasts
<1>2. ResetUnencoded(tbl) \in [Ids -> Row]
  BY DEF ResetUnencoded, InStateRow, Row, States, Active, Terminal
<1>3. AbandonStaleSending(tbl) \in [Ids -> Row]
  BY DEF AbandonStaleSending, InStateRow, Row, States, Active, Terminal
<1>4. Elapse(tbl) \in [Ids -> Row]
  BY DEF Elapse, Row, States, Active, Terminal
<1> QED BY <1>1, <1>2, <1>3, <1>4

\* What each statement does to its row, and that it leaves the others alone.
LEMMA RowEffects ==
    ASSUME NEW tbl \in [Ids -> Row], NEW id \in Ids
    PROVE  /\ \A s \in States :
                /\ SetState(tbl, id, s)[id].state = s
                /\ SetState(tbl, id, s)[id].msg = tbl[id].msg
                /\ SetState(tbl, id, s)[id].attempts = tbl[id].attempts
                /\ \A j \in Ids \ {id} : SetState(tbl, id, s)[j] = tbl[j]
           /\ \A p \in Payloads :
                /\ Insert(tbl, id, p)[id].state = "ENCODING"
                /\ Insert(tbl, id, p)[id].msg = p
                /\ Insert(tbl, id, p)[id].attempts = 0
                /\ \A j \in Ids \ {id} : Insert(tbl, id, p)[j] = tbl[j]
           /\ MarkSending(tbl, id)[id].state = "SENDING"
           /\ MarkSending(tbl, id)[id].msg = tbl[id].msg
           /\ MarkSending(tbl, id)[id].attempts = tbl[id].attempts + 1
           /\ \A j \in Ids \ {id} : MarkSending(tbl, id)[j] = tbl[j]
<1>1. \A s \in States :
        /\ SetState(tbl, id, s)[id].state = s
        /\ SetState(tbl, id, s)[id].msg = tbl[id].msg
        /\ SetState(tbl, id, s)[id].attempts = tbl[id].attempts
        /\ \A j \in Ids \ {id} : SetState(tbl, id, s)[j] = tbl[j]
  BY DEF SetState, InStateRow, Row
<1>2. \A p \in Payloads :
        /\ Insert(tbl, id, p)[id].state = "ENCODING"
        /\ Insert(tbl, id, p)[id].msg = p
        /\ Insert(tbl, id, p)[id].attempts = 0
        /\ \A j \in Ids \ {id} : Insert(tbl, id, p)[j] = tbl[j]
  BY DEF Insert
<1>3. /\ MarkSending(tbl, id)[id].state = "SENDING"
      /\ MarkSending(tbl, id)[id].msg = tbl[id].msg
      /\ MarkSending(tbl, id)[id].attempts = tbl[id].attempts + 1
      /\ \A j \in Ids \ {id} : MarkSending(tbl, id)[j] = tbl[j]
  BY DEF MarkSending, SentRow
<1> QED BY <1>1, <1>2, <1>3

\* The same for the sweeps, row by row.
LEMMA SweepEffects ==
    ASSUME NEW tbl \in [Ids -> Row], NEW j \in Ids
    PROVE  /\ \/ PurgeStaleBroadcasts(tbl)[j] = tbl[j]
              \/ /\ tbl[j].state \in Active /\ tbl[j].msg.kind \in PurgedKinds
                 /\ PurgeStaleBroadcasts(tbl)[j].state = "NONE"
                 /\ PurgeStaleBroadcasts(tbl)[j].attempts = 0
           /\ tbl[j].state \in Active /\ tbl[j].msg.kind \in PurgedKinds
                => PurgeStaleBroadcasts(tbl)[j].state = "NONE"
           /\ ResetUnencoded(tbl)[j].state =
                IF tbl[j].state = "QUEUED" THEN "ENCODING" ELSE tbl[j].state
           /\ ResetUnencoded(tbl)[j].attempts = tbl[j].attempts
           /\ ResetUnencoded(tbl)[j].msg = tbl[j].msg
           /\ AbandonStaleSending(tbl)[j].state =
                IF tbl[j].state = "SENDING" THEN "ABANDONED" ELSE tbl[j].state
           /\ AbandonStaleSending(tbl)[j].attempts = tbl[j].attempts
           /\ AbandonStaleSending(tbl)[j].msg = tbl[j].msg
           /\ Elapse(tbl)[j].state = tbl[j].state
           /\ Elapse(tbl)[j].attempts = tbl[j].attempts
           /\ Elapse(tbl)[j].msg = tbl[j].msg
<1>0. tbl[j] \in Row
  OBVIOUS
<1>1. /\ \/ PurgeStaleBroadcasts(tbl)[j] = tbl[j]
         \/ /\ tbl[j].state \in Active /\ tbl[j].msg.kind \in PurgedKinds
            /\ PurgeStaleBroadcasts(tbl)[j].state = "NONE"
            /\ PurgeStaleBroadcasts(tbl)[j].attempts = 0
      /\ tbl[j].state \in Active /\ tbl[j].msg.kind \in PurgedKinds
           => PurgeStaleBroadcasts(tbl)[j].state = "NONE"
  BY DEF PurgeStaleBroadcasts, EmptyRow
<1>2. /\ ResetUnencoded(tbl)[j].state =
           IF tbl[j].state = "QUEUED" THEN "ENCODING" ELSE tbl[j].state
      /\ ResetUnencoded(tbl)[j].attempts = tbl[j].attempts
      /\ ResetUnencoded(tbl)[j].msg = tbl[j].msg
  BY <1>0 DEF ResetUnencoded, InStateRow, Row
<1>3. /\ AbandonStaleSending(tbl)[j].state =
           IF tbl[j].state = "SENDING" THEN "ABANDONED" ELSE tbl[j].state
      /\ AbandonStaleSending(tbl)[j].attempts = tbl[j].attempts
      /\ AbandonStaleSending(tbl)[j].msg = tbl[j].msg
  BY <1>0 DEF AbandonStaleSending, InStateRow, Row
<1>4. /\ Elapse(tbl)[j].state = tbl[j].state
      /\ Elapse(tbl)[j].attempts = tbl[j].attempts
      /\ Elapse(tbl)[j].msg = tbl[j].msg
  BY <1>0 DEF Elapse, Row
<1> QED BY <1>1, <1>2, <1>3, <1>4

----------------------------------------------------------------------------
(* Types *)

\* The daemon starts with an empty, well-typed table.
LEMMA TypeInit == Init => TypeOK
<1> SUFFICES ASSUME Init PROVE TypeOK
  OBVIOUS
<1>1. outbound \in [Ids -> Row]
  BY EmptyRowType DEF Init, EmptyTable
<1>2. client \in [Clients -> SUBSET Payloads]
  BY DEF Init, Idle
<1>3. nextId \in 1..(MaxRows + 1) /\ epoch \in 1..(MaxRows + 1) /\ crashes \in 0..MaxCrashes
  BY QueueAssumption, PipelineAssumption DEF Init
<1>4. ctx \in [id : Ids, next : Nat, age : Nat] \cup {NoCtx}
  BY DEF Init
<1> QED
  BY <1>1, <1>2, <1>3, <1>4 DEF Init, TypeOK, NoRow, SchedulerPcs

\* No step of any thread breaks a type: a row in hand exists, a burst has a row.
LEMMA TypeStep == TypeOK /\ [Next]_vars => TypeOK'
<1> SUFFICES ASSUME TypeOK, [Next]_vars PROVE TypeOK'
  OBVIOUS
<1> USE DEF TypeOK, SchedulerPcs, EndTick, notScheduler, asyncioVars, workerVars,
            tickVars, lifeVars
<1>1. ASSUME NEW c \in Clients, NEW p \in Submits[c], CountRoom(c, p) PROVE TypeOK'
  <2>1. p \in Payloads
    BY PipelineAssumption
  <2>2. client' \in [Clients -> SUBSET Payloads]
    BY <1>1, <2>1 DEF CountRoom
  <2> QED BY <1>1, <2>2 DEF CountRoom
<1>2. ASSUME NEW c \in Clients, NEW p \in client[c], InsertRow(c, p) PROVE TypeOK'
  <2>1. p \in Payloads
    OBVIOUS
  <2>2. outbound' \in [Ids -> Row]
    BY <1>2, <2>1, RowStatements DEF InsertRow
  <2>3. client' \in [Clients -> SUBSET Payloads]
    BY <1>2 DEF InsertRow, Idle
  <2>4. nextId' \in 1..(MaxRows + 1)
    BY <1>2, QueueAssumption DEF InsertRow, Ids
  <2> QED BY <1>2, <2>2, <2>3, <2>4 DEF InsertRow
<1>3. ASSUME NEW call \in Stations, NEW id \in Ids, SelectAcked(call, id) PROVE TypeOK'
  BY <1>3 DEF SelectAcked
<1>4. CASE DeliverAcked
  BY <1>4, RowStatements DEF DeliverAcked
<1>5. ASSUME NEW id \in Ids, PickEncoding(id) PROVE TypeOK'
  BY <1>5 DEF PickEncoding
<1>6. CASE CacheAudio
  BY <1>6 DEF CacheAudio
<1>7. CASE AnnounceEncoded
  BY <1>7, RowStatements DEF AnnounceEncoded
<1>8. CASE EncodeFails
  BY <1>8, RowStatements DEF EncodeFails
<1>9. CASE StartScheduler
  BY <1>9, TableStatements DEF StartScheduler
<1>10. CASE WakeForSlot
  BY <1>10, TableStatements DEF WakeForSlot, SlotGoesBy
<1>11. CASE SelectTimedOut
  BY <1>11 DEF SelectTimedOut, PastCutoff, NearCutoff, InState
<1>12. ASSUME NEW id \in Ids, SweepRow(id) PROVE TypeOK'
  BY <1>12, RowStatements DEF SweepRow
<1>13. CASE SweepDone
  BY <1>13 DEF SweepDone
<1>14. CASE BurstInTime
  BY <1>14 DEF BurstInTime
<1>15. CASE ForceEndBurst
  <2>1. ctx.id \in Ids
    BY <1>15 DEF ForceEndBurst
  <2>2. MarkAbandoned(outbound, ctx.id) \in [Ids -> Row]
    BY <2>1, RowStatements
  <2>3. outbound' \in [Ids -> Row]
    BY <1>15, <2>2 DEF ForceEndBurst
  <2>4. faulted' \in BOOLEAN
    BY <1>15 DEF ForceEndBurst
  <2> QED BY <1>15, <2>3, <2>4 DEF ForceEndBurst
<1>16. CASE ContinueBurst
  BY <1>16 DEF ContinueBurst
<1>17. CASE DropContext
  BY <1>17 DEF DropContext
<1>18. ASSUME NEW id \in Ids, PickQueued(id) PROVE TypeOK'
  BY <1>18 DEF PickQueued
<1>19. CASE PickNothing
  BY <1>19 DEF PickNothing
<1>20. CASE GateOpens
  BY <1>20 DEF GateOpens
<1>21. CASE GateBlocks
  BY <1>21 DEF GateBlocks
<1>22. CASE GetAudio
  BY <1>22 DEF GetAudio
<1>23. CASE EncodeInlineFails
  BY <1>23, RowStatements DEF EncodeInlineFails
<1>24. CASE RejectUnencodable
  BY <1>24, RowStatements DEF RejectUnencodable
<1>25. CASE StartBurst
  <2>1. ctx' \in [id : Ids, next : Nat, age : Nat] /\ ctx'.id = cur'
    BY <1>25 DEF StartBurst
  <2>2. ctx' # NoCtx
    BY <1>25, <2>1 DEF StartBurst, NoCtx, NoRow, Ids
  <2> QED BY <1>25, <2>1, <2>2 DEF StartBurst
<1>26. CASE StartBurstFails
  BY <1>26, RowStatements DEF StartBurstFails
<1>27. CASE StartBurstRaises
  BY <1>27 DEF StartBurstRaises
<1>28. CASE MarkCurSending
  BY <1>28, RowStatements DEF MarkCurSending
<1>29. CASE SendFrame
  BY <1>29 DEF SendFrame
<1>30. CASE SendLastFrame
  BY <1>30 DEF SendLastFrame
<1>31. CASE FrameFails
  BY <1>31 DEF FrameFails
<1>32. CASE FinishMessage
  BY <1>32, RowStatements DEF FinishMessage
<1>33. CASE FailMessage
  BY <1>33, RowStatements DEF FailMessage
<1>34. CASE StatementFails
  BY <1>34 DEF StatementFails
<1>35. CASE MissSlot
  BY <1>35, TableStatements DEF MissSlot, SlotGoesBy
<1>36. CASE Crash
  <2>1. client' \in [Clients -> SUBSET Payloads]
    BY <1>36 DEF Crash, Idle
  <2>2. crashes' \in 0..MaxCrashes
    BY <1>36, PipelineAssumption DEF Crash
  <2> QED BY <1>36, <2>1, <2>2 DEF Crash
<1>37. CASE Purge
  BY <1>37, TableStatements DEF Purge
<1>38. CASE Recover
  BY <1>38, TableStatements DEF Recover
<1>39. CASE RecoverFails
  BY <1>39 DEF RecoverFails
<1>40. CASE UNCHANGED vars
  BY <1>40 DEF vars
<1> QED
  BY <1>1, <1>2, <1>3, <1>4, <1>5, <1>6, <1>7, <1>8, <1>9, <1>10, <1>11, <1>12,
     <1>13, <1>14, <1>15, <1>16, <1>17, <1>18, <1>19, <1>20, <1>21, <1>22,
     <1>23, <1>24, <1>25, <1>26, <1>27, <1>28, <1>29, <1>30, <1>31, <1>32,
     <1>33, <1>34, <1>35, <1>36, <1>37, <1>38, <1>39, <1>40
     DEF Next, Asyncio, Enqueue, Worker, Scheduler, Startup

\* Type correctness: whatever the threads do, the table holds rows, and every
\* row a thread has in hand exists.
THEOREM TypeCorrect == Spec => []TypeOK
BY TypeInit, TypeStep, PTL DEF Spec

----------------------------------------------------------------------------
(* The attempt budget *)

\* AttemptsBounded is not inductive: mark_sending spends an attempt without
\* looking.  It is safe because the row in hand had one left when it was
\* picked, and nobody spends it in between.
HasTryLeft == pc \in {"gate", "audio", "start", "mark"}
                  => outbound[cur].attempts < MAX_ATTEMPTS

\* The scheduler does not run while the daemon is down, so the recovery
\* statements do not pull a row from under it.
DownAsleep == boot # "up" => pc = "boot"

AttemptsInv == TypeOK /\ AttemptsBounded /\ HasTryLeft /\ DownAsleep

\* The retry rule of the sweep and of _fail_message.
LEMMA RetryEffect ==
    ASSUME NEW tbl \in [Ids -> Row], NEW id \in Ids
    PROVE  /\ RetryOrAbandon(tbl, id)[id].state =
                IF tbl[id].attempts >= MAX_ATTEMPTS THEN "ABANDONED" ELSE "QUEUED"
           /\ RetryOrAbandon(tbl, id)[id].attempts = tbl[id].attempts
           /\ RetryOrAbandon(tbl, id)[id].msg = tbl[id].msg
           /\ \A j \in Ids \ {id} : RetryOrAbandon(tbl, id)[j] = tbl[j]
BY RowEffects DEF RetryOrAbandon, MarkAbandoned, MarkRetry, States, Active, Terminal

\* An empty table has spent nothing.
LEMMA AttemptsInit == Init => AttemptsInv
<1> SUFFICES ASSUME Init PROVE AttemptsInv
  OBVIOUS
<1>1. AttemptsBounded
  BY QueueAssumption DEF Init, AttemptsBounded, EmptyTable, EmptyRow
<1> QED
  BY <1>1, TypeInit DEF AttemptsInv, HasTryLeft, DownAsleep, Init

\* Every step keeps the budget: only mark_sending spends, and only on a row in
\* hand that had an attempt left.
LEMMA AttemptsStep == AttemptsInv /\ [Next]_vars => AttemptsInv'
<1> SUFFICES ASSUME AttemptsInv, [Next]_vars PROVE AttemptsInv'
  OBVIOUS
<1> USE DEF AttemptsInv, notScheduler, asyncioVars, workerVars, tickVars, lifeVars,
            EndTick
<1>0. TypeOK /\ TypeOK'
  BY TypeStep
<1>r. outbound \in [Ids -> Row] /\ QUEUE_DEPTH \in Nat /\ MAX_ATTEMPTS \in Nat \ {0}
  BY QueueAssumption DEF TypeOK
<1>a. \A id \in Ids : outbound[id].attempts \in Nat
  BY <1>r DEF Row
<1>k. ASSUME NEW id \in Ids, NEW st \in States, outbound' = SetState(outbound, id, st),
             st \in {"ENCODING", "QUEUED"} => outbound[id].attempts < MAX_ATTEMPTS
      PROVE  /\ AttemptsBounded'
             /\ \A j \in Ids : outbound'[j].attempts = outbound[j].attempts
  <2>1. /\ outbound'[id].state = st
        /\ \A j \in Ids : outbound'[j].attempts = outbound[j].attempts
        /\ \A j \in Ids \ {id} : outbound'[j] = outbound[j]
    BY <1>r, <1>k, RowEffects
  <2> QED BY <2>1, <1>k DEF AttemptsBounded
<1>m. ASSUME NEW id \in Ids, outbound' = MarkSending(outbound, id),
             outbound[id].attempts < MAX_ATTEMPTS
      PROVE  AttemptsBounded'
  <2>1. /\ outbound'[id].state = "SENDING"
        /\ outbound'[id].attempts = outbound[id].attempts + 1
        /\ \A j \in Ids \ {id} : outbound'[j] = outbound[j]
    BY <1>r, <1>m, RowEffects
  <2> QED BY <2>1, <1>m, <1>r, <1>a DEF AttemptsBounded
<1> DEFINE Quiet == /\ UNCHANGED outbound
                    /\ pc' \notin {"gate", "audio", "start", "mark"}
                    /\ boot' # "up" => pc' = "boot"
<1>q. Quiet => AttemptsInv'
  BY <1>0 DEF AttemptsBounded, HasTryLeft, DownAsleep
<1> DEFINE Still == UNCHANGED <<outbound, cur>>
<1>s. ASSUME Still, pc \in {"gate", "audio", "start", "mark"} \/ pc' = pc,
             boot' # "up" => pc' = "boot"
      PROVE  AttemptsInv'
  BY <1>0, <1>s DEF AttemptsBounded, HasTryLeft, DownAsleep
<1>1. ASSUME NEW c \in Clients, NEW p \in Submits[c], CountRoom(c, p) PROVE AttemptsInv'
  BY <1>1, <1>s DEF CountRoom, DownAsleep
<1>2. ASSUME NEW c \in Clients, NEW p \in client[c], InsertRow(c, p) PROVE AttemptsInv'
  <2>1. p \in Payloads /\ nextId \in Ids
    BY <1>2 DEF InsertRow, TypeOK
  <2>2. /\ outbound'[nextId].attempts = 0
        /\ \A j \in Ids \ {nextId} : outbound'[j] = outbound[j]
    BY <1>2, <2>1, <1>r, RowEffects DEF InsertRow
  <2> QED BY <1>2, <2>1, <2>2, <1>0, <1>r
         DEF AttemptsBounded, HasTryLeft, DownAsleep, TypeOK, SchedulerPcs, InsertRow
<1>3. ASSUME NEW call \in Stations, NEW id \in Ids, SelectAcked(call, id) PROVE AttemptsInv'
  BY <1>3, <1>s DEF SelectAcked, DownAsleep
<1>4. CASE DeliverAcked
  <2>1. /\ AttemptsBounded'
        /\ \A j \in Ids : outbound'[j].attempts = outbound[j].attempts
    BY <1>4, <1>k DEF DeliverAcked, MarkDelivered, TypeOK, States, Active, Terminal
  <2> QED BY <1>4, <1>0, <2>1 DEF HasTryLeft, DownAsleep, DeliverAcked, TypeOK
<1>5. ASSUME NEW id \in Ids, PickEncoding(id) PROVE AttemptsInv'
  BY <1>5, <1>s DEF PickEncoding, DownAsleep
<1>6. CASE CacheAudio
  BY <1>6, <1>s DEF CacheAudio, DownAsleep
<1>7. CASE AnnounceEncoded
  <2>1. \/ UNCHANGED outbound
        \/ /\ outbound' = SetState(outbound, encRow, "QUEUED")
           /\ outbound[encRow].attempts < MAX_ATTEMPTS
    <3>1. encRow \in Ids
      BY <1>7 DEF AnnounceEncoded, TypeOK
    <3> QED BY <1>7, <3>1 DEF AnnounceEncoded, MarkEncoded, AttemptsBounded
  <2>2. /\ AttemptsBounded'
        /\ \A j \in Ids : outbound'[j].attempts = outbound[j].attempts
    BY <1>7, <2>1, <1>k DEF AnnounceEncoded, AttemptsBounded, TypeOK, States, Active, Terminal
  <2> QED BY <1>7, <1>0, <2>2 DEF HasTryLeft, DownAsleep, AnnounceEncoded, TypeOK
<1>8. CASE EncodeFails
  <2>1. /\ AttemptsBounded'
        /\ \A j \in Ids : outbound'[j].attempts = outbound[j].attempts
    BY <1>8, <1>k DEF EncodeFails, MarkAbandoned, TypeOK, States, Active, Terminal
  <2> QED BY <1>8, <1>0, <2>1 DEF HasTryLeft, DownAsleep, EncodeFails, TypeOK
<1>9. CASE StartScheduler
  <2>1. outbound' = AbandonStaleSending(outbound)
    BY <1>9 DEF StartScheduler
  <2>2. AttemptsBounded'
    BY <2>1, <1>r, <1>a, SweepEffects DEF AttemptsBounded
  <2> QED BY <1>9, <1>0, <2>1, <2>2, <1>r, SweepEffects DEF HasTryLeft, DownAsleep, StartScheduler
<1>10. CASE WakeForSlot
  <2>1. outbound' = Elapse(outbound)
    BY <1>10 DEF WakeForSlot, SlotGoesBy
  <2>2. AttemptsBounded'
    BY <2>1, <1>r, <1>a, SweepEffects DEF AttemptsBounded
  <2> QED BY <1>10, <1>0, <2>1, <2>2, <1>r, SweepEffects DEF HasTryLeft, DownAsleep, WakeForSlot
<1>11. CASE SelectTimedOut
  BY <1>11, <1>q DEF SelectTimedOut, DownAsleep
<1>12. ASSUME NEW id \in Ids, SweepRow(id) PROVE AttemptsInv'
  <2>1. \/ outbound' = SetState(outbound, id, "ABANDONED")
        \/ outbound' = SetState(outbound, id, "QUEUED") /\ outbound[id].attempts < MAX_ATTEMPTS
    BY <1>12, <1>r, <1>a DEF SweepRow, RetryOrAbandon, MarkRetry, MarkAbandoned, TypeOK
  <2>2. AttemptsBounded'
    BY <1>12, <2>1, <1>k DEF SweepRow, TypeOK, States, Active, Terminal
  <2> QED BY <1>12, <1>0, <2>2 DEF HasTryLeft, DownAsleep, SweepRow
<1>13. CASE SweepDone
  BY <1>13, <1>q DEF SweepDone, DownAsleep
<1>14. CASE BurstInTime
  BY <1>14, <1>q DEF BurstInTime, DownAsleep
<1>15. CASE ForceEndBurst
  <2>1. UNCHANGED outbound \/ outbound' = SetState(outbound, ctx.id, "ABANDONED")
    BY <1>15 DEF ForceEndBurst, MarkAbandoned
  <2>2. AttemptsBounded'
    BY <1>15, <2>1, <1>k DEF ForceEndBurst, AttemptsBounded, TypeOK, States, Active, Terminal
  <2> QED BY <1>15, <1>0, <2>2 DEF HasTryLeft, DownAsleep, ForceEndBurst
<1>16. CASE ContinueBurst
  BY <1>16, <1>q DEF ContinueBurst, DownAsleep
<1>17. CASE DropContext
  BY <1>17, <1>q DEF DropContext, DownAsleep
<1>18. ASSUME NEW id \in Ids, PickQueued(id) PROVE AttemptsInv'
  <2>1. outbound[id].attempts < MAX_ATTEMPTS
    BY <1>18 DEF PickQueued, IsOldest, AttemptsBounded
  <2> QED BY <1>18, <1>0, <2>1 DEF AttemptsBounded, HasTryLeft, DownAsleep, PickQueued
<1>19. CASE PickNothing
  BY <1>19, <1>q DEF PickNothing, DownAsleep
<1>20. CASE GateOpens
  BY <1>20, <1>s DEF GateOpens, DownAsleep
<1>21. CASE GateBlocks
  BY <1>21, <1>q DEF GateBlocks, DownAsleep
<1>22. CASE GetAudio
  BY <1>22, <1>s DEF GetAudio, DownAsleep
<1>23. CASE EncodeInlineFails
  <2>1. AttemptsBounded'
    BY <1>23, <1>m DEF EncodeInlineFails, HasTryLeft, TypeOK
  <2> QED BY <1>23, <1>0, <2>1 DEF HasTryLeft, DownAsleep, EncodeInlineFails
<1>24. CASE RejectUnencodable
  <2>1. /\ AttemptsBounded'
        /\ \A j \in Ids : outbound'[j].attempts = outbound[j].attempts
    BY <1>24, <1>k DEF RejectUnencodable, MarkAbandoned, TypeOK, States, Active, Terminal
  <2> QED BY <1>24, <1>0, <2>1 DEF HasTryLeft, DownAsleep, RejectUnencodable
<1>25. CASE StartBurst
  BY <1>25, <1>s DEF StartBurst, DownAsleep
<1>26. CASE StartBurstFails
  <2>1. AttemptsBounded'
    BY <1>26, <1>m DEF StartBurstFails, HasTryLeft, TypeOK
  <2> QED BY <1>26, <1>0, <2>1 DEF HasTryLeft, DownAsleep, StartBurstFails
<1>27. CASE StartBurstRaises
  BY <1>27, <1>q DEF StartBurstRaises, DownAsleep
<1>28. CASE MarkCurSending
  <2>1. AttemptsBounded'
    BY <1>28, <1>m DEF MarkCurSending, HasTryLeft, TypeOK
  <2> QED BY <1>28, <1>0, <2>1 DEF HasTryLeft, DownAsleep, MarkCurSending
<1>29. CASE SendFrame
  BY <1>29, <1>q DEF SendFrame, DownAsleep
<1>30. CASE SendLastFrame
  BY <1>30, <1>q DEF SendLastFrame, DownAsleep
<1>31. CASE FrameFails
  BY <1>31, <1>q DEF FrameFails, DownAsleep
<1>32. CASE FinishMessage
  <2>1. \E st \in {"DELIVERED", "WAIT_ACK"} : outbound' = SetState(outbound, cur, st)
    BY <1>32 DEF FinishMessage, MarkDelivered, MarkWaitAck
  <2>2. AttemptsBounded'
    BY <1>32, <2>1, <1>k DEF FinishMessage, TypeOK, States, Active, Terminal
  <2> QED BY <1>32, <1>0, <2>2 DEF HasTryLeft, DownAsleep, FinishMessage
<1>33. CASE FailMessage
  <2>1. \/ outbound' = SetState(outbound, cur, "ABANDONED")
        \/ outbound' = SetState(outbound, cur, "QUEUED") /\ outbound[cur].attempts < MAX_ATTEMPTS
    BY <1>33, <1>r, <1>a DEF FailMessage, RetryOrAbandon, MarkRetry, MarkAbandoned, TypeOK
  <2>2. AttemptsBounded'
    BY <1>33, <2>1, <1>k DEF FailMessage, TypeOK, States, Active, Terminal
  <2> QED BY <1>33, <1>0, <2>2 DEF HasTryLeft, DownAsleep, FailMessage
<1>34. CASE StatementFails
  BY <1>34, <1>q DEF StatementFails, DownAsleep
<1>35. CASE MissSlot
  <2>1. outbound' = Elapse(outbound)
    BY <1>35 DEF MissSlot, SlotGoesBy
  <2>2. AttemptsBounded'
    BY <2>1, <1>r, <1>a, SweepEffects DEF AttemptsBounded
  <2> QED BY <1>35, <1>0, <2>1, <2>2, <1>r, SweepEffects DEF HasTryLeft, DownAsleep, MissSlot
<1>36. CASE Crash
  BY <1>36, <1>q DEF Crash, DownAsleep
<1>37. CASE Purge
  <2>1. outbound' = PurgeStaleBroadcasts(outbound)
    BY <1>37 DEF Purge
  <2>2. AttemptsBounded'
    BY <2>1, <1>r, <1>a, SweepEffects DEF AttemptsBounded
  <2> QED BY <1>37, <1>0, <2>1, <2>2, <1>r, SweepEffects DEF HasTryLeft, DownAsleep, Purge
<1>38. CASE Recover
  <2>1. outbound' = ResetUnencoded(outbound)
    BY <1>38 DEF Recover
  <2>2. AttemptsBounded'
    BY <2>1, <1>r, <1>a, SweepEffects DEF AttemptsBounded
  <2> QED BY <1>38, <1>0, <2>1, <2>2, <1>r, SweepEffects DEF HasTryLeft, DownAsleep, Recover
<1>39. CASE RecoverFails
  BY <1>39, <1>s DEF RecoverFails, DownAsleep
<1>40. CASE UNCHANGED vars
  BY <1>40, <1>s DEF vars, DownAsleep
<1> QED
  BY <1>1, <1>2, <1>3, <1>4, <1>5, <1>6, <1>7, <1>8, <1>9, <1>10, <1>11, <1>12,
     <1>13, <1>14, <1>15, <1>16, <1>17, <1>18, <1>19, <1>20, <1>21, <1>22,
     <1>23, <1>24, <1>25, <1>26, <1>27, <1>28, <1>29, <1>30, <1>31, <1>32,
     <1>33, <1>34, <1>35, <1>36, <1>37, <1>38, <1>39, <1>40
     DEF Next, Asyncio, Enqueue, Worker, Scheduler, Startup

\* No message goes on the air more than MAX_ATTEMPTS times, and one that is
\* queued again has an attempt left, whatever fails and however often the
\* daemon restarts.
THEOREM AttemptBudget == Spec => []AttemptsBounded
<1>1. Init => AttemptsInv
  BY AttemptsInit
<1>2. AttemptsInv /\ [Next]_vars => AttemptsInv'
  BY AttemptsStep
<1>3. AttemptsInv => AttemptsBounded
  BY DEF AttemptsInv
<1> QED BY <1>1, <1>2, <1>3, PTL DEF Spec
=============================================================================

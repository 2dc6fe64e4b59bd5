------------------------- MODULE TxLifecycleProofs -------------------------
(***************************************************************************)
(* The transmit pipeline implements MessageLifecycle: whatever the threads *)
(* do, in whatever order, each message moves as the life cycle allows.     *)
(* ControlInv says who has which row in hand; the mapping also needs to    *)
(* know which rows an ACK or a timeout can still reach.                    *)
(***************************************************************************)
EXTENDS TxControlProofs

----------------------------------------------------------------------------
(* What the life cycle adds to the invariant *)

\* Whatever waits for an ACK, or is about to be swept or delivered, is mail
\* that needs one, by the stored kind and by the kind the text reads as.
AwaitedNeedsAck == \A id \in Ids :
    outbound[id].state = "WAIT_ACK" \/ id \in swept \/ id = ackRow
        => ~SkipWaitAck(outbound[id].msg)

\* The row an ACK is about is ABANDONED only if the sweep gave it up.
AckedWasGivenUp ==
    ackRow \in Ids /\ outbound[ackRow].state = "ABANDONED"
        => outbound[ackRow].attempts >= MAX_ATTEMPTS

\* A purged row leaves no attempts behind.
AbsentIsUntried == \A id \in Ids :
    outbound[id].state = "NONE" => outbound[id].attempts = 0

LifecycleInv ==
    /\ ControlInv /\ AttemptsInv
    /\ AwaitedNeedsAck /\ AckedWasGivenUp /\ AbsentIsUntried

\* Nobody waits for anything yet.
LEMMA LifecycleInit == Init => LifecycleInv
<1> SUFFICES ASSUME Init PROVE LifecycleInv
  OBVIOUS
<1>1. \A id \in Ids : outbound[id].state = "NONE" /\ outbound[id].attempts = 0
  BY DEF Init, EmptyTable, EmptyRow
<1>2. NoRow \notin Ids
  BY QueueAssumption DEF NoRow, Ids
<1> QED
  BY <1>1, <1>2, ControlInit, AttemptsInit
     DEF Init, LifecycleInv, AwaitedNeedsAck, AckedWasGivenUp, AbsentIsUntried

\* The steps that move no row to another state, spend no attempt and change
\* no message: most of what the threads do.
RowsKept == \A j \in Ids :
    /\ outbound'[j].state = outbound[j].state
    /\ outbound'[j].attempts = outbound[j].attempts
    /\ outbound'[j].msg = outbound[j].msg

\* The purge is the only statement that takes rows away, and it keeps its
\* hands off mail.
LEMMA PurgeEffect ==
    ASSUME TypeOK, OnlyMailWaits, Purge
    PROVE  \A j \in Ids :
              \/ outbound'[j] = outbound[j]
              \/ /\ outbound[j].state \in {"ENCODING", "QUEUED", "SENDING"}
                 /\ SkipWaitAck(outbound[j].msg)
                 /\ outbound'[j].state = "NONE"
                 /\ outbound'[j].attempts = 0
BY SweepEffects DEF TypeOK, OnlyMailWaits, Purge, PurgedKinds, Active, SkipWaitAck

\* mark_sending spends an attempt of a row that has one left.
LEMMA SendingEffect ==
    ASSUME LifecycleInv, outbound' = MarkSending(outbound, cur),
           pc \in {"audio", "start", "mark"}
    PROVE  /\ cur \in Ids
           /\ outbound[cur].state = "QUEUED"
           /\ outbound[cur].attempts < MAX_ATTEMPTS
           /\ cur # ackRow
           /\ outbound'[cur].state = "SENDING"
           /\ outbound'[cur].attempts = outbound[cur].attempts + 1
           /\ outbound'[cur].msg = outbound[cur].msg
           /\ \A j \in Ids \ {cur} : outbound'[j] = outbound[j]
<1>1. cur \in Ids /\ outbound \in [Ids -> Row]
  BY DEF LifecycleInv, ControlInv, TypeOK
<1> QED
  BY <1>1, RowEffects
     DEF LifecycleInv, ControlInv, AttemptsInv, RowInHand, HasTryLeft

\* Every step preserves what the life cycle adds.
LEMMA LifecycleStep == LifecycleInv /\ [Next]_vars => LifecycleInv'
<1> SUFFICES ASSUME LifecycleInv, [Next]_vars PROVE LifecycleInv'
  OBVIOUS
<1>c. ControlInv' /\ AttemptsInv'
  BY ControlStep, AttemptsStep DEF LifecycleInv
<1>t. TypeOK /\ outbound \in [Ids -> Row] /\ ControlInv /\ NoRow \notin Ids
  BY QueueAssumption DEF LifecycleInv, ControlInv, TypeOK, NoRow, Ids
<1> DEFINE New == AwaitedNeedsAck' /\ AckedWasGivenUp' /\ AbsentIsUntried'
<1>s. SUFFICES New
  BY <1>c DEF LifecycleInv
<1> USE <1>t
<1> USE DEF LifecycleInv, AwaitedNeedsAck, AckedWasGivenUp, AbsentIsUntried, Becomes
<1> USE DEF notScheduler, asyncioVars, workerVars, tickVars, lifeVars, EndTick
<1>1. ASSUME NEW c \in Clients, NEW p \in Submits[c], CountRoom(c, p) PROVE New
  BY <1>1 DEF CountRoom
<1>2. ASSUME NEW c \in Clients, NEW p \in client[c], InsertRow(c, p) PROVE New
  <2>1. p \in Payloads /\ nextId \in Ids
    BY <1>2 DEF TypeOK, InsertRow
  <2>2. /\ outbound'[nextId].state = "ENCODING"
        /\ \A j \in Ids \ {nextId} : outbound'[j] = outbound[j]
    BY <1>2, <2>1, RowEffects DEF InsertRow
  <2>3. outbound[nextId].state = "NONE"
    BY <2>1, QueueAssumption DEF Ids, ControlInv, Inserted
  <2> QED
    BY <1>2, <2>1, <2>2, <2>3 DEF InsertRow, ControlInv, SweptRows, AckedRow
<1>3. ASSUME NEW call \in Stations, NEW id \in Ids, SelectAcked(call, id) PROVE New
  BY <1>3 DEF SelectAcked, MatchesAck, AwaitsAckFrom
<1>4. CASE DeliverAcked
  <2>1. Becomes(ackRow, "DELIVERED") /\ ackRow \in Ids
    BY <1>4, SetStateBecomes DEF DeliverAcked, MarkDelivered, States, Terminal
  <2> QED
    BY <1>4, <2>1 DEF DeliverAcked
<1>5. ASSUME NEW id \in Ids, PickEncoding(id) PROVE New
  BY <1>5 DEF PickEncoding
<1>6. CASE CacheAudio
  BY <1>6 DEF CacheAudio
<1>7. CASE AnnounceEncoded
  <2>1. encRow \in Ids /\ outbound[encRow].state = "ENCODING"
    BY <1>7 DEF AnnounceEncoded, ControlInv, TypeOK, WorkerRow
  <2>2. Becomes(encRow, "QUEUED")
    BY <1>7, <2>1, SetStateBecomes DEF AnnounceEncoded, MarkEncoded, States, Active
  <2> QED
    BY <1>7, <2>1, <2>2 DEF AnnounceEncoded
<1>8. CASE EncodeFails
  <2>1. encRow \in Ids /\ outbound[encRow].state = "ENCODING"
    BY <1>8 DEF EncodeFails, ControlInv, TypeOK, WorkerRow
  <2>2. Becomes(encRow, "ABANDONED")
    BY <1>8, <2>1, SetStateBecomes DEF EncodeFails, MarkAbandoned, States, Terminal
  <2>3. encRow # ackRow
    BY <2>1 DEF ControlInv, AckedRow
  <2> QED
    BY <1>8, <2>1, <2>2, <2>3 DEF EncodeFails
<1>9. CASE StartScheduler
  <2>1. \A j \in Ids :
          /\ outbound'[j].state = IF outbound[j].state = "SENDING" THEN "ABANDONED" ELSE outbound[j].state
          /\ outbound'[j].attempts = outbound[j].attempts
          /\ outbound'[j].msg = outbound[j].msg
    BY <1>9, SweepEffects DEF StartScheduler
  <2> QED
    BY <1>9, <2>1 DEF StartScheduler, ControlInv, AckedRow
<1>10. CASE WakeForSlot \/ MissSlot
  <2>1. RowsKept
    BY <1>10, SweepEffects DEF WakeForSlot, MissSlot, SlotGoesBy, RowsKept
  <2> QED
    BY <1>10, <2>1 DEF WakeForSlot, MissSlot, RowsKept
<1>11. CASE SelectTimedOut
  BY <1>11 DEF SelectTimedOut, PastCutoff, NearCutoff, InState
<1>12. ASSUME NEW id \in Ids, SweepRow(id) PROVE New
  <2>1. Becomes(id, IF outbound[id].attempts >= MAX_ATTEMPTS THEN "ABANDONED" ELSE "QUEUED")
    BY <1>12, RetryEffect DEF SweepRow
  <2> QED
    BY <1>12, <2>1 DEF SweepRow
<1>13. CASE ForceEndBurst
  <2>1. ctx.id \in Ids
    BY <1>13 DEF ForceEndBurst, TypeOK
  <2>2. Becomes(ctx.id, "ABANDONED") \/ UNCHANGED outbound
    BY <1>13, <2>1, SetStateBecomes DEF ForceEndBurst, MarkAbandoned, States, Terminal
  <2>3. ctx.id # ackRow
    BY <1>13 DEF ForceEndBurst, ControlInv, BurstRow
  <2> QED
    BY <1>13, <2>1, <2>2, <2>3 DEF ForceEndBurst
<1>14. CASE EncodeInlineFails \/ StartBurstFails \/ MarkCurSending
  <2>1. outbound' = MarkSending(outbound, cur) /\ pc \in {"audio", "start", "mark"}
    BY <1>14 DEF EncodeInlineFails, StartBurstFails, MarkCurSending
  <2>2. UNCHANGED <<swept, ackRow>>
    BY <1>14 DEF EncodeInlineFails, StartBurstFails, MarkCurSending
  <2> QED
    BY <2>1, <2>2, SendingEffect
<1>15. CASE RejectUnencodable
  <2>1. cur \in Ids /\ outbound[cur].state = "SENDING" /\ cur # ackRow
    BY <1>15 DEF RejectUnencodable, ControlInv, TypeOK, RowInHand, AckedRow
  <2>2. Becomes(cur, "ABANDONED")
    BY <1>15, <2>1, SetStateBecomes DEF RejectUnencodable, MarkAbandoned, States, Terminal
  <2> QED
    BY <1>15, <2>1, <2>2 DEF RejectUnencodable
<1>16. CASE FinishMessage
  <2>1. cur \in Ids /\ outbound[cur].state = "SENDING" /\ cur # ackRow
    BY <1>16 DEF FinishMessage, ControlInv, TypeOK, RowInHand, AckedRow
  <2>2. \/ Becomes(cur, "DELIVERED")
        \/ Becomes(cur, "WAIT_ACK") /\ ~SkipWaitAck(outbound[cur].msg)
    BY <1>16, <2>1, SetStateBecomes
       DEF FinishMessage, MarkDelivered, MarkWaitAck, States, Active, Terminal
  <2> QED
    BY <1>16, <2>1, <2>2 DEF FinishMessage
<1>17. CASE FailMessage
  <2>1. cur \in Ids /\ outbound[cur].state = "SENDING" /\ cur # ackRow
    BY <1>17 DEF FailMessage, ControlInv, TypeOK, RowInHand, AckedRow
  <2>2. Becomes(cur, IF outbound[cur].attempts >= MAX_ATTEMPTS THEN "ABANDONED" ELSE "QUEUED")
    BY <1>17, <2>1, RetryEffect DEF FailMessage
  <2> QED
    BY <1>17, <2>1, <2>2 DEF FailMessage
<1>18. CASE Purge
  <2>1. ackRow = NoRow /\ swept = {}
    BY <1>18 DEF Purge, ControlInv, DownIsQuiet, TickShape
  <2>2. UNCHANGED <<ackRow, swept>>
    BY <1>18 DEF Purge
  <2>3. \A j \in Ids :
          \/ outbound'[j] = outbound[j]
          \/ outbound'[j].state = "NONE" /\ outbound'[j].attempts = 0
    BY <1>18, PurgeEffect DEF ControlInv
  <2> QED
    BY <2>1, <2>2, <2>3
<1>19. CASE Recover
  <2>1. \A j \in Ids :
          /\ outbound'[j].state = IF outbound[j].state = "QUEUED" THEN "ENCODING" ELSE outbound[j].state
          /\ outbound'[j].attempts = outbound[j].attempts
          /\ outbound'[j].msg = outbound[j].msg
    BY <1>19, SweepEffects DEF Recover
  <2> QED
    BY <1>19, <2>1 DEF Recover
<1>20. CASE \/ SweepDone \/ BurstInTime \/ ContinueBurst \/ DropContext
            \/ (\E id \in Ids : PickQueued(id)) \/ PickNothing
            \/ GateOpens \/ GateBlocks \/ GetAudio
  BY <1>20 DEF SweepDone, BurstInTime, ContinueBurst, DropContext, PickQueued,
     PickNothing, GateOpens, GateBlocks, GetAudio
<1>21. CASE \/ StartBurst \/ StartBurstRaises \/ SendFrame \/ SendLastFrame
            \/ FrameFails \/ StatementFails
  BY <1>21 DEF StartBurst, StartBurstRaises, SendFrame, SendLastFrame, FrameFails,
     StatementFails
<1>22. CASE Crash \/ RecoverFails \/ UNCHANGED vars
  BY <1>22 DEF Crash, RecoverFails, vars
<1> HIDE DEF New
<1> QED
  BY <1>1, <1>2, <1>3, <1>4, <1>5, <1>6, <1>7, <1>8, <1>9, <1>10, <1>11,
     <1>12, <1>13, <1>14, <1>15, <1>16, <1>17, <1>18, <1>19, <1>20, <1>21, <1>22
     DEF Next, Asyncio, Enqueue, Worker, Scheduler, Startup

\* Who may still be delivered or retried never gets mixed up.
LEMMA LifecycleHolds == Spec => []LifecycleInv
BY LifecycleInit, LifecycleStep, PTL DEF Spec

----------------------------------------------------------------------------
(* The variables of the life cycle, read off the table *)

PhaseNow == [id \in Ids |-> PhaseOf(outbound[id].state)]
TriesNow == [id \in Ids |-> outbound[id].attempts]
NeedsAckNow == [id \in Ids |-> /\ outbound[id].state # "NONE"
                               /\ ~SkipWaitAck(outbound[id].msg)]

LEMMA PhaseOfState ==
    /\ PhaseOf("NONE") = "absent"
    /\ PhaseOf("ENCODING") = "pending"
    /\ PhaseOf("QUEUED") = "pending"
    /\ PhaseOf("SENDING") = "onair"
    /\ PhaseOf("WAIT_ACK") = "waiting"
    /\ PhaseOf("DELIVERED") = "delivered"
    /\ PhaseOf("ABANDONED") = "abandoned"
BY DEF PhaseOf

\* A statement that keeps every row's phase, attempts and message is a
\* stutter of the life cycle.
LEMMA StutterIfKept ==
    ASSUME \A j \in Ids :
              /\ PhaseOf(outbound'[j].state) = PhaseOf(outbound[j].state)
              /\ outbound'[j].state = "NONE" <=> outbound[j].state = "NONE"
              /\ outbound'[j].attempts = outbound[j].attempts
              /\ outbound'[j].msg = outbound[j].msg
    PROVE  UNCHANGED Lifecycle!lifecycle
<1>1. UNCHANGED <<PhaseNow, TriesNow, NeedsAckNow>>
  BY DEF PhaseNow, TriesNow, NeedsAckNow
<1> QED BY <1>1 DEF Lifecycle!lifecycle, PhaseNow, TriesNow, NeedsAckNow

\* SET state=? moves one message and leaves its attempts and its need of an
\* ACK alone.
LEMMA MoveIfBecomes ==
    ASSUME NEW id \in Ids, NEW st \in States \ {"NONE"},
           outbound[id].state # "NONE", Becomes(id, st)
    PROVE  Lifecycle!Move(id, PhaseOf(outbound[id].state), PhaseOf(st))
<1>1. PhaseNow' = [PhaseNow EXCEPT ![id] = PhaseOf(st)]
  BY DEF PhaseNow, Becomes
<1>2. UNCHANGED <<TriesNow, NeedsAckNow>>
  BY DEF TriesNow, NeedsAckNow, Becomes
<1> QED
  BY <1>1, <1>2 DEF Lifecycle!Move, Lifecycle!Becomes, PhaseNow, TriesNow, NeedsAckNow

\* mark_sending is Transmit.
LEMMA TransmitIfSending ==
    ASSUME LifecycleInv, NEW id \in Ids, id = cur,
           outbound' = MarkSending(outbound, cur),
           pc \in {"audio", "start", "mark"}
    PROVE  Lifecycle!Transmit(id)
<1>1. /\ outbound[id].state = "QUEUED"
      /\ outbound[id].attempts < MAX_ATTEMPTS
      /\ outbound'[id].state = "SENDING"
      /\ outbound'[id].attempts = outbound[id].attempts + 1
      /\ outbound'[id].msg = outbound[id].msg
      /\ \A j \in Ids \ {id} : outbound'[j] = outbound[j]
  BY SendingEffect
<1>2. PhaseNow' = [PhaseNow EXCEPT ![id] = "onair"] /\ PhaseNow[id] = "pending"
  BY <1>1, PhaseOfState DEF PhaseNow
<1>3. TriesNow' = [TriesNow EXCEPT ![id] = @ + 1] /\ TriesNow[id] < MAX_ATTEMPTS
  BY <1>1 DEF TriesNow
<1>4. UNCHANGED NeedsAckNow
  BY <1>1 DEF NeedsAckNow
<1> QED
  BY <1>2, <1>3, <1>4
     DEF Lifecycle!Transmit, Lifecycle!Becomes, PhaseNow, TriesNow, NeedsAckNow

\* The INSERT is Submit: which need of an ACK the message has is the
\* submitter's choice.
LEMMA SubmitIfInserted ==
    ASSUME LifecycleInv, NEW id \in Ids, id = nextId,
           NEW c \in Clients, NEW p \in client[c], InsertRow(c, p)
    PROVE  Lifecycle!Submit(id)
<1>1. p \in Payloads /\ outbound \in [Ids -> Row]
  BY DEF LifecycleInv, ControlInv, TypeOK, InsertRow
<1>2. /\ outbound'[id].state = "ENCODING"
      /\ outbound'[id].attempts = 0
      /\ \A j \in Ids \ {id} : outbound'[j] = outbound[j]
  BY <1>1, RowEffects DEF InsertRow
<1>3. outbound[id].state = "NONE" /\ outbound[id].attempts = 0
  BY <1>1, QueueAssumption
     DEF Ids, LifecycleInv, ControlInv, Inserted, AbsentIsUntried
<1>4. PhaseNow' = [PhaseNow EXCEPT ![id] = "pending"] /\ PhaseNow[id] = "absent"
  BY <1>1, <1>2, <1>3, PhaseOfState DEF PhaseNow
<1>5. UNCHANGED TriesNow
  BY <1>1, <1>2, <1>3 DEF TriesNow
<1>6. PICK ack \in BOOLEAN : NeedsAckNow' = [NeedsAckNow EXCEPT ![id] = ack]
  <2>1. NeedsAckNow'[id] \in BOOLEAN
    BY <1>1 DEF NeedsAckNow
  <2>2. NeedsAckNow' = [NeedsAckNow EXCEPT ![id] = NeedsAckNow'[id]]
    BY <1>1, <1>2 DEF NeedsAckNow
  <2> QED BY <2>1, <2>2
<1> QED
  BY <1>4, <1>5, <1>6
     DEF Lifecycle!Submit, Lifecycle!Becomes, PhaseNow, TriesNow, NeedsAckNow

\* The purge is Forget.
LEMMA ForgetIfPurged ==
    ASSUME LifecycleInv, Purge, NEW gone \in SUBSET Ids,
           gone = {j \in Ids : outbound'[j] # outbound[j]}
    PROVE  Lifecycle!Forget(gone)
<1>1. \A j \in Ids :
         \/ j \notin gone /\ outbound'[j] = outbound[j]
         \/ /\ j \in gone
            /\ outbound[j].state \in {"ENCODING", "QUEUED", "SENDING"}
            /\ SkipWaitAck(outbound[j].msg)
            /\ outbound'[j].state = "NONE"
            /\ outbound'[j].attempts = 0
  BY PurgeEffect DEF LifecycleInv, ControlInv
<1>2. PhaseNow' = [j \in Ids |-> IF j \in gone THEN "absent" ELSE PhaseNow[j]]
  BY <1>1, PhaseOfState DEF PhaseNow
<1>3. TriesNow' = [j \in Ids |-> IF j \in gone THEN 0 ELSE TriesNow[j]]
  BY <1>1 DEF TriesNow
<1>4. UNCHANGED NeedsAckNow
  BY <1>1 DEF NeedsAckNow
<1>5. \A j \in gone : PhaseNow[j] \in {"pending", "onair"} /\ ~NeedsAckNow[j]
  BY <1>1, PhaseOfState DEF PhaseNow, NeedsAckNow
<1> QED
  BY <1>2, <1>3, <1>4, <1>5 DEF Lifecycle!Forget, PhaseNow, TriesNow, NeedsAckNow

\* abandon_stale_sending is CloseInterrupted.
LEMMA CloseIfStarted ==
    ASSUME LifecycleInv, StartScheduler
    PROVE  Lifecycle!CloseInterrupted
<1>1. \A j \in Ids :
         /\ outbound'[j].state = IF outbound[j].state = "SENDING" THEN "ABANDONED" ELSE outbound[j].state
         /\ outbound'[j].attempts = outbound[j].attempts
         /\ outbound'[j].msg = outbound[j].msg
         /\ outbound[j].state \in States
  BY SweepEffects DEF LifecycleInv, ControlInv, TypeOK, StartScheduler, Row
<1>2. \A j \in Ids :
         PhaseOf(outbound[j].state) = "onair" <=> outbound[j].state = "SENDING"
  BY <1>1, PhaseOfState DEF States, Active, Terminal
<1>3. PhaseNow' = [j \in Ids |-> IF PhaseNow[j] = "onair" THEN "abandoned" ELSE PhaseNow[j]]
  BY <1>1, <1>2, PhaseOfState DEF PhaseNow
<1>4. UNCHANGED <<TriesNow, NeedsAckNow>>
  BY <1>1 DEF TriesNow, NeedsAckNow
<1> QED
  BY <1>3, <1>4 DEF Lifecycle!CloseInterrupted, PhaseNow, TriesNow, NeedsAckNow

----------------------------------------------------------------------------
(* Every step of the pipeline is a step of the life cycle, or a stutter *)

\* asyncio: an ACK reaches a waiting row, or crosses its timeout.
LEMMA DeliverMaps ==
    ASSUME LifecycleInv, DeliverAcked, NEW id \in Ids, id = ackRow
    PROVE  Lifecycle!Acked(id) \/ Lifecycle!AckCrossesTimeOut(id)
<1>1. Becomes(id, "DELIVERED")
  BY SetStateBecomes
     DEF LifecycleInv, ControlInv, DeliverAcked, MarkDelivered, States, Terminal
<1>2. /\ outbound[id].state \in {"WAIT_ACK", "ABANDONED", "QUEUED"}
      /\ outbound[id].attempts > 0
      /\ outbound[id].state = "ABANDONED" => outbound[id].attempts >= MAX_ATTEMPTS
      /\ outbound[id].state = "QUEUED" => ~(outbound[id].attempts >= MAX_ATTEMPTS)
      /\ ~SkipWaitAck(outbound[id].msg)
  BY QueueAssumption
     DEF LifecycleInv, ControlInv, TypeOK, Row, AttemptsInv, AttemptsBounded, AckedRow,
         AwaitedNeedsAck, AckedWasGivenUp
<1>3. Lifecycle!Move(id, PhaseOf(outbound[id].state), "delivered")
  BY <1>1, <1>2, MoveIfBecomes, PhaseOfState DEF States, Terminal
<1>4. CASE outbound[id].state = "WAIT_ACK"
  BY <1>3, <1>4, PhaseOfState DEF Lifecycle!Acked
<1>5. CASE outbound[id].state # "WAIT_ACK"
  <2>1. PhaseOf(outbound[id].state) = Lifecycle!AfterMiss(id)
    BY <1>2, <1>5, PhaseOfState DEF Lifecycle!AfterMiss
  <2>2. Lifecycle!Move(id, Lifecycle!AfterMiss(id), "delivered")
    BY <1>3, <2>1
  <2> QED
    BY <1>2, <2>2 DEF Lifecycle!AckCrossesTimeOut
<1> QED BY <1>4, <1>5

\* Scheduler: the sweep times a waiting row out, or crosses its ACK.
LEMMA SweepMaps ==
    ASSUME LifecycleInv, NEW id \in Ids, SweepRow(id)
    PROVE  Lifecycle!TimeOut(id) \/ Lifecycle!AckCrossesTimeOut(id)
<1>1. Becomes(id, IF outbound[id].attempts >= MAX_ATTEMPTS THEN "ABANDONED" ELSE "QUEUED")
  BY RetryEffect DEF LifecycleInv, ControlInv, TypeOK, SweepRow, Becomes
<1>2. /\ outbound[id].state \in {"WAIT_ACK", "DELIVERED"}
      /\ outbound[id].attempts > 0
      /\ ~SkipWaitAck(outbound[id].msg)
  BY DEF LifecycleInv, ControlInv, SweepRow, SweptRows, Spent, AwaitedNeedsAck
<1>3. PhaseOf(IF outbound[id].attempts >= MAX_ATTEMPTS THEN "ABANDONED" ELSE "QUEUED")
        = Lifecycle!AfterMiss(id)
  BY PhaseOfState DEF Lifecycle!AfterMiss
<1>4. Lifecycle!Move(id, PhaseOf(outbound[id].state), Lifecycle!AfterMiss(id))
  BY <1>1, <1>2, <1>3, MoveIfBecomes DEF States, Active, Terminal
<1>5. CASE outbound[id].state = "WAIT_ACK"
  BY <1>4, <1>5, PhaseOfState DEF Lifecycle!TimeOut
<1>6. CASE outbound[id].state = "DELIVERED"
  BY <1>2, <1>4, <1>6, PhaseOfState DEF Lifecycle!AckCrossesTimeOut
<1> QED BY <1>2, <1>5, <1>6

\* Giving up is the one answer to audio that cannot be rendered and to a
\* burst past its deadline.
LEMMA GiveUpIfAbandoned ==
    ASSUME NEW id \in Ids, outbound[id].state \in {"ENCODING", "QUEUED", "SENDING"},
           Becomes(id, "ABANDONED")
    PROVE  Lifecycle!GiveUp(id)
<1>1. Lifecycle!Move(id, PhaseOf(outbound[id].state), "abandoned")
  BY MoveIfBecomes, PhaseOfState DEF States, Terminal
<1> QED BY <1>1, PhaseOfState DEF Lifecycle!GiveUp

\* The end of a burst: mail waits for its ACK, everything else is done.
LEMMA FinishMaps ==
    ASSUME LifecycleInv, FinishMessage, NEW id \in Ids, id = cur
    PROVE  Lifecycle!Sent(id)
<1>1. outbound[id].state = "SENDING"
  BY DEF LifecycleInv, ControlInv, RowInHand, FinishMessage
<1>2. Becomes(id, IF SkipWaitAck(outbound[id].msg) THEN "DELIVERED" ELSE "WAIT_ACK")
  BY SetStateBecomes
     DEF LifecycleInv, ControlInv, FinishMessage, MarkDelivered, MarkWaitAck, States,
         Active, Terminal
<1>3. PhaseOf(IF SkipWaitAck(outbound[id].msg) THEN "DELIVERED" ELSE "WAIT_ACK")
        = IF NeedsAckNow[id] THEN "waiting" ELSE "delivered"
  BY <1>1, PhaseOfState DEF NeedsAckNow
<1>4. Lifecycle!Move(id, "onair", IF NeedsAckNow[id] THEN "waiting" ELSE "delivered")
  BY <1>1, <1>2, <1>3, MoveIfBecomes, PhaseOfState DEF States, Active, Terminal
<1> QED BY <1>4 DEF Lifecycle!Sent, NeedsAckNow

\* A failed transmission costs an attempt, or the message.
LEMMA FailMaps ==
    ASSUME LifecycleInv, FailMessage, NEW id \in Ids, id = cur
    PROVE  Lifecycle!Fail(id)
<1>1. outbound[id].state = "SENDING"
  BY DEF LifecycleInv, ControlInv, RowInHand, FailMessage
<1>2. Becomes(id, IF outbound[id].attempts >= MAX_ATTEMPTS THEN "ABANDONED" ELSE "QUEUED")
  BY RetryEffect DEF LifecycleInv, ControlInv, TypeOK, FailMessage, Becomes
<1>3. PhaseOf(IF outbound[id].attempts >= MAX_ATTEMPTS THEN "ABANDONED" ELSE "QUEUED")
        = Lifecycle!AfterMiss(id)
  BY PhaseOfState DEF Lifecycle!AfterMiss
<1>4. Lifecycle!Move(id, "onair", Lifecycle!AfterMiss(id))
  BY <1>1, <1>2, <1>3, MoveIfBecomes, PhaseOfState DEF States, Active, Terminal
<1> QED BY <1>4 DEF Lifecycle!Fail

\* An empty table is a life cycle in which nothing has been submitted.
LEMMA LifecycleInitMaps == Init => Lifecycle!Init
BY PhaseOfState DEF Init, EmptyTable, EmptyRow, Lifecycle!Init

\* Step by step: each action of each thread is one of MessageLifecycle's, or
\* moves no message.
LEMMA LifecycleMaps ==
    LifecycleInv /\ [Next]_vars => [Lifecycle!Next]_(Lifecycle!lifecycle)
<1> SUFFICES ASSUME LifecycleInv, [Next]_vars
             PROVE  Lifecycle!Next \/ UNCHANGED Lifecycle!lifecycle
  OBVIOUS
<1>t. TypeOK /\ ControlInv /\ outbound \in [Ids -> Row]
  BY DEF LifecycleInv, ControlInv, TypeOK
<1> DEFINE Maps == Lifecycle!Next \/ UNCHANGED Lifecycle!lifecycle
<1>s. SUFFICES Maps
  OBVIOUS
<1>m. ASSUME NEW id \in Ids,
             \/ Lifecycle!Submit(id) \/ Lifecycle!Transmit(id) \/ Lifecycle!Sent(id)
             \/ Lifecycle!Fail(id) \/ Lifecycle!GiveUp(id) \/ Lifecycle!Acked(id)
             \/ Lifecycle!TimeOut(id) \/ Lifecycle!AckCrossesTimeOut(id)
      PROVE  Maps
  BY <1>m DEF Lifecycle!Next
<1>k. ASSUME RowsKept PROVE Maps
  BY <1>k, StutterIfKept DEF RowsKept
<1> HIDE DEF Maps
<1>1. ASSUME NEW c \in Clients, NEW p \in client[c], InsertRow(c, p) PROVE Maps
  <2>1. PICK id \in Ids : id = nextId
    BY <1>1 DEF InsertRow
  <2> QED
    BY <1>1, <2>1, <1>m, SubmitIfInserted
<1>2. CASE DeliverAcked
  <2>1. PICK id \in Ids : id = ackRow
    BY <1>2 DEF DeliverAcked
  <2> QED
    BY <1>2, <2>1, <1>m, DeliverMaps
<1>3. CASE AnnounceEncoded
  <2>1. encRow \in Ids /\ outbound[encRow].state = "ENCODING"
    BY <1>t, <1>3 DEF AnnounceEncoded, ControlInv, TypeOK, WorkerRow
  <2>2. Becomes(encRow, "QUEUED")
    BY <1>t, <1>3, <2>1, SetStateBecomes DEF AnnounceEncoded, MarkEncoded, States, Active, Becomes
  <2> QED
    BY <2>1, <2>2, <1>k, StutterIfKept, PhaseOfState DEF Becomes, Maps
<1>4. CASE EncodeFails
  <2>1. PICK id \in Ids : id = encRow
    BY <1>t, <1>4 DEF EncodeFails, TypeOK
  <2>2. outbound[id].state = "ENCODING"
    BY <1>t, <1>4, <2>1 DEF EncodeFails, ControlInv, WorkerRow
  <2>3. Becomes(id, "ABANDONED")
    BY <1>t, <1>4, <2>1, SetStateBecomes DEF EncodeFails, MarkAbandoned, States, Terminal
  <2> QED
    BY <2>2, <2>3, <1>m, GiveUpIfAbandoned
<1>5. CASE StartScheduler
  BY <1>5, CloseIfStarted DEF Maps, Lifecycle!Next
<1>6. CASE WakeForSlot \/ MissSlot
  <2>1. RowsKept
    BY <1>t, <1>6, SweepEffects DEF WakeForSlot, MissSlot, SlotGoesBy, RowsKept
  <2> QED BY <2>1, <1>k
<1>7. ASSUME NEW id \in Ids, SweepRow(id) PROVE Maps
  BY <1>7, <1>m, SweepMaps
<1>8. CASE ForceEndBurst
  <2>1. PICK id \in Ids : id = ctx.id
    BY <1>t, <1>8 DEF ForceEndBurst, TypeOK
  <2>2. outbound[id].state \in {"QUEUED", "SENDING"}
    BY <1>t, <1>8, <2>1 DEF ForceEndBurst, ControlInv, BurstRow
  <2>3. Becomes(id, "ABANDONED") \/ UNCHANGED outbound
    BY <1>t, <1>8, <2>1, SetStateBecomes DEF ForceEndBurst, MarkAbandoned, States, Terminal
  <2> QED
    BY <2>2, <2>3, <1>m, <1>k, GiveUpIfAbandoned DEF RowsKept
<1>9. CASE EncodeInlineFails \/ StartBurstFails \/ MarkCurSending
  <2>1. outbound' = MarkSending(outbound, cur) /\ pc \in {"audio", "start", "mark"}
    BY <1>9 DEF EncodeInlineFails, StartBurstFails, MarkCurSending
  <2>2. PICK id \in Ids : id = cur
    BY <2>1, SendingEffect
  <2> QED
    BY <2>1, <2>2, <1>m, TransmitIfSending
<1>10. CASE RejectUnencodable
  <2>1. PICK id \in Ids : id = cur
    BY <1>t, <1>10 DEF RejectUnencodable, TypeOK
  <2>2. outbound[id].state = "SENDING"
    BY <1>t, <1>10, <2>1 DEF RejectUnencodable, ControlInv, RowInHand
  <2>3. Becomes(id, "ABANDONED")
    BY <1>t, <1>10, <2>1, SetStateBecomes DEF RejectUnencodable, MarkAbandoned, States, Terminal
  <2> QED
    BY <2>2, <2>3, <1>m, GiveUpIfAbandoned
<1>11. CASE FinishMessage
  <2>1. PICK id \in Ids : id = cur
    BY <1>t, <1>11 DEF FinishMessage, TypeOK
  <2> QED
    BY <1>11, <2>1, <1>m, FinishMaps
<1>12. CASE FailMessage
  <2>1. PICK id \in Ids : id = cur
    BY <1>t, <1>12 DEF FailMessage, TypeOK
  <2> QED
    BY <1>12, <2>1, <1>m, FailMaps
<1>13. CASE Purge
  <2>1. PICK gone \in SUBSET Ids : gone = {j \in Ids : outbound'[j] # outbound[j]}
    OBVIOUS
  <2>2. Lifecycle!Forget(gone)
    BY <1>13, <2>1, ForgetIfPurged
  <2> QED BY <2>2 DEF Maps, Lifecycle!Next
<1>14. CASE Recover
  <2>1. \A j \in Ids :
          /\ outbound'[j].state = IF outbound[j].state = "QUEUED" THEN "ENCODING" ELSE outbound[j].state
          /\ outbound'[j].attempts = outbound[j].attempts
          /\ outbound'[j].msg = outbound[j].msg
    BY <1>t, <1>14, SweepEffects DEF Recover
  <2> QED
    BY <2>1, StutterIfKept, PhaseOfState DEF Maps
<1>15. ASSUME UNCHANGED outbound PROVE Maps
  BY <1>15, <1>k DEF RowsKept
<1>16. ASSUME NEW c \in Clients, NEW p \in Submits[c], CountRoom(c, p) PROVE Maps
  BY <1>16, <1>15 DEF CountRoom
<1>17. ASSUME NEW id \in Ids,
              \/ \E call \in Stations : SelectAcked(call, id)
              \/ PickEncoding(id) \/ PickQueued(id)
       PROVE  Maps
  BY <1>17, <1>15 DEF SelectAcked, PickEncoding, PickQueued
<1>18. CASE \/ CacheAudio \/ SelectTimedOut \/ SweepDone \/ BurstInTime \/ ContinueBurst
            \/ DropContext \/ PickNothing \/ GateOpens \/ GateBlocks \/ GetAudio
  BY <1>18, <1>15 DEF CacheAudio, SelectTimedOut, SweepDone, BurstInTime, ContinueBurst,
     DropContext, PickNothing, GateOpens, GateBlocks, GetAudio
<1>19. CASE \/ StartBurst \/ StartBurstRaises \/ SendFrame \/ SendLastFrame
            \/ FrameFails \/ StatementFails \/ Crash \/ RecoverFails \/ UNCHANGED vars
  BY <1>19, <1>15 DEF StartBurst, StartBurstRaises, SendFrame, SendLastFrame, FrameFails,
     StatementFails, Crash, RecoverFails, vars
<1> QED
  BY <1>1, <1>2, <1>3, <1>4, <1>5, <1>6, <1>7, <1>8, <1>9, <1>10, <1>11, <1>12,
     <1>13, <1>14, <1>16, <1>17, <1>18, <1>19
     DEF Next, Asyncio, Enqueue, Worker, Scheduler, Startup

\* The pipeline implements the life cycle of its messages: whatever the
\* threads, restarts and failing statements do, each message is transmitted
\* at most MAX_ATTEMPTS times, waits only for an ACK it needs, and settles
\* only along the paths MessageLifecycle lists.
THEOREM LifecycleImplemented == Spec => ImplementsLifecycle
<1>1. Init => Lifecycle!Init
  BY LifecycleInitMaps
<1>2. LifecycleInv /\ [Next]_vars => [Lifecycle!Next]_(Lifecycle!lifecycle)
  BY LifecycleMaps
<1> QED
  BY <1>1, <1>2, LifecycleHolds, PTL DEF Spec, ImplementsLifecycle, Lifecycle!Spec
=============================================================================

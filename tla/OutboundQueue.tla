--------------------------- MODULE OutboundQueue ---------------------------
(***************************************************************************)
(* The SQLite table behind the transmit path, src/minijs8/tx/queue.py.     *)
(*                                                                         *)
(* OutboundQueue is a passive object: its methods are called from the      *)
(* asyncio thread, the beacon threads, the encode worker and the scheduler *)
(* over one shared connection.  So every SQL statement is an operator from *)
(* table to table here, and the threads that issue the statements (and     *)
(* interleave between them) are the actions of TxPipeline.                 *)
(*                                                                         *)
(* A row id stands for the row's enqueued_at as well: ids are handed out   *)
(* in insertion order, which is the FIFO order of the ORDER BY clauses.    *)
(* last_tx_at is kept as "age", the 15 s slots gone by since mark_sending; *)
(* it is read only while a row is WAIT_ACK.                                *)
(***************************************************************************)
EXTENDS Naturals, FiniteSets

CONSTANTS
    QUEUE_DEPTH,    \* cap on active rows (3 in the code)
    MAX_ATTEMPTS,   \* transmissions per message (3 in the code)
    ACK_SLOTS,      \* ACK_TIMEOUT_S in slots (90 s = 6 slots in the code)
    MaxRows,        \* bound: rows ever inserted
    Stations,       \* callsigns a message can be addressed to
    NoCall,         \* to_call = NULL, for broadcasts
    Payloads        \* the messages callers may enqueue

Kinds == {"HEARTBEAT", "CQ", "ALLCALL", "DIRECTED", "REPLY"}

\* "kind" is the stored column; "inferred" is what infer_outbound_kind makes
\* of the text; "frames" is the number of 15 s frames the text encodes to.
Payload == [kind : Kinds, inferred : {"DIRECTED", "REPLY"},
            to : Stations \cup {NoCall}, frames : Nat \ {0}]

ASSUME QueueAssumption ==
    /\ QUEUE_DEPTH \in Nat \ {0}
    /\ MAX_ATTEMPTS \in Nat \ {0}
    /\ ACK_SLOTS \in Nat
    /\ MaxRows \in Nat
    /\ Payloads \subseteq Payload
    /\ Payloads # {}

Ids == 1..MaxRows
NoRow == 0

Active == {"ENCODING", "QUEUED", "SENDING", "WAIT_ACK"}
Terminal == {"DELIVERED", "ABANDONED"}
States == Active \cup Terminal \cup {"NONE"}   \* NONE: no such row

Row == [state : States, msg : Payloads, attempts : Nat, age : Nat]
EmptyRow == [state |-> "NONE", msg |-> CHOOSE p \in Payloads : TRUE,
             attempts |-> 0, age |-> 0]
EmptyTable == [id \in Ids |-> EmptyRow]

----------------------------------------------------------------------------
(* SELECTs *)

InState(tbl, s) == {id \in Ids : tbl[id].state = s}

ActiveCount(tbl) == Cardinality({id \in Ids : tbl[id].state \in Active})

\* id heads "WHERE state=s ORDER BY enqueued_at ASC LIMIT 1".
IsOldest(tbl, id, s) ==
    /\ tbl[id].state = s
    /\ \A j \in InState(tbl, s) : id <= j

AwaitsAckFrom(tbl, id, call) ==
    tbl[id].state = "WAIT_ACK" /\ tbl[id].msg.to = call

\* id is the row record_ack selects: the WAIT_ACK row for this sender that
\* was transmitted last.
MatchesAck(tbl, id, call) ==
    /\ AwaitsAckFrom(tbl, id, call)
    /\ \A j \in Ids : AwaitsAckFrom(tbl, j, call) => tbl[id].age <= tbl[j].age

\* find_timed_out_acks, "last_tx_at < now - ACK_TIMEOUT_S".  mark_sending runs
\* shortly after the sweep of its own tick, so ACK_SLOTS slots later the row is
\* a moment short of the cutoff, or past it when that sweep comes late.
PastCutoff(tbl)  == {id \in InState(tbl, "WAIT_ACK") : tbl[id].age > ACK_SLOTS}
NearCutoff(tbl)  == {id \in InState(tbl, "WAIT_ACK") : tbl[id].age = ACK_SLOTS}

----------------------------------------------------------------------------
(* INSERT, UPDATE, DELETE *)

Insert(tbl, id, p) ==
    [tbl EXCEPT ![id] = [state |-> "ENCODING", msg |-> p,
                         attempts |-> 0, age |-> 0]]

InStateRow(row, s) ==
    [row EXCEPT !.state = s,
                !.age = IF s \in {"SENDING", "WAIT_ACK"} THEN @ ELSE 0]

SetState(tbl, id, s) == [tbl EXCEPT ![id] = InStateRow(@, s)]

\* The only conditional UPDATE: WHERE id=? AND state='ENCODING'.
MarkEncoded(tbl, id) ==
    IF tbl[id].state = "ENCODING" THEN SetState(tbl, id, "QUEUED") ELSE tbl

SentRow(row) == [state |-> "SENDING", msg |-> row.msg,
                 attempts |-> row.attempts + 1, age |-> 0]

MarkSending(tbl, id) == [tbl EXCEPT ![id] = SentRow(@)]

MarkWaitAck(tbl, id)   == SetState(tbl, id, "WAIT_ACK")
MarkDelivered(tbl, id) == SetState(tbl, id, "DELIVERED")
MarkRetry(tbl, id)     == SetState(tbl, id, "QUEUED")
MarkAbandoned(tbl, id) == SetState(tbl, id, "ABANDONED")

RetryOrAbandonOffByOne(tbl, id) ==   \* mutant
    IF tbl[id].attempts > MAX_ATTEMPTS
    THEN MarkAbandoned(tbl, id) ELSE MarkRetry(tbl, id)

\* The retry-or-abandon rule the ACK sweep and _fail_message share.
RetryOrAbandon(tbl, id) ==
    IF tbl[id].attempts >= MAX_ATTEMPTS
    THEN MarkAbandoned(tbl, id) ELSE MarkRetry(tbl, id)

----------------------------------------------------------------------------
(* Start-up recovery *)

PurgedKindsSOSOnly == {"ALLCALL"}   \* mutant

\* The kinds purge_stale_broadcasts names.  CQ is not one of them.
PurgedKinds == {"ALLCALL", "HEARTBEAT"}

PurgeStaleBroadcasts(tbl) ==
    [id \in Ids |-> IF tbl[id].state \in Active /\ tbl[id].msg.kind \in PurgedKinds
                    THEN EmptyRow ELSE tbl[id]]

ResetUnencodedSkipped(tbl) == tbl   \* mutant

ResetUnencoded(tbl) ==
    [id \in Ids |-> IF tbl[id].state = "QUEUED"
                    THEN InStateRow(tbl[id], "ENCODING") ELSE tbl[id]]

AbandonStaleSending(tbl) ==
    [id \in Ids |-> IF tbl[id].state = "SENDING"
                    THEN InStateRow(tbl[id], "ABANDONED") ELSE tbl[id]]

\* One slot goes by on the wall clock.
Elapse(tbl) ==
    [id \in Ids |-> IF tbl[id].state \in {"SENDING", "WAIT_ACK"}
                       /\ tbl[id].age <= ACK_SLOTS
                    THEN [tbl[id] EXCEPT !.age = @ + 1] ELSE tbl[id]]
============================================================================

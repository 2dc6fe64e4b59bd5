---------------------------- MODULE InboundMail ----------------------------
(***************************************************************************)
(* What a heard frame leads to: MiniJS8App._on_decoded_frame, the five-    *)
(* second reassembly sweep and _dispatch_assembled (src/minijs8/app.py),   *)
(* around the buffers of Reassembly and the table of Mailbox.              *)
(*                                                                         *)
(* Mail for us and mail to hold is stored and acknowledged; a station that *)
(* asks is told of the mail held for it, asks for it by row id, and gets   *)
(* it; its ACK marks the row DELIVERED.  The replies go out through the    *)
(* transmit pipeline, which stands here as what it promises of each        *)
(* message: the steps of MessageLifecycle.                                 *)
(*                                                                         *)
(* The handlers run to their end on the asyncio thread; each step of one   *)
(* is an action here, because the scheduler thread and the operator may    *)
(* act in between.  "frame" and "todo" are the handler in progress.  The   *)
(* stations around us send a frame per slot, heard or not.                 *)
(***************************************************************************)
EXTENDS Reassembly, Mailbox

CONSTANTS
    QUEUE_DEPTH,     \* active outbound rows
    MAX_ATTEMPTS,    \* transmissions per outbound message
    SLOT,            \* sweeps per 15 s slot (3 in the code)
    MaxOut,          \* bound: replies ever queued
    MaxSent,         \* bound: transmissions the stations make
    MaxStores,       \* bound: messages the operator stores locally
    StoredFor,       \* bound: the stations the operator stores them for
    DbMayFail,       \* may an INSERT into the mailbox fail?
    Nothing          \* no frame, no transmission

ASSUME InboundAssumption ==
    /\ QUEUE_DEPTH \in Nat /\ MAX_ATTEMPTS \in Nat /\ MaxOut \in Nat
    /\ MaxSent \in Nat /\ MaxStores \in Nat /\ StoredFor \subseteq Stations
    /\ SLOT \in 1..(FRAME_TIMEOUT - 1)     \* 15 s and 30 s
    /\ DbMayFail \in BOOLEAN
    /\ Requests \subseteq MailIds
    /\ MailIds \cap Stations = {}
    /\ NoStation \notin Stations
    /\ Nothing \notin Frame

OutIds == 1..MaxOut
NoOut == 0

VARIABLES
    buffers,            \* MessageAssembler._buffers
    frame, todo,        \* the frame being handled, the messages to dispatch
    matched,            \* the outbound row record_ack selected
    box,                \* inbox_v1
    phase, tries, needsAck,   \* the outbound messages, as in MessageLifecycle
    wire,               \* what each outbound message says
    onair, due, tick,   \* stations: frame to send next, who is to send, time
    sent, stored,       \* transmissions and local stores so far
    run                 \* history: per offset, the uninterrupted frames heard

handler == <<frame, todo, matched>>
outbox == <<phase, tries, needsAck, wire>>
air == <<onair, due, tick, sent, run>>
vars == <<buffers, handler, box, outbox, air, stored>>

Tx == INSTANCE MessageLifecycle WITH Ids <- OutIds

Saying(verb, to, row) == [verb |-> verb, to |-> to, row |-> row]
Silence == Saying("NONE", NoStation, NoMail)

TypeOK ==
    /\ buffers \subseteq Buffer
    /\ frame \in Frame \cup {Nothing}
    /\ todo \subseteq Assembled
    /\ matched \in OutIds \cup {NoOut}
    /\ box \in [MailIds ->
          [type : MailTypes \cup {"NONE", "DELETED"},
           from : Stations \cup {Us, NoStation},
           to : Stations \cup {Us, NoStation}, text : Seq(Frame)]]
    /\ phase \in [OutIds -> Tx!Phases]
    /\ tries \in [OutIds -> Nat]
    /\ needsAck \in [OutIds -> BOOLEAN]
    /\ wire \in [OutIds ->
          [verb : {"NONE", "ACK", "NO", "OFFER", "MAIL"},
           to : Stations \cup {NoStation}, row : MailIds \cup {NoMail}]]
    /\ onair \in [Stations -> Frame \cup {Nothing}]
    /\ due \subseteq Stations
    /\ tick \in 0..(SLOT - 1)
    /\ sent \in Nat /\ stored \in Nat
    /\ run \in [Offsets -> Frame \cup {Nothing}]

Init ==
    /\ buffers = {}
    /\ frame = Nothing /\ todo = {} /\ matched = NoOut
    /\ box = EmptyBox
    /\ Tx!Init
    /\ wire = [o \in OutIds |-> Silence]
    /\ onair = [s \in Stations |-> Nothing]
    /\ due = Stations
    /\ tick = 0 /\ sent = 0 /\ stored = 0
    /\ run = [a \in Offsets |-> Nothing]

Idle == frame = Nothing /\ todo = {}

----------------------------------------------------------------------------
(* The stations and the clock *)

\* The frames station s may send in this slot.
Airs(s) ==
    IF onair[s] # Nothing THEN {onair[s]}
    ELSE IF sent < MaxSent THEN {<<t, 1>> : t \in {u \in Messages : u.from = s}}
    ELSE {}

Sends(s, t, k) ==
    /\ s \in due
    /\ due' = due \ {s}
    /\ onair' = [onair EXCEPT ![s] = IF k = t.frames THEN Nothing ELSE <<t, k + 1>>]
    /\ sent' = IF k = 1 THEN sent + 1 ELSE sent
    /\ UNCHANGED tick

Continues(t, k) == k = 1 \/ run[t.at] = <<t, k - 1>>

\* _on_decoded_frame up to and including feed.  "late" are the buffers near
\* their deadline that turn out to be past it.
Hear(s) ==
    /\ Idle
    /\ \E f \in Airs(s), late \in SUBSET NearDeadline(buffers) :
          LET t == f[1]
              k == f[2]
              stale == PastDeadline(buffers) \cup late
          IN /\ Sends(s, t, k)
             /\ buffers' = Fed(buffers \ stale, t, k, sent')
             /\ todo' = Evicted(stale) \cup EmittedBy(buffers \ stale, t, k, sent')
             /\ frame' = f
             /\ run' = [run EXCEPT ![t.at] = IF Continues(t, k) THEN f ELSE Nothing]
    /\ UNCHANGED <<matched, box, outbox, stored>>

\* Fading, a collision, or our own transmission.
Miss(s) ==
    /\ Idle
    /\ \E f \in Airs(s) :
          Sends(s, f[1], f[2]) /\ run' = [run EXCEPT ![f[1].at] = Nothing]
    /\ UNCHANGED <<buffers, handler, box, outbox, stored>>

Pause(s) ==
    /\ Idle
    /\ s \in due /\ onair[s] = Nothing
    /\ due' = due \ {s}
    /\ UNCHANGED <<buffers, handler, box, outbox, stored, onair, tick, sent, run>>

\* Five seconds, and _reassembly_sweep_loop at their end.
Sweep ==
    /\ Idle
    /\ due = {}
    /\ tick' = (tick + 1) % SLOT
    /\ due' = IF tick' = 0 THEN Stations ELSE {}
    /\ buffers' = Aged(buffers) \ PastDeadline(Aged(buffers))
    /\ todo' = Swept(Aged(buffers))
    /\ UNCHANGED <<frame, matched, box, outbox, stored, onair, sent, run>>

----------------------------------------------------------------------------
(* Replies *)

Pending == {o \in OutIds : phase[o] \in {"pending", "onair", "waiting"}}

NextOut(o) == phase[o] = "absent" /\ \A p \in OutIds : p < o => phase[p] # "absent"

Room == Cardinality(Pending) < QUEUE_DEPTH /\ \E o \in OutIds : NextOut(o)

\* _enqueue_directed_reply.  A full queue drops the reply.  Only the delivery
\* of held mail is of kind DIRECTED and waits for an ACK.
ReplyOffersWait(w) ==   \* mutant
    IF Room
    THEN \E o \in OutIds :
            /\ NextOut(o)
            /\ Tx!Submit(o)
            /\ needsAck'[o] = (w.verb \in {"MAIL", "OFFER"})
            /\ wire' = [wire EXCEPT ![o] = w]
    ELSE UNCHANGED outbox

Reply(w) ==
    IF Room
    THEN \E o \in OutIds :
            /\ NextOut(o)
            /\ Tx!Submit(o)
            /\ needsAck'[o] = (w.verb = "MAIL")
            /\ wire' = [wire EXCEPT ![o] = w]
    ELSE UNCHANGED outbox

----------------------------------------------------------------------------
(* _dispatch_assembled, one disjunct per outcome *)

ToUsAnyone(to) == TRUE   \* mutant

ToUs(to) == to \in Groups \cup {Us}

\* A checksummed message that may have consequences; the others are shown to
\* the operator or ignored.
Counts(e) == e.valid /\ e.buffered

Arg(text) == IF text = <<>> THEN NoArg ELSE text[1][1].arg

StoresAckFirst(type, from, to, text) ==   \* mutant
    \E r \in MailIds :
        /\ NextMailId(box, r)
        /\ box' \in {box, Put(box, r, type, from, to, text)}
        /\ Reply(Saying("ACK", from, r))

\* The INSERT may fail: the handler then returns without a reply.
Stores(type, from, to, text) ==
    \E r \in MailIds :
        /\ NextMailId(box, r)
        /\ box' = Put(box, r, type, from, to, text)
        /\ Reply(Saying("ACK", from, r))

StoreFails == (DbMayFail \/ MailboxFull(box)) /\ UNCHANGED <<box, outbox>>

\* _handle_inbound_msg_for_us
FilesMail(e) ==
    /\ Counts(e) /\ ToUs(e.to) /\ e.verb = "MSG" /\ e.text # <<>>
    /\ Stores("UNREAD", e.from, Us, e.text) \/ StoreFails

HoldsMailUnparsed(e) ==   \* mutant
    /\ Counts(e) /\ ToUs(e.to) /\ e.verb = "MSG TO:"
    /\ Stores("STORE", e.from, Arg(e.text), e.text) \/ StoreFails

\* _handle_inbound_msg_to
HoldsMail(e) ==
    /\ Counts(e) /\ ToUs(e.to) /\ e.verb = "MSG TO:" /\ Arg(e.text) \in Stations
    /\ Stores("STORE", e.from, Arg(e.text), e.text) \/ StoreFails

\* _handle_query_msgs; an empty box is answered NO unless everyone was asked.
AnswersQuery(e) ==
    /\ Counts(e) /\ (ToUs(e.to) \/ e.to = AllCall) /\ e.verb = "QUERY MSGS"
    /\ IF HoldingFor(box, e.from) # {}
       THEN \E r \in OldestHeld(box, e.from) : Reply(Saying("OFFER", e.from, r))
       ELSE IF e.to # AllCall THEN Reply(Saying("NO", e.from, NoMail))
       ELSE UNCHANGED outbox
    /\ UNCHANGED box

MayHaveAnyone(asker, r) == box[r].type = "STORE"   \* mutant

MayHave(asker, r) == box[r].type = "STORE" /\ box[r].to = asker

\* _handle_query_msg_id
HandsOver(e) ==
    /\ Counts(e) /\ ToUs(e.to) /\ e.verb = "QUERY" /\ Arg(e.text) \in MailIds
    /\ IF MayHave(e.from, Arg(e.text))
       THEN Reply(Saying("MAIL", e.from, Arg(e.text)))
       ELSE UNCHANGED outbox
    /\ UNCHANGED box

Ignores(e) ==
    /\ \/ ~Counts(e)
       \/ ~ToUs(e.to) /\ ~(e.to = AllCall /\ e.verb = "QUERY MSGS")
       \/ e.verb \notin MailVerbs \cup {"QUERY", "QUERY MSGS"}
       \/ e.verb = "MSG" /\ e.text = <<>>
       \/ e.verb = "MSG TO:" /\ Arg(e.text) \notin Stations
       \/ e.verb = "QUERY" /\ Arg(e.text) \notin MailIds
    /\ UNCHANGED <<box, outbox>>

Dispatch(e) ==
    /\ e \in todo
    /\ todo' = todo \ {e}
    /\ \/ FilesMail(e)
       \/ HoldsMail(e)
       \/ AnswersQuery(e)
       \/ HandsOver(e)
       \/ Ignores(e)
    /\ UNCHANGED <<buffers, frame, matched, air, stored>>

----------------------------------------------------------------------------
(* The end of _on_decoded_frame: ACK forwarding *)

IsAckForUs(t) == t.verb = "ACK" /\ ToUs(t.to)

WaitingFor(call) == {o \in OutIds : phase[o] = "waiting" /\ wire[o].to = call}

\* record_ack selects by callsign alone; which of several messages waiting for
\* this station it takes is TxPipeline's concern.
SelectsForAck ==
    /\ frame # Nothing /\ todo = {} /\ matched = NoOut
    /\ IsAckForUs(frame[1])
    /\ matched' \in WaitingFor(frame[1].from)
    /\ UNCHANGED <<buffers, frame, todo, box, outbox, air, stored>>

\* The UPDATE of record_ack, which may meet the timeout of the same message,
\* and _maybe_mark_inbox_delivered.  An OFFER reads like a delivery.
RecordsAck ==
    /\ matched # NoOut
    /\ \/ Tx!Acked(matched)
       \/ phase[matched] # "delivered" /\ Tx!AckCrossesTimeOut(matched)
    /\ box' = IF wire[matched].verb \in {"MAIL", "OFFER"}
              THEN MarkMailDelivered(box, wire[matched].row) ELSE box
    /\ frame' = Nothing /\ matched' = NoOut
    /\ UNCHANGED <<buffers, todo, wire, air, stored>>

EndsHandler ==
    /\ frame # Nothing /\ todo = {} /\ matched = NoOut
    /\ IsAckForUs(frame[1]) => WaitingFor(frame[1].from) = {}
    /\ frame' = Nothing
    /\ UNCHANGED <<buffers, todo, matched, box, outbox, air, stored>>

----------------------------------------------------------------------------
(* The transmit pipeline, the operator, a restart *)

\* What the scheduler may do with a message.  Between the two statements of
\* record_ack there is time for its sweep, not for a slot.
TxStep(o) ==
    /\ \/ /\ o # matched
          /\ \/ Tx!Transmit(o) \/ Tx!Sent(o) \/ Tx!Fail(o) \/ Tx!GiveUp(o)
             \/ phase[o] = "delivered" /\ Tx!AckCrossesTimeOut(o)
       \/ Tx!TimeOut(o)
    /\ UNCHANGED <<buffers, handler, box, wire, air, stored>>

\* _compose_store_sync
StoreLocally(to) ==
    /\ stored < MaxStores /\ to \in StoredFor
    /\ stored' = stored + 1
    /\ \E r \in MailIds : NextMailId(box, r) /\ box' = Put(box, r, "STORE", Us, to, <<>>)
    /\ UNCHANGED <<buffers, handler, outbox, air>>

OpenMail(r) ==
    /\ box[r].type = "UNREAD"
    /\ box' = MarkRead(box, r)
    /\ UNCHANGED <<buffers, handler, outbox, air, stored>>

\* The inbox screen lists UNREAD, READ and STORE rows.
RemoveMail(r) ==
    /\ box[r].type \in {"UNREAD", "READ", "STORE"}
    /\ box' = DeleteMail(box, r)
    /\ UNCHANGED <<buffers, handler, outbox, air, stored>>

\* The two databases outlive the daemon, the buffers do not.
Restart ==
    /\ buffers' = {}
    /\ frame' = Nothing /\ todo' = {} /\ matched' = NoOut
    /\ Tx!CloseInterrupted
    /\ run' = [a \in Offsets |-> Nothing]
    /\ UNCHANGED <<box, wire, onair, due, tick, sent, stored>>

----------------------------------------------------------------------------

Next ==
    \/ \E s \in Stations : Hear(s) \/ Miss(s) \/ Pause(s) \/ StoreLocally(s)
    \/ Sweep
    \/ \E e \in todo : Dispatch(e)
    \/ SelectsForAck \/ RecordsAck \/ EndsHandler
    \/ \E o \in OutIds : TxStep(o)
    \/ \E r \in MailIds : OpenMail(r) \/ RemoveMail(r)
    \/ Restart

Spec == Init /\ [][Next]_vars
----------------------------------------------------------------------------
(* Properties *)

Interrupters == {t.from : t \in {u \in Messages : StartsTalk(u)}}

Mail == {r \in MailIds : box[r].type # "NONE"}
FromTheAir == {r \in Mail : box[r].from \in Stations}

\* Mail stored off the air is the whole text of one message, however frames of
\* several stations were lost and mixed on the offset, unless its sender also
\* sends talk, which preempts a half-received message (reassembly.py:733).
StoredMailIsWhole ==
    \A r \in FromTheAir : ChecksumOK(box[r].text) \/ box[r].from \in Interrupters

\* What the class comment says of every message (reassembly.py:152): we never
\* ACK an incomplete one.
AckedMailIsWhole ==
    \A o \in OutIds : wire[o].verb = "ACK" => ChecksumOK(box[wire[o].row].text)

\* Every ACK answers mail of that very station which is in the box, each ACK
\* another row, though the INSERT may fail and the queue may be full.
AcksAnswerStoredMail ==
    \A o \in OutIds : wire[o].verb = "ACK" =>
        /\ wire[o].row \in Mail
        /\ box[wire[o].row].from = wire[o].to
        /\ \A p \in OutIds \ {o} : wire[p].verb = "ACK" => wire[p].row # wire[o].row

\* Held mail is handed to the station it is held for and to no other.
HeldMailGoesToItsRecipient ==
    \A o \in OutIds : wire[o].verb \in {"MAIL", "OFFER"} =>
        wire[o].row \in Mail /\ box[wire[o].row].to = wire[o].to

\* A row is marked DELIVERED only when its text has been on the air to its
\* recipient, whichever ACK it was that marked it.
DeliveredMailWasSent ==
    \A r \in MailIds : box[r].type = "DELIVERED" =>
        \E o \in OutIds : /\ wire[o] = Saying("MAIL", box[r].to, r)
                          /\ tries[o] > 0

\* Nothing is stored from, or sent to, a station that never addressed us,
\* though its frames fill our buffers and mix with those of stations that did.
Callers == {t.from : t \in {u \in Messages : u.to \in Groups \cup {Us, AllCall}}}

OnlyCallersAreServed ==
    /\ \A r \in FromTheAir : box[r].from \in Callers
    /\ \A o \in OutIds : phase[o] # "absent" => wire[o].to \in Callers

\* Neither a verb without its text, nor QUERY MSGS or a request by row id with
\* text behind it, which are taken to be complete without (reassembly.py:555).
WellFormed(t) == Complete(t) <=> t.frames = 1

\* A checksummed message heard frame by frame, with nothing else in between on
\* its offset, is handed to dispatch as it is, whatever buffers older traffic
\* has left there.
HeardInFull(t) == frame = <<t, t.frames>> /\ run[t.at] = frame

CleanMessagesAreDispatched ==
    [][frame' # Nothing /\ frame = Nothing =>
         \A t \in Messages :
            HeardInFull(t)' /\ StartsBuffered(t) /\ WellFormed(t) =>
               \E e \in todo' : /\ e.valid /\ e.text = TextOf(t)
                                /\ e.from = t.from /\ e.to = t.to /\ e.verb = t.verb
      ]_vars

----------------------------------------------------------------------------
(* Refinement *)

Standing == [r \in MailIds |-> box[r].type]
Letter == [r \in MailIds |-> [from |-> box[r].from, to |-> box[r].to, text |-> box[r].text]]

\* The replies that acknowledge a row to its sender, and those that carry one
\* to its addressee.
Receipts == {o \in OutIds : wire[o].verb = "ACK" /\ wire[o].to = box[wire[o].row].from}
Deliveries == {o \in OutIds : wire[o].verb = "MAIL" /\ wire[o].to = box[wire[o].row].to}

Acknowledged == {wire[o].row : o \in Receipts}
AskedFor == {wire[o].row : o \in Deliveries}
OnTheAir == {wire[o].row : o \in {p \in Deliveries : tries[p] > 0}}

Custody == INSTANCE MailCustody WITH
    Letters <- MailIds, standing <- Standing, letter <- Letter,
    receipts <- Acknowledged, requests <- AskedFor, readOut <- OnTheAir

\* Lost and mixed frames, queries in any order, a full queue, late ACKs, the
\* operator and a restart do with each letter what MailCustody allows.
ImplementsCustody == Custody!Spec
=============================================================================

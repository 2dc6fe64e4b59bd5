------------------------- MODULE InboundMailProofs -------------------------
(***************************************************************************)
(* Theorems about InboundMail, for any stations, any transmissions they    *)
(* may make and any bounds.                                                *)
(***************************************************************************)
EXTENDS InboundMail, SequenceTheorems, TLAPS

\* A buffer, or a message assembled from one, goes back to a first frame that
\* its sender addressed to "to", and is checksummed if its verb is.
Sourced(b) ==
    /\ \E t \in Messages : t.from = b.from /\ t.to = b.to
    /\ b.buffered <=> b.verb \in BufferedVerbs

\* What the assembler hands over as mail: checked, or preempted by talk.
Vouched(e) ==
    Counts(e) /\ e.verb \in MailVerbs => ChecksumOK(e.text) \/ e.from \in Interrupters

BufferInv == \A b \in buffers : Sourced(b)

TodoInv == \A e \in todo : Sourced(e) /\ Vouched(e)

AirInv ==
    \A s \in Stations : onair[s] # Nothing => onair[s][2] <= onair[s][1].frames

\* A message nobody submitted says nothing.
WireInv == \A o \in OutIds : phase[o] = "absent" => wire[o] = Silence

\* Only a delivery of held mail waits for an ACK, and only once it was sent.
AckInv ==
    /\ \A o \in OutIds : needsAck[o] => wire[o].verb = "MAIL"
    /\ \A o \in OutIds : phase[o] = "waiting" => needsAck[o]
    /\ \A o \in OutIds : phase[o] \in {"onair", "waiting"} => tries[o] > 0
    /\ matched # NoOut => needsAck[matched] /\ tries[matched] > 0

RxOK ==
    /\ buffers \subseteq Buffer
    /\ frame \in Frame \cup {Nothing}
    /\ todo \subseteq Assembled
    /\ onair \in [Stations -> Frame \cup {Nothing}]
    /\ due \subseteq Stations
    /\ tick \in 0..(SLOT - 1)
    /\ sent \in Nat /\ stored \in Nat
    /\ run \in [Offsets -> Frame \cup {Nothing}]

BoxOK ==
    box \in [MailIds ->
          [type : MailTypes \cup {"NONE", "DELETED"},
           from : Stations \cup {Us, NoStation},
           to : Stations \cup {Us, NoStation}, text : Seq(Frame)]]

OutOK ==
    /\ matched \in OutIds \cup {NoOut}
    /\ phase \in [OutIds -> Tx!Phases]
    /\ tries \in [OutIds -> Nat]
    /\ needsAck \in [OutIds -> BOOLEAN]
    /\ wire \in [OutIds ->
          [verb : {"NONE", "ACK", "NO", "OFFER", "MAIL"},
           to : Stations \cup {NoStation}, row : MailIds \cup {NoMail}]]

\* The receiving half, and the half that keeps and answers mail.
RxInv == RxOK /\ BufferInv /\ TodoInv /\ AirInv

MailInv ==
    /\ BoxOK /\ OutOK
    /\ WireInv /\ AckInv
    /\ StoredMailIsWhole
    /\ AcksAnswerStoredMail
    /\ HeldMailGoesToItsRecipient
    /\ DeliveredMailWasSent
    /\ OnlyCallersAreServed

InboundInv == RxInv /\ MailInv

USE ReassemblyAssumption, MailboxAssumption, InboundAssumption

----------------------------------------------------------------------------
(* Lemmas about the assembler *)

LEMMA TextIsTyped ==
    ASSUME NEW t \in Messages, NEW k \in 1..MaxFrames
    PROVE  /\ <<t, k>> \in Frame
           /\ <<<<t, k>>>> \in Seq(Frame)
           /\ Rest(t) \in Seq(Frame)
<1>1. <<t, k>> \in Frame
  BY DEF Frame
<1>2. 1 \in 1..MaxFrames
  OBVIOUS
<1>3. <<t, 1>> \in Frame
  BY <1>2 DEF Frame
<1> QED
  BY <1>1, <1>3 DEF Rest

LEMMA NewBufferIsTyped ==
    ASSUME NEW t \in Messages, NEW text \in Seq(Frame), NEW n \in Nat
    PROVE  /\ NewBuffer(t, text, n) \in Buffer
           /\ Sourced(NewBuffer(t, text, n))
<1>1. t \in Transmission
  BY DEF ReassemblyAssumption
<1>2. (t.verb \in BufferedVerbs) \in BOOLEAN
  OBVIOUS
<1> QED
  BY <1>1, <1>2 DEF NewBuffer, Buffer, Transmission, Sourced

LEMMA EmitIsTyped ==
    ASSUME NEW b \in Buffer, NEW ok \in BOOLEAN, Sourced(b)
    PROVE  Emit(b, ok) \in Assembled /\ Sourced(Emit(b, ok))
  BY DEF Emit, Buffer, Assembled, Sourced

LEMMA ExtendedIsTyped ==
    ASSUME NEW b \in Buffer, NEW t \in Messages, NEW k \in 1..MaxFrames, Sourced(b)
    PROVE  Extended(b, t, k) \in Buffer /\ Sourced(Extended(b, t, k))
<1>1. Append(b.text, <<t, k>>) \in Seq(Frame)
  BY TextIsTyped DEF Buffer
<1> QED
  BY <1>1 DEF Extended, Buffer, Sourced

\* feed keeps buffers and messages well-formed and vouches for the mail.
LEMMA FeedIsSound ==
    ASSUME NEW bufs \in SUBSET Buffer, \A b \in bufs : Sourced(b),
           NEW t \in Messages, NEW k \in 1..MaxFrames, NEW n \in Nat
    PROVE  /\ \A b \in Fed(bufs, t, k, n) : b \in Buffer /\ Sourced(b)
           /\ \A e \in EmittedBy(bufs, t, k, n) :
                 e \in Assembled /\ Sourced(e) /\ Vouched(e)
<1>0. t.from \in Stations
  BY DEF ReassemblyAssumption, Transmission
<1>1. CASE k > 1
  <2> DEFINE Grown == {Extended(c, t, k) : c \in Latest(bufs, t.at)}
  <2>1. \A b \in Grown : b \in Buffer /\ Sourced(b)
    BY ExtendedIsTyped DEF Latest
  <2>2. \A b \in Fed(bufs, t, k, n) : b \in bufs \/ b \in Grown
    BY <1>1 DEF Fed, AfterContinuation
  <2>3. ASSUME NEW e \in EmittedBy(bufs, t, k, n)
        PROVE  e \in Assembled /\ Sourced(e) /\ Vouched(e)
    <3>1. PICK b \in Grown : e = Emit(b, Checks(b))
      BY <1>1, <2>3 DEF EmittedBy, EmittedByContinuation
    <3>2. Checks(b) \in BOOLEAN
      BY DEF Checks, ChecksumOK
    <3>3. e \in Assembled /\ Sourced(e)
      BY <3>1, <3>2, <2>1, EmitIsTyped
    <3>4. Vouched(e)
      BY <3>1 DEF Vouched, Counts, Emit, Checks
    <3> QED
      BY <3>3, <3>4
  <2> QED
    BY <2>1, <2>2, <2>3
<1>2. CASE ~(k > 1) /\ StartsBuffered(t)
  <2>1. NewBuffer(t, Rest(t), n) \in Buffer /\ Sourced(NewBuffer(t, Rest(t), n))
    BY TextIsTyped, NewBufferIsTyped
  <2>2. \A b \in Fed(bufs, t, k, n) : b \in bufs \/ b = NewBuffer(t, Rest(t), n)
    BY <1>2 DEF Fed, AfterStarter
  <2>3. ASSUME NEW e \in EmittedBy(bufs, t, k, n)
        PROVE  e \in Assembled /\ Sourced(e) /\ Vouched(e)
    <3>1. Complete(t) /\ e = Emit(NewBuffer(t, Rest(t), n), TRUE)
      BY <1>2, <2>3 DEF EmittedBy, EmittedByStarter
    <3>2. e \in Assembled /\ Sourced(e)
      BY <3>1, <2>1, EmitIsTyped
    <3>3. e.verb = t.verb /\ e.text = Rest(t)
      BY <3>1 DEF Emit, NewBuffer
    <3>4. Vouched(e)
      BY <3>1, <3>3 DEF Vouched, Complete, MailVerbs
    <3> QED
      BY <3>2, <3>4
  <2> QED
    BY <2>1, <2>2, <2>3
<1>3. CASE ~(k > 1) /\ ~StartsBuffered(t) /\ StartsTalk(t)
  <2>1. /\ NewBuffer(t, <<<<t, 1>>>>, n) \in Buffer
        /\ Sourced(NewBuffer(t, <<<<t, 1>>>>, n))
    <3>1. 1 \in 1..MaxFrames
      OBVIOUS
    <3>2. <<<<t, 1>>>> \in Seq(Frame)
      BY <3>1, TextIsTyped
    <3> QED
      BY <3>2, NewBufferIsTyped
  <2>2. \A b \in Fed(bufs, t, k, n) :
           b \in bufs \/ b = NewBuffer(t, <<<<t, 1>>>>, n)
    BY <1>3 DEF Fed, AfterTalk
  <2>3. ASSUME NEW e \in EmittedBy(bufs, t, k, n)
        PROVE  e \in Assembled /\ Sourced(e) /\ Vouched(e)
    <3>1. PICK b \in bufs : e = Emit(b, TRUE) /\ b.from = t.from
      BY <1>3, <2>3 DEF EmittedBy, Preempted, SameKey
    <3>2. e \in Assembled /\ Sourced(e)
      BY <3>1, EmitIsTyped
    <3>3. e.from \in Interrupters
      BY <1>3, <3>1 DEF Emit, Interrupters
    <3> QED
      BY <3>2, <3>3 DEF Vouched
  <2> QED
    BY <2>1, <2>2, <2>3
<1>4. CASE ~(k > 1) /\ ~StartsBuffered(t) /\ ~StartsTalk(t)
  BY <1>4 DEF Fed, EmittedBy
<1> QED
  BY <1>1, <1>2, <1>3, <1>4

\* What a timeout emits is talk, or invalid.
LEMMA TimeoutsAreSound ==
    ASSUME NEW bufs \in SUBSET Buffer, \A b \in bufs : Sourced(b)
    PROVE  \A e \in Evicted(bufs) \cup Swept(bufs) :
              e \in Assembled /\ Sourced(e) /\ Vouched(e)
<1>1. ASSUME NEW b \in bufs, NEW ok \in BOOLEAN, ok = TRUE => ~b.buffered
      PROVE  LET e == Emit(b, ok)
             IN e \in Assembled /\ Sourced(e) /\ Vouched(e)
  <2>1. Emit(b, ok) \in Assembled /\ Sourced(Emit(b, ok))
    BY EmitIsTyped
  <2> QED
    BY <1>1, <2>1 DEF Emit, Vouched, Counts
<1>2. \A e \in Evicted(bufs) : \E b \in bufs : ~b.buffered /\ e = Emit(b, TRUE)
  BY DEF Evicted
<1>3. \A e \in Swept(bufs) : \E b \in bufs : e = Emit(b, ~b.buffered)
  BY DEF Swept, PastDeadline
<1>4. \A b \in bufs : (~b.buffered) \in BOOLEAN
  BY Zenon
<1>5. ASSUME NEW b \in bufs
      PROVE  /\ ~b.buffered => LET e == Emit(b, TRUE)
                               IN e \in Assembled /\ Sourced(e) /\ Vouched(e)
             /\ LET e == Emit(b, ~b.buffered)
                IN e \in Assembled /\ Sourced(e) /\ Vouched(e)
  BY <1>1, <1>4, <1>5, Zenon
<1> QED
  BY <1>2, <1>3, <1>5, Zenon

LEMMA AgedIsTyped ==
    ASSUME NEW bufs \in SUBSET Buffer, \A b \in bufs : Sourced(b)
    PROVE  /\ Aged(bufs) \in SUBSET Buffer
           /\ \A b \in Aged(bufs) : Sourced(b)
<1>1. ASSUME NEW b \in Buffer, Sourced(b)
      PROVE  /\ [b EXCEPT !.idle = b.idle + 1] \in Buffer
             /\ Sourced([b EXCEPT !.idle = b.idle + 1])
  <2>1. b.idle + 1 \in Nat
    BY DEF Buffer
  <2>2. ASSUME NEW n \in Nat
        PROVE  [b EXCEPT !.idle = n] \in Buffer /\ Sourced([b EXCEPT !.idle = n])
    BY <1>1 DEF Buffer, Sourced
  <2> QED
    BY <2>1, <2>2
<1> QED
  BY <1>1 DEF Aged

----------------------------------------------------------------------------
(* The receiving half *)

LEMMA AirsAreFrames ==
    ASSUME RxInv, NEW s \in Stations, NEW f \in Airs(s)
    PROVE  f \in Frame /\ f[2] <= f[1].frames
<1>1. ASSUME NEW t \in Messages
      PROVE  t.frames \in 1..MaxFrames /\ <<t, 1>> \in Frame
  BY DEF ReassemblyAssumption, Transmission, Frame
<1>2. CASE onair[s] # Nothing
  BY <1>2 DEF Airs, RxInv, RxOK, AirInv
<1>3. CASE onair[s] = Nothing
  <2>1. PICK t \in Messages : f = <<t, 1>>
    BY <1>3 DEF Airs
  <2> QED
    BY <2>1, <1>1
<1> QED
  BY <1>2, <1>3

\* A frame sent, heard or not, leaves the stations well-typed.
LEMMA SendingIsTyped ==
    ASSUME RxInv, NEW s \in Stations, NEW f \in Airs(s), Sends(s, f[1], f[2]),
           run' \in [Offsets -> Frame \cup {Nothing}]
    PROVE  /\ f[1] \in Messages /\ f[2] \in 1..MaxFrames
           /\ onair' \in [Stations -> Frame \cup {Nothing}]
           /\ due' \subseteq Stations /\ tick' \in 0..(SLOT - 1) /\ sent' \in Nat
           /\ AirInv'
<1>1. f \in Frame /\ f[2] <= f[1].frames
  BY AirsAreFrames
<1>2. f[1] \in Messages /\ f[2] \in 1..MaxFrames
  BY <1>1 DEF Frame
<1>3. f[1].frames \in 1..MaxFrames
  BY <1>2 DEF ReassemblyAssumption, Transmission
<1> DEFINE next == IF f[2] = f[1].frames THEN Nothing ELSE <<f[1], f[2] + 1>>
<1>4. next # Nothing => next \in Frame /\ next[2] <= next[1].frames
  BY <1>1, <1>2, <1>3 DEF Frame
<1>5. onair' = [onair EXCEPT ![s] = next]
  BY DEF Sends
<1>6. sent' \in Nat /\ due' \subseteq Stations /\ tick' \in 0..(SLOT - 1)
  BY DEF Sends, RxInv, RxOK
<1> HIDE DEF next
<1>7. onair' \in [Stations -> Frame \cup {Nothing}]
  BY <1>4, <1>5 DEF RxInv, RxOK
<1>8. AirInv'
  BY <1>4, <1>5 DEF RxInv, RxOK, AirInv
<1> QED
  BY <1>2, <1>6, <1>7, <1>8

LEMMA RxInvInitially == Init => RxInv
  BY DEF Init, RxInv, RxOK, BufferInv, TodoInv, AirInv, InboundAssumption

LEMMA HearKeepsRx ==
    ASSUME RxInv, NEW s \in Stations, Hear(s)
    PROVE  RxInv'
<1>1. PICK f \in Airs(s), late \in SUBSET NearDeadline(buffers) :
        LET t == f[1]
            k == f[2]
            stale == PastDeadline(buffers) \cup late
        IN /\ Sends(s, t, k)
           /\ buffers' = Fed(buffers \ stale, t, k, sent')
           /\ todo' = Evicted(stale) \cup EmittedBy(buffers \ stale, t, k, sent')
           /\ frame' = f
           /\ run' = [run EXCEPT ![t.at] = IF Continues(t, k) THEN f ELSE Nothing]
  BY DEF Hear
<1> DEFINE stale == PastDeadline(buffers) \cup late
<1>2. f \in Frame
  BY AirsAreFrames
<1>3. run' \in [Offsets -> Frame \cup {Nothing}]
  BY <1>1, <1>2 DEF RxInv, RxOK
<1>4. /\ f[1] \in Messages /\ f[2] \in 1..MaxFrames
      /\ onair' \in [Stations -> Frame \cup {Nothing}]
      /\ due' \subseteq Stations /\ tick' \in 0..(SLOT - 1) /\ sent' \in Nat
      /\ AirInv'
  BY <1>1, <1>3, SendingIsTyped
<1>5. stale \in SUBSET Buffer /\ buffers \ stale \in SUBSET Buffer
  BY DEF RxInv, RxOK, PastDeadline, NearDeadline
<1>6. (\A b \in stale : Sourced(b)) /\ (\A b \in buffers \ stale : Sourced(b))
  BY DEF RxInv, BufferInv, PastDeadline, NearDeadline
<1> HIDE DEF stale
<1>7. \A e \in Evicted(stale) : e \in Assembled /\ Sourced(e) /\ Vouched(e)
  BY <1>5, <1>6, TimeoutsAreSound
<1>8. /\ \A b \in Fed(buffers \ stale, f[1], f[2], sent') : b \in Buffer /\ Sourced(b)
      /\ \A e \in EmittedBy(buffers \ stale, f[1], f[2], sent') :
            e \in Assembled /\ Sourced(e) /\ Vouched(e)
  BY <1>4, <1>5, <1>6, FeedIsSound
<1>9. /\ buffers' = Fed(buffers \ stale, f[1], f[2], sent')
      /\ todo' = Evicted(stale) \cup EmittedBy(buffers \ stale, f[1], f[2], sent')
      /\ frame' = f /\ stored' = stored
  BY <1>1 DEF stale, Hear
<1>10. RxOK'
  BY <1>2, <1>3, <1>4, <1>7, <1>8, <1>9 DEF RxInv, RxOK
<1>11. BufferInv' /\ TodoInv'
  BY <1>7, <1>8, <1>9 DEF BufferInv, TodoInv, Sourced, Vouched, Counts, Interrupters
<1> QED
  BY <1>4, <1>10, <1>11 DEF RxInv

LEMMA SweepKeepsRx ==
    ASSUME RxInv, Sweep
    PROVE  RxInv'
<1>1. Aged(buffers) \in SUBSET Buffer /\ \A b \in Aged(buffers) : Sourced(b)
  BY AgedIsTyped DEF RxInv, RxOK, BufferInv
<1>2. \A e \in Swept(Aged(buffers)) : e \in Assembled /\ Sourced(e) /\ Vouched(e)
  BY <1>1, TimeoutsAreSound
<1>3. tick' \in 0..(SLOT - 1) /\ due' \subseteq Stations
  BY DEF Sweep, RxInv, RxOK, InboundAssumption
<1>4. /\ buffers' \subseteq Aged(buffers) /\ todo' = Swept(Aged(buffers))
      /\ UNCHANGED <<frame, onair, sent, stored, run>>
  BY DEF Sweep
<1>5. RxOK'
  BY <1>1, <1>2, <1>3, <1>4 DEF RxInv, RxOK
<1>6. BufferInv' /\ TodoInv'
  BY <1>1, <1>2, <1>4 DEF BufferInv, TodoInv
<1>7. AirInv'
  BY <1>4 DEF RxInv, AirInv
<1> QED
  BY <1>5, <1>6, <1>7 DEF RxInv

LEMMA OthersKeepRx ==
    ASSUME RxInv, buffers' \subseteq buffers, todo' \subseteq todo,
           frame' \in {frame, Nothing}, stored' \in Nat,
           run' \in [Offsets -> Frame \cup {Nothing}],
           UNCHANGED <<onair, tick, sent>>, due' \subseteq due
    PROVE  RxInv'
  BY DEF RxInv, RxOK, BufferInv, TodoInv, AirInv

LEMMA NextKeepsRx == RxInv /\ [Next]_vars => RxInv'
<1> SUFFICES ASSUME RxInv, [Next]_vars PROVE RxInv'
  OBVIOUS
<1>0. stored \in Nat /\ run \in [Offsets -> Frame \cup {Nothing}]
  BY DEF RxInv, RxOK
<1>1. ASSUME NEW s \in Stations, Hear(s) PROVE RxInv'
  BY <1>1, HearKeepsRx
<1>2. ASSUME NEW s \in Stations, Miss(s) PROVE RxInv'
  <2>1. PICK f \in Airs(s) :
          Sends(s, f[1], f[2]) /\ run' = [run EXCEPT ![f[1].at] = Nothing]
    BY <1>2 DEF Miss
  <2>2. run' \in [Offsets -> Frame \cup {Nothing}]
    BY <2>1, <1>0
  <2>3. /\ onair' \in [Stations -> Frame \cup {Nothing}]
        /\ due' \subseteq Stations /\ tick' \in 0..(SLOT - 1) /\ sent' \in Nat
        /\ AirInv'
    BY <2>1, <2>2, SendingIsTyped
  <2>4. UNCHANGED <<buffers, frame, todo, stored>>
    BY <1>2 DEF Miss, handler
  <2> QED
    BY <2>2, <2>3, <2>4 DEF RxInv, RxOK, BufferInv, TodoInv
<1>3. ASSUME NEW s \in Stations, Pause(s) PROVE RxInv'
  BY <1>0, <1>3, OthersKeepRx DEF Pause, handler
<1>4. ASSUME NEW s \in Stations, StoreLocally(s) PROVE RxInv'
  BY <1>0, <1>4, OthersKeepRx DEF StoreLocally, handler, air
<1>5. CASE Sweep
  BY <1>5, SweepKeepsRx
<1>6. ASSUME NEW e \in todo, Dispatch(e) PROVE RxInv'
  BY <1>0, <1>6, OthersKeepRx DEF Dispatch, air
<1>7. CASE SelectsForAck \/ RecordsAck \/ EndsHandler
  BY <1>0, <1>7, OthersKeepRx DEF SelectsForAck, RecordsAck, EndsHandler, air
<1>8. ASSUME NEW o \in OutIds, TxStep(o) PROVE RxInv'
  BY <1>0, <1>8, OthersKeepRx DEF TxStep, handler, air
<1>9. ASSUME NEW r \in MailIds, OpenMail(r) \/ RemoveMail(r) PROVE RxInv'
  BY <1>0, <1>9, OthersKeepRx DEF OpenMail, RemoveMail, handler, air
<1>10. CASE Restart
  BY <1>0, <1>10, OthersKeepRx DEF Restart
<1>11. CASE UNCHANGED vars
  BY <1>0, <1>11, OthersKeepRx DEF vars, handler, air
<1> QED
  BY <1>1, <1>2, <1>3, <1>4, <1>5, <1>6, <1>7, <1>8, <1>9, <1>10, <1>11 DEF Next

----------------------------------------------------------------------------
(* The mailbox and the replies *)

mailVars == <<matched, box, outbox>>

Sayings ==
    [verb : {"NONE", "ACK", "NO", "OFFER", "MAIL"},
     to : Stations \cup {NoStation}, row : MailIds \cup {NoMail}]

LEMMA MailInvInitially == Init => MailInv
<1> SUFFICES ASSUME Init PROVE MailInv
  OBVIOUS
<1>1. BoxOK
  BY DEF Init, BoxOK, EmptyBox, Unused
<1>2. OutOK
  BY DEF Init, OutOK, Tx!Init, Tx!Phases, Silence, Saying, NoMail
<1>3. \A o \in OutIds : phase[o] = "absent" /\ ~needsAck[o] /\ wire[o].verb = "NONE"
  BY DEF Init, Tx!Init, Silence, Saying
<1>4. WireInv /\ AckInv
  BY <1>3 DEF Init, WireInv, AckInv
<1>5. \A r \in MailIds : box[r].type = "NONE"
  BY DEF Init, EmptyBox, Unused
<1> QED
  BY <1>1, <1>2, <1>3, <1>4, <1>5
  DEF MailInv, StoredMailIsWhole, AcksAnswerStoredMail, HeldMailGoesToItsRecipient,
      DeliveredMailWasSent, OnlyCallersAreServed, FromTheAir, Mail

LEMMA MailInvUnchanged ==
    ASSUME MailInv, UNCHANGED mailVars
    PROVE  MailInv'
  BY DEF MailInv, mailVars, outbox, BoxOK, OutOK, WireInv, AckInv, StoredMailIsWhole,
         AcksAnswerStoredMail, HeldMailGoesToItsRecipient, DeliveredMailWasSent,
         OnlyCallersAreServed, FromTheAir, Mail, ChecksumOK, Interrupters, Callers

\* A reply is dropped, or becomes the next outbound message.
LEMMA ReplyEffect ==
    ASSUME NEW w, Reply(w), OutOK
    PROVE  \/ UNCHANGED outbox
           \/ \E o \in OutIds :
                 /\ phase[o] = "absent"
                 /\ phase' = [phase EXCEPT ![o] = "pending"]
                 /\ tries' = tries
                 /\ needsAck' = [needsAck EXCEPT ![o] = (w.verb = "MAIL")]
                 /\ wire' = [wire EXCEPT ![o] = w]
<1>1. CASE ~Room
  BY <1>1 DEF Reply
<1>2. CASE Room
  <2>1. PICK o \in OutIds : /\ Tx!Submit(o)
                            /\ needsAck'[o] = (w.verb = "MAIL")
                            /\ wire' = [wire EXCEPT ![o] = w]
    BY <1>2 DEF Reply
  <2>2. PICK ack \in BOOLEAN : needsAck' = [needsAck EXCEPT ![o] = ack]
    BY <2>1 DEF Tx!Submit
  <2>3. needsAck' = [needsAck EXCEPT ![o] = (w.verb = "MAIL")]
    BY <2>1, <2>2 DEF OutOK
  <2> QED
    BY <2>1, <2>3 DEF Tx!Submit, Tx!Becomes
<1> QED
  BY <1>1, <1>2

\* What a new row must be, and what a reply must be, for the mail half to hold.
GoodRow(row) ==
    row.from \in Stations =>
        /\ row.from \in Callers
        /\ ChecksumOK(row.text) \/ row.from \in Interrupters

RowsKept ==
    \A r \in MailIds : /\ r \in Mail => box'[r] = box[r]
                       /\ r \in Mail' \ Mail => GoodRow(box'[r])
                       /\ box'[r].type = "DELIVERED" => box[r].type = "DELIVERED"

GoodReply(w) ==
    /\ w \in Sayings /\ w.to \in Callers
    /\ w.verb = "ACK" => w.row \in Mail' \ Mail /\ box'[w.row].from = w.to
    /\ w.verb \in {"MAIL", "OFFER"} => w.row \in Mail' /\ box'[w.row].to = w.to

\* New rows, and no reply.
LEMMA RowsKeepMail ==
    ASSUME MailInv, BoxOK', RowsKept, UNCHANGED <<matched, outbox>>
    PROVE  MailInv'
<1>1. UNCHANGED <<phase, tries, needsAck, wire>>
  BY DEF outbox
<1>2. Mail \subseteq Mail' /\ \A r \in Mail : box'[r] = box[r]
  BY DEF Mail, RowsKept
<1>3. OutOK' /\ WireInv' /\ AckInv'
  BY <1>1 DEF MailInv, OutOK, WireInv, AckInv
<1>4. /\ StoredMailIsWhole'
      /\ \A r \in FromTheAir' : box'[r].from \in Callers
  BY <1>2 DEF MailInv, RowsKept, GoodRow, StoredMailIsWhole, OnlyCallersAreServed,
              FromTheAir, Mail, Interrupters, ChecksumOK
<1>5. OnlyCallersAreServed'
  BY <1>1, <1>4 DEF MailInv, OnlyCallersAreServed, Callers
<1>6. AcksAnswerStoredMail' /\ HeldMailGoesToItsRecipient'
  BY <1>1, <1>2 DEF MailInv, AcksAnswerStoredMail, HeldMailGoesToItsRecipient
<1>7. DeliveredMailWasSent'
  <2>1. ASSUME NEW r \in MailIds, box'[r].type = "DELIVERED"
        PROVE  box[r].type = "DELIVERED" /\ box'[r] = box[r]
    BY <2>1 DEF RowsKept, Mail
  <2> QED
    BY <1>1, <2>1 DEF MailInv, DeliveredMailWasSent
<1> QED
  BY <1>3, <1>4, <1>5, <1>6, <1>7 DEF MailInv

\* New rows and a good reply.
LEMMA RepliesKeepMail ==
    ASSUME MailInv, BoxOK', RowsKept, UNCHANGED matched,
           NEW w, Reply(w), GoodReply(w)
    PROVE  MailInv'
<1>1. OutOK
  BY DEF MailInv
<1>2. CASE UNCHANGED outbox
  BY <1>2, RowsKeepMail
<1>3. ASSUME NEW o \in OutIds,
             phase[o] = "absent",
             phase' = [phase EXCEPT ![o] = "pending"],
             tries' = tries,
             needsAck' = [needsAck EXCEPT ![o] = (w.verb = "MAIL")],
             wire' = [wire EXCEPT ![o] = w]
      PROVE  MailInv'
  <2>1. /\ \A p \in OutIds : wire'[p] = IF p = o THEN w ELSE wire[p]
        /\ \A p \in OutIds : phase'[p] = IF p = o THEN "pending" ELSE phase[p]
        /\ \A p \in OutIds \ {o} : needsAck'[p] = needsAck[p]
        /\ needsAck'[o] = (w.verb = "MAIL")
    BY <1>1, <1>3 DEF OutOK
  <2>2. (w.verb = "MAIL") \in BOOLEAN
    OBVIOUS
  <2>3. OutOK'
    BY <1>1, <1>3, <2>2 DEF OutOK, Tx!Phases, GoodReply, Sayings
  <2>4. Mail \subseteq Mail' /\ \A r \in Mail : box'[r] = box[r]
    BY DEF Mail, RowsKept
  <2>5. WireInv'
    BY <2>1 DEF MailInv, WireInv, Silence, Saying, NoMail
  <2>6. wire[o].verb = "NONE" /\ ~needsAck[o]
    BY <1>3 DEF MailInv, WireInv, AckInv, Silence, Saying
  <2>7. AckInv'
    BY <1>3, <2>1, <2>6 DEF MailInv, AckInv, OutOK, NoOut
  <2>8. /\ StoredMailIsWhole'
        /\ \A r \in FromTheAir' : box'[r].from \in Callers
    BY <2>4 DEF MailInv, RowsKept, GoodRow, StoredMailIsWhole, OnlyCallersAreServed,
                FromTheAir, Mail, Interrupters, ChecksumOK
  <2>9. OnlyCallersAreServed'
    BY <2>1, <2>8 DEF MailInv, OnlyCallersAreServed, Callers, GoodReply
  <2>10. AcksAnswerStoredMail'
    BY <2>1, <2>4, <2>6 DEF MailInv, AcksAnswerStoredMail, GoodReply
  <2>11. HeldMailGoesToItsRecipient'
    BY <2>1, <2>4 DEF MailInv, HeldMailGoesToItsRecipient, GoodReply
  <2>12. DeliveredMailWasSent'
    <3>1. ASSUME NEW r \in MailIds, box'[r].type = "DELIVERED"
          PROVE  box[r].type = "DELIVERED" /\ box'[r] = box[r]
      BY <3>1 DEF RowsKept, Mail
    <3>2. ASSUME NEW r \in MailIds, box'[r].type = "DELIVERED"
          PROVE  \E p \in OutIds : wire'[p] = Saying("MAIL", box'[r].to, r) /\ tries'[p] > 0
      <4>1. PICK p \in OutIds : wire[p] = Saying("MAIL", box[r].to, r) /\ tries[p] > 0
        BY <3>1, <3>2 DEF MailInv, DeliveredMailWasSent
      <4>2. p # o
        BY <4>1, <2>6 DEF Saying
      <4> QED
        BY <1>3, <2>1, <3>1, <3>2, <4>1, <4>2
    <3> QED
      BY <3>2 DEF DeliveredMailWasSent
  <2> QED
    BY <2>3, <2>5, <2>7, <2>8, <2>9, <2>10, <2>11, <2>12 DEF MailInv
<1> QED
  BY <1>1, <1>2, <1>3, ReplyEffect

\* A row that changes nothing but its type, and is not marked DELIVERED unless
\* a delivery to its addressee was on the air.
LEMMA RetypingKeepsMail ==
    ASSUME MailInv, NEW r \in Mail, NEW new \in MailTypes \cup {"DELETED"},
           box' = [box EXCEPT ![r].type = new],
           new = "DELIVERED" =>
               \E o \in OutIds : wire[o] = Saying("MAIL", box[r].to, r) /\ tries[o] > 0,
           OutOK' /\ AckInv' /\ WireInv',
           UNCHANGED <<tries, wire>>,
           \A o \in OutIds : phase'[o] = "absent" <=> phase[o] = "absent"
    PROVE  MailInv'
<1>1. r \in MailIds
  BY DEF Mail
<1>2. \A q \in MailIds : /\ box'[q].from = box[q].from
                         /\ box'[q].to = box[q].to
                         /\ box'[q].text = box[q].text
                         /\ q # r => box'[q].type = box[q].type
                         /\ q = r => box'[q].type = new
  BY DEF MailInv, BoxOK
<1>3. BoxOK'
  <2> DEFINE Row == [type : MailTypes \cup {"NONE", "DELETED"},
                     from : Stations \cup {Us, NoStation},
                     to : Stations \cup {Us, NoStation}, text : Seq(Frame)]
  <2>1. \A row \in Row : [row EXCEPT !.type = new] \in Row
    OBVIOUS
  <2>2. box \in [MailIds -> Row]
    BY DEF MailInv, BoxOK
  <2> HIDE DEF Row
  <2>3. box' \in [MailIds -> Row]
    BY <1>1, <2>1, <2>2, Zenon
  <2> QED
    BY <2>3 DEF BoxOK, Row
<1>4. Mail' = Mail /\ FromTheAir' = FromTheAir
  BY <1>1, <1>2 DEF Mail, FromTheAir, MailTypes
<1>5. StoredMailIsWhole' /\ OnlyCallersAreServed'
  BY <1>2, <1>4 DEF MailInv, StoredMailIsWhole, OnlyCallersAreServed, FromTheAir, Mail,
                    ChecksumOK, Interrupters, Callers
<1>6. AcksAnswerStoredMail' /\ HeldMailGoesToItsRecipient'
  BY <1>2, <1>4 DEF MailInv, AcksAnswerStoredMail, HeldMailGoesToItsRecipient, Mail
<1>7. DeliveredMailWasSent'
  BY <1>1, <1>2 DEF MailInv, DeliveredMailWasSent
<1> QED
  BY <1>3, <1>5, <1>6, <1>7 DEF MailInv

\* An INSERT: one new row, the others as they were.
LEMMA InsertAddsARow ==
    ASSUME MailInv, NEW type \in {"UNREAD", "STORE"}, NEW from \in Stations \cup {Us},
           NEW to \in Stations \cup {Us}, NEW text \in Seq(Frame),
           from \in Stations =>
              from \in Callers /\ (ChecksumOK(text) \/ from \in Interrupters),
           NEW r \in MailIds, NextMailId(box, r), box' = Put(box, r, type, from, to, text)
    PROVE  /\ BoxOK' /\ RowsKept
           /\ r \in Mail' \ Mail /\ box'[r].from = from /\ box'[r].to = to
<1> DEFINE row == [type |-> type, from |-> from, to |-> to, text |-> text]
<1>1. box' = [box EXCEPT ![r] = row]
  BY DEF Put
<1>2. BoxOK'
  BY <1>1 DEF MailInv, BoxOK, MailTypes
<1>3. \A q \in MailIds : box'[q] = IF q = r THEN row ELSE box[q]
  BY <1>1 DEF MailInv, BoxOK
<1>4. box[r].type = "NONE"
  BY DEF NextMailId
<1>5. RowsKept
  BY <1>3, <1>4 DEF RowsKept, Mail, GoodRow
<1> QED
  BY <1>2, <1>3, <1>4, <1>5 DEF Mail

LEMMA StoringKeepsMail ==
    ASSUME MailInv, UNCHANGED matched,
           NEW type \in {"UNREAD", "STORE"}, NEW from \in Stations,
           NEW to \in Stations \cup {Us}, NEW text \in Seq(Frame),
           from \in Callers, ChecksumOK(text) \/ from \in Interrupters,
           Stores(type, from, to, text)
    PROVE  MailInv'
<1>1. PICK r \in MailIds : /\ NextMailId(box, r)
                           /\ box' = Put(box, r, type, from, to, text)
                           /\ Reply(Saying("ACK", from, r))
  BY DEF Stores
<1>2. /\ BoxOK' /\ RowsKept
      /\ r \in Mail' \ Mail /\ box'[r].from = from
  BY <1>1, InsertAddsARow
<1> DEFINE w == Saying("ACK", from, r)
<1>3. GoodReply(w)
  BY <1>2 DEF GoodReply, Sayings, Saying
<1> HIDE DEF w
<1>4. Reply(w)
  BY <1>1 DEF w
<1> QED
  BY <1>2, <1>3, <1>4, RepliesKeepMail

\* A reply with the table as it is.
LEMMA AnsweringKeepsMail ==
    ASSUME MailInv, UNCHANGED <<matched, box>>, NEW w \in Sayings, w.to \in Callers,
           w.verb # "ACK",
           w.verb \in {"MAIL", "OFFER"} => w.row \in Mail /\ box[w.row].to = w.to,
           Reply(w)
    PROVE  MailInv'
<1>1. Mail' = Mail
  BY DEF Mail
<1>2. BoxOK' /\ RowsKept
  BY <1>1 DEF MailInv, BoxOK, RowsKept
<1>3. GoodReply(w)
  BY <1>1 DEF GoodReply
<1> QED
  BY <1>2, <1>3, RepliesKeepMail

LEMMA DispatchKeepsMail ==
    ASSUME RxInv, MailInv, NEW e \in todo, Dispatch(e)
    PROVE  MailInv'
<1>1. /\ e.from \in Stations /\ e.text \in Seq(Frame)
      /\ ToUs(e.to) \/ e.to = AllCall => e.from \in Callers
      /\ Counts(e) /\ e.verb \in MailVerbs =>
            ChecksumOK(e.text) \/ e.from \in Interrupters
  BY DEF RxInv, RxOK, TodoInv, Assembled, Sourced, Vouched, ToUs, Callers
<1>2. UNCHANGED matched
  BY DEF Dispatch
<1>3. CASE UNCHANGED <<box, outbox>>
  BY <1>2, <1>3, MailInvUnchanged DEF mailVars
<1>4. CASE FilesMail(e)
  <2>1. CASE Stores("UNREAD", e.from, Us, e.text)
    BY <1>1, <1>2, <1>4, <2>1, StoringKeepsMail DEF FilesMail, MailVerbs
  <2> QED
    BY <1>3, <1>4, <2>1 DEF FilesMail, StoreFails
<1>5. CASE HoldsMail(e)
  <2>1. CASE Stores("STORE", e.from, Arg(e.text), e.text)
    BY <1>1, <1>2, <1>5, <2>1, StoringKeepsMail DEF HoldsMail, MailVerbs
  <2> QED
    BY <1>3, <1>5, <2>1 DEF HoldsMail, StoreFails
<1>6. CASE AnswersQuery(e)
  <2>1. ASSUME NEW r \in OldestHeld(box, e.from), Reply(Saying("OFFER", e.from, r))
        PROVE  MailInv'
    <3>1. r \in MailIds /\ r \in Mail /\ box[r].to = e.from
      BY DEF OldestHeld, HoldingFor, Mail
    <3> QED
      BY <1>1, <1>2, <1>6, <2>1, <3>1, AnsweringKeepsMail DEF AnswersQuery, Sayings, Saying
  <2>2. CASE Reply(Saying("NO", e.from, NoMail))
    BY <1>1, <1>2, <1>6, <2>2, AnsweringKeepsMail DEF AnswersQuery, Sayings, Saying
  <2> QED
    BY <1>3, <1>6, <2>1, <2>2 DEF AnswersQuery
<1>7. CASE HandsOver(e)
  <2>1. CASE MayHave(e.from, Arg(e.text)) /\ Reply(Saying("MAIL", e.from, Arg(e.text)))
    <3>1. Arg(e.text) \in Mail /\ box[Arg(e.text)].to = e.from /\ Arg(e.text) \in MailIds
      BY <1>7, <2>1 DEF HandsOver, MayHave, Mail
    <3> QED
      BY <1>1, <1>2, <1>7, <2>1, <3>1, AnsweringKeepsMail
      DEF HandsOver, Sayings, Saying
  <2> QED
    BY <1>3, <1>7, <2>1 DEF HandsOver
<1>8. CASE Ignores(e)
  BY <1>3, <1>8 DEF Ignores
<1> QED
  BY <1>4, <1>5, <1>6, <1>7, <1>8 DEF Dispatch

\* What the pipeline may do with a message behind our back.
LEMMA TxEffect ==
    ASSUME MailInv, NEW o \in OutIds,
           \/ Tx!Transmit(o) \/ Tx!Sent(o) \/ Tx!Fail(o) \/ Tx!GiveUp(o) \/ Tx!Acked(o)
              \/ Tx!TimeOut(o) \/ Tx!AckCrossesTimeOut(o)
    PROVE  /\ needsAck' = needsAck
           /\ phase' \in [OutIds -> Tx!Phases] /\ tries' \in [OutIds -> Nat]
           /\ \A p \in OutIds : tries'[p] >= tries[p]
           /\ \A p \in OutIds : phase'[p] = "absent" <=> phase[p] = "absent"
           /\ \A p \in OutIds : phase'[p] = "waiting" => needsAck[p]
           /\ \A p \in OutIds : phase'[p] \in {"onair", "waiting"} => tries'[p] > 0
<1> USE DEF MailInv, OutOK, AckInv, Tx!Phases, Tx!Becomes, Tx!AfterMiss
<1>1. CASE Tx!Transmit(o)
  BY <1>1 DEF Tx!Transmit
<1>2. ASSUME NEW p \in Tx!Phases \ {"absent"}, NEW q \in Tx!Phases \ {"absent", "onair"},
             Tx!Move(o, p, q), q = "waiting" => p = "onair" /\ needsAck[o]
      PROVE  /\ needsAck' = needsAck
             /\ phase' \in [OutIds -> Tx!Phases] /\ tries' \in [OutIds -> Nat]
             /\ \A i \in OutIds : tries'[i] >= tries[i]
             /\ \A i \in OutIds : phase'[i] = "absent" <=> phase[i] = "absent"
             /\ \A i \in OutIds : phase'[i] = "waiting" => needsAck[i]
             /\ \A i \in OutIds : phase'[i] \in {"onair", "waiting"} => tries'[i] > 0
  BY <1>2 DEF Tx!Move
<1>3. CASE Tx!Sent(o)
  <2>1. CASE needsAck[o]
    <3>1. Tx!Move(o, "onair", "waiting")
      BY <1>3, <2>1 DEF Tx!Sent
    <3> QED
      BY <1>2, <2>1, <3>1
  <2>2. CASE ~needsAck[o]
    <3>1. Tx!Move(o, "onair", "delivered")
      BY <1>3, <2>2 DEF Tx!Sent
    <3> QED
      BY <1>2, <3>1
  <2> QED
    BY <2>1, <2>2
<1>4. CASE Tx!Fail(o)
  BY <1>2, <1>4 DEF Tx!Fail
<1>5. CASE Tx!GiveUp(o)
  BY <1>2, <1>5 DEF Tx!GiveUp
<1>6. CASE Tx!Acked(o)
  BY <1>2, <1>6 DEF Tx!Acked
<1>7. CASE Tx!TimeOut(o)
  BY <1>2, <1>7 DEF Tx!TimeOut
<1>8. CASE Tx!AckCrossesTimeOut(o)
  BY <1>2, <1>8 DEF Tx!AckCrossesTimeOut
<1> QED
  BY <1>1, <1>3, <1>4, <1>5, <1>6, <1>7, <1>8

\* Such a step keeps the mail half, whatever becomes of "matched".
LEMMA TxKeepsMail ==
    ASSUME MailInv, UNCHANGED <<box, wire>>, matched' \in {matched, NoOut},
           needsAck' = needsAck, phase' \in [OutIds -> Tx!Phases],
           tries' \in [OutIds -> Nat],
           \A p \in OutIds : tries'[p] >= tries[p],
           \A p \in OutIds : phase'[p] = "absent" <=> phase[p] = "absent",
           \A p \in OutIds : phase'[p] = "waiting" => needsAck[p],
           \A p \in OutIds : phase'[p] \in {"onair", "waiting"} => tries'[p] > 0
    PROVE  MailInv'
<1>1. OutOK'
  BY DEF MailInv, OutOK
<1>2. WireInv'
  BY DEF MailInv, WireInv
<1>3. AckInv'
  BY DEF MailInv, OutOK, AckInv
<1>4. DeliveredMailWasSent'
  BY DEF MailInv, OutOK, DeliveredMailWasSent
<1> QED
  BY <1>1, <1>2, <1>3, <1>4
  DEF MailInv, BoxOK, StoredMailIsWhole, AcksAnswerStoredMail, HeldMailGoesToItsRecipient,
      OnlyCallersAreServed, FromTheAir, Mail, ChecksumOK, Interrupters, Callers

LEMMA RecordsAckKeepsMail ==
    ASSUME MailInv, RecordsAck
    PROVE  MailInv'
<1>1. matched \in OutIds
  BY DEF RecordsAck, MailInv, OutOK
<1>2. /\ needsAck' = needsAck
      /\ phase' \in [OutIds -> Tx!Phases] /\ tries' \in [OutIds -> Nat]
      /\ \A p \in OutIds : tries'[p] >= tries[p]
      /\ \A p \in OutIds : phase'[p] = "absent" <=> phase[p] = "absent"
      /\ \A p \in OutIds : phase'[p] = "waiting" => needsAck[p]
      /\ \A p \in OutIds : phase'[p] \in {"onair", "waiting"} => tries'[p] > 0
  BY <1>1, TxEffect DEF RecordsAck
<1>3. tries' = tries /\ wire' = wire /\ matched' = NoOut
  BY DEF RecordsAck, Tx!Acked, Tx!AckCrossesTimeOut, Tx!Move
<1>4. CASE box' = box
  BY <1>2, <1>3, <1>4, TxKeepsMail
<1>5. CASE box' # box
  <2> DEFINE r == wire[matched].row
  <2>1. needsAck[matched] /\ tries[matched] > 0 /\ wire[matched].verb = "MAIL"
    BY <1>1 DEF RecordsAck, MailInv, AckInv
  <2>2. r \in Mail /\ box[r].to = wire[matched].to
    BY <1>1, <2>1 DEF MailInv, HeldMailGoesToItsRecipient
  <2>3. box' = [box EXCEPT ![r].type = "DELIVERED"]
    BY <1>5, <2>1 DEF RecordsAck, MarkMailDelivered, Retype
  <2>4. wire[matched] = Saying("MAIL", box[r].to, r)
    BY <1>1, <2>1, <2>2 DEF MailInv, OutOK, Saying
  <2>5. OutOK' /\ WireInv' /\ AckInv'
    BY <1>2, <1>3 DEF MailInv, OutOK, WireInv, AckInv
  <2> HIDE DEF r
  <2> QED
    BY <1>1, <1>2, <1>3, <2>1, <2>2, <2>3, <2>4, <2>5, RetypingKeepsMail DEF MailTypes
<1> QED
  BY <1>4, <1>5

LEMMA NextKeepsMail == RxInv /\ MailInv /\ [Next]_vars => MailInv'
<1> SUFFICES ASSUME RxInv, MailInv, [Next]_vars PROVE MailInv'
  OBVIOUS
<1>1. ASSUME NEW s \in Stations, Hear(s) \/ Miss(s) \/ Pause(s) PROVE MailInv'
  BY <1>1, MailInvUnchanged DEF Hear, Miss, Pause, handler, mailVars
<1>2. ASSUME NEW s \in Stations, StoreLocally(s) PROVE MailInv'
  <2>1. PICK r \in MailIds :
          NextMailId(box, r) /\ box' = Put(box, r, "STORE", Us, s, <<>>)
    BY <1>2 DEF StoreLocally
  <2>2. <<>> \in Seq(Frame) /\ Us \notin Stations
    OBVIOUS
  <2>3. BoxOK' /\ RowsKept
    BY <2>1, <2>2, InsertAddsARow
  <2> QED
    BY <1>2, <2>3, RowsKeepMail DEF StoreLocally, handler
<1>3. CASE Sweep \/ EndsHandler
  BY <1>3, MailInvUnchanged DEF Sweep, EndsHandler, mailVars, outbox
<1>4. ASSUME NEW e \in todo, Dispatch(e) PROVE MailInv'
  BY <1>4, DispatchKeepsMail
<1>5. CASE SelectsForAck
  <2>1. matched' \in OutIds /\ phase[matched'] = "waiting"
    BY <1>5 DEF SelectsForAck, WaitingFor
  <2>2. UNCHANGED <<box, phase, tries, needsAck, wire>>
    BY <1>5 DEF SelectsForAck, outbox
  <2>3. OutOK' /\ AckInv' /\ WireInv'
    BY <2>1, <2>2 DEF MailInv, OutOK, AckInv, WireInv
  <2> QED
    BY <2>2, <2>3
    DEF MailInv, BoxOK, StoredMailIsWhole, AcksAnswerStoredMail, DeliveredMailWasSent,
        HeldMailGoesToItsRecipient, OnlyCallersAreServed, FromTheAir, Mail, ChecksumOK,
        Interrupters, Callers
<1>6. CASE RecordsAck
  BY <1>6, RecordsAckKeepsMail
<1>7. ASSUME NEW o \in OutIds, TxStep(o) PROVE MailInv'
  <2>1. UNCHANGED <<box, wire, matched>>
    BY <1>7 DEF TxStep, handler
  <2> QED
    BY <1>7, <2>1, TxEffect, TxKeepsMail DEF TxStep
<1>8. ASSUME NEW r \in MailIds, OpenMail(r) \/ RemoveMail(r) PROVE MailInv'
  <2>1. PICK new \in {"READ", "DELETED"} : box' = [box EXCEPT ![r].type = new]
    <3>1. ASSUME OpenMail(r) PROVE box' = [box EXCEPT ![r].type = "READ"]
      BY <3>1 DEF OpenMail, MarkRead, Retype
    <3>2. ASSUME RemoveMail(r) PROVE box' = [box EXCEPT ![r].type = "DELETED"]
      <4>1. box[r].type \in MailTypes
        BY <3>2 DEF RemoveMail, MailTypes
      <4> QED
        BY <3>2, <4>1, Zenon DEF RemoveMail, DeleteMail
    <3> QED
      BY <1>8, <3>1, <3>2, Zenon
  <2>2. r \in Mail /\ UNCHANGED <<matched, phase, tries, needsAck, wire>>
    BY <1>8 DEF OpenMail, RemoveMail, Mail, handler, outbox
  <2>3. OutOK' /\ AckInv' /\ WireInv'
    BY <2>2 DEF MailInv, OutOK, AckInv, WireInv
  <2> QED
    BY <2>1, <2>2, <2>3, RetypingKeepsMail DEF MailTypes
<1>9. CASE Restart
  <2>1. UNCHANGED <<box, wire, tries, needsAck>> /\ matched' = NoOut
    BY <1>9 DEF Restart, Tx!CloseInterrupted
  <2>2. /\ phase' = [o \in OutIds |-> IF phase[o] = "onair" THEN "abandoned" ELSE phase[o]]
    BY <1>9 DEF Restart, Tx!CloseInterrupted
  <2>3. phase' \in [OutIds -> Tx!Phases]
    BY <2>2 DEF MailInv, OutOK, Tx!Phases
  <2>4. /\ \A p \in OutIds : phase'[p] = "absent" <=> phase[p] = "absent"
        /\ \A p \in OutIds : phase'[p] = "waiting" => needsAck[p]
        /\ \A p \in OutIds : phase'[p] \in {"onair", "waiting"} => tries'[p] > 0
    BY <2>1, <2>2 DEF MailInv, AckInv
  <2>5. tries' \in [OutIds -> Nat] /\ \A p \in OutIds : tries'[p] >= tries[p]
    BY <2>1 DEF MailInv, OutOK
  <2> QED
    BY <2>1, <2>3, <2>4, <2>5, TxKeepsMail
<1>10. CASE UNCHANGED vars
  BY <1>10, MailInvUnchanged DEF vars, handler, mailVars
<1> QED
  BY <1>1, <1>2, <1>3, <1>4, <1>5, <1>6, <1>7, <1>8, <1>9, <1>10 DEF Next

----------------------------------------------------------------------------
(* The theorems *)

\* The inductive invariant holds of every behaviour.
THEOREM InboundInvariant == Spec => []InboundInv
<1>1. Init => InboundInv
  BY RxInvInitially, MailInvInitially DEF InboundInv
<1>2. InboundInv /\ [Next]_vars => InboundInv'
  BY NextKeepsRx, NextKeepsMail DEF InboundInv
<1> QED
  BY <1>1, <1>2, PTL DEF Spec

\* Every variable of the receiver, the mailbox and the replies keeps its type.
THEOREM InboundTypeCorrect == Spec => []TypeOK
<1>1. InboundInv => TypeOK
  BY DEF InboundInv, RxInv, MailInv, RxOK, BoxOK, OutOK, TypeOK
<1> QED
  BY <1>1, InboundInvariant, PTL

\* Whatever is lost, cut off or mixed on the air, mail stored off it is one
\* message, whole, unless its sender also talks to somebody.
THEOREM MailIsWhole == Spec => []StoredMailIsWhole
<1>1. InboundInv => StoredMailIsWhole
  BY DEF InboundInv, MailInv
<1> QED
  BY <1>1, InboundInvariant, PTL

\* An ACK is never sent for mail that was not stored, nor twice for one row.
THEOREM AcksAnswerMail == Spec => []AcksAnswerStoredMail
<1>1. InboundInv => AcksAnswerStoredMail
  BY DEF InboundInv, MailInv
<1> QED
  BY <1>1, InboundInvariant, PTL

\* Held mail is offered and handed to the station it is held for only.
THEOREM HeldMailIsPrivate == Spec => []HeldMailGoesToItsRecipient
<1>1. InboundInv => HeldMailGoesToItsRecipient
  BY DEF InboundInv, MailInv
<1> QED
  BY <1>1, InboundInvariant, PTL

\* No ACK, however late, doubled or meant for another message, marks mail
\* DELIVERED that was never on the air.
THEOREM DeliveredMailWasOnTheAir == Spec => []DeliveredMailWasSent
<1>1. InboundInv => DeliveredMailWasSent
  BY DEF InboundInv, MailInv
<1> QED
  BY <1>1, InboundInvariant, PTL

\* A station that never addressed us gets nothing stored and nothing sent.
THEOREM StrangersAreNotServed == Spec => []OnlyCallersAreServed
<1>1. InboundInv => OnlyCallersAreServed
  BY DEF InboundInv, MailInv
<1> QED
  BY <1>1, InboundInvariant, PTL

-----------------------------------------------------------------------------
(* Messages heard without a gap *)

\* The text of the first k frames.
Heard(t, k) == [i \in 1..(k + 1 - TextFrom(t)) |-> <<t, i + TextFrom(t) - 1>>]

\* A station sends its own frames, and only in a slot; buffers are numbered.
SlotInv ==
    /\ \A s \in Stations : onair[s] # Nothing => onair[s][1].from = s
    /\ \A b \in buffers : b.since <= sent
    /\ due # {} => tick = 0

\* Buffer b holds the first k frames of t and is the one the next will go to.
Holds(b, t, k) ==
    /\ b.from = t.from /\ b.to = t.to /\ b.verb = t.verb /\ b.at = t.at
    /\ b.buffered /\ b.text = Heard(t, k)
    /\ b.idle = IF t.from \in due THEN SLOT ELSE tick
    /\ \A c \in buffers : c.at = t.at /\ c # b => c.since < b.since

\* Unless it was the last one, the sender has the next frame ready, and there
\* is a buffer that waits for it.
RunInv ==
    \A a \in Offsets, t \in Messages, k \in 1..MaxFrames :
        run[a] = <<t, k>> =>
            /\ t.at = a /\ k <= t.frames
            /\ k < t.frames => onair[t.from] = <<t, k + 1>>
            /\ k < t.frames /\ StartsBuffered(t) /\ WellFormed(t) =>
                  \E b \in buffers : Holds(b, t, k)

CleanInv == RxInv /\ SlotInv /\ RunInv

LEMMA MessageIsTyped ==
    ASSUME NEW t \in Messages
    PROVE  /\ t.from \in Stations /\ t.to \in Addresses /\ t.verb \in Verbs
           /\ t.frames \in 1..MaxFrames /\ t.inline \in BOOLEAN /\ t.at \in Offsets
           /\ TextFrom(t) \in 1..2
<1>1. t \in Transmission
  BY DEF ReassemblyAssumption
<1>2. TextFrom(t) \in 1..2
  BY DEF TextFrom
<1> QED
  BY <1>1, <1>2 DEF Transmission

LEMMA HeardIsText ==
    ASSUME NEW t \in Messages, NEW k \in 1..MaxFrames
    PROVE  /\ Heard(t, k) \in Seq(Frame)
           /\ Len(Heard(t, k)) = k + 1 - TextFrom(t)
           /\ \A i \in 1..(k + 1 - TextFrom(t)) :
                 Heard(t, k)[i] = <<t, i + TextFrom(t) - 1>>
<1>1. TextFrom(t) \in 1..2 /\ k + 1 - TextFrom(t) \in Nat
  BY MessageIsTyped
<1>2. \A i \in 1..(k + 1 - TextFrom(t)) : <<t, i + TextFrom(t) - 1>> \in Frame
  BY <1>1 DEF Frame
<1> DEFINE n == k + 1 - TextFrom(t)
           e(i) == <<t, i + TextFrom(t) - 1>>
<1>3. Heard(t, k) = [i \in 1..n |-> e(i)]
  BY DEF Heard
<1> HIDE DEF n, e
<1>4. n \in Nat /\ \A i \in 1..n : e(i) \in Frame
  BY <1>1, <1>2 DEF n, e
<1>5. /\ Heard(t, k) \in Seq(Frame) /\ Len(Heard(t, k)) = n
      /\ \A i \in 1..n : Heard(t, k)[i] = e(i)
  BY <1>3, <1>4
<1> QED
  BY <1>5 DEF n, e

LEMMA RestIsHeard ==
    ASSUME NEW t \in Messages, 1 \in 1..MaxFrames
    PROVE  Rest(t) = Heard(t, 1)
<1>1. CASE t.inline
  <2>1. Rest(t) = <<<<t, 1>>>> /\ TextFrom(t) = 1
    BY <1>1 DEF Rest, TextFrom
  <2>2. /\ Heard(t, 1) \in Seq(Frame) /\ Len(Heard(t, 1)) = 1
        /\ Heard(t, 1)[1] = <<t, 1>>
    BY <2>1, HeardIsText
  <2> QED
    BY <2>1, <2>2, TextIsTyped, SeqEqual
<1>2. CASE ~t.inline
  <2>1. Rest(t) = << >> /\ TextFrom(t) = 2
    BY <1>2 DEF Rest, TextFrom
  <2>2. Heard(t, 1) \in Seq(Frame) /\ Len(Heard(t, 1)) = 0
    BY <2>1, HeardIsText
  <2> QED
    BY <2>1, <2>2, EmptySeq
<1> QED
  BY <1>1, <1>2

LEMMA HeardGrows ==
    ASSUME NEW t \in Messages, NEW k \in 1..MaxFrames, k + 1 \in 1..MaxFrames
    PROVE  Append(Heard(t, k), <<t, k + 1>>) = Heard(t, k + 1)
<1> DEFINE h == Heard(t, k)
           n == k + 1 - TextFrom(t)
           f == <<t, k + 1>>
           g == Heard(t, k + 1)
<1>1. n \in Nat /\ n + TextFrom(t) = k + 1 /\ TextFrom(t) \in 1..2
  BY MessageIsTyped
<1>2. /\ h \in Seq(Frame) /\ Len(h) = n
      /\ \A i \in 1..n : h[i] = <<t, i + TextFrom(t) - 1>>
  BY HeardIsText
<1>3. /\ g \in Seq(Frame) /\ Len(g) = k + 1 + 1 - TextFrom(t)
      /\ \A i \in 1..(k + 1 + 1 - TextFrom(t)) : g[i] = <<t, i + TextFrom(t) - 1>>
  <2> DEFINE m == k + 1
  <2>1. m \in 1..MaxFrames
    OBVIOUS
  <2> HIDE DEF m
  <2>2. /\ Heard(t, m) \in Seq(Frame) /\ Len(Heard(t, m)) = m + 1 - TextFrom(t)
        /\ \A i \in 1..(m + 1 - TextFrom(t)) :
              Heard(t, m)[i] = <<t, i + TextFrom(t) - 1>>
    BY <2>1, HeardIsText
  <2> QED
    BY <2>2 DEF m
<1>4. f \in Frame
  BY TextIsTyped
<1>5. /\ Len(g) = n + 1
      /\ \A i \in 1..(n + 1) : g[i] = <<t, i + TextFrom(t) - 1>>
  BY <1>1, <1>3
<1>6. f = <<t, (n + 1) + TextFrom(t) - 1>>
  BY <1>1
<1>7. n + 1 \in 1..(n + 1)
  BY <1>1
<1>8. g[n + 1] = f
  BY <1>5, <1>6, <1>7
<1> HIDE DEF h, n, f, g
<1>9. /\ Append(h, f) \in Seq(Frame) /\ Len(Append(h, f)) = n + 1
      /\ \A i \in 1..n : Append(h, f)[i] = h[i]
      /\ Append(h, f)[n + 1] = f
  BY <1>2, <1>4, AppendProperties
<1>10. ASSUME NEW i \in 1..(n + 1) PROVE Append(h, f)[i] = g[i]
  <2>1. CASE i \in 1..n
    BY <2>1, <1>1, <1>2, <1>5, <1>9
  <2>2. CASE i = n + 1
    BY <2>2, <1>8, <1>9
  <2>3. n \in Nat
    BY <1>1
  <2>4. i \in 1..n \/ i = n + 1
    BY <2>3
  <2> QED
    BY <2>1, <2>2, <2>4
<1>11. Append(h, f) = g
  BY <1>3, <1>5, <1>9, <1>10, SeqEqual
<1> QED
  BY <1>11 DEF h, f, g

\* The beginning of a message passes for a whole one only when it is the whole.
LEMMA OnlyTheWholeChecks ==
    ASSUME NEW t \in Messages, NEW k \in 1..MaxFrames, k <= t.frames,
           t.verb \in BufferedVerbs, Heard(t, k) # <<>>
    PROVE  ChecksumOK(Heard(t, k)) <=> k = t.frames
<1>1. ASSUME k = t.frames PROVE ChecksumOK(Heard(t, k))
  BY <1>1 DEF ChecksumOK, Heard, TextOf
<1>2. ASSUME ChecksumOK(Heard(t, k)) PROVE k = t.frames
  <2>1. PICK u \in Messages : Heard(t, k) = TextOf(u)
    BY <1>2 DEF ChecksumOK
  <2>2. u.frames \in 1..MaxFrames /\ TextOf(u) = Heard(u, u.frames)
    BY MessageIsTyped DEF TextOf, Heard
  <2>3. Len(Heard(t, k)) # 0
    BY HeardIsText, EmptySeq
  <2>4. TextFrom(t) \in 1..2 /\ TextFrom(u) \in 1..2
    BY MessageIsTyped
  <2> DEFINE m == u.frames
             n == k + 1 - TextFrom(t)
  <2>5. m \in 1..MaxFrames /\ Heard(t, k) = Heard(u, m)
    BY <2>1, <2>2
  <2> HIDE DEF m
  <2>6. /\ Len(Heard(u, m)) = m + 1 - TextFrom(u)
        /\ \A i \in 1..(m + 1 - TextFrom(u)) :
              Heard(u, m)[i] = <<u, i + TextFrom(u) - 1>>
    BY <2>5, HeardIsText
  <2>7. /\ Len(Heard(t, k)) = n
        /\ \A i \in 1..n : Heard(t, k)[i] = <<t, i + TextFrom(t) - 1>>
    BY HeardIsText
  <2>8. n = m + 1 - TextFrom(u) /\ 1 \in 1..n
    BY <2>3, <2>4, <2>5, <2>6, <2>7
  <2>9. <<t, 1 + TextFrom(t) - 1>> = <<u, 1 + TextFrom(u) - 1>>
    BY <2>5, <2>6, <2>7, <2>8
  <2>10. t = u
    BY <2>9
  <2> QED
    BY <2>4, <2>5, <2>8, <2>10 DEF m
<1> QED
  BY <1>1, <1>2

-----------------------------------------------------------------------------
(* The assembler and the message being heard *)

\* A first frame of a message that has more starts the latest buffer.
LEMMA StarterHolds ==
    ASSUME NEW bufs \in SUBSET Buffer, NEW n \in Nat, \A b \in bufs : b.since < n,
           NEW t \in Messages, StartsBuffered(t), WellFormed(t), 1 < t.frames
    PROVE  LET b == NewBuffer(t, Heard(t, 1), n)
           IN  /\ b \in Fed(bufs, t, 1, n)
               /\ \A c \in Fed(bufs, t, 1, n) : c # b => c.since < n
<1>1. ~Complete(t)
  BY MessageIsTyped DEF WellFormed
<1>2. Rest(t) = Heard(t, 1)
  BY MessageIsTyped, RestIsHeard
<1>3. Fed(bufs, t, 1, n) = (bufs \ SameKey(bufs, t)) \cup {NewBuffer(t, Rest(t), n)}
  BY <1>1 DEF Fed, AfterStarter
<1> QED
  BY <1>2, <1>3

\* A first frame that is the whole message is handed over.
LEMMA StarterEmits ==
    ASSUME NEW bufs, NEW n \in Nat, NEW t \in Messages,
           StartsBuffered(t), WellFormed(t), t.frames = 1
    PROVE  \E e \in EmittedBy(bufs, t, 1, n) :
              /\ e.valid /\ e.text = TextOf(t)
              /\ e.from = t.from /\ e.to = t.to /\ e.verb = t.verb
<1>1. Complete(t)
  BY DEF WellFormed
<1>2. Rest(t) = TextOf(t)
  BY RestIsHeard, MessageIsTyped DEF Heard, TextOf
<1>3. EmittedBy(bufs, t, 1, n) = {Emit(NewBuffer(t, Rest(t), n), TRUE)}
  BY <1>1 DEF EmittedBy, EmittedByStarter
<1>4. LET e == Emit(NewBuffer(t, Rest(t), n), TRUE)
      IN  /\ e.valid /\ e.text = TextOf(t)
          /\ e.from = t.from /\ e.to = t.to /\ e.verb = t.verb
  BY <1>2 DEF Emit, NewBuffer
<1> QED
  BY <1>3, <1>4

\* The next frame of the message a buffer holds goes to that buffer: the last
\* one completes it, the others leave it the latest.
LEMMA ContinuationGoesOn ==
    ASSUME NEW bufs \in SUBSET Buffer, NEW t \in Messages, t.verb \in BufferedVerbs,
           NEW k \in 1..MaxFrames, k + 1 \in 1..t.frames, NEW b \in bufs, NEW n,
           b.from = t.from, b.to = t.to, b.verb = t.verb, b.at = t.at,
           b.buffered, b.text = Heard(t, k),
           \A c \in bufs : c.at = t.at /\ c # b => c.since < b.since
    PROVE  LET d == Extended(b, t, k + 1)
           IN  /\ k + 1 = t.frames =>
                     \E e \in EmittedBy(bufs, t, k + 1, n) :
                        /\ e.valid /\ e.text = TextOf(t)
                        /\ e.from = t.from /\ e.to = t.to /\ e.verb = t.verb
               /\ k + 1 < t.frames =>
                     Fed(bufs, t, k + 1, n) = (bufs \ {b}) \cup {d}
               /\ d.from = t.from /\ d.to = t.to /\ d.verb = t.verb
               /\ d.at = t.at /\ d.buffered /\ d.text = Heard(t, k + 1)
               /\ d.since = b.since /\ d.idle = 0
<1> DEFINE m == k + 1
           d == Extended(b, t, m)
<1>0. t.frames \in 1..MaxFrames /\ m \in 1..MaxFrames /\ m > 1 /\ m <= t.frames
  BY MessageIsTyped
<1>1. b.text \in Seq(Frame) /\ Append(b.text, <<t, m>>) = Heard(t, m)
  BY <1>0, HeardGrows DEF Buffer
<1>2. b \in Buffer /\ \A c \in bufs : c.since \in Nat
  BY DEF Buffer
<1>3. Latest(bufs, t.at) = {b}
  BY <1>2 DEF Latest
<1>4. {Extended(c, t, m) : c \in Latest(bufs, t.at)} = {d}
  BY <1>3
<1>5. /\ d.text = Heard(t, m) /\ d.buffered
      /\ d.from = t.from /\ d.to = t.to /\ d.verb = t.verb
      /\ d.at = t.at /\ d.since = b.since /\ d.idle = 0
  <2> DEFINE text == Append(b.text, <<t, m>>)
  <2>1. d = [b EXCEPT !.text = text, !.idle = 0]
    BY DEF Extended
  <2> HIDE DEF text, d
  <2>2. /\ d.text = text /\ d.buffered = b.buffered
        /\ d.from = b.from /\ d.to = b.to /\ d.verb = b.verb
        /\ d.at = b.at /\ d.since = b.since /\ d.idle = 0
    BY <1>2, <2>1 DEF Buffer
  <2> QED
    BY <1>1, <2>2, Zenon DEF text
<1>6. Heard(t, m) # << >>
  <2> HIDE DEF m
  <2>1. Len(Heard(t, m)) = m + 1 - TextFrom(t)
    BY <1>0, HeardIsText
  <2>2. TextFrom(t) \in 1..2 /\ Len(<< >>) = 0
    BY MessageIsTyped
  <2>3. Len(Heard(t, m)) # 0
    BY <1>0, <2>1, <2>2
  <2> QED
    BY <2>2, <2>3
<1>7. Checks(d) <=> m = t.frames
  BY <1>0, <1>5, <1>6, OnlyTheWholeChecks DEF Checks
<1> HIDE DEF d, m
<1>8. ASSUME m = t.frames
      PROVE  \E e \in EmittedBy(bufs, t, m, n) :
                /\ e.valid /\ e.text = TextOf(t)
                /\ e.from = t.from /\ e.to = t.to /\ e.verb = t.verb
  <2>1. Emit(d, Checks(d)) \in EmittedBy(bufs, t, m, n)
    BY <1>0, <1>4, <1>7, <1>8 DEF EmittedBy, EmittedByContinuation
  <2>2. Heard(t, m) = TextOf(t)
    BY <1>8 DEF Heard, TextOf
  <2> QED
    BY <2>1, <2>2, <1>5, <1>7, <1>8 DEF Emit
<1>9. ASSUME m < t.frames PROVE Fed(bufs, t, m, n) = (bufs \ {b}) \cup {d}
  <2>1. ~Checks(d) /\ ~Ends(d, t, m)
    BY <1>0, <1>7, <1>9 DEF Ends
  <2> QED
    BY <2>1, <1>0, <1>3, <1>4 DEF Fed, AfterContinuation
<1> QED
  BY <1>1, <1>5, <1>8, <1>9 DEF d, m

\* A frame on another offset, of another station, leaves the buffer alone.
LEMMA OtherOffsetKeeps ==
    ASSUME NEW bufs \in SUBSET Buffer, NEW t \in Messages, NEW k \in 1..MaxFrames,
           NEW n, NEW b \in bufs, b.at # t.at
    PROVE  /\ b \in Fed(bufs, t, k, n)
           /\ \A c \in Fed(bufs, t, k, n) : c.at = b.at => c \in bufs
<1>1. ASSUME NEW c \in Latest(bufs, t.at) PROVE Extended(c, t, k).at = t.at
  <2>1. c \in Buffer /\ c.at = t.at
    BY DEF Latest
  <2> QED
    BY <2>1 DEF Extended, Buffer
<1>2. \A text : NewBuffer(t, text, n).at = t.at
  BY DEF NewBuffer
<1>3. b \notin Latest(bufs, t.at) /\ b \notin SameKey(bufs, t)
  BY DEF Latest, SameKey
<1>4. \A c \in Fed(bufs, t, k, n) :
         \/ c \in bufs
         \/ \E d \in Latest(bufs, t.at) : c = Extended(d, t, k)
         \/ \E text : c = NewBuffer(t, text, n)
  <2>1. CASE k > 1
    BY <2>1 DEF Fed, AfterContinuation
  <2>2. CASE ~(k > 1)
    BY <2>2 DEF Fed, AfterStarter, AfterTalk
  <2> QED
    BY <2>1, <2>2
<1>5. b \in Fed(bufs, t, k, n)
  <2>1. CASE k > 1
    BY <1>3, <2>1 DEF Fed, AfterContinuation
  <2>2. CASE ~(k > 1)
    BY <1>3, <2>2 DEF Fed, AfterStarter, AfterTalk
  <2> QED
    BY <2>1, <2>2
<1> QED
  BY <1>1, <1>2, <1>4, <1>5

-----------------------------------------------------------------------------
(* The steps *)

\* Frame f of station s is heard, after the buffers in "stale" were dropped.
HearsFrame(s, f, stale) ==
    /\ f \in Airs(s) /\ Sends(s, f[1], f[2])
    /\ stale \subseteq {b \in buffers : b.idle >= TimeoutOf(b)}
    /\ buffers' = Fed(buffers \ stale, f[1], f[2], sent')
    /\ EmittedBy(buffers \ stale, f[1], f[2], sent') \subseteq todo'
    /\ frame' = f
    /\ run' = [run EXCEPT ![f[1].at] = IF Continues(f[1], f[2]) THEN f ELSE Nothing]

LEMMA HearIsOfAFrame ==
    ASSUME RxInv, NEW s \in Stations, Hear(s)
    PROVE  \E f, stale : HearsFrame(s, f, stale)
<1>1. PICK f \in Airs(s), late \in SUBSET NearDeadline(buffers) :
        LET t == f[1]
            k == f[2]
            stale == PastDeadline(buffers) \cup late
        IN /\ Sends(s, t, k)
           /\ buffers' = Fed(buffers \ stale, t, k, sent')
           /\ todo' = Evicted(stale) \cup EmittedBy(buffers \ stale, t, k, sent')
           /\ frame' = f
           /\ run' = [run EXCEPT ![t.at] = IF Continues(t, k) THEN f ELSE Nothing]
  BY DEF Hear
<1> DEFINE stale == PastDeadline(buffers) \cup late
<1>2. \A b \in buffers : b.idle \in Nat /\ TimeoutOf(b) \in Nat
  BY DEF RxInv, RxOK, Buffer, TimeoutOf
<1>3. stale \subseteq {b \in buffers : b.idle >= TimeoutOf(b)}
  BY <1>2 DEF PastDeadline, NearDeadline
<1> QED
  BY <1>1, <1>3 DEF HearsFrame

LEMMA SentFrame ==
    ASSUME CleanInv, NEW s \in Stations, NEW f \in Airs(s), Sends(s, f[1], f[2])
    PROVE  /\ f \in Frame /\ f = <<f[1], f[2]>>
           /\ f[1] \in Messages /\ f[2] \in 1..MaxFrames
           /\ f[1].from = s /\ f[2] <= f[1].frames
           /\ onair' = [onair EXCEPT ![s] =
                          IF f[2] = f[1].frames THEN Nothing ELSE <<f[1], f[2] + 1>>]
           /\ s \in due /\ tick = 0 /\ due' = due \ {s} /\ tick' = 0
           /\ sent \in Nat /\ sent' \in Nat
           /\ sent' = IF f[2] = 1 THEN sent + 1 ELSE sent
<1>1. f \in Frame /\ f[2] <= f[1].frames
  BY AirsAreFrames DEF CleanInv
<1>2. f = <<f[1], f[2]>> /\ f[1] \in Messages /\ f[2] \in 1..MaxFrames
  BY <1>1 DEF Frame
<1>3. f[1].from = s
  BY DEF CleanInv, SlotInv, Airs
<1>4. s \in due /\ tick = 0
  BY DEF Sends, CleanInv, SlotInv
<1>5. sent \in Nat
  BY DEF CleanInv, RxInv, RxOK
<1> QED
  BY <1>1, <1>2, <1>3, <1>4, <1>5 DEF Sends

\* The next frame after those heard is its sender's next one: what another
\* offset brings comes from another station.
LEMMA OtherSender ==
    ASSUME CleanInv, NEW s \in Stations, NEW f \in Airs(s), NEW a \in Offsets,
           NEW t \in Messages, NEW k \in 1..MaxFrames, run[a] = <<t, k>>,
           k < t.frames, a # f[1].at
    PROVE  t.from # s
<1>1. t.at = a /\ onair[t.from] = <<t, k + 1>>
  BY DEF CleanInv, RunInv
<1>2. k + 1 \in 1..MaxFrames
  BY MessageIsTyped
<1>3. <<t, k + 1>> # Nothing
  BY <1>2, TextIsTyped
<1> QED
  BY <1>1, <1>3 DEF Airs

LEMMA SendingKeepsSlots ==
    ASSUME CleanInv, NEW s \in Stations, NEW f \in Airs(s), Sends(s, f[1], f[2]),
           \A b \in buffers' : b.since <= sent'
    PROVE  SlotInv'
<1>1. onair \in [Stations -> Frame \cup {Nothing}]
  BY DEF CleanInv, RxInv, RxOK
<1> QED
  BY <1>1, SentFrame DEF CleanInv, SlotInv

LEMMA MissKeepsRun ==
    ASSUME CleanInv, NEW s \in Stations, Miss(s)
    PROVE  SlotInv' /\ RunInv'
<1>1. PICK f \in Airs(s) :
        Sends(s, f[1], f[2]) /\ run' = [run EXCEPT ![f[1].at] = Nothing]
  BY DEF Miss
<1>2. UNCHANGED buffers
  BY DEF Miss
<1>3. \A b \in buffers : b.since \in Nat
  BY DEF CleanInv, RxInv, RxOK, Buffer
<1>4. SlotInv'
  <2>1. \A b \in buffers' : b.since <= sent'
    BY <1>1, <1>2, <1>3, SentFrame DEF CleanInv, SlotInv
  <2> QED
    BY <1>1, <2>1, SendingKeepsSlots
<1>5. ASSUME NEW a \in Offsets, NEW t \in Messages, NEW k \in 1..MaxFrames,
             run'[a] = <<t, k>>
      PROVE  /\ t.at = a /\ k <= t.frames
             /\ k < t.frames => onair'[t.from] = <<t, k + 1>>
             /\ k < t.frames /\ StartsBuffered(t) /\ WellFormed(t) =>
                   \E b \in buffers' : Holds(b, t, k)'
  <2>1. run[a] = <<t, k>> /\ a # f[1].at
    <3>1. <<t, k>> # Nothing
      BY TextIsTyped
    <3>2. run \in [Offsets -> Frame \cup {Nothing}]
      BY DEF CleanInv, RxInv, RxOK
    <3> QED
      BY <1>1, <1>5, <3>1, <3>2
  <2>2. /\ t.at = a /\ k <= t.frames
        /\ k < t.frames => onair[t.from] = <<t, k + 1>>
        /\ k < t.frames /\ StartsBuffered(t) /\ WellFormed(t) =>
              \E b \in buffers : Holds(b, t, k)
    BY <2>1 DEF CleanInv, RunInv
  <2>3. k < t.frames => t.from # s
    BY <1>1, <2>1, OtherSender
  <2>4. k < t.frames => onair'[t.from] = onair[t.from]
    <3>1. onair \in [Stations -> Frame \cup {Nothing}]
      BY DEF CleanInv, RxInv, RxOK
    <3> QED
      BY <1>1, <2>3, <3>1, SentFrame, MessageIsTyped
  <2>5. /\ k < t.frames => (t.from \in due' <=> t.from \in due)
        /\ tick' = tick
    BY <1>1, <2>3, SentFrame
  <2> QED
    BY <1>2, <2>2, <2>4, <2>5 DEF Holds
<1> QED
  BY <1>4, <1>5 DEF RunInv

\* A buffer that waits for the next frame of its sender is not near its deadline.
LEMMA HoldersAreFresh ==
    ASSUME CleanInv, NEW b \in buffers, b.buffered,
           b.idle = SLOT \/ b.idle = tick
    PROVE  ~(b.idle >= TimeoutOf(b))
<1>1. SLOT \in Nat /\ SLOT < FRAME_TIMEOUT /\ FRAME_TIMEOUT \in Nat
  BY DEF InboundAssumption, ReassemblyAssumption
<1>2. tick \in Nat /\ tick < SLOT
  BY <1>1 DEF CleanInv, RxInv, RxOK
<1>3. TimeoutOf(b) = FRAME_TIMEOUT
  BY DEF TimeoutOf
<1> QED
  BY <1>1, <1>2, <1>3

\* What was heard on another offset stays as it was.
LEMMA HearKeepsOtherOffsets ==
    ASSUME CleanInv, NEW s \in Stations, NEW f, NEW stale, HearsFrame(s, f, stale),
           NEW a \in Offsets, NEW t \in Messages, NEW k \in 1..MaxFrames,
           run[a] = <<t, k>>, a # f[1].at
    PROVE  /\ t.at = a /\ k <= t.frames
           /\ k < t.frames => onair'[t.from] = <<t, k + 1>>
           /\ k < t.frames /\ StartsBuffered(t) /\ WellFormed(t) =>
                 \E b \in buffers' : Holds(b, t, k)'
<1>1. /\ t.at = a /\ k <= t.frames
      /\ k < t.frames => onair[t.from] = <<t, k + 1>>
      /\ k < t.frames /\ StartsBuffered(t) /\ WellFormed(t) =>
            \E b \in buffers : Holds(b, t, k)
  BY DEF CleanInv, RunInv
<1>2. f \in Airs(s) /\ Sends(s, f[1], f[2])
  BY DEF HearsFrame
<1>3. f[1] \in Messages /\ f[2] \in 1..MaxFrames
  BY <1>2, SentFrame
<1>4. ASSUME k < t.frames
      PROVE  /\ onair'[t.from] = <<t, k + 1>>
             /\ t.from \in due' <=> t.from \in due
             /\ tick' = tick
  <2>1. t.from # s
    BY <1>2, <1>4, OtherSender
  <2>2. onair \in [Stations -> Frame \cup {Nothing}]
    BY DEF CleanInv, RxInv, RxOK
  <2> QED
    BY <1>1, <1>2, <1>4, <2>1, <2>2, SentFrame, MessageIsTyped
<1>5. ASSUME k < t.frames, NEW b \in buffers, Holds(b, t, k)
      PROVE  b \in buffers' /\ Holds(b, t, k)'
  <2>1. b \notin stale
    <3>1. b.buffered /\ (b.idle = SLOT \/ b.idle = tick)
      BY <1>5 DEF Holds
    <3>2. ~(b.idle >= TimeoutOf(b))
      BY <3>1, HoldersAreFresh
    <3> QED
      BY <3>2 DEF HearsFrame
  <2>2. buffers \ stale \in SUBSET Buffer /\ b \in buffers \ stale
    BY <2>1 DEF CleanInv, RxInv, RxOK
  <2>3. b.at = a
    BY <1>1, <1>5 DEF Holds
  <2> DEFINE bufs == buffers \ stale
             u == f[1]
             m == f[2]
             n == sent'
  <2>4. buffers' = Fed(bufs, u, m, n)
    BY DEF HearsFrame
  <2>5. /\ bufs \in SUBSET Buffer /\ b \in bufs /\ bufs \subseteq buffers
        /\ u \in Messages /\ m \in 1..MaxFrames /\ b.at # u.at
    BY <1>3, <2>2, <2>3
  <2> HIDE DEF bufs, u, m, n
  <2>6. /\ b \in buffers'
        /\ \A c \in buffers' : c.at = a => c \in buffers
    <3>1. /\ b \in Fed(bufs, u, m, n)
          /\ \A c \in Fed(bufs, u, m, n) : c.at = b.at => c \in bufs
      BY <2>5, OtherOffsetKeeps
    <3> QED
      BY <2>3, <2>4, <2>5, <3>1
  <2> QED
    BY <1>1, <1>4, <1>5, <2>6 DEF Holds
<1> QED
  BY <1>1, <1>4, <1>5

\* The next frame of what is being heard without a gap is appended, and the
\* last one hands the message over.
LEMMA HearGoesOn ==
    ASSUME CleanInv, NEW s \in Stations, NEW f, NEW stale, HearsFrame(s, f, stale),
           Continues(f[1], f[2])
    PROVE  LET t == f[1]
               k == f[2]
           IN  StartsBuffered(t) /\ WellFormed(t) =>
                  /\ k < t.frames => \E b \in buffers' : Holds(b, t, k)'
                  /\ k = t.frames =>
                        \E e \in todo' :
                           /\ e.valid /\ e.text = TextOf(t)
                           /\ e.from = t.from /\ e.to = t.to /\ e.verb = t.verb
<1> DEFINE t == f[1]
           k == f[2]
           bufs == buffers \ stale
<1>1. f \in Airs(s) /\ Sends(s, t, k)
  BY DEF HearsFrame
<1>2. /\ t \in Messages /\ k \in 1..MaxFrames /\ k <= t.frames
      /\ t.from = s /\ s \in due /\ s \notin due' /\ tick = 0 /\ tick' = 0
      /\ sent \in Nat /\ sent' \in Nat
      /\ sent' = IF k = 1 THEN sent + 1 ELSE sent
  BY <1>1, SentFrame
<1>3. /\ buffers' = Fed(bufs, t, k, sent') /\ EmittedBy(bufs, t, k, sent') \subseteq todo'
      /\ bufs \in SUBSET Buffer /\ bufs \subseteq buffers
  BY DEF HearsFrame, CleanInv, RxInv, RxOK
<1>4. \A b \in bufs : b.since \in Nat /\ b.since <= sent
  BY <1>3 DEF Buffer, CleanInv, SlotInv
<1>5. Continues(t, k)
  OBVIOUS
<1>6. f = <<t, k>>
  BY <1>1, SentFrame
<1> HIDE DEF t, k, bufs
<1> SUFFICES ASSUME StartsBuffered(t), WellFormed(t)
             PROVE  /\ k < t.frames => \E b \in buffers' : Holds(b, t, k)'
                    /\ k = t.frames =>
                          \E e \in todo' :
                             /\ e.valid /\ e.text = TextOf(t)
                             /\ e.from = t.from /\ e.to = t.to /\ e.verb = t.verb
  BY DEF t, k
<1>7. t.verb \in BufferedVerbs /\ t.frames \in 1..MaxFrames /\ t.at \in Offsets
  BY <1>2, MessageIsTyped DEF StartsBuffered
<1>8. CASE k = 1
  <2>1. \A b \in bufs : b.since < sent'
    BY <1>2, <1>4, <1>8
  <2>2. ASSUME k < t.frames PROVE \E b \in buffers' : Holds(b, t, k)'
    <3> DEFINE b == NewBuffer(t, Heard(t, 1), sent')
    <3>1. /\ b \in Fed(bufs, t, 1, sent')
          /\ \A c \in Fed(bufs, t, 1, sent') : c # b => c.since < sent'
      BY <1>2, <1>3, <1>8, <2>1, <2>2, StarterHolds
    <3>2. /\ b.from = t.from /\ b.to = t.to /\ b.verb = t.verb /\ b.at = t.at
          /\ b.buffered /\ b.text = Heard(t, 1) /\ b.since = sent' /\ b.idle = 0
      BY <1>7 DEF NewBuffer
    <3> HIDE DEF b
    <3>3. b.idle = IF t.from \in due' THEN SLOT ELSE tick'
      BY <1>2, <3>2
    <3>4. b \in buffers' /\ \A c \in buffers' : c # b => c.since < b.since
      BY <1>3, <1>8, <3>1, <3>2
    <3> QED
      BY <1>8, <3>2, <3>3, <3>4 DEF Holds
  <2>3. ASSUME k = t.frames
        PROVE  \E e \in todo' :
                  /\ e.valid /\ e.text = TextOf(t)
                  /\ e.from = t.from /\ e.to = t.to /\ e.verb = t.verb
    BY <1>2, <1>3, <1>8, <2>3, StarterEmits
  <2> QED
    BY <2>2, <2>3
<1>9. CASE k # 1
  <2> DEFINE j == k - 1
  <2>1. j \in 1..MaxFrames /\ j + 1 = k /\ j + 1 \in 1..t.frames /\ j < t.frames
    BY <1>2, <1>7, <1>9
  <2>2. run[t.at] = <<t, j>>
    BY <1>5, <1>9 DEF Continues
  <2> HIDE DEF j
  <2>3. PICK b \in buffers : Holds(b, t, j)
    BY <1>2, <1>7, <2>1, <2>2 DEF CleanInv, RunInv
  <2>4. b \in bufs
    <3>1. b.buffered /\ b.idle = SLOT
      BY <1>2, <2>3 DEF Holds
    <3>2. ~(b.idle >= TimeoutOf(b))
      BY <3>1, HoldersAreFresh
    <3> QED
      BY <3>2 DEF HearsFrame, bufs
  <2>5. /\ b.from = t.from /\ b.to = t.to /\ b.verb = t.verb /\ b.at = t.at
        /\ b.buffered /\ b.text = Heard(t, j)
        /\ \A c \in bufs : c.at = t.at /\ c # b => c.since < b.since
    BY <1>3, <2>3 DEF Holds
  <2> DEFINE d == Extended(b, t, j + 1)
  <2>6. /\ j + 1 = t.frames =>
              \E e \in EmittedBy(bufs, t, j + 1, sent') :
                 /\ e.valid /\ e.text = TextOf(t)
                 /\ e.from = t.from /\ e.to = t.to /\ e.verb = t.verb
        /\ j + 1 < t.frames => Fed(bufs, t, j + 1, sent') = (bufs \ {b}) \cup {d}
        /\ d.from = t.from /\ d.to = t.to /\ d.verb = t.verb /\ d.at = t.at
        /\ d.buffered /\ d.text = Heard(t, j + 1)
        /\ d.since = b.since /\ d.idle = 0
    BY <1>2, <1>3, <1>7, <2>1, <2>4, <2>5, ContinuationGoesOn
  <2>7. /\ d.from = t.from /\ d.to = t.to /\ d.verb = t.verb /\ d.at = t.at
        /\ d.buffered /\ d.text = Heard(t, k) /\ d.since = b.since /\ d.idle = 0
    BY <2>1, <2>6
  <2> HIDE DEF d
  <2>8. ASSUME k < t.frames PROVE Holds(d, t, k)' /\ d \in buffers'
    <3>1. buffers' = (bufs \ {b}) \cup {d}
      BY <1>3, <2>1, <2>6, <2>8
    <3>2. \A c \in buffers' : c.at = t.at /\ c # d => c.since < d.since
      BY <3>1, <2>5, <2>7
    <3>3. d.idle = IF t.from \in due' THEN SLOT ELSE tick'
      BY <1>2, <2>7
    <3> QED
      BY <3>1, <3>2, <3>3, <2>7 DEF Holds
  <2> QED
    BY <1>3, <2>1, <2>6, <2>8
<1> QED
  BY <1>8, <1>9

LEMMA HearKeepsRun ==
    ASSUME CleanInv, NEW s \in Stations, Hear(s)
    PROVE  SlotInv' /\ RunInv'
<1>1. PICK f, stale : HearsFrame(s, f, stale)
  BY HearIsOfAFrame DEF CleanInv
<1>2. f \in Airs(s) /\ Sends(s, f[1], f[2])
  BY <1>1 DEF HearsFrame
<1>3. /\ f = <<f[1], f[2]>> /\ f[1] \in Messages /\ f[2] \in 1..MaxFrames
      /\ f[2] <= f[1].frames /\ f[1].from = s /\ f[1].at \in Offsets
      /\ f[2] < f[1].frames => onair'[s] = <<f[1], f[2] + 1>>
  <2>1. onair \in [Stations -> Frame \cup {Nothing}]
    BY DEF CleanInv, RxInv, RxOK
  <2> QED
    BY <1>2, <2>1, SentFrame, MessageIsTyped
<1>4. ASSUME NEW b \in buffers' PROVE b.since <= sent'
  <2> DEFINE bufs == buffers \ stale
             t == f[1]
             k == f[2]
             n == sent'
  <2>1. /\ buffers' = Fed(bufs, t, k, n) /\ bufs \in SUBSET Buffer
        /\ t \in Messages /\ k \in 1..MaxFrames /\ n \in Nat /\ sent \in Nat /\ sent <= n
    BY <1>1, <1>2, <1>3, SentFrame DEF HearsFrame, CleanInv, RxInv, RxOK
  <2>2. \A c \in bufs : c.since \in Nat /\ c.since <= n
    BY <2>1 DEF Buffer, CleanInv, SlotInv
  <2> HIDE DEF bufs, t, k, n
  <2>3. \/ b \in bufs
        \/ \E c \in bufs : b = Extended(c, t, k)
        \/ \E text : b = NewBuffer(t, text, n)
    <3>1. CASE k > 1
      BY <2>1, <3>1 DEF Fed, AfterContinuation, Latest
    <3>2. CASE ~(k > 1)
      BY <2>1, <3>2 DEF Fed, AfterStarter, AfterTalk
    <3> QED
      BY <3>1, <3>2
  <2>4. ASSUME NEW c \in bufs PROVE Extended(c, t, k).since = c.since
    BY <2>1 DEF Extended, Buffer
  <2>5. \A text : NewBuffer(t, text, n).since = n
    BY DEF NewBuffer
  <2>6. b.since <= n
    BY <2>1, <2>2, <2>3, <2>4, <2>5
  <2> QED
    BY <2>6 DEF n
<1>5. SlotInv'
  BY <1>2, <1>4, SendingKeepsSlots
<1>6. ASSUME NEW a \in Offsets, NEW t \in Messages, NEW k \in 1..MaxFrames,
             run'[a] = <<t, k>>
      PROVE  /\ t.at = a /\ k <= t.frames
             /\ k < t.frames => onair'[t.from] = <<t, k + 1>>
             /\ k < t.frames /\ StartsBuffered(t) /\ WellFormed(t) =>
                   \E b \in buffers' : Holds(b, t, k)'
  <2>1. /\ run \in [Offsets -> Frame \cup {Nothing}]
        /\ run' = [run EXCEPT ![f[1].at] = IF Continues(f[1], f[2]) THEN f ELSE Nothing]
    BY <1>1 DEF CleanInv, RxInv, RxOK, HearsFrame
  <2>2. CASE a # f[1].at
    <3>1. run[a] = <<t, k>>
      BY <1>6, <2>1, <2>2
    <3> QED
      BY <1>1, <2>2, <3>1, HearKeepsOtherOffsets
  <2>3. CASE a = f[1].at
    <3>1. <<t, k>> # Nothing
      BY TextIsTyped
    <3>2. f = <<t, k>> /\ Continues(f[1], f[2])
      BY <1>3, <1>6, <2>1, <2>3, <3>1
    <3>3. f[1] = t /\ f[2] = k
      BY <3>2
    <3>4. k < t.frames /\ StartsBuffered(t) /\ WellFormed(t) =>
             \E b \in buffers' : Holds(b, t, k)'
      BY <1>1, <3>2, <3>3, HearGoesOn
    <3> QED
      BY <1>3, <2>3, <3>3, <3>4
  <2> QED
    BY <2>2, <2>3
<1> QED
  BY <1>5, <1>6 DEF RunInv

\* Five seconds later the buffers are five seconds older.
LEMMA SweepKeepsRun ==
    ASSUME CleanInv, Sweep
    PROVE  SlotInv' /\ RunInv'
<1> DEFINE Older(b) == [b EXCEPT !.idle = b.idle + 1]
<1>1. /\ due = {} /\ tick' = (tick + 1) % SLOT /\ UNCHANGED <<onair, sent, run>>
      /\ due' = IF tick' = 0 THEN Stations ELSE {}
      /\ buffers' = Aged(buffers) \ PastDeadline(Aged(buffers))
  BY DEF Sweep
<1>2. ASSUME NEW b \in buffers
      PROVE  /\ Older(b).from = b.from /\ Older(b).to = b.to /\ Older(b).verb = b.verb
             /\ Older(b).at = b.at /\ Older(b).buffered = b.buffered
             /\ Older(b).text = b.text /\ Older(b).since = b.since
             /\ Older(b).idle = b.idle + 1 /\ b.idle \in Nat
  <2>1. b \in Buffer
    BY DEF CleanInv, RxInv, RxOK
  <2> DEFINE n == b.idle + 1
             o == [b EXCEPT !.idle = n]
  <2>2. b.idle \in Nat
    BY <2>1 DEF Buffer
  <2> HIDE DEF n
  <2>3. /\ o.from = b.from /\ o.to = b.to /\ o.verb = b.verb /\ o.at = b.at
        /\ o.buffered = b.buffered /\ o.text = b.text /\ o.since = b.since
        /\ o.idle = n
    BY <2>1 DEF Buffer
  <2> QED
    BY <2>2, <2>3, Zenon DEF n
<1>3. \A c \in buffers' : \E b \in buffers : c = Older(b)
  BY <1>1 DEF Aged
<1>4. \A b \in buffers : Older(b) \in Aged(buffers)
  BY DEF Aged
<1> HIDE DEF Older
<1>5. SLOT \in Nat /\ SLOT >= 1 /\ FRAME_TIMEOUT \in Nat /\ SLOT < FRAME_TIMEOUT
  BY DEF InboundAssumption, ReassemblyAssumption
<1>6. tick \in Nat /\ tick < SLOT
  BY <1>5 DEF CleanInv, RxInv, RxOK
<1>7. tick' = IF tick + 1 = SLOT THEN 0 ELSE tick + 1
  BY <1>1, <1>5, <1>6
<1>8. SlotInv'
  BY <1>1, <1>2, <1>3 DEF CleanInv, SlotInv
<1>9. ASSUME NEW a \in Offsets, NEW t \in Messages, NEW k \in 1..MaxFrames,
             run'[a] = <<t, k>>
      PROVE  /\ t.at = a /\ k <= t.frames
             /\ k < t.frames => onair'[t.from] = <<t, k + 1>>
             /\ k < t.frames /\ StartsBuffered(t) /\ WellFormed(t) =>
                   \E b \in buffers' : Holds(b, t, k)'
  <2>1. /\ t.at = a /\ k <= t.frames
        /\ k < t.frames => onair[t.from] = <<t, k + 1>>
        /\ k < t.frames /\ StartsBuffered(t) /\ WellFormed(t) =>
              \E b \in buffers : Holds(b, t, k)
    BY <1>1, <1>9 DEF CleanInv, RunInv
  <2>2. ASSUME NEW b \in buffers, Holds(b, t, k)
        PROVE  Older(b) \in buffers' /\ Holds(Older(b), t, k)'
    <3>1. Older(b).idle = tick + 1
      BY <1>1, <1>2, <2>2 DEF Holds
    <3>2. Older(b) \notin PastDeadline(Aged(buffers))
      <4>1. TimeoutOf(Older(b)) = FRAME_TIMEOUT
        BY <1>2, <2>2 DEF TimeoutOf, Holds
      <4>2. ~(tick + 1 > FRAME_TIMEOUT)
        BY <1>5, <1>6
      <4> QED
        BY <3>1, <4>1, <4>2 DEF PastDeadline
    <3>3. Older(b) \in buffers'
      BY <1>1, <1>4, <3>2
    <3>4. Older(b).idle = IF t.from \in due' THEN SLOT ELSE tick'
      <4>1. t.from \in Stations
        BY MessageIsTyped
      <4> QED
        BY <1>1, <1>5, <1>6, <1>7, <3>1, <4>1
    <3>5. \A c \in buffers' : c.at = t.at /\ c # Older(b) => c.since < Older(b).since
      BY <1>2, <1>3, <2>2 DEF Holds
    <3>6. /\ Older(b).from = t.from /\ Older(b).to = t.to /\ Older(b).verb = t.verb
          /\ Older(b).at = t.at /\ Older(b).buffered /\ Older(b).text = Heard(t, k)
      BY <1>2, <2>2 DEF Holds
    <3> DEFINE o == Older(b)
    <3>7. /\ o.from = t.from /\ o.to = t.to /\ o.verb = t.verb /\ o.at = t.at
          /\ o.buffered /\ o.text = Heard(t, k)
          /\ o.idle = IF t.from \in due' THEN SLOT ELSE tick'
          /\ \A c \in buffers' : c.at = t.at /\ c # o => c.since < o.since
      BY <3>4, <3>5, <3>6
    <3> QED
      BY <3>3, <3>7 DEF Holds, Older
  <2> QED
    BY <1>1, <2>1, <2>2
<1> QED
  BY <1>8, <1>9 DEF RunInv

LEMMA NextKeepsRun == CleanInv /\ [Next]_vars => CleanInv'
<1> SUFFICES ASSUME CleanInv, [Next]_vars PROVE CleanInv'
  OBVIOUS
<1>0. RxInv'
  BY NextKeepsRx DEF CleanInv
<1>1. ASSUME UNCHANGED <<buffers, onair, due, tick, sent, run>>
      PROVE  SlotInv' /\ RunInv'
  BY <1>1 DEF CleanInv, SlotInv, RunInv, Holds
<1>2. ASSUME NEW s \in Stations, Hear(s) PROVE SlotInv' /\ RunInv'
  BY <1>2, HearKeepsRun
<1>3. ASSUME NEW s \in Stations, Miss(s) PROVE SlotInv' /\ RunInv'
  BY <1>3, MissKeepsRun
<1>4. ASSUME NEW s \in Stations, Pause(s) PROVE SlotInv' /\ RunInv'
  <2>1. /\ onair[s] = Nothing /\ due' = due \ {s}
        /\ UNCHANGED <<buffers, onair, tick, sent, run>>
    BY <1>4 DEF Pause
  <2>2. SlotInv'
    BY <2>1 DEF CleanInv, SlotInv
  <2>3. ASSUME NEW a \in Offsets, NEW t \in Messages, NEW k \in 1..MaxFrames,
               run[a] = <<t, k>>, k < t.frames
        PROVE  t.from \in due' <=> t.from \in due
    <3>1. onair[t.from] = <<t, k + 1>>
      BY <2>3 DEF CleanInv, RunInv
    <3>2. <<t, k + 1>> # Nothing
      BY <2>3, MessageIsTyped, TextIsTyped
    <3> QED
      BY <2>1, <3>1, <3>2
  <2>4. RunInv'
    BY <2>1, <2>3 DEF CleanInv, RunInv, Holds
  <2> QED
    BY <2>2, <2>4
<1>5. ASSUME Sweep PROVE SlotInv' /\ RunInv'
  BY <1>5, SweepKeepsRun
<1>6. ASSUME Restart PROVE SlotInv' /\ RunInv'
  <2>1. /\ buffers' = {} /\ run' = [a \in Offsets |-> Nothing]
        /\ UNCHANGED <<onair, due, tick, sent>>
    BY <1>6 DEF Restart
  <2>2. \A t \in Messages, k \in 1..MaxFrames : <<t, k>> # Nothing
    BY TextIsTyped
  <2> QED
    BY <2>1, <2>2 DEF CleanInv, SlotInv, RunInv
<1>7. ASSUME NEW s \in Stations, StoreLocally(s) PROVE SlotInv' /\ RunInv'
  BY <1>1, <1>7 DEF StoreLocally, air
<1>8. ASSUME NEW e \in todo, Dispatch(e) PROVE SlotInv' /\ RunInv'
  BY <1>1, <1>8 DEF Dispatch, air
<1>9. ASSUME SelectsForAck \/ RecordsAck \/ EndsHandler PROVE SlotInv' /\ RunInv'
  BY <1>1, <1>9 DEF SelectsForAck, RecordsAck, EndsHandler, air
<1>10. ASSUME NEW o \in OutIds, TxStep(o) PROVE SlotInv' /\ RunInv'
  BY <1>1, <1>10 DEF TxStep, air
<1>11. ASSUME NEW r \in MailIds, OpenMail(r) \/ RemoveMail(r)
       PROVE  SlotInv' /\ RunInv'
  BY <1>1, <1>11 DEF OpenMail, RemoveMail, air
<1>12. ASSUME UNCHANGED vars PROVE SlotInv' /\ RunInv'
  BY <1>1, <1>12 DEF vars, air
<1> QED
  BY <1>0, <1>2, <1>3, <1>4, <1>5, <1>6, <1>7, <1>8, <1>9, <1>10, <1>11, <1>12
  DEF Next, CleanInv

LEMMA CleanInvariant == Spec => []CleanInv
<1>1. Init => CleanInv
  <2> SUFFICES ASSUME Init PROVE CleanInv
    OBVIOUS
  <2>1. \A t \in Messages, k \in 1..MaxFrames : <<t, k>> # Nothing
    BY TextIsTyped
  <2>2. SlotInv /\ RunInv
    BY <2>1 DEF Init, SlotInv, RunInv
  <2> QED
    BY <2>2, RxInvInitially DEF CleanInv
<1> QED
  BY <1>1, NextKeepsRun, PTL DEF Spec

CleanStep ==
    frame' # Nothing /\ frame = Nothing =>
       \A t \in Messages :
          HeardInFull(t)' /\ StartsBuffered(t) /\ WellFormed(t) =>
             \E e \in todo' : /\ e.valid /\ e.text = TextOf(t)
                              /\ e.from = t.from /\ e.to = t.to /\ e.verb = t.verb

\* Whatever the stations send and however their frames are lost and mixed: a
\* well-formed checksummed message of which every frame was heard, with nothing
\* else in between on its offset, is handed to dispatch whole, under its own
\* sender, addressee and verb (_on_buffered_starter and _on_continuation,
\* reassembly.py:501-900).
THEOREM CleanMessagesArrive == Spec => CleanMessagesAreDispatched
<1>1. CleanInv /\ [Next]_vars => [CleanStep]_vars
  <2> SUFFICES ASSUME CleanInv, [Next]_vars, frame' # Nothing, frame = Nothing,
                      NEW t \in Messages, HeardInFull(t)', StartsBuffered(t), WellFormed(t)
               PROVE  \E e \in todo' : /\ e.valid /\ e.text = TextOf(t)
                                       /\ e.from = t.from /\ e.to = t.to /\ e.verb = t.verb
    BY DEF CleanStep
  <2>1. PICK s \in Stations : Hear(s)
    <3>1. ASSUME UNCHANGED frame PROVE FALSE
      BY <3>1
    <3>2. ASSUME NEW s \in Stations, Miss(s) \/ Pause(s) \/ StoreLocally(s) PROVE FALSE
      BY <3>1, <3>2 DEF Miss, Pause, StoreLocally, handler
    <3>3. CASE Sweep
      BY <3>1, <3>3 DEF Sweep
    <3>4. ASSUME NEW e \in todo, Dispatch(e) PROVE FALSE
      BY <3>1, <3>4 DEF Dispatch
    <3>5. CASE SelectsForAck \/ RecordsAck \/ EndsHandler \/ Restart
      BY <3>1, <3>5 DEF SelectsForAck, RecordsAck, EndsHandler, Restart
    <3>6. ASSUME NEW o \in OutIds, TxStep(o) PROVE FALSE
      BY <3>1, <3>6 DEF TxStep, handler
    <3>7. ASSUME NEW r \in MailIds, OpenMail(r) \/ RemoveMail(r) PROVE FALSE
      BY <3>1, <3>7 DEF OpenMail, RemoveMail, handler
    <3>8. CASE UNCHANGED vars
      BY <3>1, <3>8 DEF vars, handler
    <3> QED
      BY <3>2, <3>3, <3>4, <3>5, <3>6, <3>7, <3>8 DEF Next
  <2>2. PICK f, stale : HearsFrame(s, f, stale)
    BY <2>1, HearIsOfAFrame DEF CleanInv
  <2>3. frame' = <<t, t.frames>> /\ run'[t.at] = frame'
    BY DEF HeardInFull
  <2>4. f[1] = t /\ f[2] = t.frames
    BY <2>2, <2>3 DEF HearsFrame
  <2>5. Continues(f[1], f[2])
    <3>1. run \in [Offsets -> Frame \cup {Nothing}] /\ t.at \in Offsets
      BY MessageIsTyped DEF CleanInv, RxInv, RxOK
    <3> QED
      BY <2>2, <2>3, <2>4, <3>1 DEF HearsFrame
  <2> QED
    BY <2>2, <2>4, <2>5, HearGoesOn
<1>2. Spec => [][CleanStep]_vars
  BY <1>1, CleanInvariant, PTL DEF Spec
<1> QED
  BY <1>2 DEF CleanStep, CleanMessagesAreDispatched

-----------------------------------------------------------------------------
(* Mail is kept as MailCustody promises *)

\* A message nobody submitted was never on the air.
FreshInv == \A o \in OutIds : phase[o] = "absent" => tries[o] = 0

CustodyInv == InboundInv /\ FreshInv

\* A step of the pipeline on one message leaves the number of transmissions of
\* all messages alone, or adds one to that of a submitted message.
LEMMA TxTries ==
    ASSUME OutOK, NEW o \in OutIds,
           \/ Tx!Transmit(o) \/ Tx!Sent(o) \/ Tx!Fail(o) \/ Tx!GiveUp(o) \/ Tx!Acked(o)
              \/ Tx!TimeOut(o) \/ Tx!AckCrossesTimeOut(o)
    PROVE  \/ tries' = tries
           \/ phase[o] # "absent" /\ tries' = [tries EXCEPT ![o] = tries[o] + 1]
BY DEF OutOK, Tx!Transmit, Tx!Sent, Tx!Fail, Tx!GiveUp, Tx!Acked, Tx!TimeOut,
       Tx!AckCrossesTimeOut, Tx!Move

LEMMA FreshInitially == Init => FreshInv
BY DEF Init, Tx!Init, FreshInv

\* Whatever a handler says, it says it with a message that is then submitted.
LEMMA ReplyKeepsFresh ==
    ASSUME OutOK, FreshInv, NEW w, Reply(w)
    PROVE  FreshInv'
<1>1. CASE UNCHANGED outbox
  BY <1>1 DEF outbox, FreshInv
<1>2. ASSUME NEW o \in OutIds, phase' = [phase EXCEPT ![o] = "pending"], tries' = tries
      PROVE  FreshInv'
  BY <1>2 DEF OutOK, FreshInv
<1> QED
  BY <1>1, <1>2, ReplyEffect

LEMMA DispatchKeepsFresh ==
    ASSUME OutOK, FreshInv, NEW e \in todo, Dispatch(e)
    PROVE  FreshInv'
<1>1. (\E w : Reply(w)) \/ UNCHANGED outbox
  BY DEF Dispatch, FilesMail, HoldsMail, Stores, StoreFails, AnswersQuery, HandsOver, Ignores
<1>2. UNCHANGED outbox => FreshInv'
  BY DEF outbox, FreshInv
<1> QED
  BY <1>1, <1>2, ReplyKeepsFresh

LEMMA NextKeepsFresh == MailInv /\ FreshInv /\ [Next]_vars => FreshInv'
<1> SUFFICES ASSUME MailInv, FreshInv, [Next]_vars PROVE FreshInv'
  OBVIOUS
<1>0. OutOK
  BY DEF MailInv
<1>1. CASE UNCHANGED outbox
  BY <1>1 DEF outbox, FreshInv
<1>2. ASSUME NEW s \in Stations, Hear(s) \/ Miss(s) \/ Pause(s) \/ StoreLocally(s)
      PROVE  FreshInv'
  BY <1>1, <1>2 DEF Hear, Miss, Pause, StoreLocally
<1>3. CASE Sweep \/ SelectsForAck \/ EndsHandler
  BY <1>1, <1>3 DEF Sweep, SelectsForAck, EndsHandler
<1>4. ASSUME NEW e \in todo, Dispatch(e) PROVE FreshInv'
  BY <1>0, <1>4, DispatchKeepsFresh
<1>5. ASSUME NEW o \in OutIds,
             \/ Tx!Transmit(o) \/ Tx!Sent(o) \/ Tx!Fail(o) \/ Tx!GiveUp(o) \/ Tx!Acked(o)
                \/ Tx!TimeOut(o) \/ Tx!AckCrossesTimeOut(o)
      PROVE  FreshInv'
  <2>1. \A p \in OutIds : phase'[p] = "absent" <=> phase[p] = "absent"
    BY <1>5, TxEffect
  <2>2. \/ tries' = tries
        \/ phase[o] # "absent" /\ tries' = [tries EXCEPT ![o] = tries[o] + 1]
    BY <1>0, <1>5, TxTries
  <2> QED
    BY <1>0, <2>1, <2>2 DEF OutOK, FreshInv
<1>6. CASE RecordsAck
  <2>1. matched \in OutIds
    BY <1>0, <1>6 DEF RecordsAck, OutOK
  <2> QED
    BY <1>5, <1>6, <2>1 DEF RecordsAck
<1>7. ASSUME NEW o \in OutIds, TxStep(o) PROVE FreshInv'
  BY <1>5, <1>7 DEF TxStep
<1>8. ASSUME NEW r \in MailIds, OpenMail(r) \/ RemoveMail(r) PROVE FreshInv'
  BY <1>1, <1>8 DEF OpenMail, RemoveMail
<1>9. CASE Restart
  BY <1>9 DEF Restart, Tx!CloseInterrupted, FreshInv
<1>10. CASE UNCHANGED vars
  BY <1>1, <1>10 DEF vars
<1> QED
  BY <1>2, <1>3, <1>4, <1>6, <1>7, <1>8, <1>9, <1>10 DEF Next

LEMMA CustodyInvariant == Spec => []CustodyInv
<1>1. Init => CustodyInv
  BY RxInvInitially, MailInvInitially, FreshInitially DEF CustodyInv, InboundInv
<1>2. CustodyInv /\ [Next]_vars => CustodyInv'
  BY NextKeepsRx, NextKeepsMail, NextKeepsFresh DEF CustodyInv, InboundInv
<1> QED
  BY <1>1, <1>2, PTL DEF Spec

\* Every ACK and every delivery is what it says it is, so who was told what
\* depends on the replies alone.
LEMMA RepliesAreTrue ==
    ASSUME MailInv
    PROVE  /\ Receipts = {o \in OutIds : wire[o].verb = "ACK"}
           /\ Deliveries = {o \in OutIds : wire[o].verb = "MAIL"}
           /\ \A o \in Receipts \cup Deliveries : wire[o].row \in Mail
BY DEF MailInv, AcksAnswerStoredMail, HeldMailGoesToItsRecipient, Receipts, Deliveries

\* Steps in which we say nothing new.
LEMMA NothingSaid ==
    ASSUME MailInv, MailInv', UNCHANGED wire
    PROVE  /\ UNCHANGED <<Deliveries, Acknowledged, AskedFor>>
           /\ UNCHANGED tries => UNCHANGED OnTheAir
<1>1. /\ Receipts' = {o \in OutIds : wire'[o].verb = "ACK"}
      /\ Deliveries' = {o \in OutIds : wire'[o].verb = "MAIL"}
  BY RepliesAreTrue DEF MailInv, AcksAnswerStoredMail, HeldMailGoesToItsRecipient,
                        Receipts, Deliveries
<1>2. Receipts' = Receipts /\ Deliveries' = Deliveries
  BY <1>1, RepliesAreTrue
<1> QED
  BY <1>2 DEF Acknowledged, AskedFor, OnTheAir

\* A reply adds its row to those its verb is about.
LEMMA ReplySaid ==
    ASSUME MailInv, MailInv', FreshInv, NEW w \in Sayings, Reply(w)
    PROVE  /\ OnTheAir' = OnTheAir
           /\ \/ Acknowledged' = Acknowledged
              \/ w.verb = "ACK" /\ Acknowledged' = Acknowledged \cup {w.row}
           /\ \/ AskedFor' = AskedFor
              \/ w.verb = "MAIL" /\ AskedFor' = AskedFor \cup {w.row}
<1>1. CASE UNCHANGED outbox
  BY <1>1, NothingSaid DEF outbox
<1>2. ASSUME NEW o \in OutIds, phase[o] = "absent", tries' = tries,
             wire' = [wire EXCEPT ![o] = w]
      PROVE  /\ OnTheAir' = OnTheAir
             /\ \/ Acknowledged' = Acknowledged
                \/ w.verb = "ACK" /\ Acknowledged' = Acknowledged \cup {w.row}
             /\ \/ AskedFor' = AskedFor
                \/ w.verb = "MAIL" /\ AskedFor' = AskedFor \cup {w.row}
  <2>1. wire[o].verb = "NONE" /\ tries[o] = 0
    BY <1>2 DEF MailInv, WireInv, FreshInv, Silence, Saying
  <2>2. \A p \in OutIds : wire'[p] = IF p = o THEN w ELSE wire[p]
    BY <1>2 DEF MailInv, OutOK
  <2>3. /\ Receipts' = {p \in OutIds : wire'[p].verb = "ACK"}
        /\ Deliveries' = {p \in OutIds : wire'[p].verb = "MAIL"}
    BY DEF MailInv, AcksAnswerStoredMail, HeldMailGoesToItsRecipient, Receipts, Deliveries
  <2>4. /\ Receipts' = IF w.verb = "ACK" THEN Receipts \cup {o} ELSE Receipts
        /\ Deliveries' = IF w.verb = "MAIL" THEN Deliveries \cup {o} ELSE Deliveries
        /\ o \notin Receipts /\ o \notin Deliveries
    BY <2>1, <2>2, <2>3, RepliesAreTrue
  <2>5. Receipts \subseteq OutIds /\ Deliveries \subseteq OutIds
    BY DEF Receipts, Deliveries
  <2>6. Acknowledged' = IF w.verb = "ACK" THEN Acknowledged \cup {w.row} ELSE Acknowledged
    BY <2>2, <2>4, <2>5 DEF Acknowledged
  <2>7. AskedFor' = IF w.verb = "MAIL" THEN AskedFor \cup {w.row} ELSE AskedFor
    BY <2>2, <2>4, <2>5 DEF AskedFor
  <2>8. {p \in Deliveries' : tries'[p] > 0} = {p \in Deliveries : tries[p] > 0}
    BY <1>2, <2>1, <2>4
  <2>9. OnTheAir' = OnTheAir
    BY <2>2, <2>4, <2>5, <2>8 DEF OnTheAir
  <2> QED
    BY <2>6, <2>7, <2>9
<1>3. OutOK
  BY DEF MailInv
<1> QED
  BY <1>1, <1>2, <1>3, ReplyEffect

\* A row that changes nothing but where it is in its life.
LEMMA RowMoves ==
    ASSUME BoxOK, NEW r \in MailIds, NEW new, box' = [box EXCEPT ![r].type = new]
    PROVE  Custody!Becomes(r, box[r].type, new) /\ Letter' = Letter
<1>1. \A q \in MailIds : /\ box'[q].from = box[q].from
                         /\ box'[q].to = box[q].to
                         /\ box'[q].text = box[q].text
                         /\ q # r => box'[q].type = box[q].type
                         /\ q = r => box'[q].type = new
  BY DEF BoxOK
<1>2. Letter' = Letter
  BY <1>1 DEF Letter
<1>3. Standing' = [Standing EXCEPT ![r] = new] /\ Standing[r] = box[r].type
  BY <1>1 DEF Standing
<1> QED
  BY <1>2, <1>3 DEF Custody!Becomes

\* A row that is inserted; it is held if it is for another station.
LEMMA RowComes ==
    ASSUME BoxOK, NEW type, NEW from, NEW to, NEW text,
           type = IF to \in Stations THEN "STORE" ELSE "UNREAD",
           NEW r \in MailIds, NextMailId(box, r), box' = Put(box, r, type, from, to, text)
    PROVE  /\ Letter' = [Letter EXCEPT ![r] = Letter'[r]]
           /\ Letter'[r].from = from
           /\ Custody!Becomes(r, "NONE",
                 IF Letter'[r].to \in Stations THEN "STORE" ELSE "UNREAD")
<1> DEFINE row == [type |-> type, from |-> from, to |-> to, text |-> text]
<1>1. \A q \in MailIds : box'[q] = IF q = r THEN row ELSE box[q]
  BY DEF BoxOK, Put
<1>2. Standing[r] = "NONE" /\ Standing' = [Standing EXCEPT ![r] = type]
  <2>1. \A q \in MailIds : box'[q].type = IF q = r THEN type ELSE box[q].type
    BY <1>1
  <2> QED
    BY <2>1 DEF Standing, NextMailId
<1>3. Letter'[r] = [from |-> from, to |-> to, text |-> text]
  BY <1>1 DEF Letter
<1>4. Letter' = [Letter EXCEPT ![r] = Letter'[r]]
  BY <1>1 DEF Letter
<1> QED
  BY <1>2, <1>3, <1>4 DEF Custody!Becomes

LEMMA NothingHappens ==
    ASSUME MailInv, MailInv', UNCHANGED <<box, wire, tries>>
    PROVE  UNCHANGED Custody!custody
BY NothingSaid DEF Standing, Letter, Custody!custody

CustodyStep == [Custody!Next]_(Custody!custody)

\* Mail is taken in, with or without a receipt.
LEMMA StoringTakesIn ==
    ASSUME MailInv, MailInv', FreshInv,
           NEW type, NEW from \in Stations, NEW to, NEW text,
           type = IF to \in Stations THEN "STORE" ELSE "UNREAD",
           Stores(type, from, to, text)
    PROVE  CustodyStep
<1>1. PICK r \in MailIds : /\ NextMailId(box, r)
                           /\ box' = Put(box, r, type, from, to, text)
                           /\ Reply(Saying("ACK", from, r))
  BY DEF Stores
<1> DEFINE w == Saying("ACK", from, r)
<1>2. w \in Sayings /\ w.verb = "ACK" /\ w.row = r
  BY DEF Saying, Sayings
<1>3. Reply(w)
  BY <1>1
<1> HIDE DEF w
<1>4. /\ OnTheAir' = OnTheAir /\ AskedFor' = AskedFor
      /\ Acknowledged' \in {Acknowledged, Acknowledged \cup {r}}
  BY <1>2, <1>3, ReplySaid
<1>5. /\ Letter' = [Letter EXCEPT ![r] = Letter'[r]]
      /\ Letter'[r].from = from
      /\ Custody!Becomes(r, "NONE", IF Letter'[r].to \in Stations THEN "STORE" ELSE "UNREAD")
  <2>1. BoxOK
    BY DEF MailInv
  <2> QED
    BY <1>1, <2>1, RowComes
<1>6. Custody!TakeIn(r)
  BY <1>4, <1>5 DEF Custody!TakeIn
<1> QED
  BY <1>6 DEF CustodyStep, Custody!Next

LEMMA DispatchKeepsCustody ==
    ASSUME RxInv, MailInv, MailInv', FreshInv, NEW e \in todo, Dispatch(e)
    PROVE  CustodyStep
<1>1. e.from \in Stations
  BY DEF RxInv, RxOK, Assembled
<1>2. CASE UNCHANGED <<box, outbox>>
  BY <1>2, NothingHappens DEF outbox, CustodyStep
<1>3. ASSUME UNCHANGED box, NEW w \in Sayings, Reply(w), w.verb \notin {"ACK", "MAIL"}
      PROVE  CustodyStep
  <2>1. UNCHANGED <<Acknowledged, AskedFor, OnTheAir>>
    BY <1>3, ReplySaid
  <2> QED
    BY <1>3, <2>1 DEF Standing, Letter, Custody!custody, CustodyStep
<1>4. CASE FilesMail(e)
  <2>1. CASE Stores("UNREAD", e.from, Us, e.text)
    BY <1>1, <2>1, StoringTakesIn
  <2> QED
    BY <1>2, <1>4, <2>1 DEF FilesMail, StoreFails
<1>5. CASE HoldsMail(e)
  <2>1. CASE Stores("STORE", e.from, Arg(e.text), e.text)
    BY <1>1, <1>5, <2>1, StoringTakesIn DEF HoldsMail
  <2> QED
    BY <1>2, <1>5, <2>1 DEF HoldsMail, StoreFails
<1>6. CASE AnswersQuery(e)
  <2>1. ASSUME NEW r \in OldestHeld(box, e.from), Reply(Saying("OFFER", e.from, r))
        PROVE  CustodyStep
    <3>1. r \in MailIds
      BY DEF OldestHeld, HoldingFor
    <3> QED
      BY <1>1, <1>3, <1>6, <2>1, <3>1 DEF AnswersQuery, Sayings, Saying
  <2>2. CASE Reply(Saying("NO", e.from, NoMail))
    BY <1>1, <1>3, <1>6, <2>2 DEF AnswersQuery, Sayings, Saying
  <2> QED
    BY <1>2, <1>6, <2>1, <2>2 DEF AnswersQuery
<1>7. CASE HandsOver(e)
  <2> DEFINE r == Arg(e.text)
  <2>1. ASSUME MayHave(e.from, r), Reply(Saying("MAIL", e.from, r))
        PROVE  CustodyStep
    <3>1. r \in MailIds /\ UNCHANGED box
      BY <1>7 DEF HandsOver
    <3> DEFINE w == Saying("MAIL", e.from, r)
    <3>2. w \in Sayings /\ w.verb = "MAIL" /\ w.row = r
      BY <1>1, <3>1 DEF Saying, Sayings
    <3>3. Reply(w)
      BY <2>1
    <3>4. Standing[r] = "STORE"
      BY <2>1, <3>1 DEF MayHave, Standing
    <3>5. UNCHANGED <<Standing, Letter>>
      BY <3>1 DEF Standing, Letter
    <3> HIDE DEF w, r
    <3>6. /\ UNCHANGED <<Acknowledged, OnTheAir>>
          /\ AskedFor' \in {AskedFor, AskedFor \cup {r}}
      BY <3>2, <3>3, ReplySaid
    <3>7. CASE AskedFor' = AskedFor
      BY <3>5, <3>6, <3>7 DEF CustodyStep, Custody!custody
    <3>8. CASE AskedFor' # AskedFor
      <4>1. Custody!Request(r)
        BY <3>4, <3>5, <3>6, <3>8 DEF Custody!Request
      <4> QED
        BY <3>1, <4>1 DEF CustodyStep, Custody!Next
    <3> QED
      BY <3>7, <3>8
  <2> QED
    BY <1>2, <1>7, <2>1 DEF HandsOver
<1>8. CASE Ignores(e)
  BY <1>2, <1>8 DEF Ignores
<1> QED
  BY <1>4, <1>5, <1>6, <1>7, <1>8 DEF Dispatch

\* A step of the pipeline; the first transmission of a delivery reads it out.
LEMMA TxReadsOut ==
    ASSUME MailInv, MailInv', NEW o \in OutIds, TxStep(o)
    PROVE  CustodyStep
<1>0. OutOK
  BY DEF MailInv
<1>1. UNCHANGED <<box, wire>>
  BY DEF TxStep
<1>2. UNCHANGED <<Standing, Letter, Deliveries, Acknowledged, AskedFor>>
  BY <1>1, NothingSaid DEF Standing, Letter
<1>3. CASE tries' = tries
  BY <1>1, <1>3, NothingHappens DEF CustodyStep
<1>4. CASE tries' = [tries EXCEPT ![o] = tries[o] + 1]
  <2>1. \A p \in OutIds : tries'[p] > 0 <=> tries[p] > 0 \/ p = o
    BY <1>0, <1>4 DEF OutOK
  <2>2. Deliveries \subseteq OutIds
    BY DEF Deliveries
  <2>3. OnTheAir' = {wire[p].row : p \in {q \in Deliveries : tries[q] > 0 \/ q = o}}
    BY <1>1, <1>2, <2>1, <2>2 DEF OnTheAir
  <2>4. CASE o \notin Deliveries
    <3>1. OnTheAir' = OnTheAir
      BY <2>3, <2>4 DEF OnTheAir
    <3> QED
      BY <1>2, <3>1 DEF CustodyStep, Custody!custody
  <2>5. CASE o \in Deliveries
    <3> DEFINE r == wire[o].row
    <3>1. OnTheAir' = OnTheAir \cup {r}
      BY <2>3, <2>5 DEF OnTheAir
    <3>2. r \in AskedFor /\ r \in MailIds
      BY <2>5, RepliesAreTrue DEF AskedFor, Mail
    <3> HIDE DEF r
    <3>3. CASE r \in OnTheAir
      <4>1. OnTheAir' = OnTheAir
        BY <3>1, <3>3
      <4> QED
        BY <1>2, <4>1 DEF CustodyStep, Custody!custody
    <3>4. CASE r \notin OnTheAir
      <4>1. Custody!ReadOut(r)
        BY <1>2, <3>1, <3>2, <3>4 DEF Custody!ReadOut
      <4> QED
        BY <3>2, <4>1 DEF CustodyStep, Custody!Next
    <3> QED
      BY <3>3, <3>4
  <2> QED
    BY <2>4, <2>5
<1> QED
  BY <1>0, <1>3, <1>4, TxTries DEF TxStep

\* An ACK delivers the letter it is taken to be about, which was on the air.
LEMMA AcksDeliver ==
    ASSUME MailInv, MailInv', RecordsAck
    PROVE  CustodyStep
<1>1. UNCHANGED <<wire, tries>>
  BY DEF RecordsAck, Tx!Acked, Tx!AckCrossesTimeOut, Tx!Move
<1>2. CASE UNCHANGED box
  BY <1>1, <1>2, NothingHappens DEF CustodyStep
<1>3. CASE box' # box
  <2> DEFINE r == wire[matched].row
  <2>1. matched \in OutIds /\ wire[matched].verb = "MAIL" /\ tries[matched] > 0
    BY DEF RecordsAck, MailInv, OutOK, AckInv
  <2>2. matched \in Deliveries
    BY <2>1, RepliesAreTrue
  <2>3. r \in MailIds /\ r \in OnTheAir
    BY <2>1, <2>2, RepliesAreTrue DEF OnTheAir, Mail
  <2>4. box[r].type = "STORE" /\ box' = [box EXCEPT ![r].type = "DELIVERED"]
    BY <1>3, <2>1 DEF RecordsAck, MarkMailDelivered, Retype
  <2> HIDE DEF r
  <2>5. Custody!Becomes(r, "STORE", "DELIVERED") /\ Letter' = Letter
    BY <2>3, <2>4, RowMoves DEF MailInv
  <2>6. UNCHANGED <<Acknowledged, AskedFor, OnTheAir>>
    BY <1>1, NothingSaid
  <2>7. Custody!Deliver(r)
    BY <2>3, <2>5, <2>6 DEF Custody!Deliver
  <2> QED
    BY <2>3, <2>7 DEF CustodyStep, Custody!Next
<1> QED
  BY <1>2, <1>3

\* The operator reads a letter, or deletes one.
LEMMA OperatorKeepsCustody ==
    ASSUME MailInv, MailInv', NEW r \in MailIds, OpenMail(r) \/ RemoveMail(r)
    PROVE  CustodyStep
<1>1. BoxOK /\ UNCHANGED <<wire, tries>>
  BY DEF MailInv, OpenMail, RemoveMail, outbox
<1>2. UNCHANGED <<Acknowledged, AskedFor, OnTheAir>>
  BY <1>1, NothingSaid
<1>3. CASE OpenMail(r)
  <2>1. box[r].type = "UNREAD" /\ box' = [box EXCEPT ![r].type = "READ"]
    BY <1>3 DEF OpenMail, MarkRead, Retype
  <2>2. Custody!Becomes(r, "UNREAD", "READ") /\ Letter' = Letter
    BY <1>1, <2>1, RowMoves
  <2>3. Custody!Read(r)
    BY <1>2, <2>2 DEF Custody!Read
  <2> QED
    BY <2>3 DEF CustodyStep, Custody!Next
<1>4. CASE RemoveMail(r)
  <2>1. /\ box[r].type \in {"UNREAD", "READ", "STORE"}
        /\ box[r].type \in MailTypes
    BY <1>4 DEF RemoveMail, MailTypes
  <2>2. box' = [box EXCEPT ![r].type = "DELETED"]
    BY <1>4, <2>1, Zenon DEF RemoveMail, DeleteMail
  <2>3. Custody!Becomes(r, box[r].type, "DELETED") /\ Letter' = Letter
    BY <1>1, <2>2, RowMoves
  <2>4. Custody!Delete(r)
    BY <1>2, <2>1, <2>3 DEF Custody!Delete
  <2> QED
    BY <2>4 DEF CustodyStep, Custody!Next
<1> QED
  BY <1>3, <1>4

LEMMA LocalMailIsTakenIn ==
    ASSUME MailInv, MailInv', NEW to \in Stations, StoreLocally(to)
    PROVE  CustodyStep
<1>1. PICK r \in MailIds : NextMailId(box, r) /\ box' = Put(box, r, "STORE", Us, to, <<>>)
  BY DEF StoreLocally
<1>2. /\ Letter' = [Letter EXCEPT ![r] = Letter'[r]]
      /\ Custody!Becomes(r, "NONE", IF Letter'[r].to \in Stations THEN "STORE" ELSE "UNREAD")
  <2> DEFINE type == "STORE"
             from == Us
             text == <<>>
  <2>1. /\ BoxOK /\ type = IF to \in Stations THEN "STORE" ELSE "UNREAD"
        /\ NextMailId(box, r) /\ box' = Put(box, r, type, from, to, text)
    BY <1>1 DEF MailInv
  <2> HIDE DEF type, from, text
  <2>2. /\ Letter' = [Letter EXCEPT ![r] = Letter'[r]]
        /\ Letter'[r].from = from
        /\ Custody!Becomes(r, "NONE", IF Letter'[r].to \in Stations THEN "STORE" ELSE "UNREAD")
    BY <2>1, RowComes
  <2> QED
    BY <2>2
<1>3. UNCHANGED <<Acknowledged, AskedFor, OnTheAir>>
  BY NothingSaid DEF StoreLocally, outbox
<1>4. Custody!TakeIn(r)
  BY <1>2, <1>3 DEF Custody!TakeIn
<1> QED
  BY <1>4 DEF CustodyStep, Custody!Next

\* Every step of ours is one MailCustody allows, or none.
LEMMA NextKeepsCustody ==
    RxInv /\ MailInv /\ MailInv' /\ FreshInv /\ [Next]_vars => CustodyStep
<1> SUFFICES ASSUME RxInv, MailInv, MailInv', FreshInv, [Next]_vars PROVE CustodyStep
  OBVIOUS
<1>1. CASE UNCHANGED <<box, wire, tries>>
  BY <1>1, NothingHappens DEF CustodyStep
<1>2. ASSUME NEW s \in Stations, Hear(s) \/ Miss(s) \/ Pause(s) PROVE CustodyStep
  BY <1>1, <1>2 DEF Hear, Miss, Pause, outbox
<1>3. ASSUME NEW s \in Stations, StoreLocally(s) PROVE CustodyStep
  BY <1>3, LocalMailIsTakenIn
<1>4. CASE Sweep \/ SelectsForAck \/ EndsHandler
  BY <1>1, <1>4 DEF Sweep, SelectsForAck, EndsHandler, outbox
<1>5. ASSUME NEW e \in todo, Dispatch(e) PROVE CustodyStep
  BY <1>5, DispatchKeepsCustody
<1>6. CASE RecordsAck
  BY <1>6, AcksDeliver
<1>7. ASSUME NEW o \in OutIds, TxStep(o) PROVE CustodyStep
  BY <1>7, TxReadsOut
<1>8. ASSUME NEW r \in MailIds, OpenMail(r) \/ RemoveMail(r) PROVE CustodyStep
  BY <1>8, OperatorKeepsCustody
<1>9. CASE Restart
  BY <1>1, <1>9 DEF Restart, Tx!CloseInterrupted
<1>10. CASE UNCHANGED vars
  BY <1>1, <1>10 DEF vars, outbox
<1> QED
  BY <1>2, <1>3, <1>4, <1>5, <1>6, <1>7, <1>8, <1>9, <1>10 DEF Next

\* In the beginning there is no mail, and nobody was told anything.
LEMMA CustodyInitially == Init => Custody!Init
<1> SUFFICES ASSUME Init PROVE Custody!Init
  OBVIOUS
<1>1. \A o \in OutIds : wire[o].verb = "NONE"
  BY DEF Init, Silence, Saying
<1>2. Receipts = {} /\ Deliveries = {}
  BY <1>1 DEF Receipts, Deliveries
<1>3. Standing = [r \in MailIds |-> "NONE"]
  BY DEF Init, EmptyBox, Unused, Standing
<1> QED
  BY <1>2, <1>3 DEF Custody!Init, Acknowledged, AskedFor, OnTheAir

\* The station keeps its promises about each letter: whatever is lost, mixed
\* up, asked for twice, acknowledged late, dropped for a full queue, deleted
\* in between or cut short by a restart.
THEOREM CustodyImplemented == Spec => ImplementsCustody
<1>1. Init => Custody!Init
  BY CustodyInitially
<1>2. CustodyInv /\ CustodyInv' /\ [Next]_vars => [Custody!Next]_(Custody!custody)
  BY NextKeepsCustody DEF CustodyInv, InboundInv, CustodyStep
<1> QED
  BY <1>1, <1>2, CustodyInvariant, PTL DEF Spec, Custody!Spec, ImplementsCustody
=============================================================================

----------------------------- MODULE Reassembly -----------------------------
(***************************************************************************)
(* The multi-frame reassembler, src/minijs8/protocol/reassembly.py.        *)
(*                                                                         *)
(* MessageAssembler is a dict of buffers that the asyncio thread feeds one *)
(* decoded frame at a time.  Its methods are operators from a set of       *)
(* buffers to a set of buffers here; InboundMail says when they run.       *)
(*                                                                         *)
(* A frame is <<t, k>>, frame k of transmission t.  The first frame names  *)
(* sender, addressee and verb, the others carry text and nothing else.  A  *)
(* text is the sequence of the frames it was put together from.  Time goes *)
(* by in steps of the 5 s sweep; "idle" counts the sweeps since the last   *)
(* frame of a buffer and "since" numbers the buffers in starting order.    *)
(***************************************************************************)
EXTENDS Naturals, Sequences, FiniteSets

CONSTANTS
    Us, Groups,             \* our callsign, the groups we belong to
    AllCall,                \* the address of every station
    Elsewhere,              \* an address that is not ours
    Stations,               \* the callsigns we hear
    Offsets,                \* audio-offset buckets of 25 Hz
    MaxFrames,              \* bound: frames per transmission
    Messages,               \* the transmissions the stations may make
    Requests,               \* the row ids a QUERY MSG may ask for
    NoArg,                  \* no recipient and no row id
    FRAME_TIMEOUT,          \* DEFAULT_FRAME_TIMEOUT_S in sweeps (6 in the code)
    NON_BUFFERED_TIMEOUT    \* NON_BUFFERED_TIMEOUT_S in sweeps (4 in the code)

MailVerbs == {"MSG", "MSG TO:"}
BufferedVerbs == MailVerbs \cup {"QUERY", "QUERY MSGS", "CMD"}

\* "TALK" is any other directed text: YES, SNR?, a directed heartbeat.
Verbs == BufferedVerbs \cup {"TALK", "ACK"}

Addresses == Groups \cup {Us, AllCall, Elsewhere}

\* "inline": the first frame carries text too.  "eot": the decoder passes the
\* end-of-transmission character of the last frame on.  "arg": the recipient or
\* the row id that the text names.
Transmission ==
    [from : Stations, to : Addresses, verb : Verbs,
     frames : 1..MaxFrames, inline : BOOLEAN, eot : BOOLEAN,
     arg : Stations \cup Requests \cup {NoArg}, at : Offsets]

ASSUME ReassemblyAssumption ==
    /\ Messages \subseteq Transmission
    /\ MaxFrames \in Nat
    /\ FRAME_TIMEOUT \in Nat
    /\ NON_BUFFERED_TIMEOUT \in Nat
    /\ Us \notin Stations
    /\ NoArg \notin Stations \cup Requests

Frame == Messages \X (1..MaxFrames)

----------------------------------------------------------------------------
(* Classification *)

\* An @ALLCALL frame is of kind ALLCALL whatever it says, and an ACK of kind
\* ACK; neither starts a buffer.
Directed(t) == t.to # AllCall /\ t.verb # "ACK"
StartsBuffered(t) == Directed(t) /\ t.verb \in BufferedVerbs
StartsTalk(t) == Directed(t) /\ t.verb = "TALK"

TextFrom(t) == IF t.inline THEN 1 ELSE 2

TextOf(t) == [i \in 1..(t.frames + 1 - TextFrom(t)) |-> <<t, i + TextFrom(t) - 1>>]

\* The text after the verb in a first frame.
Rest(t) == IF t.inline THEN <<<<t, 1>>>> ELSE <<>>

\* verify_checksum16 accepts what is the whole text of a checksummed message,
\* the sender's or not: the checksum does not cover the first frame's addresses.
ChecksumOK(text) ==
    \E t \in Messages : t.verb \in BufferedVerbs /\ text = TextOf(t) /\ text # <<>>

----------------------------------------------------------------------------
(* Buffers *)

Buffer ==
    [from : Stations, to : Addresses, verb : Verbs,
     at : Offsets, text : Seq(Frame), buffered : BOOLEAN, since : Nat, idle : Nat]

NewBuffer(t, text, n) ==
    [from |-> t.from, to |-> t.to, verb |-> t.verb, at |-> t.at, text |-> text,
     buffered |-> t.verb \in BufferedVerbs, since |-> n, idle |-> 0]

SameKey(bufs, t) ==
    {b \in bufs : b.from = t.from /\ b.to = t.to /\ b.at = t.at}

Emit(b, ok) ==
    [from |-> b.from, to |-> b.to, verb |-> b.verb, text |-> b.text,
     valid |-> ok, buffered |-> b.buffered]

Assembled ==
    [from : Stations, to : Addresses, verb : Verbs,
     text : Seq(Frame), valid : BOOLEAN, buffered : BOOLEAN]

TimeoutOf(b) == IF b.buffered THEN FRAME_TIMEOUT ELSE NON_BUFFERED_TIMEOUT

\* Between two sweeps a buffer TimeoutOf sweeps old may be past its deadline or
\* a moment short of it.
PastDeadline(bufs) == {b \in bufs : b.idle > TimeoutOf(b)}
NearDeadline(bufs) == {b \in bufs : b.idle = TimeoutOf(b)}

----------------------------------------------------------------------------
(* feed: the buffers left, and the messages emitted *)

\* _evict_stale_non_buffered emits; _evict_stale_buffered is silent.
Evicted(stale) == {Emit(b, TRUE) : b \in {c \in stale : ~c.buffered}}

\* A first frame that is a message of its own: its checksum fits, or it is
\* QUERY MSGS, or it asks for a row.
Complete(t) ==
    \/ t.inline /\ ChecksumOK(Rest(t))
    \/ ~t.inline /\ t.verb = "QUERY MSGS"
    \/ t.inline /\ t.verb = "QUERY" /\ t.arg \in Requests

AfterStarter(bufs, t, n) ==
    (bufs \ SameKey(bufs, t)) \cup
        (IF Complete(t) THEN {} ELSE {NewBuffer(t, Rest(t), n)})

EmittedByStarter(t, n) ==
    IF Complete(t) THEN {Emit(NewBuffer(t, Rest(t), n), TRUE)} ELSE {}

\* The text of a talk buffer is only ever shown; it keeps its first frame.
AfterTalk(bufs, t, n) ==
    (bufs \ SameKey(bufs, t)) \cup {NewBuffer(t, <<<<t, 1>>>>, n)}

\* The buffer in the way is emitted as valid, a checksummed one as well.
Preempted(bufs, t) == {Emit(b, TRUE) : b \in SameKey(bufs, t)}

LatestOldestWins(bufs, at) ==   \* mutant
    {b \in bufs : b.at = at /\ \A c \in bufs : c.at = at => c.since >= b.since}

\* The buffer a continuation at this offset belongs to: the last one started.
Latest(bufs, at) ==
    {b \in bufs : b.at = at /\ \A c \in bufs : c.at = at => c.since <= b.since}

Extended(b, t, k) == [b EXCEPT !.text = Append(b.text, <<t, k>>), !.idle = 0]

Checks(b) == b.buffered /\ ChecksumOK(b.text)

Ends(b, t, k) == b.buffered /\ t.eot /\ k = t.frames

AfterContinuation(bufs, t, k) ==
    (bufs \ Latest(bufs, t.at)) \cup
        {b \in {Extended(c, t, k) : c \in Latest(bufs, t.at)} :
            ~Checks(b) /\ ~Ends(b, t, k)}

EmittedTrustsEOT(bufs, t, k) ==   \* mutant
    {Emit(b, Checks(b) \/ Ends(b, t, k)) :
        b \in {c \in {Extended(d, t, k) : d \in Latest(bufs, t.at)} :
                  Checks(c) \/ Ends(c, t, k)}}

EmittedByContinuation(bufs, t, k) ==
    {Emit(b, Checks(b)) :
        b \in {c \in {Extended(d, t, k) : d \in Latest(bufs, t.at)} :
                  Checks(c) \/ Ends(c, t, k)}}

Fed(bufs, t, k, n) ==
    IF k > 1 THEN AfterContinuation(bufs, t, k)
    ELSE IF StartsBuffered(t) THEN AfterStarter(bufs, t, n)
    ELSE IF StartsTalk(t) THEN AfterTalk(bufs, t, n)
    ELSE bufs

EmittedBy(bufs, t, k, n) ==
    IF k > 1 THEN EmittedByContinuation(bufs, t, k)
    ELSE IF StartsBuffered(t) THEN EmittedByStarter(t, n)
    ELSE IF StartsTalk(t) THEN Preempted(bufs, t)
    ELSE {}

----------------------------------------------------------------------------
(* The sweeps: sweep_completed, then sweep_timeouts *)

Aged(bufs) == {[b EXCEPT !.idle = b.idle + 1] : b \in bufs}

Swept(bufs) == {Emit(b, ~b.buffered) : b \in PastDeadline(bufs)}
=============================================================================

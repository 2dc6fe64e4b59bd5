---------------------------- MODULE ComposeForm ----------------------------
(***************************************************************************)
(* The COMPOSE form, src/minijs8/ui/state.py: the fields of UIState that   *)
(* make up a draft, as one record, and one operator per mutator from form  *)
(* to form.  Text typed into a field is abstract: one more character, or   *)
(* one less, may give any call sign of Calls, and of a message text only   *)
(* whether there is one is kept.                                           *)
(***************************************************************************)
EXTENDS Naturals, Sequences, SequencesExt

CONSTANTS
    Peers,       \* other stations
    Me,          \* our own call sign
    GroupPicks   \* sequence: our groups in sorted order

ASSUME ComposeAssumption ==
    /\ Me \notin Peers \cup {""}
    /\ GroupPicks \in Seq(STRING)

Groups == {GroupPicks[i] : i \in DOMAIN GroupPicks}
Calls == Peers \cup Groups \cup {Me}

CmdOrder == <<"FREE", "MSG", "MSG TO", "STORE", "AGN?", "SNR?", "GRID?",
              "QUERY MSGS", "QUERY MSG", "MYLOC">>

\* toPick and forPick are heard indices, counted from 1; 0 is Python's None.
EmptyForm == [to |-> "", cmd |-> "FREE", text |-> FALSE, for |-> "",
              toPick |-> 0, forPick |-> 0, focus |-> 0]

\* The HEARD list without station c.  It has one row per call sign, so there
\* is at most one to leave out.
Without(heard, c) ==
    IF \E i \in DOMAIN heard : heard[i] = c
    THEN RemoveAt(heard, CHOOSE i \in DOMAIN heard : heard[i] = c)
    ELSE heard

\* The HEARD list without ourselves, and with the groups after it.
HeardOthers(heard) == Without(heard, Me)
ToPicks(heard) == HeardOthers(heard) \o GroupPicks

\* Upserting a station brings it to the front of the list.
HeardAfter(heard, c) == <<c>> \o Without(heard, c)

FocusCycle(cmd) ==
    IF cmd = "MSG TO" THEN <<"to", "cmd", "for", "text", "send">>
                      ELSE <<"to", "cmd", "text", "send">>

FocusedField(f) ==
    IF f.focus < Len(FocusCycle(f.cmd)) THEN FocusCycle(f.cmd)[f.focus + 1]
                                        ELSE "none"

TabForm(f) == [f EXCEPT !.focus = (@ + 1) % Len(FocusCycle(f.cmd))]

\* The next position in a list of n that wraps; 0 stands for none yet.
NextPick(pick, n, forward) ==
    CASE pick = 0 -> IF forward THEN 1 ELSE n
      [] pick # 0 /\ forward -> (pick % n) + 1
      [] OTHER -> ((pick + n - 2) % n) + 1

CycleTo(f, heard, forward) ==
    LET picks == ToPicks(heard)
        pick == NextPick(f.toPick, Len(picks), forward)
    IN  IF picks = <<>> THEN f
                        ELSE [f EXCEPT !.toPick = pick, !.to = picks[pick]]

CycleFor(f, heard, forward) ==
    LET picks == HeardOthers(heard)
        pick == NextPick(f.forPick, Len(picks), forward)
    IN  IF picks = <<>> THEN f
                        ELSE [f EXCEPT !.forPick = pick, !.for = picks[pick]]

\* Off the longer cycle of MSG TO, a focus past the end is parked on CMD.
CycleCmd(f, forward) ==
    LET n == Len(CmdOrder)
        i == CHOOSE j \in 1..n : CmdOrder[j] = f.cmd
        cmd == CmdOrder[NextPick(i, n, forward)]
        parked == cmd # "MSG TO" /\ f.focus >= Len(FocusCycle(cmd))
    IN  [f EXCEPT !.cmd = cmd, !.focus = IF parked THEN 1 ELSE @]

SetTo(f, call) == [f EXCEPT !.to = call, !.toPick = 0]
SetFor(f, call) == [f EXCEPT !.for = call, !.forPick = 0]
SetText(f, some) == [f EXCEPT !.text = some]

PrepopulateAlways(f, heard) ==   \* mutant
    LET others == HeardOthers(heard)
    IN  IF others = <<>> THEN f ELSE [f EXCEPT !.to = others[1], !.toPick = 1]

\* On entering COMPOSE with an empty TO: the station heard last.
Prepopulate(f, heard) ==
    LET others == HeardOthers(heard)
    IN  IF others = <<>> \/ f.to # "" THEN f
        ELSE [f EXCEPT !.to = others[1], !.toPick = 1]

\* The forms key k may leave behind in the field that has the focus.
FormsAfter(f, heard, k) ==
    LET field == FocusedField(f)
    IN  CASE field = "to" /\ k \in {"UP", "DOWN"} -> {CycleTo(f, heard, k = "DOWN")}
          [] field = "for" /\ k \in {"UP", "DOWN"} -> {CycleFor(f, heard, k = "DOWN")}
          [] field = "cmd" /\ k \in {"UP", "DOWN"} -> {CycleCmd(f, k = "DOWN")}
          [] field = "to" /\ k = "CHAR" -> {SetTo(f, c) : c \in Calls}
          [] field = "for" /\ k = "CHAR" -> {SetFor(f, c) : c \in Calls}
          [] field = "text" /\ k = "CHAR" -> {SetText(f, TRUE)}
          [] field = "to" /\ k = "BACKSPACE" /\ f.to # "" ->
                 {SetTo(f, c) : c \in Calls \cup {""}}
          [] field = "for" /\ k = "BACKSPACE" /\ f.for # "" ->
                 {SetFor(f, c) : c \in Calls \cup {""}}
          [] field = "text" /\ k = "BACKSPACE" /\ f.text ->
                 {SetText(f, some) : some \in BOOLEAN}
          [] OTHER -> {f}

\* STORE wants a TO that is one station, a text, and a call sign of our own.
Storable(f, haveCall) == f.to \notin Groups \cup {""} /\ f.text /\ haveCall

Forms == [to : Calls \cup {""}, cmd : {CmdOrder[i] : i \in DOMAIN CmdOrder},
          text : BOOLEAN, for : Calls \cup {""}, toPick : Nat, forPick : Nat,
          focus : 0..4]
============================================================================

--------------------------- MODULE MCInboundMail ---------------------------
(***************************************************************************)
(* Values for model checking InboundMail.  All stations share one offset.  *)
(***************************************************************************)
EXTENDS InboundMail

CONSTANTS k1, k2, k3     \* stations

Tx1(s, to, verb, n, inl, end, arg) ==
    [from |-> s, to |-> to, verb |-> verb, frames |-> n, inline |-> inl,
     eot |-> end, arg |-> arg, at |-> 1500]

mcOffsets == {1500}
mcGroups == {"@GRP"}
mcRequests == {1}

\* k1 sends mail in three frames; k2 mail to hold for k1; k3 works another
\* station.
mail    == Tx1(k1, Us, "MSG", 3, FALSE, TRUE, NoArg)
hold    == Tx1(k2, "@GRP", "MSG TO:", 2, FALSE, FALSE, k1)
foreign == Tx1(k3, Elsewhere, "MSG", 2, TRUE, FALSE, NoArg)
talk    == Tx1(k3, Elsewhere, "TALK", 2, TRUE, FALSE, NoArg)
command == Tx1(k2, Us, "CMD", 1, TRUE, FALSE, NoArg)

ask(s, to) == Tx1(s, to, "QUERY MSGS", 1, FALSE, FALSE, NoArg)
get(s)     == Tx1(s, Us, "QUERY", 1, TRUE, FALSE, 1)
ack(s)     == Tx1(s, Us, "ACK", 1, TRUE, FALSE, NoArg)

mcStations == {k1, k2, k3}
mcAskers == {k1, k2}
mcMessages == {mail, hold, command, foreign, talk,
               ask(k1, Us), get(k1), get(k2), ack(k1)}

\* k1 talks to us as well.
reply == Tx1(k1, Us, "TALK", 1, TRUE, FALSE, NoArg)
mcMailAndTalk == {mail, reply}
mcOne == {k1}
============================================================================

---------------------------- MODULE MCTxPipeline ----------------------------
(***************************************************************************)
(* Values for model checking TxPipeline.                                   *)
(***************************************************************************)
EXTENDS TxPipeline

CONSTANT k1     \* a station

mcStations == {k1}

\* A two-frame "MSG" to k1, the one kind that waits for an ACK; a one-frame
\* query, a REPLY; a heartbeat; a CQ.
mail      == [kind |-> "DIRECTED", inferred |-> "DIRECTED", to |-> k1, frames |-> 2]
reply     == [kind |-> "REPLY", inferred |-> "DIRECTED", to |-> k1, frames |-> 1]
heartbeat == [kind |-> "HEARTBEAT", inferred |-> "REPLY", to |-> NoCall, frames |-> 1]
cq        == [kind |-> "CQ", inferred |-> "REPLY", to |-> NoCall, frames |-> 1]

mcPayloads == {mail, reply, heartbeat, cq}
mcClients == {"asyncio", "heartbeat"}
mcSubmits == [c \in mcClients |-> IF c = "asyncio" THEN {mail, reply, cq} ELSE {heartbeat}]

\* The operator sends nothing but directed mail.
mcSubmitsMail == [c \in mcClients |-> IF c = "asyncio" THEN {mail} ELSE {}]
=============================================================================

-------------------------- MODULE MessageLifecycle --------------------------
(***************************************************************************)
(* What the transmit pipeline promises about each outbound message, seen   *)
(* from outside: no threads, no table, no audio, no clock.  TxPipeline     *)
(* implements this specification.                                          *)
(*                                                                         *)
(* A message is submitted, goes on the air at most MAX_ATTEMPTS times and  *)
(* is delivered or abandoned.  Only a message that needs an ACK waits for  *)
(* one.  An ACK that meets its own timeout is the one loose end: whichever *)
(* of the two is recorded last wins, so such a message may be delivered    *)
(* after it was given up, or tried again after it was delivered.           *)
(***************************************************************************)
EXTENDS Naturals

CONSTANTS Ids, MAX_ATTEMPTS

VARIABLES
    phase,      \* per message: where it is in its life
    tries,      \* per message: how often it went on the air
    needsAck    \* per message: is it directed mail, which the peer ACKs?

lifecycle == <<phase, tries, needsAck>>

Phases == {"absent", "pending", "onair", "waiting", "delivered", "abandoned"}

Init ==
    /\ phase = [id \in Ids |-> "absent"]
    /\ tries = [id \in Ids |-> 0]
    /\ needsAck = [id \in Ids |-> FALSE]

Becomes(id, p) == phase' = [phase EXCEPT ![id] = p]

Move(id, from, to) ==
    /\ phase[id] = from
    /\ Becomes(id, to)
    /\ UNCHANGED <<tries, needsAck>>

AfterMiss(id) == IF tries[id] >= MAX_ATTEMPTS THEN "abandoned" ELSE "pending"

Submit(id) ==
    /\ phase[id] = "absent"
    /\ Becomes(id, "pending")
    /\ \E ack \in BOOLEAN : needsAck' = [needsAck EXCEPT ![id] = ack]
    /\ UNCHANGED tries

Transmit(id) ==
    /\ phase[id] = "pending"
    /\ tries[id] < MAX_ATTEMPTS
    /\ Becomes(id, "onair")
    /\ tries' = [tries EXCEPT ![id] = @ + 1]
    /\ UNCHANGED needsAck

Sent(id) == Move(id, "onair", IF needsAck[id] THEN "waiting" ELSE "delivered")

Fail(id) == Move(id, "onair", AfterMiss(id))

\* The burst overran its deadline, or the text cannot be encoded.
GiveUp(id) == Move(id, "onair", "abandoned") \/ Move(id, "pending", "abandoned")

Acked(id) == Move(id, "waiting", "delivered")

TimeOut(id) == Move(id, "waiting", AfterMiss(id))

\* The ACK and the timeout of one transmission cross.
AckCrossesTimeOut(id) ==
    /\ needsAck[id]
    /\ tries[id] > 0
    /\ \/ Move(id, AfterMiss(id), "delivered")
       \/ Move(id, "delivered", AfterMiss(id))

\* A restart forgets unsent broadcasts and closes what was on the air.
Forget(gone) ==
    /\ \A id \in gone : phase[id] \in {"pending", "onair"} /\ ~needsAck[id]
    /\ phase' = [id \in Ids |-> IF id \in gone THEN "absent" ELSE phase[id]]
    /\ tries' = [id \in Ids |-> IF id \in gone THEN 0 ELSE tries[id]]
    /\ UNCHANGED needsAck

CloseInterrupted ==
    /\ phase' = [id \in Ids |-> IF phase[id] = "onair" THEN "abandoned" ELSE phase[id]]
    /\ UNCHANGED <<tries, needsAck>>

Next ==
    \/ \E id \in Ids :
          \/ Submit(id) \/ Transmit(id) \/ Sent(id) \/ Fail(id) \/ GiveUp(id)
          \/ Acked(id) \/ TimeOut(id) \/ AckCrossesTimeOut(id)
    \/ \E gone \in SUBSET Ids : Forget(gone)
    \/ CloseInterrupted

Spec == Init /\ [][Next]_lifecycle
=============================================================================

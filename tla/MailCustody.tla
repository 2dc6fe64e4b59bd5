---------------------------- MODULE MailCustody ----------------------------
(***************************************************************************)
(* What a station is promised of the mail it leaves with us, and whom we   *)
(* hold mail for: no frames, no buffers, no queue, no replies, no clock.   *)
(* InboundMail implements this specification.                              *)
(*                                                                         *)
(* A letter is taken in once and never altered.  Its sender has a receipt  *)
(* at that moment or never, and none without the letter being kept.  A     *)
(* letter for another station is held until that station asks for it; it   *)
(* counts as delivered only after it was read out to the one who asked,    *)
(* and whoever has seen it delivered or deleted never sees it held again.  *)
(***************************************************************************)
CONSTANTS
    Letters,     \* their numbers
    Stations     \* whose mail we hold, and who may have receipts

VARIABLES
    standing,    \* per letter: where it is in its life, as inbox_v1 has it
    letter,      \* per letter: from, to and text
    receipts,    \* the letters acknowledged to their senders
    requests,    \* the letters their addressees asked for
    readOut      \* the letters that were on the air to their addressees

custody == <<standing, letter, receipts, requests, readOut>>

\* A letter that was never taken in may read like anything.
Init ==
    /\ standing = [r \in Letters |-> "NONE"]
    /\ receipts = {} /\ requests = {} /\ readOut = {}

Becomes(r, from, to) ==
    /\ standing[r] = from
    /\ standing' = [standing EXCEPT ![r] = to]

TakeIn(r) ==
    /\ Becomes(r, "NONE", IF letter'[r].to \in Stations THEN "STORE" ELSE "UNREAD")
    /\ letter' = [letter EXCEPT ![r] = letter'[r]]
    /\ receipts' \in {receipts} \cup
                     (IF letter'[r].from \in Stations THEN {receipts \cup {r}} ELSE {})
    /\ UNCHANGED <<requests, readOut>>

Read(r) == Becomes(r, "UNREAD", "READ") /\ UNCHANGED <<letter, receipts, requests, readOut>>

Request(r) ==
    /\ standing[r] = "STORE" /\ r \notin requests
    /\ requests' = requests \cup {r}
    /\ UNCHANGED <<standing, letter, receipts, readOut>>

\* What was asked for is read out, though it may be delivered or deleted by now.
ReadOut(r) ==
    /\ r \in requests \ readOut
    /\ readOut' = readOut \cup {r}
    /\ UNCHANGED <<standing, letter, receipts, requests>>

Deliver(r) ==
    /\ Becomes(r, "STORE", "DELIVERED")
    /\ r \in readOut
    /\ UNCHANGED <<letter, receipts, requests, readOut>>

Delete(r) ==
    /\ \E from \in {"UNREAD", "READ", "STORE"} : Becomes(r, from, "DELETED")
    /\ UNCHANGED <<letter, receipts, requests, readOut>>

Next ==
    \E r \in Letters :
        TakeIn(r) \/ Read(r) \/ Request(r) \/ ReadOut(r) \/ Deliver(r) \/ Delete(r)

Spec == Init /\ [][Next]_custody
=============================================================================

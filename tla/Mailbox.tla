------------------------------ MODULE Mailbox ------------------------------
(***************************************************************************)
(* The mailbox, src/minijs8/store/inbox.py: one table of messages to us    *)
(* (UNREAD, READ) and of mail held for others (STORE, DELIVERED).  Each    *)
(* method is one SQL statement, so an operator from table to table.  Ids   *)
(* are AUTOINCREMENT: the id of a deleted row is not given out again.      *)
(***************************************************************************)
EXTENDS Naturals

CONSTANTS
    MaxMail,     \* bound: rows ever inserted
    NoStation    \* from and to of a row that does not exist

ASSUME MailboxAssumption == MaxMail \in Nat

MailIds == 1..MaxMail
NoMail == 0

MailTypes == {"UNREAD", "READ", "STORE", "DELIVERED"}

Unused == [type |-> "NONE", from |-> NoStation, to |-> NoStation, text |-> <<>>]
EmptyBox == [r \in MailIds |-> Unused]

\* r is the id the next INSERT gives out.
NextMailId(tbl, r) ==
    tbl[r].type = "NONE" /\ \A q \in MailIds : q < r => tbl[q].type # "NONE"

MailboxFull(tbl) == \A r \in MailIds : tbl[r].type # "NONE"

Put(tbl, r, type, from, to, text) ==
    [tbl EXCEPT ![r] = [type |-> type, from |-> from, to |-> to, text |-> text]]

\* UPDATE ... WHERE id = ? AND type = expect.
Retype(tbl, r, expect, new) ==
    IF tbl[r].type = expect THEN [tbl EXCEPT ![r].type = new] ELSE tbl

MarkRead(tbl, r) == Retype(tbl, r, "UNREAD", "READ")
MarkMailDelivered(tbl, r) == Retype(tbl, r, "STORE", "DELIVERED")

DeleteMail(tbl, r) ==
    IF tbl[r].type \in MailTypes THEN [tbl EXCEPT ![r].type = "DELETED"] ELSE tbl

HoldingFor(tbl, call) == {r \in MailIds : tbl[r].type = "STORE" /\ tbl[r].to = call}

\* list_holding_for(call, limit=1).
OldestHeld(tbl, call) ==
    {r \in HoldingFor(tbl, call) : \A q \in HoldingFor(tbl, call) : r <= q}
============================================================================

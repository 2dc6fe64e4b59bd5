----------------------------- MODULE InboxView -----------------------------
(***************************************************************************)
(* The list of mail on the display and the table behind it: the inbox part *)
(* of src/minijs8/ui/state.py, the router's INBOX handlers and the         *)
(* callbacks of src/minijs8/app.py that touch the mailbox.  The list is a  *)
(* copy of its newest rows: opening and deleting a row change the list at  *)
(* once and the table by a call that may fail, arrivals change the table   *)
(* and then re-read it.  A deletion does not, so an older row takes the    *)
(* place of a deleted one only at the next arrival.  The actions leave the *)
(* variables of other modules alone.                                       *)
(***************************************************************************)
EXTENDS Mailbox, FiniteSets, Sequences

CONSTANT
    Limit        \* rows on the list; the limit of _refresh_inbox_ui

ASSUME InboxAssumption == Limit \in Nat

VARIABLES
    mailbox,     \* the table
    rows,        \* _inbox_messages: ids and whether they are shown as read
    fetched,     \* history: how many rows the last re-reading found
    focusRow,    \* _inbox_focused_index, counted from 0
    detail,      \* _inbox_detail_id, or NoMail
    unread,      \* _inbox_unread_count, the badge
    dbFailed     \* a statement has failed since the start

mailVars == <<mailbox, rows, fetched, focusRow, detail, unread, dbFailed>>

Listable == {"UNREAD", "READ", "STORE"}
ListedIds(box) == {r \in MailIds : box[r].type \in Listable}
UnreadIds(box) == {r \in MailIds : box[r].type = "UNREAD"}

Capped(n) == IF n <= Limit THEN n ELSE Limit

\* list_inbox_with_stored: newest id first, no more than Limit.
Listing(box) ==
    [i \in 1..Capped(Cardinality(ListedIds(box))) |->
        LET id == CHOOSE r \in ListedIds(box) :
                      Cardinality({q \in ListedIds(box) : q >= r}) = i
        IN  [id |-> id, read |-> box[id].type # "UNREAD"]]

\* A focus past the end of a list of n moves to its last row.
ClampFocus(n) ==
    focusRow' = IF focusRow < n THEN focusRow ELSE IF n = 0 THEN 0 ELSE n - 1

RefreshKeepsBadge(box, mayFail) ==   \* mutant
    /\ rows' = Listing(box)
    /\ fetched' = Len(Listing(box))
    /\ ClampFocus(Len(Listing(box)))
    /\ UNCHANGED <<unread, dbFailed>>

\* set_inbox with what the table `box` holds; nothing if reading it raised.
Refresh(box, mayFail) ==
    \/ /\ rows' = Listing(box)
       /\ fetched' = Len(Listing(box))
       /\ unread' = Cardinality(UnreadIds(box))
       /\ ClampFocus(Len(Listing(box)))
       /\ UNCHANGED dbFailed
    \/ /\ mayFail
       /\ dbFailed' = TRUE
       /\ UNCHANGED <<rows, fetched, unread, focusRow>>

InitInbox ==
    /\ mailbox = EmptyBox
    /\ rows = <<>> /\ fetched = 0
    /\ focusRow = 0
    /\ detail = NoMail
    /\ unread = 0
    /\ dbFailed = FALSE

\* A row is inserted by the dispatch of mail, or by STORE, and listed.
InsertRow(type, mayFail) ==
    \E r \in MailIds :
        LET box == Put(mailbox, r, type, NoStation, NoStation, <<>>)
        IN  /\ NextMailId(mailbox, r)
            /\ mailbox' = box
            /\ Refresh(box, mayFail)
            /\ UNCHANGED detail

\* Held mail was acknowledged by its addressee and leaves the list.
HeldMailGoes(mayFail) ==
    \E r \in MailIds :
        LET box == MarkMailDelivered(mailbox, r)
        IN  /\ mailbox[r].type = "STORE"
            /\ mailbox' = box
            /\ Refresh(box, mayFail)
            /\ UNCHANGED detail

FocusUp ==
    /\ focusRow' = IF focusRow > 0 THEN focusRow - 1 ELSE 0
    /\ UNCHANGED <<mailbox, rows, fetched, detail, unread, dbFailed>>

FocusDown ==
    /\ focusRow' = IF focusRow + 1 < Len(rows) THEN focusRow + 1 ELSE focusRow
    /\ UNCHANGED <<mailbox, rows, fetched, detail, unread, dbFailed>>

HasFocus == focusRow < Len(rows)
FocusedRow == rows[focusRow + 1]

\* mark_inbox_row_read_locally of the focused row.
ShowAsRead ==
    /\ rows' = [rows EXCEPT ![focusRow + 1] = [id |-> @.id, read |-> TRUE]]
    /\ unread' = IF unread > 0 THEN unread - 1 ELSE 0

OpenFocusedShowsOnly(mayFail) ==   \* mutant
    /\ HasFocus
    /\ detail' = FocusedRow.id
    /\ IF FocusedRow.read THEN UNCHANGED <<rows, unread>> ELSE ShowAsRead
    /\ UNCHANGED <<mailbox, fetched, focusRow, dbFailed>>

\* ENTER in the list: the detail view; an unread row becomes READ in the
\* table, unless the statement fails, and on the display.
OpenFocused(mayFail) ==
    /\ HasFocus
    /\ detail' = FocusedRow.id
    /\ IF FocusedRow.read THEN UNCHANGED <<mailbox, rows, unread, dbFailed>>
       ELSE /\ ShowAsRead
            /\ \/ mailbox' = MarkRead(mailbox, FocusedRow.id) /\ UNCHANGED dbFailed
               \/ mayFail /\ dbFailed' = TRUE /\ UNCHANGED mailbox
    /\ UNCHANGED <<fetched, focusRow>>

RowsWithout(i) ==
    [j \in 1..(Len(rows) - 1) |-> IF j < i THEN rows[j] ELSE rows[j + 1]]

\* DELETE: the row leaves the list, and the table unless the statement fails.
\* The badge is not recounted.
DeleteFocused(mayFail) ==
    /\ HasFocus
    /\ rows' = RowsWithout(focusRow + 1)
    /\ ClampFocus(Len(rows) - 1)
    /\ \/ mailbox' = DeleteMail(mailbox, FocusedRow.id) /\ UNCHANGED dbFailed
       \/ mayFail /\ dbFailed' = TRUE /\ UNCHANGED mailbox
    /\ UNCHANGED <<fetched, unread>>

-----------------------------------------------------------------------------
InboxTypeOK ==
    /\ mailbox \in [MailIds -> [type : MailTypes \cup {"NONE", "DELETED"},
                               from : {NoStation}, to : {NoStation}, text : {<<>>}]]
    /\ rows \in Seq([id : MailIds, read : BOOLEAN])
    /\ fetched \in Nat /\ fetched <= Limit /\ Len(rows) <= Limit
    /\ focusRow \in Nat /\ (focusRow = 0 \/ focusRow < Len(rows))
    /\ detail \in MailIds \cup {NoMail}
    /\ unread \in Nat
    /\ dbFailed \in BOOLEAN

Shown == {rows[i].id : i \in DOMAIN rows}

(***************************************************************************)
(* As long as no statement failed, the list shows rows of the table that   *)
(* are neither delivered nor deleted, each as unread if it is, newest      *)
(* first and without a gap: a row that is not shown is older than all that *)
(* are, and there is one only if there were Limit rows when the table was  *)
(* last read.  Open, delete, arrival, delivery and STORE each change the   *)
(* two copies by steps of their own (router.py:574-640, app.py:2492-2522,  *)
(* inbox.py:601-628).                                                      *)
(***************************************************************************)
ListAgreesWithMailbox ==
    ~dbFailed =>
        /\ \A i \in DOMAIN rows :
               /\ rows[i].id \in ListedIds(mailbox)
               /\ rows[i].read <=> mailbox[rows[i].id].type # "UNREAD"
        /\ \A i, j \in DOMAIN rows : i < j => rows[i].id > rows[j].id
        /\ \A r \in ListedIds(mailbox) \ Shown :
               fetched = Limit /\ \A q \in Shown : r < q

(***************************************************************************)
(* The badge never counts fewer messages than the list shows as unread,    *)
(* although it is decremented on opening a row, set by a refresh and left  *)
(* alone by a deletion (state.py:1340, 1170, 1268-1308).                   *)
(***************************************************************************)
BadgeCoversUnread ==
    Cardinality({i \in DOMAIN rows : ~rows[i].read}) <= unread
============================================================================

-------------------------- MODULE InboxViewProofs --------------------------
(***************************************************************************)
(* Proofs about InboxView, for any number of rows and any limit of the     *)
(* list: each operation keeps the list on the display in agreement with    *)
(* the newest rows of the table.                                           *)
(***************************************************************************)
EXTENDS InboxView, FiniteSetTheorems, SequenceTheorems, TLAPS

-----------------------------------------------------------------------------
(***************************************************************************)
(* The list of a table: newest id first, each id once.                     *)
(***************************************************************************)

Rank(S, r) == Cardinality({q \in S : q >= r})

LEMMA IdsAreFinite ==
    ASSUME NEW S \in SUBSET MailIds
    PROVE  IsFiniteSet(S) /\ Cardinality(S) \in Nat
<1>1. IsFiniteSet(MailIds)
  BY MailboxAssumption, FS_Interval DEF MailboxAssumption, MailIds
<1>2. IsFiniteSet(S)
  BY <1>1, FS_Subset
<1> QED BY <1>2, FS_CardinalityType

LEMMA RankIsPosition ==
    ASSUME NEW S \in SUBSET MailIds
    PROVE  /\ \A r \in S : Rank(S, r) \in 1..Cardinality(S)
           /\ \A r, s \in S : Rank(S, r) = Rank(S, s) => r = s
           /\ \A i \in 1..Cardinality(S) : \E r \in S : Rank(S, r) = i
           /\ \A r, s \in S : Rank(S, r) < Rank(S, s) => r > s
<1>1. IsFiniteSet(S) /\ Cardinality(S) \in Nat /\ S \subseteq Nat
  BY IdsAreFinite DEF MailIds
<1>2. ASSUME NEW r \in S
      PROVE  Rank(S, r) \in 1..Cardinality(S)
  <2> DEFINE T == {q \in S : q >= r}
  <2>1. T \in SUBSET S /\ r \in T
    BY <1>1
  <2>2. IsFiniteSet(T) /\ Cardinality(T) <= Cardinality(S)
    BY <1>1, <2>1, FS_Subset
  <2>3. Cardinality(T) \in Nat /\ Cardinality(T) # 0
    BY <2>1, <2>2, FS_CardinalityType, FS_EmptySet
  <2> HIDE DEF T
  <2>4. Cardinality(T) \in 1..Cardinality(S)
    BY <1>1, <2>2, <2>3
  <2> QED BY <2>4 DEF T, Rank
<1>3. ASSUME NEW r \in S, NEW s \in S, r < s
      PROVE  Rank(S, s) < Rank(S, r)
  <2> DEFINE T == {q \in S : q >= r}
             U == {q \in S : q >= s}
  <2>1. T \in SUBSET S /\ U \in SUBSET T /\ r \in T /\ r \notin U
    <3>1. \A q \in S : q >= s => q >= r
      BY <1>1, <1>3
    <3>2. ~(r >= s) /\ r >= r
      BY <1>1, <1>3
    <3> QED BY <3>1, <3>2
  <2> HIDE DEF T, U
  <2>2. IsFiniteSet(T)
    BY <1>1, <2>1, FS_Subset
  <2>3. IsFiniteSet(U) /\ Cardinality(U) <= Cardinality(T) /\ Cardinality(U) # Cardinality(T)
    <3>1. IsFiniteSet(U) /\ Cardinality(U) <= Cardinality(T)
      BY <2>1, <2>2, FS_Subset
    <3>2. Cardinality(T) = Cardinality(U) => T = U
      BY <2>1, <2>2, FS_Subset
    <3> QED BY <2>1, <3>1, <3>2
  <2>4. Cardinality(U) \in Nat /\ Cardinality(T) \in Nat
    BY <2>2, <2>3, FS_CardinalityType
  <2>5. Cardinality(U) < Cardinality(T)
    BY <2>3, <2>4
  <2> QED BY <2>5 DEF T, U, Rank
<1>4. ASSUME NEW r \in S, NEW s \in S, Rank(S, r) = Rank(S, s)
      PROVE  r = s
  <2>1. r < s \/ s < r \/ r = s
    BY <1>1
  <2>2. Rank(S, r) \in Nat /\ Rank(S, s) \in Nat
    BY <1>1, <1>2
  <2> QED BY <1>3, <1>4, <2>1, <2>2
<1>9. ASSUME NEW r \in S, NEW s \in S, Rank(S, r) < Rank(S, s)
      PROVE  r > s
  <2>1. r < s \/ s < r \/ r = s
    BY <1>1
  <2>2. Rank(S, r) \in Nat /\ Rank(S, s) \in Nat
    BY <1>1, <1>2
  <2>3. r < s => Rank(S, s) < Rank(S, r)
    BY <1>3
  <2> QED BY <1>1, <1>9, <2>1, <2>2, <2>3
<1> DEFINE n == Cardinality(S)
           f == [r \in S |-> Rank(S, r)]
<1>5. f \in Injection(S, 1..n)
  <2>1. f \in [S -> 1..n]
    BY <1>2
  <2>2. \A r, s \in S : f[r] = f[s] => r = s
    BY <1>4
  <2> HIDE DEF f, n
  <2> QED BY <2>1, <2>2, Zenon DEF Injection, IsInjective
<1>6. IsFiniteSet(1..n) /\ Cardinality(1..n) = n
  <2>1. 1 \in Int /\ n \in Int /\ (IF 1 > n THEN 0 ELSE n - 1 + 1) = n
    BY <1>1
  <2> QED BY <2>1, FS_Interval
<1>7. f \in Surjection(S, 1..n)
  <2> HIDE DEF f
  <2> QED BY <1>5, <1>6, FS_Injection
<1>8. \A i \in 1..n : \E r \in S : f[r] = i
  <2> HIDE DEF f, n
  <2> QED BY <1>7 DEF Surjection
<1> QED BY <1>2, <1>4, <1>8, <1>9

LEMMA CappedIsSmaller ==
    ASSUME NEW n \in Nat
    PROVE  /\ Capped(n) \in Nat /\ Capped(n) <= n /\ Capped(n) <= Limit /\ Limit \in Nat
           /\ Capped(n) < n => Capped(n) = Limit
BY InboxAssumption DEF InboxAssumption, Capped

\* What an entry of the list says is so, the newest first, and none is left
\* out that is newer than one on the list.
Lists(list, box) ==
    /\ DOMAIN list = 1..Len(list)
    /\ list \in Seq([id : MailIds, read : BOOLEAN])
    /\ Len(list) <= Limit
    /\ \A i \in DOMAIN list : list[i].id \in ListedIds(box)
    /\ \A i, j \in DOMAIN list : list[i].id = list[j].id => i = j
    /\ \A i, j \in DOMAIN list : i < j => list[i].id > list[j].id
    /\ \A r \in ListedIds(box) :
          (\A i \in DOMAIN list : list[i].id # r) =>
              Len(list) = Limit /\ \A i \in DOMAIN list : r < list[i].id
    /\ \A i \in DOMAIN list : list[i].read <=> box[list[i].id].type # "UNREAD"

LEMMA ListingLists ==
    ASSUME NEW box
    PROVE  Lists(Listing(box), box)
<1> DEFINE S == ListedIds(box)
           n == Cardinality(S)
           m == Capped(n)
           id(i) == CHOOSE r \in S : Rank(S, r) = i
           list == Listing(box)
<1>1. S \in SUBSET MailIds
  BY DEF ListedIds
<1>2. n \in Nat
  BY <1>1, IdsAreFinite
<1>11. m \in Nat /\ m <= n /\ m <= Limit /\ (m < n => m = Limit)
  BY <1>2, CappedIsSmaller
<1>12. Limit \in Nat
  BY InboxAssumption DEF InboxAssumption
<1>3. list = [i \in 1..m |-> [id |-> id(i), read |-> box[id(i)].type # "UNREAD"]]
  BY Zenon DEF Listing, Rank
<1> HIDE DEF S, n, m
<1>4. ASSUME NEW i \in 1..m
      PROVE  id(i) \in S /\ Rank(S, id(i)) = i
  <2>1. i \in 1..n
    BY <1>2, <1>11
  <2> QED BY <1>1, <2>1, RankIsPosition DEF n
<1> HIDE DEF id, list
<1>5. \A i \in 1..m : id(i) \in MailIds
  BY <1>1, <1>4
<1>6. list \in [1..m -> [id : MailIds, read : BOOLEAN]]
  BY <1>3, <1>5
<1>7. list \in Seq([id : MailIds, read : BOOLEAN]) /\ Len(list) = m /\ DOMAIN list = 1..m
  <2> DEFINE Row == [id : MailIds, read : BOOLEAN]
  <2>1. list \in [1..m -> Row]
    BY <1>6
  <2> HIDE DEF Row
  <2>2. list \in Seq(Row) /\ DOMAIN list = 1..m
    BY <1>11, <2>1, SeqDef
  <2>3. Len(list) = m
    BY <1>11, <2>2, LenProperties
  <2> QED BY <2>2, <2>3 DEF Row
<1>8. \A i \in 1..m : list[i].id = id(i) /\ (list[i].read <=> box[id(i)].type # "UNREAD")
  BY <1>3
<1>9. \A i, j \in 1..m : list[i].id = list[j].id => i = j
  BY <1>4, <1>8
<1>10. \A i, j \in 1..m : i < j => list[i].id > list[j].id
  <2> SUFFICES ASSUME NEW i \in 1..m, NEW j \in 1..m, i < j
               PROVE  list[i].id > list[j].id
    OBVIOUS
  <2>1. id(i) \in S /\ id(j) \in S /\ Rank(S, id(i)) = i /\ Rank(S, id(j)) = j
    BY <1>4
  <2>2. id(i) > id(j)
    BY <1>1, <2>1, RankIsPosition
  <2>3. list[i].id = id(i) /\ list[j].id = id(j)
    BY <1>8
  <2> QED BY <2>2, <2>3
<1>18. \A r \in S : r \in Nat
  BY <1>1 DEF MailIds
<1>13. ASSUME NEW r \in S, \A i \in 1..m : list[i].id # r
       PROVE  m = Limit /\ \A i \in 1..m : r < list[i].id
  <2>1. Rank(S, r) \in 1..n
    BY <1>1, RankIsPosition DEF n
  <2>2. ~(Rank(S, r) \in 1..m)
    <3> SUFFICES ASSUME Rank(S, r) \in 1..m PROVE FALSE
      OBVIOUS
    <3> DEFINE k == Rank(S, r)
    <3>1. id(k) \in S /\ Rank(S, id(k)) = k
      BY <1>4
    <3>2. id(k) = r
      BY <1>1, <3>1, RankIsPosition
    <3> QED BY <1>8, <1>13, <3>2
  <2>3. Rank(S, r) > m /\ m < n
    BY <1>2, <1>11, <2>1, <2>2
  <2>4. ASSUME NEW i \in 1..m PROVE r < list[i].id
    <3>1. id(i) \in S /\ Rank(S, id(i)) < Rank(S, r)
      <4>1. id(i) \in S /\ Rank(S, id(i)) = i
        BY <1>4
      <4>2. i < Rank(S, r)
        BY <1>2, <1>11, <2>1, <2>3
      <4> QED BY <4>1, <4>2
    <3>2. id(i) > r
      BY <1>1, <3>1, RankIsPosition
    <3>3. id(i) \in Nat /\ r \in Nat
      BY <1>18, <3>1
    <3>4. list[i].id = id(i)
      BY <1>8
    <3> QED BY <3>2, <3>3, <3>4
  <2> QED BY <1>11, <2>3, <2>4
<1>14. \A i \in 1..m : list[i].id \in S
  BY <1>4, <1>8
<1>15. \A r \in S : (\A i \in 1..m : list[i].id # r) =>
                      m = Limit /\ \A i \in 1..m : r < list[i].id
  BY <1>13
<1>16. \A i \in 1..m : list[i].read <=> box[list[i].id].type # "UNREAD"
  BY <1>8
<1>17. Lists(list, box)
  BY ONLY <1>7, <1>9, <1>10, <1>11, <1>14, <1>15, <1>16 DEF Lists, S
<1> QED BY <1>17 DEF list

-----------------------------------------------------------------------------
(***************************************************************************)
(* The invariant, and each operation on the list.                          *)
(***************************************************************************)

Row == [id : MailIds, read : BOOLEAN]
RowTypes == MailTypes \cup {"NONE", "DELETED"}
Boxes == [MailIds -> [type : RowTypes, from : {NoStation}, to : {NoStation},
                      text : {<<>>}]]

\* An id is on the list once at most, also when it no longer agrees.
OnceEach == \A i, j \in DOMAIN rows : rows[i].id = rows[j].id => i = j

ListTypeOK ==
    /\ mailbox \in Boxes
    /\ rows \in Seq(Row)
    /\ fetched \in Nat /\ fetched <= Limit /\ Len(rows) <= Limit
    /\ focusRow \in Nat /\ (focusRow = 0 \/ focusRow < Len(rows))
    /\ unread \in Nat

ListInv ==
    /\ ListTypeOK /\ OnceEach
    /\ ListAgreesWithMailbox
    /\ BadgeCoversUnread

\* What the list says of the table.
Agrees(list, box, found) ==
    /\ \A i \in DOMAIN list :
           /\ list[i].id \in ListedIds(box)
           /\ list[i].read <=> box[list[i].id].type # "UNREAD"
    /\ \A i, j \in DOMAIN list : i < j => list[i].id > list[j].id
    /\ \A r \in ListedIds(box) \ {list[i].id : i \in DOMAIN list} :
           found = Limit /\ \A q \in {list[i].id : i \in DOMAIN list} : r < q

Unread(list) == {i \in DOMAIN list : ~list[i].read}

LEMMA UnreadIsFinite ==
    ASSUME NEW list \in Seq(Row)
    PROVE  /\ IsFiniteSet(Unread(list)) /\ Cardinality(Unread(list)) \in Nat
           /\ DOMAIN list = 1..Len(list) /\ Len(list) \in Nat
<1>1. DOMAIN list = 1..Len(list) /\ Len(list) \in Nat
  BY LenProperties
<1>2. IsFiniteSet(1..Len(list))
  BY <1>1, FS_Interval
<1>3. Unread(list) \in SUBSET (1..Len(list))
  BY <1>1 DEF Unread
<1>4. IsFiniteSet(Unread(list))
  BY <1>2, <1>3, FS_Subset
<1> QED BY <1>1, <1>4, FS_CardinalityType

LEMMA Retyped ==
    ASSUME NEW box \in Boxes, NEW r \in MailIds, NEW t \in RowTypes
    PROVE  LET b == [box EXCEPT ![r].type = t]
           IN  /\ b \in Boxes
               /\ \A q \in MailIds : b[q].type = IF q = r THEN t ELSE box[q].type
BY DEF Boxes

LEMMA MarkReadEffect ==
    ASSUME NEW box \in Boxes, NEW r \in MailIds
    PROVE  /\ MarkRead(box, r) \in Boxes
           /\ \A q \in MailIds :
                 MarkRead(box, r)[q].type = IF q = r /\ box[q].type = "UNREAD"
                                            THEN "READ" ELSE box[q].type
<1>1. "READ" \in RowTypes
  BY DEF RowTypes, MailTypes
<1> DEFINE b == [box EXCEPT ![r].type = "READ"]
<1>2. b \in Boxes /\ \A q \in MailIds : b[q].type = IF q = r THEN "READ" ELSE box[q].type
  BY <1>1, Retyped
<1>3. MarkRead(box, r) = IF box[r].type = "UNREAD" THEN b ELSE box
  BY DEF MarkRead, Retype
<1> HIDE DEF b
<1> QED BY <1>2, <1>3

LEMMA DeleteMailEffect ==
    ASSUME NEW box \in Boxes, NEW r \in MailIds
    PROVE  /\ DeleteMail(box, r) \in Boxes
           /\ \A q \in MailIds :
                 DeleteMail(box, r)[q].type = IF q = r /\ box[q].type \in MailTypes
                                              THEN "DELETED" ELSE box[q].type
<1>1. "DELETED" \in RowTypes
  BY DEF RowTypes
<1> DEFINE b == [box EXCEPT ![r].type = "DELETED"]
<1>2. b \in Boxes /\ \A q \in MailIds : b[q].type = IF q = r THEN "DELETED" ELSE box[q].type
  BY <1>1, Retyped
<1>3. DeleteMail(box, r) = IF box[r].type \in MailTypes THEN b ELSE box
  BY DEF DeleteMail
<1> HIDE DEF b
<1> QED BY <1>2, <1>3

LEMMA RefreshKeeps ==
    ASSUME ListInv, NEW box \in Boxes, NEW mayFail, mailbox' = box, Refresh(box, mayFail)
    PROVE  ListInv'
<1> DEFINE list == Listing(box)
<1>1. Lists(list, box)
  BY ListingLists
<1> HIDE DEF list
<1>2. list \in Seq(Row) /\ DOMAIN list = 1..Len(list) /\ Len(list) \in Nat
  BY <1>1, UnreadIsFinite DEF Lists, Row
<1>3. CASE rows' = list /\ fetched' = Len(list) /\ unread' = Cardinality(UnreadIds(box))
           /\ ClampFocus(Len(list)) /\ UNCHANGED dbFailed
  <2>1. UnreadIds(box) \in SUBSET MailIds
    BY DEF UnreadIds
  <2>2. IsFiniteSet(UnreadIds(box)) /\ unread' \in Nat
    BY <1>3, <2>1, IdsAreFinite
  <2>3. focusRow' \in Nat /\ (focusRow' = 0 \/ focusRow' < Len(list))
    BY <1>2, <1>3 DEF ClampFocus, ListInv, ListTypeOK
  <2>4. ListTypeOK' /\ OnceEach'
    BY <1>1, <1>2, <1>3, <2>2, <2>3 DEF ListTypeOK, OnceEach, Lists
  <2>5. ListAgreesWithMailbox'
    <3>1. Shown' = {list[i].id : i \in DOMAIN list}
      BY <1>3 DEF Shown
    <3> QED BY <1>1, <1>3, <3>1 DEF ListAgreesWithMailbox, Lists
  <2>6. BadgeCoversUnread'
    <3> DEFINE U == Unread(list)
               g == [i \in U |-> list[i].id]
    <3>1. \A i \in U : i \in DOMAIN list /\ ~list[i].read /\ list[i].id \in UnreadIds(box)
      <4>1. \A i \in DOMAIN list : list[i].id \in MailIds
        BY <1>1 DEF Lists, ListedIds
      <4> QED BY <1>1, <4>1 DEF Lists, Unread, UnreadIds
    <3>2. g \in [U -> UnreadIds(box)]
      BY <3>1
    <3>3. \A i, j \in U : g[i] = g[j] => i = j
      BY <1>1, <3>1 DEF Lists
    <3> HIDE DEF g, U
    <3>4. g \in Injection(U, UnreadIds(box))
      BY <3>2, <3>3, Zenon DEF Injection, IsInjective
    <3>5. Cardinality(U) <= Cardinality(UnreadIds(box))
      BY <2>2, <3>4, FS_Injection
    <3> QED BY <1>3, <3>5 DEF BadgeCoversUnread, U, Unread
  <2> QED BY <2>4, <2>5, <2>6 DEF ListInv
<1>4. CASE dbFailed' = TRUE /\ UNCHANGED <<rows, fetched, unread, focusRow>>
  BY <1>4 DEF ListInv, ListTypeOK, OnceEach, ListAgreesWithMailbox, BadgeCoversUnread
<1> QED BY <1>3, <1>4 DEF Refresh, list

LEMMA InsertKeeps ==
    ASSUME ListInv, NEW type \in MailTypes, NEW mayFail, InsertRow(type, mayFail)
    PROVE  ListInv'
<1>1. PICK r \in MailIds :
          LET box == Put(mailbox, r, type, NoStation, NoStation, <<>>)
          IN  mailbox' = box /\ Refresh(box, mayFail)
  BY DEF InsertRow
<1>2. Put(mailbox, r, type, NoStation, NoStation, <<>>) \in Boxes
  BY DEF Put, ListInv, ListTypeOK, Boxes, RowTypes
<1> QED BY <1>1, <1>2, RefreshKeeps

LEMMA HeldMailGoesKeeps ==
    ASSUME ListInv, NEW mayFail, HeldMailGoes(mayFail)
    PROVE  ListInv'
<1>1. PICK r \in MailIds :
          LET box == MarkMailDelivered(mailbox, r)
          IN  mailbox' = box /\ Refresh(box, mayFail)
  BY DEF HeldMailGoes
<1>2. MarkMailDelivered(mailbox, r) \in Boxes
  <2>1. mailbox \in Boxes /\ "DELIVERED" \in RowTypes
    BY DEF ListInv, ListTypeOK, RowTypes, MailTypes
  <2> QED BY <2>1, Retyped DEF MarkMailDelivered, Retype
<1> QED BY <1>1, <1>2, RefreshKeeps

LEMMA FocusMovesKeep ==
    ASSUME ListInv, FocusUp \/ FocusDown
    PROVE  ListInv'
<1>1. UNCHANGED <<mailbox, rows, fetched, unread, dbFailed>>
  BY DEF FocusUp, FocusDown
<1>2. focusRow' \in Nat /\ (focusRow' = 0 \/ focusRow' < Len(rows))
  <2>1. Len(rows) \in Nat /\ focusRow \in Nat /\ (focusRow = 0 \/ focusRow < Len(rows))
    BY LenProperties DEF ListInv, ListTypeOK
  <2> QED BY <2>1 DEF FocusUp, FocusDown
<1> QED BY <1>1, <1>2 DEF ListInv, ListTypeOK, OnceEach, ListAgreesWithMailbox, Shown,
                          BadgeCoversUnread

\* The row that has the focus.
LEMMA FocusIsARow ==
    ASSUME ListInv, HasFocus
    PROVE  /\ focusRow + 1 \in 1..Len(rows) /\ DOMAIN rows = 1..Len(rows) /\ Len(rows) \in Nat
           /\ FocusedRow = rows[focusRow + 1]
           /\ \A i \in 1..Len(rows) : rows[i] \in Row /\ rows[i].id \in MailIds
<1>1. rows \in Seq(Row) /\ focusRow \in Nat
  BY DEF ListInv, ListTypeOK
<1>2. DOMAIN rows = 1..Len(rows) /\ Len(rows) \in Nat /\ \A i \in 1..Len(rows) : rows[i] \in Row
  BY <1>1, LenProperties, ElementOfSeq
<1> QED BY <1>1, <1>2 DEF HasFocus, FocusedRow, Row

LEMMA OpenKeeps ==
    ASSUME ListInv, NEW mayFail, OpenFocused(mayFail)
    PROVE  ListInv'
<1> DEFINE k == focusRow + 1
<1>1. HasFocus /\ UNCHANGED <<fetched, focusRow>>
  BY DEF OpenFocused
<1>2. /\ k \in 1..Len(rows) /\ DOMAIN rows = 1..Len(rows) /\ Len(rows) \in Nat
      /\ FocusedRow = rows[k]
      /\ \A i \in 1..Len(rows) : rows[i] \in Row /\ rows[i].id \in MailIds
  BY <1>1, FocusIsARow
<1> HIDE DEF k
<1>3. CASE FocusedRow.read
  BY <1>1, <1>3 DEF OpenFocused, ListInv, ListTypeOK, OnceEach, ListAgreesWithMailbox,
                    Shown, BadgeCoversUnread
<1>4. CASE ~FocusedRow.read
  <2>1. /\ ShowAsRead
        /\ \/ mailbox' = MarkRead(mailbox, rows[k].id) /\ UNCHANGED dbFailed
           \/ dbFailed' = TRUE /\ UNCHANGED mailbox
    BY <1>2, <1>4 DEF OpenFocused
  <2>2. rows' = [rows EXCEPT ![k] = [id |-> rows[k].id, read |-> TRUE]]
    BY <1>2, <2>1 DEF ShowAsRead, k
  <2>3. /\ rows' \in Seq(Row) /\ Len(rows') = Len(rows) /\ DOMAIN rows' = 1..Len(rows)
        /\ \A i \in 1..Len(rows) :
              rows'[i] = IF i = k THEN [id |-> rows[k].id, read |-> TRUE] ELSE rows[i]
    <3>1. rows \in Seq(Row) /\ [id |-> rows[k].id, read |-> TRUE] \in Row
      BY <1>2 DEF ListInv, ListTypeOK, Row
    <3> QED BY <1>2, <2>2, <3>1, ExceptSeq
  <2>4. \A i \in 1..Len(rows) : /\ rows'[i].id = rows[i].id
                                /\ i = k => rows'[i].read
                                /\ i # k => (rows'[i].read <=> rows[i].read)
    BY <1>2, <2>3
  <2>5. OnceEach'
    BY <1>2, <2>3, <2>4 DEF ListInv, OnceEach
  <2>6. mailbox \in Boxes /\ rows[k].id \in MailIds
    BY <1>2 DEF ListInv, ListTypeOK
  <2>7. /\ mailbox' \in Boxes
        /\ mailbox' = MarkRead(mailbox, rows[k].id) =>
              \A q \in MailIds :
                  mailbox'[q].type = IF q = rows[k].id /\ mailbox[q].type = "UNREAD"
                                     THEN "READ" ELSE mailbox[q].type
    BY <2>1, <2>6, MarkReadEffect
  <2>8. ListAgreesWithMailbox'
    <3> SUFFICES ASSUME ~dbFailed'
                 PROVE  Agrees(rows', mailbox', fetched')
      BY DEF ListAgreesWithMailbox, Agrees, Shown
    <3>1. ~dbFailed /\ mailbox' = MarkRead(mailbox, rows[k].id)
      BY <2>1
    <3>2. Agrees(rows, mailbox, fetched)
      BY <3>1 DEF ListInv, ListAgreesWithMailbox, Agrees, Shown
    <3>3. \A q \in MailIds :
             mailbox'[q].type = IF q = rows[k].id /\ mailbox[q].type = "UNREAD"
                                THEN "READ" ELSE mailbox[q].type
      BY <2>7, <3>1
    <3>4. ListedIds(mailbox') = ListedIds(mailbox)
      BY <3>3 DEF ListedIds, Listable
    <3>5. {rows'[i].id : i \in DOMAIN rows'} = {rows[i].id : i \in DOMAIN rows}
      BY <1>2, <2>3, <2>4
    <3>6. \A i \in 1..Len(rows) : rows[i].id = rows[k].id => i = k
      BY <1>2 DEF ListInv, OnceEach
    <3>7. ASSUME NEW i \in 1..Len(rows)
          PROVE  rows'[i].read <=> mailbox'[rows'[i].id].type # "UNREAD"
      <4>1. rows'[i].id = rows[i].id /\ rows[i].id \in MailIds
        BY <1>2, <2>4
      <4>2. CASE i = k
        BY <2>4, <3>3, <4>1, <4>2
      <4>3. CASE i # k
        <5>1. mailbox'[rows[i].id].type = mailbox[rows[i].id].type
          BY <3>3, <3>6, <4>1, <4>3
        <5> QED BY <1>2, <2>4, <3>2, <4>1, <4>3, <5>1 DEF Agrees
      <4> QED BY <4>2, <4>3
    <3>8. \A i \in 1..Len(rows) : rows'[i].id \in ListedIds(mailbox')
      BY <1>2, <2>4, <3>2, <3>4 DEF Agrees
    <3>9. \A i, j \in 1..Len(rows) : i < j => rows'[i].id > rows'[j].id
      BY <1>2, <2>4, <3>2 DEF Agrees
    <3> QED BY <1>1, <2>3, <3>2, <3>4, <3>5, <3>7, <3>8, <3>9 DEF Agrees
  <2>9. BadgeCoversUnread' /\ unread' \in Nat
    <3>1. rows \in Seq(Row) /\ unread \in Nat /\ Cardinality(Unread(rows)) <= unread
      BY DEF ListInv, ListTypeOK, BadgeCoversUnread, Unread
    <3>2. IsFiniteSet(Unread(rows)) /\ Cardinality(Unread(rows)) \in Nat
      BY <3>1, UnreadIsFinite
    <3>3. k \in Unread(rows)
      BY <1>2, <1>4 DEF Unread
    <3>4. Unread(rows)' = Unread(rows) \ {k}
      BY <1>2, <2>3, <2>4 DEF Unread
    <3>5. Cardinality(Unread(rows)') = Cardinality(Unread(rows)) - 1
      BY <3>2, <3>3, <3>4, FS_RemoveElement
    <3>6. Cardinality(Unread(rows)) # 0
      BY <3>2, <3>3, FS_EmptySet
    <3>7. unread' = IF unread > 0 THEN unread - 1 ELSE 0
      BY <2>1 DEF ShowAsRead
    <3>8. unread' \in Nat /\ Cardinality(Unread(rows)') <= unread'
      BY <3>1, <3>2, <3>5, <3>6, <3>7
    <3> QED BY <3>8 DEF BadgeCoversUnread, Unread
  <2>10. ListTypeOK'
    BY <1>1, <2>3, <2>7, <2>9 DEF ListInv, ListTypeOK
  <2> QED BY <2>5, <2>8, <2>9, <2>10 DEF ListInv
<1> QED BY <1>3, <1>4

LEMMA DeleteKeeps ==
    ASSUME ListInv, NEW mayFail, DeleteFocused(mayFail)
    PROVE  ListInv'
<1> DEFINE k == focusRow + 1
           n == Len(rows)
           old(j) == IF j < k THEN j ELSE j + 1
<1>1. /\ HasFocus
      /\ rows' = RowsWithout(focusRow + 1)
      /\ ClampFocus(Len(rows) - 1)
      /\ UNCHANGED <<fetched, unread>>
      /\ \/ mailbox' = DeleteMail(mailbox, FocusedRow.id) /\ UNCHANGED dbFailed
         \/ dbFailed' = TRUE /\ UNCHANGED mailbox
  BY DEF DeleteFocused
<1>2. /\ k \in 1..n /\ DOMAIN rows = 1..n /\ n \in Nat
      /\ FocusedRow = rows[k]
      /\ \A i \in 1..n : rows[i] \in Row /\ rows[i].id \in MailIds
  BY <1>1, FocusIsARow
<1>3. rows' = [j \in 1..(n - 1) |-> rows[old(j)]]
  <2>1. \A j \in 1..(n - 1) : (IF j < k THEN rows[j] ELSE rows[j + 1]) = rows[old(j)]
    OBVIOUS
  <2> QED BY <1>1, <2>1 DEF RowsWithout
<1> HIDE DEF k, n
<1>4. /\ \A j \in 1..(n - 1) : old(j) \in 1..n /\ old(j) # k
      /\ \A i, j \in 1..(n - 1) : old(i) = old(j) => i = j
      /\ \A i, j \in 1..(n - 1) : i < j => old(i) < old(j)
      /\ \A i \in 1..n : i # k => \E j \in 1..(n - 1) : old(j) = i
  <2>1. \A j \in 1..(n - 1) : old(j) \in 1..n /\ old(j) # k
    BY <1>2
  <2>2. \A i, j \in 1..(n - 1) : old(i) = old(j) => i = j
    BY <1>2
  <2>3. ASSUME NEW i \in 1..n, i # k PROVE \E j \in 1..(n - 1) : old(j) = i
    <3>1. CASE i < k
      <4>1. i \in 1..(n - 1) /\ old(i) = i
        BY <1>2, <3>1
      <4> QED BY <4>1
    <3>2. CASE i > k
      <4>1. i - 1 \in 1..(n - 1) /\ old(i - 1) = i
        BY <1>2, <3>2
      <4> QED BY <4>1
    <3> QED BY <1>2, <2>3, <3>1, <3>2
  <2>4. \A i, j \in 1..(n - 1) : i < j => old(i) < old(j)
    BY <1>2
  <2> QED BY <2>1, <2>2, <2>3, <2>4
<1> HIDE DEF old
<1>5. /\ rows' \in Seq(Row) /\ Len(rows') = n - 1 /\ DOMAIN rows' = 1..(n - 1) /\ n - 1 \in Nat
      /\ \A j \in 1..(n - 1) : rows'[j] = rows[old(j)]
  <2>1. n - 1 \in Nat
    BY <1>2
  <2>2. rows' \in [1..(n - 1) -> Row]
    BY <1>2, <1>3, <1>4
  <2>3. rows' \in Seq(Row) /\ DOMAIN rows' = 1..(n - 1)
    BY <2>1, <2>2, SeqDef
  <2>4. Len(rows') = n - 1
    BY <2>1, <2>3, LenProperties
  <2> QED BY <1>3, <2>1, <2>3, <2>4
<1>6. OnceEach'
  BY <1>2, <1>4, <1>5 DEF ListInv, OnceEach
<1>7. mailbox \in Boxes /\ rows[k].id \in MailIds
  BY <1>2 DEF ListInv, ListTypeOK
<1>8. /\ mailbox' \in Boxes
      /\ mailbox' = DeleteMail(mailbox, rows[k].id) =>
            \A q \in MailIds :
                mailbox'[q].type = IF q = rows[k].id /\ mailbox[q].type \in MailTypes
                                   THEN "DELETED" ELSE mailbox[q].type
  BY <1>1, <1>2, <1>7, DeleteMailEffect
<1>9. ListAgreesWithMailbox'
  <2> SUFFICES ASSUME ~dbFailed'
               PROVE  Agrees(rows', mailbox', fetched')
    BY DEF ListAgreesWithMailbox, Agrees, Shown
  <2>1. ~dbFailed /\ mailbox' = DeleteMail(mailbox, rows[k].id)
    BY <1>1, <1>2
  <2>2. Agrees(rows, mailbox, fetched)
    BY <2>1 DEF ListInv, ListAgreesWithMailbox, Agrees, Shown
  <2>3. \A q \in MailIds :
           mailbox'[q].type = IF q = rows[k].id /\ mailbox[q].type \in MailTypes
                              THEN "DELETED" ELSE mailbox[q].type
    BY <1>8, <2>1
  <2>4. rows[k].id \in ListedIds(mailbox)
    BY <1>2, <2>2 DEF Agrees
  <2>5. ListedIds(mailbox') = ListedIds(mailbox) \ {rows[k].id}
    BY <2>3, <2>4 DEF ListedIds, Listable, MailTypes
  <2>6. \A i \in 1..n : rows[i].id = rows[k].id => i = k
    BY <1>2 DEF ListInv, OnceEach
  <2>7. /\ \A j \in 1..(n - 1) : rows'[j].id \in ListedIds(mailbox')
        /\ \A i, j \in 1..(n - 1) : i < j => rows'[i].id > rows'[j].id
    <3>1. \A j \in 1..(n - 1) : rows'[j].id \in ListedIds(mailbox) \ {rows[k].id}
      BY <1>2, <1>4, <1>5, <2>2, <2>6 DEF Agrees
    <3>2. \A i, j \in 1..(n - 1) : i < j => rows'[i].id > rows'[j].id
      BY <1>2, <1>4, <1>5, <2>2 DEF Agrees
    <3> QED BY <2>5, <3>1, <3>2
  <2>8. \A j \in 1..(n - 1) : rows'[j].read <=> mailbox'[rows'[j].id].type # "UNREAD"
    <3> SUFFICES ASSUME NEW j \in 1..(n - 1)
                 PROVE  rows'[j].read <=> mailbox'[rows'[j].id].type # "UNREAD"
      OBVIOUS
    <3>1. rows'[j] = rows[old(j)] /\ old(j) \in 1..n /\ old(j) # k
      BY <1>4, <1>5
    <3>2. rows[old(j)].id \in MailIds /\ rows[old(j)].id # rows[k].id
      BY <1>2, <2>6, <3>1
    <3>3. mailbox'[rows[old(j)].id].type = mailbox[rows[old(j)].id].type
      BY <2>3, <3>2
    <3> QED BY <1>2, <2>2, <3>1, <3>3 DEF Agrees
  <2>9. ASSUME NEW r \in ListedIds(mailbox') \ {rows'[j].id : j \in 1..(n - 1)}
        PROVE  fetched' = Limit /\ \A j \in 1..(n - 1) : r < rows'[j].id
    <3>1. r \in ListedIds(mailbox) /\ r # rows[k].id
      BY <2>5
    <3>2. ASSUME NEW i \in 1..n PROVE rows[i].id # r
      <4>1. CASE i = k
        BY <3>1, <4>1
      <4>2. CASE i # k
        <5>1. PICK j \in 1..(n - 1) : old(j) = i
          BY <1>4, <4>2
        <5> QED BY <1>5, <2>9, <5>1
      <4> QED BY <4>1, <4>2
    <3>3. fetched = Limit /\ \A i \in 1..n : r < rows[i].id
      BY <1>2, <2>2, <3>1, <3>2 DEF Agrees
    <3> QED BY <1>1, <1>4, <1>5, <3>3
  <2> QED BY <1>5, <2>7, <2>8, <2>9 DEF Agrees
<1>10. BadgeCoversUnread'
  <2>1. rows \in Seq(Row) /\ unread \in Nat /\ Cardinality(Unread(rows)) <= unread
    BY DEF ListInv, ListTypeOK, BadgeCoversUnread, Unread
  <2>2. /\ IsFiniteSet(Unread(rows)) /\ Cardinality(Unread(rows)) \in Nat
    BY <2>1, UnreadIsFinite
  <2> DEFINE U == Unread(rows')
             V == Unread(rows)
             g == [j \in U |-> old(j)]
  <2>3. \A j \in U : j \in 1..(n - 1) /\ old(j) \in V
    BY <1>2, <1>4, <1>5 DEF Unread
  <2>4. g \in [U -> V]
    BY <2>3
  <2>5. \A i, j \in U : g[i] = g[j] => i = j
    BY <1>4, <2>3
  <2>8. Cardinality(U) \in Nat
    BY <1>5, UnreadIsFinite
  <2> HIDE DEF U, V, g
  <2>6. g \in Injection(U, V)
    BY <2>4, <2>5, Zenon DEF Injection, IsInjective
  <2>7. Cardinality(U) <= Cardinality(V)
    BY <2>2, <2>6, FS_Injection DEF V
  <2>9. Cardinality(U) <= unread
    BY <2>1, <2>2, <2>7, <2>8 DEF V
  <2> QED BY <1>1, <2>9 DEF BadgeCoversUnread, U, Unread
<1>11. ListTypeOK'
  <2>1. focusRow' \in Nat /\ (focusRow' = 0 \/ focusRow' < n - 1)
    <3>1. focusRow \in Nat
      BY DEF ListInv, ListTypeOK
    <3> QED BY <1>1, <1>5, <3>1 DEF ClampFocus, n
  <2>2. Len(rows') <= Limit
    BY <1>2, <1>5, InboxAssumption DEF InboxAssumption, ListInv, ListTypeOK, n
  <2> QED BY <1>1, <1>5, <1>8, <2>1, <2>2 DEF ListInv, ListTypeOK
<1> QED BY <1>6, <1>9, <1>10, <1>11 DEF ListInv

LEMMA InitListInv == InitInbox => ListInv
<1> SUFFICES ASSUME InitInbox PROVE ListInv
  OBVIOUS
<1>1. /\ mailbox = EmptyBox /\ rows = <<>> /\ fetched = 0 /\ focusRow = 0 /\ unread = 0
  BY DEF InitInbox
<1>2. mailbox \in Boxes /\ ListedIds(mailbox) = {}
  BY <1>1 DEF EmptyBox, Unused, Boxes, RowTypes, ListedIds, Listable
<1>3. rows \in Seq(Row) /\ DOMAIN rows = {} /\ Len(rows) <= Limit /\ 0 <= Limit
  BY <1>1, InboxAssumption DEF InboxAssumption
<1>4. Cardinality({i \in DOMAIN rows : ~rows[i].read}) = 0
  <2>1. {i \in DOMAIN rows : ~rows[i].read} = {}
    BY <1>3
  <2> QED BY <2>1, FS_EmptySet
<1> QED BY <1>1, <1>2, <1>3, <1>4 DEF ListInv, ListTypeOK, OnceEach, ListAgreesWithMailbox,
                                      BadgeCoversUnread
=============================================================================

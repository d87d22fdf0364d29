------------------------------ MODULE PanelProofs ------------------------------
(***************************************************************************)
(* Panel for any number of rows and any size of a page: types, that an id   *)
(* keeps its meaning, that a button does what it says, and that whoever     *)
(* follows the links to the last page has seen every row of the list.       *)
(***************************************************************************)
EXTENDS Panel, FiniteSetTheorems, TLAPS

Row == [id : Nat, text : Nat, active : BOOLEAN]

Typed ==
  /\ lastAnn \in Nat
  /\ anns \subseteq Row /\ tab \subseteq Row /\ closed \subseteq Row

\* No id is above the sequence.
BelowSequence == \A a \in anns \cup tab \cup closed : a.id <= lastAnn

\* A row of the table is the only one with its id.
IdIsKey == \A a, b \in anns : a.id = b.id => a = b

\* The page shows a row as it is, unless it was toggled since.
PageIsTrue == \A a \in tab, b \in anns : a.id = b.id /\ a.id \notin changed => a = b

Inv == Typed /\ BelowSequence /\ IdIsKey /\ PageIsTrue /\ IdsStayTrue

-----------------------------------------------------------------------------

LEMMA InitInv == Init => Inv
BY DEF Init, Inv, Typed, BelowSequence, IdIsKey, PageIsTrue, IdsStayTrue

\* What keeps the invariant of the announcements: nothing happens to them, or
\* rows disappear from the table.
LEMMA FewerInv ==
  ASSUME Inv, anns' \subseteq anns, UNCHANGED <<lastAnn, tab, changed, closed>>
  PROVE  Inv'
BY DEF Inv, Typed, BelowSequence, IdIsKey, PageIsTrue, IdsStayTrue

LEMMA DeleteInv ==
  ASSUME Inv, NEW a \in Row, DeleteAnnouncement(a.id), UNCHANGED <<lastAnn, tab, changed, closed>>
  PROVE  Inv'
BY FewerInv DEF DeleteAnnouncement

\* The new id is above all that were ever given out.
LEMMA AddInv ==
  ASSUME Inv, AddAnnouncement, texts \in Nat
  PROVE  Inv'
<1>1. PICK active \in BOOLEAN :
        anns' = anns \cup {[id |-> NextId, text |-> texts + 1, active |-> active]}
  BY DEF AddAnnouncement
<1> DEFINE new == [id |-> NextId, text |-> texts + 1, active |-> active]
<1>2. new \in Row /\ new.id = lastAnn + 1 /\ lastAnn' = lastAnn + 1
  BY DEF Inv, Typed, Row, NextId, AddAnnouncement
<1>3. UNCHANGED <<tab, changed, closed>> /\ anns' = anns \cup {new}
  BY <1>1 DEF AddAnnouncement, shown
<1> HIDE DEF new
<1>4. \A a \in anns \cup tab \cup closed : a.id \in Nat /\ a.id <= lastAnn /\ a.id # new.id
  BY <1>2 DEF Inv, Typed, BelowSequence, Row
<1>5. Typed' /\ BelowSequence'
  BY <1>2, <1>3, <1>4 DEF Inv, Typed, BelowSequence
<1>6. IdIsKey' /\ PageIsTrue' /\ IdsStayTrue'
  BY <1>3, <1>4 DEF Inv, IdIsKey, PageIsTrue, IdsStayTrue
<1> QED BY <1>5, <1>6 DEF Inv

\* A toggled row keeps its id and its text, and every row is what it was
\* or is toggled.
LEMMA ToggledRow ==
  ASSUME anns \subseteq Row, NEW id, ToggleAnnouncement(id), NEW b \in anns'
  PROVE  \E a \in anns :
           /\ b.id = a.id /\ b.text = a.text /\ b \in Row
           /\ a.id # id => b = a
           /\ a.id = id => b = [a EXCEPT !.active = ~@] /\ b.active = ~a.active
<1>1. PICK a \in anns : b = IF a.id = id THEN [a EXCEPT !.active = ~@] ELSE a
  BY DEF ToggleAnnouncement
<1>2. a \in Row
  OBVIOUS
<1>3. CASE a.id = id
  <2>1. b = [a EXCEPT !.active = ~@]
    BY <1>1, <1>3
  <2>2. b \in Row /\ b.id = a.id /\ b.text = a.text /\ b.active = ~a.active
    BY <1>2, <2>1 DEF Row
  <2> QED BY <1>3, <2>1, <2>2
<1>4. CASE a.id # id
  BY <1>1, <1>2, <1>4
<1> QED BY <1>3, <1>4

LEMMA ToggleInv ==
  ASSUME Inv, NEW id, ToggleAnnouncement(id), changed' = changed \cup {id},
         UNCHANGED <<lastAnn, tab, closed>>
  PROVE  Inv'
<1>1. \A b \in anns' : \E a \in anns :
        /\ b.id = a.id /\ b.text = a.text /\ b \in Row
        /\ a.id # id => b = a
        /\ a.id = id => b = [a EXCEPT !.active = ~@]
  BY ToggledRow DEF Inv, Typed
<1>2. Typed' /\ BelowSequence' /\ IdsStayTrue'
  BY <1>1 DEF Inv, Typed, BelowSequence, IdsStayTrue
<1>3. IdIsKey'
  BY <1>1 DEF Inv, IdIsKey
<1>4. PageIsTrue'
  BY <1>1 DEF Inv, PageIsTrue
<1> QED BY <1>2, <1>3, <1>4 DEF Inv

\* The page is loaded anew.
LEMMA ListInv ==
  ASSUME Inv, ListAnnouncements
  PROVE  Inv'
<1>1. tab' \subseteq anns /\ UNCHANGED <<anns, lastAnn, closed>>
  BY DEF ListAnnouncements, tables
<1>2. Typed' /\ BelowSequence' /\ IdIsKey'
  BY <1>1 DEF Inv, Typed, BelowSequence, IdIsKey
<1>3. PageIsTrue' /\ IdsStayTrue'
  BY <1>1 DEF Inv, IdIsKey, PageIsTrue, IdsStayTrue
<1> QED BY <1>2, <1>3 DEF Inv

LEMMA CloseInv ==
  ASSUME Inv, Close
  PROVE  Inv'
<1>1. PICK a \in anns : closed' = closed \cup {a}
  BY DEF Close, getAnnouncement
<1>2. UNCHANGED <<anns, lastAnn, tab, changed>>
  BY DEF Close, tables, shown
<1> QED BY <1>1, <1>2 DEF Inv, Typed, BelowSequence, IdIsKey, PageIsTrue, IdsStayTrue

-----------------------------------------------------------------------------

\* How many texts have been written.
TextsCounted == texts \in Nat

LEMMA StepInv ==
  ASSUME Inv, TextsCounted, [Next]_vars
  PROVE  Inv' /\ TextsCounted'
<1>1. ASSUME \/ AddQuestion \/ AddWord \/ DeleteRow \/ CountRows \/ ListRows
             \/ ListFails \/ Follow \/ UNCHANGED vars
      PROVE  UNCHANGED <<anns, lastAnn, texts, tab, changed, closed>>
  BY <1>1 DEF AddQuestion, AddWord, AddRow, DeleteRow, CountRows, ListRows, ListFails,
              Follow, vars, tables, shown
<1>2. CASE \/ AddQuestion \/ AddWord \/ DeleteRow \/ CountRows \/ ListRows
           \/ ListFails \/ Follow \/ UNCHANGED vars
  BY <1>1, <1>2, FewerInv DEF TextsCounted
<1>3. CASE AddAnnouncement
  BY <1>3, AddInv DEF TextsCounted, AddAnnouncement
<1>4. CASE OthersForm
  <2>1. PICK a \in anns :
          \/ DeleteAnnouncement(a.id) /\ UNCHANGED changed
          \/ ToggleAnnouncement(a.id) /\ changed' = changed \cup {a.id}
    BY <1>4 DEF OthersForm
  <2>2. UNCHANGED <<lastAnn, texts, tab, closed>> /\ a \in Row
    BY <1>4 DEF OthersForm, Inv, Typed
  <2> QED BY <2>1, <2>2, DeleteInv, ToggleInv DEF TextsCounted
<1>5. CASE ListAnnouncements
  BY <1>5, ListInv DEF TextsCounted, ListAnnouncements, tables
<1>6. ASSUME NEW a \in tab, Toggle(a)
      PROVE  Inv' /\ TextsCounted'
  BY <1>6, ToggleInv DEF Toggle, TextsCounted
<1>7. ASSUME NEW a \in tab, Delete(a)
      PROVE  Inv' /\ TextsCounted'
  <2>1. a \in Row
    BY <1>7 DEF Inv, Typed
  <2> QED BY <1>7, <2>1, DeleteInv DEF Delete, TextsCounted, shown
<1>8. CASE Close
  BY <1>8, CloseInv DEF Close, TextsCounted, tables
<1> QED BY <1>2, <1>3, <1>4, <1>5, <1>6, <1>7, <1>8 DEF Next

LEMMA InvCorrect == Spec => [](Inv /\ TextsCounted)
<1>1. Init => Inv /\ TextsCounted
  BY InitInv DEF Init, TextsCounted
<1> QED BY <1>1, StepInv, PTL DEF Spec

-----------------------------------------------------------------------------

(* A form on an old page acts on the announcement it shows or on none, and  *)
(* a phone hides only what its user has closed: no id is given out twice.   *)
THEOREM IdsCorrect == Spec => []IdsStayTrue
BY InvCorrect, PTL DEF Inv

(* The relative UPDATE does what the button says as long as nobody else has *)
(* toggled the row since the page was loaded.                               *)
THEOREM ButtonCorrect == Spec => ButtonKeepsItsWord
<1>1. ASSUME Inv, NEW a \in tab, Toggle(a), a.id \notin changed, NEW b \in anns', b.id = a.id
      PROVE  b.active = ~a.active
  <2>1. PICK c \in anns :
          /\ b.id = c.id
          /\ c.id = a.id => b.active = ~c.active
    BY <1>1, ToggledRow DEF Toggle, Inv, Typed
  <2>2. c = a
    BY <1>1, <2>1 DEF Inv, PageIsTrue
  <2> QED BY <2>1, <2>2
<1>2. ASSUME Inv, [Next]_vars
      PROVE  [\A a \in tab : Toggle(a) /\ a.id \notin changed =>
                \A b \in anns' : b.id = a.id => b.active = ~a.active]_vars
  BY <1>1, <1>2
<1> QED BY <1>2, InvCorrect, PTL DEF Spec, ButtonKeepsItsWord

-----------------------------------------------------------------------------
(* The walk through the pages of rows or words. *)

WalkTyped ==
  /\ rows \subseteq Position
  /\ page \in Nat \ {0} /\ pages \in Nat \ {0}
  /\ pc \in {"count", "list", "announcements", "shown"}

\* The rows not seen yet are behind the pages he has walked through.
Behind(n) == \A id \in unseen : id \in rows /\ Before(id) >= n * PageSize

WalkInv ==
  /\ WalkTyped
  /\ ~disturbed =>
       /\ pc = "list" => pages * PageSize >= Cardinality(rows)
       /\ pc \in {"count", "list"} /\ page # 1 => Behind(page - 1)
       /\ pc \in {"announcements", "shown"} => Behind(page)
  /\ WalkMissesNothing

USE PanelAssumption

LEMMA PositionFinite == IsFiniteSet(Position)
<1>1. IsFiniteSet(1 .. MaxQuestions) /\ IsFiniteSet(1 .. MaxWords)
  <2>1. 1 \in Int /\ MaxQuestions \in Int /\ MaxWords \in Int
    OBVIOUS
  <2> QED BY <2>1, FS_Interval
<1> QED BY <1>1, FS_Union DEF Position

LEMMA BeforeType ==
  ASSUME WalkTyped, NEW id
  PROVE  /\ IsFiniteSet(rows)
         /\ Cardinality(rows) \in Nat
         /\ Before(id) \in Nat
         /\ id \in rows => Before(id) < Cardinality(rows)
<1>1. IsFiniteSet(rows)
  BY PositionFinite, FS_Subset DEF WalkTyped
<1> DEFINE before == {q \in rows : q > id}
<1>2. before \subseteq rows /\ (id \in rows => before # rows)
  <2>1. ASSUME id \in rows
        PROVE  id \notin before
    BY <2>1 DEF WalkTyped, Position
  <2> QED BY <2>1
<1>3. IsFiniteSet(before) /\ Cardinality(before) <= Cardinality(rows)
        /\ (Cardinality(before) = Cardinality(rows) => before = rows)
  BY <1>1, <1>2, FS_Subset
<1>4. Cardinality(rows) \in Nat /\ Cardinality(before) \in Nat
  BY <1>1, <1>3, FS_CardinalityType
<1> HIDE DEF before
<1>5. id \in rows => Cardinality(before) < Cardinality(rows)
  BY <1>2, <1>3, <1>4
<1> QED BY <1>1, <1>4, <1>5 DEF Before, before

\* A page further.
LEMMA NextPage ==
  ASSUME NEW n \in Nat, NEW k \in Nat, n >= k * PageSize, n \div PageSize # k
  PROVE  n >= (k + 1) * PageSize
<1> DEFINE q == n \div PageSize
<1>1. q \in Nat /\ PageSize * q <= n /\ n < PageSize * q + PageSize
  BY SMT
<1> HIDE DEF q
<1>2. q >= k
  <2> SUFFICES ASSUME q + 1 <= k PROVE FALSE
    BY <1>1
  <2>1. PageSize * (q + 1) <= PageSize * k
    BY <1>1
  <2> QED BY <1>1, <2>1
<1>3. q >= k + 1
  BY <1>1, <1>2 DEF q
<1>4. PageSize * q >= PageSize * (k + 1)
  BY <1>1, <1>3
<1> QED BY <1>1, <1>4

\* The pages counted hold all rows.
LEMMA PagesSuffice ==
  ASSUME NEW total \in Nat
  PROVE  pageCount(total) \in Nat \ {0} /\ pageCount(total) * PageSize >= total
<1>1. CASE total = 0
  BY <1>1 DEF pageCount
<1>2. CASE total > 0
  <2> DEFINE n == total + PageSize - 1
             q == n \div PageSize
  <2>1. n \in Nat /\ n >= PageSize /\ q \in Nat /\ n < PageSize * q + PageSize
    BY <1>2
  <2>2. pageCount(total) = q
    BY <1>2 DEF pageCount
  <2> HIDE DEF q
  <2>3. q # 0 /\ PageSize * q >= total
    BY <2>1
  <2> QED BY <2>1, <2>2, <2>3
<1> QED BY <1>1, <1>2

\* A new row, wherever it comes, pushes no other row to the front.
LEMMA AddedBehind ==
  ASSUME WalkInv, NEW row \in Position, AddRow(row), NEW n \in Nat, Behind(n)
  PROVE  Behind(n)'
<1> SUFFICES ASSUME NEW id \in unseen
             PROVE  id \in rows' /\ Before(id)' >= n * PageSize
  BY DEF Behind, AddRow
<1>1. rows \subseteq rows' /\ WalkTyped'
  BY DEF AddRow, WalkInv, WalkTyped
<1>2. {q \in rows : q > id} \subseteq {q \in rows' : q > id}
  BY <1>1
<1>3. IsFiniteSet(rows')
  <2>1. IsFiniteSet(Position) /\ rows' \subseteq Position
    BY <1>1, PositionFinite DEF WalkTyped
  <2> QED BY <2>1, FS_Subset
<1>4. IsFiniteSet({q \in rows' : q > id})
  BY <1>3, FS_Subset
<1>5. Cardinality({q \in rows : q > id}) <= Cardinality({q \in rows' : q > id})
  BY <1>2, <1>4, FS_Subset
<1>6. id \in rows /\ Before(id) >= n * PageSize /\ Before(id) \in Nat
  BY BeforeType DEF Behind, WalkInv
<1>7. Cardinality({q \in rows' : q > id}) \in Nat
  BY <1>4, FS_CardinalityType
<1> QED BY <1>1, <1>5, <1>6, <1>7 DEF Before

LEMMA AddRowWalk ==
  ASSUME WalkInv, NEW row \in Position, AddRow(row)
  PROVE  WalkInv'
<1>1. WalkTyped'
  BY DEF WalkInv, WalkTyped, AddRow
<1>2. UNCHANGED <<pc, page, pages, unseen>> /\ disturbed' = (disturbed \/ pc = "list")
  BY DEF AddRow
<1>3. \A n \in Nat : Behind(n) => Behind(n)'
  BY AddedBehind
<1>4. page \in Nat /\ page - 1 \in Nat
  BY DEF WalkInv, WalkTyped
<1>5. WalkMissesNothing'
  BY <1>2 DEF WalkInv, WalkMissesNothing
<1>6. ASSUME ~disturbed', pc' \in {"count", "list"}, page' # 1
      PROVE  Behind(page - 1)'
  <2>1. Behind(page - 1)
    BY <1>2, <1>6 DEF WalkInv
  <2>2. \A id \in unseen : Before(id)' >= (page - 1) * PageSize /\ id \in rows'
    BY <1>2, <1>3, <1>4, <2>1 DEF Behind
  <2> QED BY <1>2, <2>2 DEF Behind
<1>7. ASSUME ~disturbed', pc' \in {"announcements", "shown"}
      PROVE  Behind(page)'
  <2>1. Behind(page)
    BY <1>2, <1>7 DEF WalkInv
  <2>2. \A id \in unseen : Before(id)' >= page * PageSize /\ id \in rows'
    BY <1>2, <1>3, <1>4, <2>1 DEF Behind
  <2> QED BY <1>2, <2>2 DEF Behind
<1> QED BY <1>1, <1>2, <1>5, <1>6, <1>7 DEF WalkInv

\* A deletion that does not disturb the walk happens before it.
LEMMA DeleteRowWalk ==
  ASSUME WalkInv, DeleteRow
  PROVE  WalkInv'
<1>1. rows' \subseteq rows /\ UNCHANGED <<pc, page, pages, unseen>>
        /\ disturbed' = (disturbed \/ page # 1 \/ pc \notin {"count", "list"})
  BY DEF DeleteRow
<1>2. WalkTyped'
  BY <1>1 DEF WalkInv, WalkTyped
<1>3. Cardinality(rows') <= Cardinality(rows) /\ Cardinality(rows') \in Nat
        /\ Cardinality(rows) \in Nat
  BY <1>1, BeforeType, FS_Subset, FS_CardinalityType DEF WalkInv
<1>4. WalkMissesNothing'
  BY <1>1 DEF WalkInv, WalkMissesNothing
<1>5. ASSUME ~disturbed'
      PROVE  /\ pc' = "list" => pages' * PageSize >= Cardinality(rows')
             /\ page' = 1 /\ pc' \in {"count", "list"}
  <2>1. pc = "list" => pages * PageSize >= Cardinality(rows)
    BY <1>1, <1>5 DEF WalkInv
  <2>2. pages * PageSize \in Nat
    BY DEF WalkInv, WalkTyped
  <2>3. pc = "list" => pages * PageSize >= Cardinality(rows')
    BY <1>3, <2>1, <2>2
  <2>4. page = 1 /\ pc \in {"count", "list"}
    BY <1>1, <1>5
  <2> QED BY <1>1, <2>3, <2>4
<1> QED BY <1>2, <1>4, <1>5 DEF WalkInv

\* The pages counted hold all rows, unless the count failed.
LEMMA CountWalk ==
  ASSUME WalkInv, CountRows
  PROVE  WalkInv'
<1>1. /\ pc = "count" /\ pc' = "list" /\ UNCHANGED <<rows, page, unseen>>
      /\ \/ pages' = pageCount(Cardinality(rows)) /\ UNCHANGED disturbed
         \/ pages' = pageCount(0) /\ disturbed'
  BY DEF CountRows, tables
<1>2. pages' \in Nat \ {0} /\ (~disturbed' => pages' * PageSize >= Cardinality(rows))
  <2>1. Cardinality(rows) \in Nat
    BY BeforeType DEF WalkInv
  <2> QED BY <1>1, <2>1, PagesSuffice
<1>3. WalkTyped' /\ WalkMissesNothing'
  BY <1>1, <1>2 DEF WalkInv, WalkTyped, WalkMissesNothing
<1>4. ~disturbed' /\ page # 1 => Behind(page - 1)'
  BY <1>1 DEF WalkInv, Behind, Before
<1> QED BY <1>1, <1>2, <1>3, <1>4 DEF WalkInv

\* What is on no page so far is behind this page; and behind the last page
\* there is nothing.
LEMMA ListWalk ==
  ASSUME WalkInv, ListRows
  PROVE  WalkInv'
<1>1. pc = "list" /\ pc' = "announcements"
        /\ unseen' = (IF page = 1 THEN rows ELSE unseen) \ RowsOf(page)
        /\ UNCHANGED <<rows, page, pages, disturbed>>
  BY DEF ListRows, tables
<1>2. WalkTyped'
  BY <1>1 DEF WalkInv, WalkTyped
<1>3. page \in Nat /\ page - 1 \in Nat /\ page >= 1 /\ pages \in Nat
  BY DEF WalkInv, WalkTyped
<1>4. ASSUME ~disturbed, NEW id \in unseen'
      PROVE  id \in rows /\ Before(id) >= page * PageSize
  <2>1. id \in rows /\ Before(id) \in Nat /\ Before(id) >= (page - 1) * PageSize
    <3>1. CASE page = 1
      BY <1>1, <1>4, <3>1, BeforeType DEF WalkInv
    <3>2. CASE page # 1
      BY <1>1, <1>4, <3>2, BeforeType DEF WalkInv, Behind
    <3> QED BY <3>1, <3>2
  <2>2. Before(id) \div PageSize # page - 1
    BY <1>1, <1>4, <2>1 DEF RowsOf
  <2>3. Before(id) >= (page - 1 + 1) * PageSize
    BY <1>3, <2>1, <2>2, NextPage
  <2> QED BY <1>3, <2>1, <2>3
<1>5. ASSUME ~disturbed, page >= pages
      PROVE  unseen' = {}
  <2> SUFFICES ASSUME NEW id \in unseen' PROVE FALSE
    OBVIOUS
  <2>1. pages * PageSize >= Cardinality(rows)
    BY <1>1, <1>5 DEF WalkInv
  <2>2. page * PageSize >= pages * PageSize
    BY <1>3, <1>5
  <2>3. /\ Before(id) < Cardinality(rows)
        /\ Before(id) \in Nat /\ Cardinality(rows) \in Nat
        /\ Before(id) >= page * PageSize
    BY <1>4, <1>5, BeforeType DEF WalkInv
  <2>4. page * PageSize \in Nat /\ pages * PageSize \in Nat
    BY <1>3
  <2> QED BY <2>1, <2>2, <2>3, <2>4
<1>6. WalkMissesNothing'
  BY <1>1, <1>5 DEF WalkMissesNothing
<1>7. ~disturbed => Behind(page)'
  BY <1>1, <1>4 DEF Behind, Before
<1> QED BY <1>1, <1>2, <1>6, <1>7 DEF WalkInv

LEMMA ListAnnouncementsWalk ==
  ASSUME WalkInv, ListAnnouncements
  PROVE  WalkInv'
<1>1. pc = "announcements" /\ pc' = "shown"
        /\ UNCHANGED <<rows, page, pages, unseen, disturbed>>
  BY DEF ListAnnouncements, tables
<1> QED BY <1>1 DEF WalkInv, WalkTyped, Behind, Before, WalkMissesNothing

\* What is behind a page is behind those before it.
LEMMA BehindEarlier ==
  ASSUME WalkInv, NEW n \in Nat, NEW k \in 0 .. n, Behind(n)
  PROVE  Behind(k)
<1> SUFFICES ASSUME NEW id \in unseen
             PROVE  id \in rows /\ Before(id) >= k * PageSize
  BY DEF Behind
<1>1. id \in rows /\ Before(id) >= n * PageSize /\ Before(id) \in Nat
  BY BeforeType DEF Behind, WalkInv
<1>2. n * PageSize >= k * PageSize
  OBVIOUS
<1>3. n * PageSize \in Nat /\ k * PageSize \in Nat
  OBVIOUS
<1> QED BY <1>1, <1>2, <1>3

\* The page asked for: the first one, or one behind which the rows not seen are.
LEMMA LoadWalk ==
  ASSUME WalkInv, NEW p \in Nat \ {0}, Load(p), UNCHANGED rows,
         ~disturbed /\ p # 1 => Behind(p - 1)
  PROVE  WalkInv'
<1>1. page' = p /\ pc' = "count" /\ disturbed' = (disturbed /\ p # 1)
        /\ UNCHANGED <<pages, unseen>>
  BY DEF Load
<1>2. WalkTyped'
  BY <1>1 DEF WalkInv, WalkTyped
<1>3. WalkMissesNothing'
  BY <1>1 DEF WalkMissesNothing
<1>4. ASSUME ~disturbed', p # 1
      PROVE  Behind(page - 1)'
  <2>1. \A id \in unseen : id \in rows /\ Before(id) >= (p - 1) * PageSize
    BY <1>1, <1>4 DEF Behind
  <2>2. \A id : Before(id)' = Before(id)
    BY DEF Before
  <2> QED BY <1>1, <2>1, <2>2 DEF Behind
<1> QED BY <1>1, <1>2, <1>3, <1>4 DEF WalkInv

\* An error page, and the same page again.
LEMMA ListFailsWalk ==
  ASSUME WalkInv, ListFails
  PROVE  WalkInv'
<1>1. pc = "list" /\ Load(page) /\ UNCHANGED rows /\ page \in Nat \ {0}
  BY DEF ListFails, tables, WalkInv, WalkTyped
<1>2. ~disturbed /\ page # 1 => Behind(page - 1)
  BY <1>1 DEF WalkInv
<1> QED BY <1>1, <1>2, LoadWalk

LEMMA FollowWalk ==
  ASSUME WalkInv, Follow
  PROVE  WalkInv'
<1>1. pc = "shown" /\ UNCHANGED rows /\ page \in Nat \ {0} /\ (~disturbed => Behind(page))
  BY DEF Follow, tables, WalkInv, WalkTyped
<1>2. PICK p \in Nat \ {0} : Load(p) /\ (p = 1 \/ p - 1 \in 0 .. page)
  BY <1>1 DEF Follow
<1>3. ~disturbed /\ p # 1 => Behind(p - 1)
  BY <1>1, <1>2, BehindEarlier
<1> QED BY <1>1, <1>2, <1>3, LoadWalk

LEMMA WalkStutters ==
  ASSUME WalkInv, UNCHANGED <<rows, walk>>
  PROVE  WalkInv'
BY DEF walk, WalkInv, WalkTyped, Behind, Before, WalkMissesNothing

WalkRestTyped ==
  /\ lastQuestion \in 0 .. MaxQuestions
  /\ list \in {"questions", "words"}
  /\ unseen \subseteq Position
  /\ disturbed \in BOOLEAN

LEMMA AddsPosition ==
  ASSUME WalkRestTyped, AddQuestion \/ AddWord
  PROVE  /\ \E row \in Position : AddRow(row)
         /\ lastQuestion' \in 0 .. MaxQuestions
<1>1. CASE AddQuestion
  <2>1. lastQuestion' \in 1 .. MaxQuestions /\ AddRow(lastQuestion')
    BY <1>1 DEF AddQuestion, WalkRestTyped
  <2> QED BY <2>1 DEF Position
<1>2. CASE AddWord
  BY <1>2 DEF AddWord, WalkRestTyped, Position
<1> QED BY <1>1, <1>2

LEMMA WalkStep ==
  ASSUME WalkInv, WalkRestTyped, [Next]_vars
  PROVE  WalkInv'
<1>1. CASE AddAnnouncement \/ OthersForm \/ Close \/ UNCHANGED vars
  BY <1>1, WalkStutters DEF AddAnnouncement, OthersForm, Close, vars, tables
<1>2. ASSUME NEW a \in tab, Toggle(a) \/ Delete(a)
      PROVE  WalkInv'
  <2>1. UNCHANGED rows /\ (Load(1) \/ UNCHANGED walk)
    BY <1>2 DEF Toggle, Delete
  <2> QED BY <2>1, LoadWalk, WalkStutters
<1>3. CASE AddQuestion \/ AddWord
  <2>1. PICK row \in Position : AddRow(row)
    BY <1>3, AddsPosition
  <2> QED BY <2>1, AddRowWalk
<1> QED BY <1>1, <1>2, <1>3, DeleteRowWalk, CountWalk, ListWalk, ListFailsWalk,
           ListAnnouncementsWalk, FollowWalk DEF Next

LEMMA WalkRestTypedStep ==
  ASSUME WalkInv, WalkRestTyped, [Next]_vars
  PROVE  WalkRestTyped'
<1>1. CASE AddQuestion \/ AddWord
  <2>1. PICK row \in Position : AddRow(row)
    BY <1>1, AddsPosition
  <2>2. UNCHANGED <<list, unseen>> /\ disturbed' \in BOOLEAN
    BY <2>1 DEF AddRow
  <2> QED BY <1>1, <2>2, AddsPosition DEF WalkRestTyped
<1>2. CASE DeleteRow
  BY <1>2 DEF DeleteRow, WalkRestTyped
<1>3. CASE ListRows
  BY <1>3 DEF ListRows, tables, WalkRestTyped, WalkInv, WalkTyped
<1>4. ASSUME UNCHANGED <<list, lastQuestion>>, UNCHANGED walk \/ (\E p : Load(p))
      PROVE  WalkRestTyped'
  BY <1>4 DEF WalkRestTyped, walk, Load
<1>5. CASE Follow \/ ListFails
  BY <1>4, <1>5 DEF Follow, ListFails, tables
<1>6. ASSUME NEW a \in tab, Toggle(a) \/ Delete(a)
      PROVE  WalkRestTyped'
  BY <1>4, <1>6 DEF Toggle, Delete
<1>7. CASE AddAnnouncement \/ OthersForm \/ Close \/ UNCHANGED vars
  BY <1>4, <1>7 DEF AddAnnouncement, OthersForm, Close, vars, tables
<1>8. CASE CountRows \/ ListAnnouncements
  BY <1>8 DEF CountRows, ListAnnouncements, tables, WalkRestTyped
<1> QED BY <1>1, <1>2, <1>3, <1>5, <1>6, <1>7, <1>8 DEF Next

LEMMA WalkInvCorrect == Spec => [](WalkInv /\ WalkRestTyped)
<1>1. Init => WalkInv
  BY DEF Init, WalkInv, WalkTyped, Behind, WalkMissesNothing
<1>2. Init => WalkRestTyped
  <2> SUFFICES ASSUME Init PROVE WalkRestTyped
    OBVIOUS
  <2>1. lastQuestion = 0 /\ list \in {"questions", "words"} /\ unseen = {} /\ disturbed \in BOOLEAN
    BY DEF Init
  <2> QED BY <2>1 DEF WalkRestTyped
<1> QED BY <1>1, <1>2, WalkStep, WalkRestTypedStep, PTL DEF Spec

(* Whoever follows the links from the first page to the last has seen every *)
(* row of the list, whatever is added meanwhile: ListRows pages by position *)
(* and a row added never pulls another forward, and the pages counted hold  *)
(* all rows.                                                                *)
THEOREM WalkCorrect == Spec => []WalkMissesNothing
BY WalkInvCorrect, PTL DEF WalkInv

-----------------------------------------------------------------------------
(* Types. *)

AnnsTyped ==
  /\ lastAnn \in 0 .. MaxAnns /\ texts = lastAnn
  /\ anns \subseteq Announcement /\ tab \subseteq Announcement /\ closed \subseteq Announcement
  /\ changed \subseteq 1 .. MaxAnns

LEMMA ToggledType ==
  ASSUME anns \subseteq Announcement, NEW id, ToggleAnnouncement(id)
  PROVE  anns' \subseteq Announcement
<1>1. ASSUME NEW a \in anns
      PROVE  (IF a.id = id THEN [a EXCEPT !.active = ~@] ELSE a) \in Announcement
  BY <1>1 DEF Announcement
<1> QED BY <1>1 DEF ToggleAnnouncement

LEMMA AnnsTypedStep ==
  ASSUME AnnsTyped, [Next]_vars
  PROVE  AnnsTyped'
<1>1. ASSUME \/ AddQuestion \/ AddWord \/ DeleteRow \/ CountRows \/ ListRows
             \/ ListFails \/ Follow \/ UNCHANGED vars
      PROVE  UNCHANGED <<anns, lastAnn, texts, tab, changed, closed>>
  BY <1>1 DEF AddQuestion, AddWord, AddRow, DeleteRow, CountRows, ListRows, ListFails,
              Follow, vars, tables, shown
<1>2. CASE \/ AddQuestion \/ AddWord \/ DeleteRow \/ CountRows \/ ListRows
           \/ ListFails \/ Follow \/ UNCHANGED vars
  BY <1>1, <1>2 DEF AnnsTyped
<1>3. CASE AddAnnouncement
  <2>1. PICK active \in BOOLEAN :
          anns' = anns \cup {[id |-> NextId, text |-> texts + 1, active |-> active]}
    BY <1>3 DEF AddAnnouncement
  <2>2. [id |-> NextId, text |-> texts + 1, active |-> active] \in Announcement
    BY <1>3 DEF AnnsTyped, AddAnnouncement, NextId, Announcement
  <2>3. lastAnn' \in 0 .. MaxAnns /\ texts' = lastAnn'
    BY <1>3 DEF AnnsTyped, AddAnnouncement, NextId
  <2> QED BY <1>3, <2>1, <2>2, <2>3 DEF AnnsTyped, AddAnnouncement, shown
<1>4. ASSUME NEW a \in Announcement, DeleteAnnouncement(a.id) \/ ToggleAnnouncement(a.id),
             changed' \in {changed, changed \cup {a.id}}, UNCHANGED <<lastAnn, texts, tab, closed>>
      PROVE  AnnsTyped'
  <2>1. anns' \subseteq Announcement
    BY <1>4, ToggledType DEF AnnsTyped, DeleteAnnouncement
  <2>2. a.id \in 1 .. MaxAnns
    BY <1>4 DEF Announcement
  <2> QED BY <1>4, <2>1, <2>2 DEF AnnsTyped
<1>5. CASE OthersForm
  <2>1. PICK a \in anns :
          \/ DeleteAnnouncement(a.id) /\ UNCHANGED changed
          \/ ToggleAnnouncement(a.id) /\ changed' = changed \cup {a.id}
    BY <1>5 DEF OthersForm
  <2>2. UNCHANGED <<lastAnn, texts, tab, closed>> /\ a \in Announcement
    BY <1>5 DEF OthersForm, AnnsTyped
  <2> QED BY <1>4, <2>1, <2>2
<1>6. CASE ListAnnouncements
  BY <1>6 DEF ListAnnouncements, tables, AnnsTyped
<1>7. ASSUME NEW a \in tab, Toggle(a) \/ Delete(a)
      PROVE  AnnsTyped'
  <2>1. a \in Announcement /\ UNCHANGED <<lastAnn, texts, tab, closed>>
    BY <1>7 DEF AnnsTyped, Toggle, Delete, shown
  <2>2. changed' \in {changed, changed \cup {a.id}}
          /\ (DeleteAnnouncement(a.id) \/ ToggleAnnouncement(a.id))
    BY <1>7 DEF Toggle, Delete, shown
  <2> QED BY <1>4, <2>1, <2>2
<1>8. CASE Close
  BY <1>8 DEF Close, getAnnouncement, tables, shown, AnnsTyped
<1> QED BY <1>2, <1>3, <1>5, <1>6, <1>7, <1>8 DEF Next

(* Every variable of the panel keeps its type; the number of the last page  *)
(* is at least 1, on an empty table too.                                    *)
THEOREM TypeCorrect == Spec => []TypeOK
<1>1. Init => AnnsTyped
  BY DEF Init, AnnsTyped
<1>2. WalkInv /\ WalkRestTyped /\ AnnsTyped => TypeOK
  BY DEF WalkInv, WalkTyped, WalkRestTyped, AnnsTyped, TypeOK
<1> QED BY <1>1, <1>2, WalkInvCorrect, AnnsTypedStep, PTL DEF Spec

=============================================================================

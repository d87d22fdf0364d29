------------------------------- MODULE Panel -------------------------------
(***************************************************************************)
(* The admin panel as one operator sees it: the pages of questions, or     *)
(* those of the words he searched for, which he walks through while others *)
(* add and delete rows, and the list of announcements with its forms,      *)
(* which name a row by the id it had when the page was loaded.  A page is  *)
(* put together from several queries.  Phones show the active              *)
(* announcements but those their user has closed.                          *)
(***************************************************************************)
EXTENDS Integers, FiniteSets, FiniteSetsExt

CONSTANTS
  PageSize,       \* adminPageSize: 20
  MaxQuestions,   \* bound: questions ever added
  MaxWords,       \* bound: words to be had
  MaxAnns         \* bound: announcements ever added

ASSUME PanelAssumption ==
  /\ PageSize \in Nat \ {0}
  /\ MaxQuestions \in Nat /\ MaxWords \in Nat /\ MaxAnns \in Nat

VARIABLES
  list,           \* the list he walks through, "questions" or "words"
  rows,           \* its rows by their order: the greater number comes first
  lastQuestion,   \* the sequence of the ids of questions, which are their order
  anns,           \* the rows of the table announcements
  lastAnn,        \* the sequence of its ids
  texts,          \* history: how many announcements have been written
  pc,             \* the request for a page: its next query, or "shown"
  page, pages,    \* the page the operator looks at, and of how many
  unseen,         \* history: rows on no page since he began at the first one
  disturbed,      \* history: whether his walk through the pages was disturbed
  tab,            \* the announcements on his page
  changed,        \* history: the ids of those that were toggled since
  closed          \* the announcements a phone's user has closed

tables == <<list, rows, lastQuestion, anns, lastAnn, texts>>
walk == <<pc, page, pages, unseen, disturbed>>
shown == <<tab, changed>>
vars == <<tables, walk, shown, closed>>

Init ==
  /\ list \in {"questions", "words"} /\ rows = {} /\ lastQuestion = 0
  /\ anns = {} /\ lastAnn = 0 /\ texts = 0
  /\ pc = "count" /\ page = 1 /\ pages = 1 /\ unseen = {} /\ disturbed = FALSE
  /\ tab = {} /\ changed = {}
  /\ closed = {}

-----------------------------------------------------------------------------
(* The statements of the handlers, whoever sent the form. *)

AddRow(row) ==
  /\ rows' = rows \cup {row}
  /\ disturbed' = (disturbed \/ pc = "list")
  /\ UNCHANGED <<list, anns, lastAnn, texts, pc, page, pages, unseen, shown, closed>>

\* A question is the first of its list.
AddQuestion ==
  /\ list = "questions"
  /\ lastQuestion < MaxQuestions
  /\ lastQuestion' = lastQuestion + 1
  /\ AddRow(lastQuestion')

\* A word comes where its length and its letters put it.
AddWord ==
  /\ list = "words"
  /\ \E row \in (1 .. MaxWords) \ rows : AddRow(row)
  /\ UNCHANGED lastQuestion

\* Another operator deletes a row; those after it move up.
DeleteRow ==
  /\ \E row \in rows : rows' = rows \ {row}
  /\ disturbed' = (disturbed \/ page # 1 \/ pc \notin {"count", "list"})
  /\ UNCHANGED <<list, lastQuestion, anns, lastAnn, texts, pc, page, pages, unseen, shown, closed>>

\* Mutant: an id is given out again after its row is gone.
NextIdReused == Max({a.id : a \in anns} \cup {0}) + 1

\* A BIGSERIAL column gives out no id twice.
NextId == lastAnn + 1

AddAnnouncement ==
  /\ texts < MaxAnns
  /\ \E active \in BOOLEAN :
       anns' = anns \cup {[id |-> NextId, text |-> texts + 1, active |-> active]}
  /\ lastAnn' = NextId
  /\ texts' = texts + 1
  /\ UNCHANGED <<list, rows, lastQuestion, walk, shown, closed>>

DeleteAnnouncement(id) == anns' = {a \in anns : a.id # id}

\* Mutant: the row is made active.
ToggleActivates(id) ==
  anns' = {IF a.id = id THEN [a EXCEPT !.active = TRUE] ELSE a : a \in anns}

\* UPDATE ... SET active = NOT active: of no row, if it is gone.
ToggleAnnouncement(id) ==
  anns' = {IF a.id = id THEN [a EXCEPT !.active = ~@] ELSE a : a \in anns}

\* Another operator's form.
OthersForm ==
  /\ \E a \in anns :
       \/ DeleteAnnouncement(a.id) /\ UNCHANGED changed
       \/ ToggleAnnouncement(a.id) /\ changed' = changed \cup {a.id}
  /\ UNCHANGED <<list, rows, lastQuestion, lastAnn, texts, walk, tab, closed>>

-----------------------------------------------------------------------------
(* GET /admin. *)

\* Mutant: the last page is missing unless it is full.
pageCountDown(total) == IF total < PageSize THEN 1 ELSE total \div PageSize

\* Mutant: an empty table has no page.
pageCountNone(total) == (total + PageSize - 1) \div PageSize

pageCount(total) == IF total <= 0 THEN 1 ELSE (total + PageSize - 1) \div PageSize

\* ORDER BY ... LIMIT PageSize OFFSET (p - 1) * PageSize.
Before(row) == Cardinality({q \in rows : q > row})
RowsOf(p) == {q \in rows : Before(q) \div PageSize = p - 1}

\* A count that fails is taken for 0: the page says it is the only one.
CountRows ==
  /\ pc = "count"
  /\ \/ pages' = pageCount(Cardinality(rows)) /\ UNCHANGED disturbed
     \/ pages' = pageCount(0) /\ disturbed' = TRUE
  /\ pc' = "list"
  /\ UNCHANGED <<tables, page, unseen, shown, closed>>

ListRows ==
  /\ pc = "list"
  /\ unseen' = (IF page = 1 THEN rows ELSE unseen) \ RowsOf(page)
  /\ pc' = "announcements"
  /\ UNCHANGED <<tables, page, pages, disturbed, shown, closed>>

\* A query for announcements that fails leaves the list empty.
ListAnnouncements ==
  /\ pc = "announcements"
  /\ tab' \in {anns, {}}
  /\ changed' = {}
  /\ pc' = "shown"
  /\ UNCHANGED <<tables, page, pages, unseen, disturbed, closed>>

\* A walk is disturbed only by what happens after it has begun.
Load(p) ==
  /\ page' = p
  /\ pc' = "count"
  /\ disturbed' = (disturbed /\ p # 1)
  /\ UNCHANGED <<pages, unseen>>

\* The page cannot be listed: the operator gets an error, and asks again.
ListFails ==
  /\ pc = "list"
  /\ Load(page)
  /\ UNCHANGED <<tables, shown, closed>>

\* The links to the page before and the next one, or the first page again.
Follow ==
  /\ pc = "shown"
  /\ \/ Load(1)
     \/ page > 1 /\ Load(page - 1)
     \/ page < pages /\ Load(page + 1)
  /\ UNCHANGED <<tables, shown, closed>>

\* A form on the page: the handler answers with a redirect to the first page.
\* If the answer is lost the page stays and the form may be sent again.
Toggle(a) ==
  /\ pc = "shown"
  /\ a \in tab
  /\ ToggleAnnouncement(a.id)
  /\ changed' = changed \cup {a.id}
  /\ Load(1) \/ UNCHANGED walk
  /\ UNCHANGED <<list, rows, lastQuestion, lastAnn, texts, tab, closed>>

Delete(a) ==
  /\ pc = "shown"
  /\ a \in tab
  /\ DeleteAnnouncement(a.id)
  /\ Load(1) \/ UNCHANGED walk
  /\ UNCHANGED <<list, rows, lastQuestion, lastAnn, texts, shown, closed>>

\* GET /api/v1/announcement, and the user closes one of the cards.
getAnnouncement == {a \in anns : a.active /\ a.id \notin {c.id : c \in closed}}

Close ==
  /\ \E a \in getAnnouncement : closed' = closed \cup {a}
  /\ UNCHANGED <<tables, walk, shown>>

Next ==
  \/ AddQuestion \/ AddWord \/ DeleteRow \/ AddAnnouncement \/ OthersForm
  \/ CountRows \/ ListRows \/ ListFails \/ ListAnnouncements \/ Follow
  \/ \E a \in tab : Toggle(a) \/ Delete(a)
  \/ Close

Spec == Init /\ [][Next]_vars

-----------------------------------------------------------------------------

Position == 1 .. MaxQuestions \cup 1 .. MaxWords
Announcement == [id : 1 .. MaxAnns, text : 1 .. MaxAnns, active : BOOLEAN]

TypeOK ==
  /\ list \in {"questions", "words"}
  /\ rows \subseteq Position /\ lastQuestion \in 0 .. MaxQuestions
  /\ anns \subseteq Announcement /\ lastAnn \in 0 .. MaxAnns /\ texts \in 0 .. MaxAnns
  /\ pc \in {"count", "list", "announcements", "shown"}
  /\ page \in Nat \ {0} /\ pages \in Nat \ {0}
  /\ unseen \subseteq Position /\ disturbed \in BOOLEAN
  /\ tab \subseteq Announcement /\ changed \subseteq 1 .. MaxAnns
  /\ closed \subseteq Announcement

(* Whoever follows the links from the first page to the last one, and back  *)
(* where he likes, has seen every question, or word, that was there when he *)
(* began, although rows are added meanwhile and push others to later pages  *)
(* - unless another operator deletes one, one is added between counting and *)
(* listing, or a count fails.                                               *)
WalkMissesNothing ==
  pc \in {"announcements", "shown"} /\ page >= pages /\ ~disturbed => unseen = {}

(* An id keeps its meaning in the places where it outlives its row: the     *)
(* forms of a page loaded long ago act on the announcement that was shown   *)
(* there or on none, and a phone hides no announcement but those its user   *)
(* has closed.                                                              *)
IdsStayTrue ==
  \A a \in tab \cup closed, b \in anns : a.id = b.id => a.text = b.text

(* The button of a page does what it says (Pasiflestir, Aktiflestir) unless *)
(* the announcement has been toggled since the page was loaded - by another *)
(* operator, or by the same form when its answer was lost.                  *)
ButtonKeepsItsWord ==
  [][\A a \in tab : Toggle(a) /\ a.id \notin changed =>
       \A b \in anns' : b.id = a.id => b.active = ~a.active]_vars

=============================================================================

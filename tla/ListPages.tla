----------------------------- MODULE ListPages -----------------------------
(***************************************************************************)
(* The file list and the account list, read page by page while others      *)
(* upload, rename and delete.  A response is built from two statements,    *)
(* the count of the rows and the rows of one page, each of which sees what *)
(* is committed when it runs; the pager of the table that is shown offers  *)
(* the pages of the count it was built with.                               *)
(*                                                                         *)
(* Rows are numbered by created_at, the time the transaction began that    *)
(* inserted them: they appear in the list when it commits, which may be    *)
(* after newer ones.                                                       *)
(***************************************************************************)
EXTENDS Integers, FiniteSets

CONSTANTS
  N,            \* bound: the rows there ever are; the highest is the newest
  Initially,    \* how many of them are there at the start
  Size,         \* the page sizes a URL may ask for ...
  DefaultSize,  \* ... and the one of every link of the pager
  MaxPage,      \* bound: the pages a URL may ask for
  MaxChanges    \* bound: how many deletions, updates and expiries are explored

Row == 1..N

ASSUME SizeAssumption ==
  /\ N \in Nat /\ Initially \in 0..N /\ MaxPage \in Nat \ {0} /\ MaxChanges \in Nat
  /\ Size \subseteq Nat \ {0} /\ DefaultSize \in Size

VARIABLES
  list,     \* which list it is: "files" or "accounts"
  row,      \* what became of each row
  match,    \* the rows that meet the conditions on name, type and category ...
  cutoff,   \* ... and the newest row that is too old for date_range
  changes,
  request,  \* the request that is being answered
  shown,    \* the table the reader has
  walk,     \* history: a reading of pages 1, 2, ... in this order
  late,     \* history: the newest row that came between the last count and its page
  shrunk    \* history: whether rows went since the count of the table, of the request

vars == <<list, row, match, cutoff, changes, request, shown, walk, late, shrunk>>
database == <<list, row, match, cutoff, changes>>

\* The conditions on name, type and category (_build_file_query,
\* _build_user_query, get_files), which a request may come without.  Rows of
\* other owners, which an ordinary user never gets, are not among Row.
Matching(r, m, filtered) == {f \in Row : r[f] = "listed" /\ (filtered => f \in m)}

\* With them goes date_range, reckoned from the time `since` of the request.
Listed(filtered, since) ==
  {f \in Matching(row, match, filtered) : filtered => f > since}

\* ORDER BY created_at DESC OFFSET (page - 1) * size LIMIT size.
\* Variant: a limit of one row more.
Above(S, f) == Cardinality({g \in S : g > f})
PageOfWide(S, page, size) ==
  {f \in S : (page - 1) * size <= Above(S, f) /\ Above(S, f) <= (page - 1) * size + size}
PageOf(S, page, size) ==
  {f \in S : (page - 1) * size <= Above(S, f) /\ Above(S, f) < (page - 1) * size + size}

\* total_pages, rounded up (get_files turns the 0 of an empty list into 1).
\* Variants: rounded down; one page more than are full.
PagesFull(r) == r.total \div r.size
PagesOneMore(r) == r.total \div r.size + 1
Pages(r) == (r.total + r.size - 1) \div r.size

\* A request: the statements still to run, and what it asks for.
Statement == {"none", "count", "page"}
Request ==
  [now : Statement, then : Statement, page : Nat \ {0}, size : Size, filtered : BOOLEAN,
   since : 0..N, total : 0..N, offered : BOOLEAN]
Nothing ==
  [now |-> "none", then |-> "none", page |-> 1, size |-> DefaultSize, filtered |-> FALSE,
   since |-> 0, total |-> 0, offered |-> FALSE]
Idle == request.now = "none"
Last(statement) == request.now = statement /\ request.then = "none"
Selected == Listed(request.filtered, request.since)

Lost == [page |-> 0, size |-> DefaultSize, filtered |-> FALSE, seen |-> {}, twice |-> {},
         steady |-> {}, left |-> 0, came |-> 0]
Walk ==
  [page : Nat,              \* the page it has reached, 0 without a walk
   size : Size, filtered : BOOLEAN,
   seen : SUBSET Row,       \* the rows on its pages ...
   twice : SUBSET Row,      \* ... and on more than one of them
   steady : SUBSET Row,     \* the rows that have been listed all the time
   left : 0..N,             \* the newest row that went since it began ...
   came : 0..N]             \* ... and that came

TypeOK ==
  /\ list \in {"files", "accounts"}
  /\ row \in [Row -> {"none", "coming", "listed", "gone"}]
  /\ match \subseteq Row
  /\ cutoff \in 0..N
  /\ changes \in 0..MaxChanges
  /\ request \in Request /\ shown \in Request
  /\ walk \in Walk
  /\ late \in 0..N
  /\ shrunk \in [table : BOOLEAN, request : BOOLEAN]

-----------------------------------------------------------------------------
\* What a change of row f, or of its name, means for those who are reading.
Later(a, b) == IF a > b THEN a ELSE b
Watch(f) ==
  LET Goes(filtered) == f \in Matching(row, match, filtered) \ Matching(row', match', filtered)
      Comes(filtered) == f \in Matching(row', match', filtered) \ Matching(row, match, filtered)
  IN /\ walk' = IF walk.page = 0 THEN walk ELSE
          [walk EXCEPT !.steady = IF Goes(walk.filtered) THEN @ \ {f} ELSE @,
                       !.left = IF Goes(walk.filtered) THEN Later(f, @) ELSE @,
                       !.came = IF Comes(walk.filtered) THEN Later(f, @) ELSE @]
     /\ late' = IF Last("page") /\ Comes(request.filtered)
                THEN Later(f, late) ELSE late
     /\ shrunk' = [table |-> shrunk.table \/ Goes(shown.filtered),
                   request |-> Last("page")
                                 /\ (shrunk.request \/ Goes(request.filtered))]

Changed == changes < MaxChanges /\ changes' = changes + 1

\* The request of the reader, once the handler has its parameters.
Ask(first, second, page, size, filtered, offered) ==
  /\ Idle
  /\ request' = [now |-> first, then |-> second, page |-> page, size |-> size,
                 filtered |-> filtered, since |-> IF filtered THEN cutoff ELSE 0,
                 total |-> 0, offered |-> offered]

\* The first page of everything, which the handlers that change a row answer
\* with: the page first for files, the count first for accounts.
FirstPage(first, second) == Ask(first, second, 1, DefaultSize, FALSE, FALSE)

\* upload_file, create_user: the transaction begins (authentication is its
\* first statement) ...
Begin(f) ==
  /\ row[f] = "none" /\ \A g \in Row : g < f => row[g] # "none"
  /\ row' = [row EXCEPT ![f] = "coming"]
  /\ UNCHANGED <<list, match, cutoff, changes, request, shown, walk, late, shrunk>>

\* ... and ends without a row (413, 415, an address in use, a failure) ...
Refuse(f) ==
  /\ row[f] = "coming"
  /\ row' = [row EXCEPT ![f] = "gone"]
  /\ UNCHANGED <<list, match, cutoff, changes, request, shown, walk, late, shrunk>>

\* ... or with one.
Insert(f) ==
  /\ row[f] = "coming"
  /\ row' = [row EXCEPT ![f] = "listed"]
  /\ match' \in {match, match \cup {f}}
  /\ UNCHANGED <<list, cutoff, changes, shown>>
  /\ Watch(f)

\* POST /api/files/upload, by somebody else or by the reader, whose browser is
\* sent the new table.
UploadFile(f, own) ==
  /\ list = "files"
  /\ Insert(f)
  /\ IF own THEN FirstPage("page", "count") ELSE UNCHANGED request

\* POST /api/accounts, or a signup.
CreateAccount(f, own) ==
  /\ list = "accounts"
  /\ Insert(f)
  /\ IF own THEN FirstPage("count", "page") ELSE UNCHANGED request

\* DELETE /api/files/{id}.
DeleteFile(f, own) ==
  /\ list = "files" /\ row[f] = "listed"
  /\ Changed
  /\ row' = [row EXCEPT ![f] = "gone"]
  /\ UNCHANGED <<list, match, cutoff, shown>>
  /\ Watch(f)
  /\ IF own THEN FirstPage("page", "count") ELSE UNCHANGED request

\* The commit of update_file, of update_account: name, type, category or e-mail
\* change.  When the row has been deleted since it was read the commit fails.
Update(f) ==
  /\ row[f] = "listed"
  /\ Changed
  /\ match' = IF f \in match THEN match \ {f} ELSE match \cup {f}
  /\ UNCHANGED <<list, row, cutoff, request, shown>>
  /\ Watch(f)
UpdateFile(f) == list = "files" /\ Update(f)
UpdateAccount(f) == list = "accounts" /\ Update(f)

\* Time passes: the oldest row leaves the range of date_range.
Expire(f) ==
  /\ f = cutoff + 1
  /\ Changed
  /\ cutoff' = f
  /\ walk' = [walk EXCEPT !.steady = IF walk.filtered THEN @ \ {f} ELSE @]
  /\ shrunk' = [table |-> shrunk.table \/ shown.filtered,
                request |-> Last("page") /\ (shrunk.request \/ request.filtered)]
  /\ UNCHANGED <<list, row, match, request, shown, late>>

-----------------------------------------------------------------------------
\* GET / and GET /account, with any parameters.
Open(page, size, filtered) ==
  /\ Ask("count", "page", page, size, filtered, FALSE)
  /\ UNCHANGED <<database, shown, walk, late, shrunk>>
Index(page, size, filtered) == list = "files" /\ Open(page, size, filtered)
AccountPage(page, size, filtered) == list = "accounts" /\ Open(page, size, filtered)

\* What the pager of the table links to: its neighbours, the first, the last.
\* Variant: a way back from the first page too.
LinksBack(t) == {q \in {t.page - 1} : Pages(t) > 0} \cup 1..Pages(t)
Links(t) ==
  {q \in {t.page - 1} : q > 0 /\ Pages(t) > 0}
    \cup {q \in 1..Pages(t) : /\ q # t.page
                              /\ \/ q \in (t.page - 2)..(t.page + 2)
                                 \/ q = 1
                                 \/ q = Pages(t) /\ t.page + 2 < Pages(t)}

\* GET /api/partials/file-table and /api/partials/account-table: a link of the
\* pager, which repeats the conditions of the table but not its page size, or
\* the toolbar, which asks for the first page under new conditions.
Table(page, filtered, offered) ==
  /\ Ask("count", "page", page, DefaultSize, filtered, offered)
  /\ UNCHANGED <<database, shown, walk, late, shrunk>>
Turn == \E page \in Links(shown) : Table(page, shown.filtered, page <= Pages(shown))
Search(filtered) == Table(1, filtered, FALSE)
Partial == Turn \/ \E filtered \in BOOLEAN : Search(filtered)
FileTablePartial == list = "files" /\ Partial
AccountTablePartial == list = "accounts" /\ Partial

\* GET /api/files: a program that takes the pages in turn, with one page size.
ListFiles(page, size, filtered) ==
  /\ list = "files"
  /\ Ask("count", "page", page, size, filtered,
         filtered = shown.filtered /\ size = shown.size /\ page <= Pages(shown))
  /\ UNCHANGED <<database, shown, walk, late, shrunk>>

\* POST /api/files/{id}/parse changes no row of the list and answers with it.
StartParse ==
  /\ list = "files"
  /\ FirstPage("page", "count")
  /\ UNCHANGED <<database, shown, walk, late, shrunk>>

-----------------------------------------------------------------------------
\* The answer goes out with the last of its statements.
Answer(r) ==
  IF r.then = "none"
  THEN shown' = [r EXCEPT !.now = "none", !.offered = FALSE] /\ request' = Nothing
  ELSE request' = [r EXCEPT !.now = r.then, !.then = "none"] /\ UNCHANGED shown

\* The count: len of all rows, or count(*).
CountRows ==
  LET expired == Selected # Listed(request.filtered, cutoff) IN
  /\ request.now = "count"
  /\ Answer([request EXCEPT !.total = Cardinality(Selected)])
  /\ late' = IF Last("count") THEN late ELSE 0
  /\ shrunk' = IF Last("count")
                THEN [table |-> expired, request |-> FALSE]
                ELSE [shrunk EXCEPT !.request = expired]
  /\ UNCHANGED <<database, walk>>

\* The rows of the page.
PageRows ==
  LET rows == PageOf(Selected, request.page, request.size)
  IN /\ request.now = "page"
     /\ Answer(request)
     /\ walk' =
          IF request.page = 1
          THEN [page |-> 1, size |-> request.size, filtered |-> request.filtered,
                seen |-> rows, twice |-> {}, steady |-> Listed(request.filtered, cutoff), left |-> 0, came |-> 0]
          ELSE IF walk.page + 1 = request.page /\ walk.size = request.size
                  /\ walk.filtered = request.filtered /\ walk.page > 0
          THEN [walk EXCEPT !.page = request.page, !.seen = @ \cup rows,
                            !.twice = @ \cup (walk.seen \cap rows)]
          ELSE Lost
     /\ late' = IF Last("page") /\ walk'.page > 0 THEN late ELSE 0
     /\ shrunk' = IF Last("page")
                   THEN [table |-> shrunk.request, request |-> FALSE] ELSE shrunk
     /\ UNCHANGED database

-----------------------------------------------------------------------------
Init ==
  /\ list \in {"files", "accounts"}
  /\ row = [f \in Row |-> IF f <= Initially THEN "listed" ELSE "none"]
  /\ match = Row
  /\ cutoff = 0 /\ changes = 0
  /\ request = Nothing /\ shown = Nothing
  /\ walk = Lost
  /\ late = 0
  /\ shrunk = [table |-> FALSE, request |-> FALSE]

Changes(f) ==
  \/ Begin(f)
  \/ Refuse(f)
  \/ \E own \in BOOLEAN : UploadFile(f, own) \/ CreateAccount(f, own) \/ DeleteFile(f, own)
  \/ UpdateFile(f)
  \/ UpdateAccount(f)
  \/ Expire(f)

Reads ==
  \/ \E page \in 1..MaxPage, size \in Size, filtered \in BOOLEAN :
       \/ Index(page, size, filtered)
       \/ AccountPage(page, size, filtered)
       \/ ListFiles(page, size, filtered)
  \/ FileTablePartial
  \/ AccountTablePartial
  \/ StartParse
  \/ CountRows
  \/ PageRows

Next == (\E f \in Row : Changes(f)) \/ Reads

Spec == Init /\ [][Next]_vars

-----------------------------------------------------------------------------
\* When a walk has come to the last page its table offers, every row that was
\* listed all the time has been on one of its pages, but for two kinds: rows
\* older than one that went meanwhile (they moved up, past the reader), and rows
\* pushed down by one that came between the count and the page of the last
\* answer (the count does not know of their page).
NothingSkipped ==
  Idle /\ walk.page > 0 /\ walk.page = shown.page /\ Pages(shown) <= walk.page =>
    \A f \in walk.steady : f \in walk.seen \/ f < walk.left \/ f <= late

\* A row is on two pages of a walk only when a newer one came meanwhile and
\* pushed it down.
NothingTwice == \A f \in walk.twice : f < walk.came

\* A page that the reader was offered, by the table in front of him or by
\* total_pages, is not empty, unless a row went since that table's count: only
\* deletions and expiries lead to the empty table with no pager.
OfferedPagesFilled ==
  ~Idle /\ request.offered /\ request.size = shown.size /\ ~shrunk.table =>
    PageOf(Selected, request.page, request.size) # {}
=============================================================================

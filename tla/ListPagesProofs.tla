-------------------------- MODULE ListPagesProofs --------------------------
(***************************************************************************)
(* Proofs about ListPages, for any number of rows, any page sizes and any  *)
(* number of changes: types, what a reader who takes the pages in turn is  *)
(* certain to see once, and once only, and that the pages he is offered    *)
(* have rows.                                                              *)
(***************************************************************************)
EXTENDS ListPages, FiniteSetTheorems, TLAPS

AtLeast(S, f) == Cardinality({g \in S : g >= f})

-----------------------------------------------------------------------------
\* Counting rows.
LEMMA RowsFinite ==
  ASSUME NEW S \in SUBSET Row
  PROVE  IsFiniteSet(S) /\ Cardinality(S) \in 0..N
<1>1. IsFiniteSet(Row) /\ Cardinality(Row) = N
  BY FS_Interval, SizeAssumption DEF Row
<1>2. IsFiniteSet(S) /\ Cardinality(S) <= Cardinality(Row)
  BY <1>1, FS_Subset
<1>3. Cardinality(S) \in Nat
  BY <1>2, FS_CardinalityType
<1> QED
  BY <1>1, <1>2, <1>3, SizeAssumption

LEMMA AboveType ==
  ASSUME NEW S \in SUBSET Row, NEW f
  PROVE  Above(S, f) \in Nat /\ AtLeast(S, f) \in Nat /\ Above(S, f) <= Cardinality(S)
         /\ AtLeast(S, f) <= Cardinality(S)
<1>1. {g \in S : g > f} \in SUBSET S /\ {g \in S : g >= f} \in SUBSET S
  OBVIOUS
<1>2. Cardinality({g \in S : g > f}) <= Cardinality(S)
      /\ Cardinality({g \in S : g >= f}) <= Cardinality(S)
  BY <1>1, RowsFinite, FS_Subset
<1> QED
  BY <1>1, <1>2, RowsFinite, SizeAssumption DEF Above, AtLeast

LEMMA AboveGrows ==
  ASSUME NEW T \in SUBSET Row, NEW S \in SUBSET T, NEW f
  PROVE  Above(S, f) <= Above(T, f) /\ AtLeast(S, f) <= AtLeast(T, f)
<1>1. {g \in S : g > f} \in SUBSET {g \in T : g > f}
      /\ {g \in S : g >= f} \in SUBSET {g \in T : g >= f}
  OBVIOUS
<1>2. IsFiniteSet({g \in T : g > f}) /\ IsFiniteSet({g \in T : g >= f})
  BY RowsFinite
<1> QED
  BY <1>1, <1>2, FS_Subset DEF Above, AtLeast

LEMMA AboveSame ==
  ASSUME NEW S, NEW T, NEW f
  PROVE  /\ (\A g \in S \cup T : g > f => (g \in S <=> g \in T)) => Above(S, f) = Above(T, f)
         /\ (\A g \in S \cup T : g >= f => (g \in S <=> g \in T)) => AtLeast(S, f) = AtLeast(T, f)
<1>1. ASSUME \A g \in S \cup T : g > f => (g \in S <=> g \in T)
      PROVE  Above(S, f) = Above(T, f)
  <2>1. {g \in S : g > f} = {g \in T : g > f}
    BY <1>1
  <2> QED
    BY <2>1 DEF Above
<1>2. ASSUME \A g \in S \cup T : g >= f => (g \in S <=> g \in T)
      PROVE  AtLeast(S, f) = AtLeast(T, f)
  <2>1. {g \in S : g >= f} = {g \in T : g >= f}
    BY <1>2
  <2> QED
    BY <2>1 DEF AtLeast
<1> QED
  BY <1>1, <1>2

LEMMA AboveItself ==
  ASSUME NEW S \in SUBSET Row, NEW f \in S
  PROVE  AtLeast(S, f) = Above(S, f) + 1 /\ Above(S, f) < Cardinality(S)
<1> DEFINE newer == {g \in S : g > f}
<1>0. f \in Int /\ S \subseteq Int
  BY DEF Row
<1>a. \A g \in S : g >= f <=> (g > f \/ g = f)
  BY <1>0
<1>b. f \notin newer
  BY <1>0
<1>1. {g \in S : g >= f} = newer \cup {f}
  BY <1>a, Zenon
<1>2. newer \in SUBSET Row /\ newer \cup {f} \in SUBSET S
  OBVIOUS
<1>3. IsFiniteSet(newer) /\ Cardinality(newer) \in Nat /\ IsFiniteSet(S)
  BY <1>2, RowsFinite, SizeAssumption
<1>4. Cardinality(newer \cup {f}) = Cardinality(newer) + 1
  BY <1>b, <1>3, FS_AddElement
<1>5. Cardinality(newer \cup {f}) <= Cardinality(S) /\ Cardinality(S) \in Nat
  BY <1>2, <1>3, FS_Subset, RowsFinite, SizeAssumption
<1> QED
  BY <1>1, <1>3, <1>4, <1>5 DEF Above, AtLeast

-----------------------------------------------------------------------------
\* Types.
LEMMA MatchingType ==
  /\ \A r, m, filtered : Matching(r, m, filtered) \in SUBSET Row
  /\ \A filtered, since : Listed(filtered, since) \in SUBSET Row
  /\ Selected \in SUBSET Row
BY DEF Matching, Listed, Selected

LEMMA InitType == Init => TypeOK
<1> SUFFICES ASSUME Init
             PROVE  TypeOK
  OBVIOUS
<1>1. Nothing \in Request
  BY SizeAssumption DEF Nothing, Request, Statement
<1>2. Lost \in Walk
  BY SizeAssumption DEF Lost, Walk
<1>3. row \in [Row -> {"none", "coming", "listed", "gone"}]
  BY DEF Init
<1> QED
  BY <1>1, <1>2, <1>3, SizeAssumption DEF Init, TypeOK

LEMMA AskType ==
  ASSUME TypeOK, NEW first \in Statement, NEW second \in Statement, NEW page \in Nat \ {0},
         NEW size \in Size, NEW filtered \in BOOLEAN, NEW offered \in BOOLEAN,
         Ask(first, second, page, size, filtered, offered)
  PROVE  request' \in Request
<1>1. (IF filtered THEN cutoff ELSE 0) \in 0..N
  BY SizeAssumption DEF TypeOK
<1> QED
  BY <1>1, SizeAssumption DEF Ask, Request

LEMMA FirstPageType ==
  ASSUME TypeOK, NEW first \in Statement, NEW second \in Statement, FirstPage(first, second)
  PROVE  request' \in Request
<1>1. DefaultSize \in Size /\ 1 \in Nat \ {0}
  BY SizeAssumption
<1> QED
  BY <1>1, AskType DEF FirstPage

LEMMA WatchType ==
  ASSUME TypeOK, NEW f \in Row, Watch(f)
  PROVE  walk' \in Walk /\ late' \in 0..N /\ shrunk' \in [table : BOOLEAN, request : BOOLEAN]
<1>1. \A a \in 0..N : Later(f, a) \in 0..N
  BY SizeAssumption DEF Row, Later
<1> QED
  BY <1>1 DEF Watch, TypeOK, Walk

LEMMA LinksType ==
  ASSUME TypeOK, NEW q \in Links(shown)
  PROVE  q \in Nat \ {0}
<1>a. shown.page \in Nat \ {0} /\ shown.total \in 0..N /\ shown.size \in Size
  BY DEF TypeOK, Request
<1>1. shown.page \in Nat \ {0} /\ shown.total \in Nat /\ shown.size \in Nat /\ shown.size > 0
  <2>1. shown.total \in Nat
    BY <1>a, SizeAssumption
  <2>2. shown.size \in Nat \ {0}
    BY <1>a, SizeAssumption, Zenon
  <2> QED
    BY <1>a, <2>1, <2>2
<1>2. Pages(shown) \in Int
  BY <1>1 DEF Pages
<1> QED
  BY <1>1, <1>2 DEF Links

LEMMA AnswerType ==
  ASSUME TypeOK, NEW r \in Request, Answer(r)
  PROVE  request' \in Request /\ shown' \in Request
<1>1. Nothing \in Request
  BY SizeAssumption DEF Nothing, Request, Statement
<1>2. CASE r.then = "none"
  <2>1. [r EXCEPT !.now = "none", !.offered = FALSE] \in Request
    BY DEF Request, Statement
  <2> QED
    BY <1>1, <1>2, <2>1 DEF Answer
<1>3. CASE r.then # "none"
  <2>1. [r EXCEPT !.now = r.then, !.then = "none"] \in Request
    BY DEF Request, Statement
  <2> QED
    BY <1>3, <2>1 DEF Answer, TypeOK
<1> QED
  BY <1>2, <1>3

LEMMA ChangeType ==
  ASSUME TypeOK, NEW f \in Row, Changes(f)
  PROVE  TypeOK'
<1>1. CASE Begin(f) \/ Refuse(f)
  BY <1>1 DEF Begin, Refuse, TypeOK
<1>2. ASSUME NEW own \in BOOLEAN, UploadFile(f, own) \/ CreateAccount(f, own)
      PROVE  TypeOK'
  <2>1. request' \in Request
    <3>1. CASE own
      BY <1>2, <3>1, FirstPageType DEF UploadFile, CreateAccount, Statement
    <3>2. CASE ~own
      BY <1>2, <3>2 DEF UploadFile, CreateAccount, TypeOK
    <3> QED
      BY <3>1, <3>2
  <2>2. row' \in [Row -> {"none", "coming", "listed", "gone"}] /\ match' \subseteq Row
        /\ UNCHANGED <<list, cutoff, changes, shown>> /\ Watch(f)
    BY <1>2 DEF UploadFile, CreateAccount, Insert, TypeOK
  <2> QED
    BY <2>1, <2>2, WatchType DEF TypeOK
<1>3. ASSUME NEW own \in BOOLEAN, DeleteFile(f, own)
      PROVE  TypeOK'
  <2>1. request' \in Request
    <3>1. CASE own
      BY <1>3, <3>1, FirstPageType DEF DeleteFile, Statement
    <3>2. CASE ~own
      BY <1>3, <3>2 DEF DeleteFile, TypeOK
    <3> QED
      BY <3>1, <3>2
  <2>2. row' \in [Row -> {"none", "coming", "listed", "gone"}]
        /\ UNCHANGED <<list, match, cutoff, shown>> /\ Watch(f)
    BY <1>3 DEF DeleteFile, TypeOK
  <2>3. changes' \in 0..MaxChanges
    BY <1>3, SizeAssumption DEF DeleteFile, Changed, TypeOK
  <2> QED
    BY <2>1, <2>2, <2>3, WatchType DEF TypeOK
<1>4. CASE UpdateFile(f) \/ UpdateAccount(f)
  <2>1. match' \subseteq Row /\ UNCHANGED <<list, row, cutoff, request, shown>> /\ Watch(f)
    BY <1>4 DEF UpdateFile, UpdateAccount, Update, TypeOK
  <2>2. changes' \in 0..MaxChanges
    BY <1>4, SizeAssumption DEF UpdateFile, UpdateAccount, Update, Changed, TypeOK
  <2> QED
    BY <2>1, <2>2, WatchType DEF TypeOK
<1>5. CASE Expire(f)
  <2>1. changes' \in 0..MaxChanges
    BY <1>5, SizeAssumption DEF Expire, Changed, TypeOK
  <2>2. cutoff' \in 0..N
    BY <1>5, SizeAssumption DEF Expire, Row
  <2>3. walk' \in Walk
    BY <1>5 DEF Expire, TypeOK, Walk
  <2>4. shrunk' \in [table : BOOLEAN, request : BOOLEAN]
    BY <1>5 DEF Expire, TypeOK, Request
  <2> QED
    BY <1>5, <2>1, <2>2, <2>3, <2>4 DEF Expire, TypeOK
<1> QED
  BY <1>1, <1>2, <1>3, <1>4, <1>5 DEF Changes

LEMMA AskedType ==
  ASSUME TypeOK, request' \in Request, UNCHANGED <<database, shown, walk, late, shrunk>>
  PROVE  TypeOK'
BY DEF TypeOK, database

\* What the handlers that only read start with.
LEMMA AskFirst ==
  ASSUME TypeOK, Reads, ~CountRows, ~PageRows
  PROVE  /\ UNCHANGED <<database, shown, walk, late, shrunk>>
         /\ \E page \in Nat \ {0}, size \in Size, filtered, offered \in BOOLEAN :
              \/ Ask("count", "page", page, size, filtered, offered)
              \/ page = 1 /\ ~filtered /\ Ask("page", "count", page, size, filtered, offered)
<1>0. DefaultSize \in Size /\ 1..MaxPage \subseteq Nat \ {0} /\ 1 \in Nat \ {0}
  BY SizeAssumption
<1>1. ASSUME NEW page \in 1..MaxPage, NEW size \in Size, NEW filtered \in BOOLEAN,
             Index(page, size, filtered) \/ AccountPage(page, size, filtered)
               \/ ListFiles(page, size, filtered)
      PROVE  /\ UNCHANGED <<database, shown, walk, late, shrunk>>
             /\ \E offered \in BOOLEAN : Ask("count", "page", page, size, filtered, offered)
  BY <1>1 DEF Index, AccountPage, Open, ListFiles
<1>2. ASSUME FileTablePartial \/ AccountTablePartial
      PROVE  /\ UNCHANGED <<database, shown, walk, late, shrunk>>
             /\ \E page \in Nat \ {0}, filtered, offered \in BOOLEAN :
                  Ask("count", "page", page, DefaultSize, filtered, offered)
  <2>1. CASE Turn
    <3>1. PICK page \in Links(shown) : Table(page, shown.filtered, page <= Pages(shown))
      BY <2>1 DEF Turn
    <3>2. page \in Nat \ {0} /\ shown.filtered \in BOOLEAN
          /\ (page <= Pages(shown)) \in BOOLEAN
      BY LinksType DEF TypeOK, Request
    <3> QED
      BY <3>1, <3>2 DEF Table
  <2>2. CASE \E filtered \in BOOLEAN : Search(filtered)
    BY <2>2, <1>0 DEF Search, Table
  <2> QED
    BY <1>2, <2>1, <2>2 DEF FileTablePartial, AccountTablePartial, Partial
<1>3. ASSUME StartParse
      PROVE  /\ UNCHANGED <<database, shown, walk, late, shrunk>>
             /\ Ask("page", "count", 1, DefaultSize, FALSE, FALSE)
  BY <1>3 DEF StartParse, FirstPage
<1>4. CASE StartParse
  BY <1>0, <1>3, <1>4
<1>5. CASE FileTablePartial \/ AccountTablePartial
  BY <1>0, <1>2, <1>5
<1>6. CASE \E page \in 1..MaxPage, size \in Size, filtered \in BOOLEAN :
             Index(page, size, filtered) \/ AccountPage(page, size, filtered)
               \/ ListFiles(page, size, filtered)
  BY <1>0, <1>1, <1>6
<1> QED
  BY <1>4, <1>5, <1>6 DEF Reads

LEMMA ReadType == TypeOK /\ Reads => TypeOK'
<1> SUFFICES ASSUME TypeOK, Reads
             PROVE  TypeOK'
  OBVIOUS
<1>1. CASE CountRows
  <2> DEFINE r == [request EXCEPT !.total = Cardinality(Selected)]
  <2>1. Cardinality(Selected) \in 0..N
    BY MatchingType, RowsFinite
  <2>2. r \in Request /\ Answer(r)
    BY <1>1, <2>1 DEF CountRows, TypeOK, Request
  <2>3. request' \in Request /\ shown' \in Request
    <3> HIDE DEF r
    <3> QED
      BY <2>2, AnswerType
  <2>4. late' \in 0..N
    BY <1>1, SizeAssumption DEF CountRows, TypeOK
  <2>5. shrunk' \in [table : BOOLEAN, request : BOOLEAN]
    <3> DEFINE expired == Selected # Listed(request.filtered, cutoff)
    <3>1. expired \in BOOLEAN
      OBVIOUS
    <3>2. shrunk' = IF Last("count") THEN [table |-> expired, request |-> FALSE]
                    ELSE [shrunk EXCEPT !.request = expired]
      BY <1>1 DEF CountRows
    <3> HIDE DEF expired
    <3> QED
      BY <3>1, <3>2 DEF TypeOK
  <2> QED
    BY <1>1, <2>3, <2>4, <2>5 DEF CountRows, TypeOK, database
<1>2. CASE PageRows
  <2>1. request' \in Request /\ shown' \in Request
    BY <1>2, AnswerType DEF PageRows, TypeOK
  <2>2. late' \in 0..N /\ shrunk' \in [table : BOOLEAN, request : BOOLEAN]
    BY <1>2, SizeAssumption DEF PageRows, TypeOK
  <2>3. PageOf(Selected, request.page, request.size) \in SUBSET Row
    BY MatchingType DEF PageOf
  <2>4. walk' \in Walk
    <3>1. Lost \in Walk
      BY SizeAssumption DEF Lost, Walk
    <3>2. Listed(request.filtered, cutoff) \in SUBSET Row
      BY MatchingType
    <3>3. request.page \in Nat /\ request.size \in Size /\ request.filtered \in BOOLEAN
      BY DEF TypeOK, Request
    <3> DEFINE rows == PageOf(Selected, request.page, request.size)
               all == Listed(request.filtered, cutoff)
               fresh == [page |-> 1, size |-> request.size, filtered |-> request.filtered,
                         seen |-> rows, twice |-> {}, steady |-> all, left |-> 0, came |-> 0]
               further == [walk EXCEPT !.page = request.page, !.seen = @ \cup rows,
                                       !.twice = @ \cup (walk.seen \cap rows)]
    <3>4. fresh \in Walk
      <4> HIDE DEF rows, all
      <4> QED
        BY <2>3, <3>2, <3>3, SizeAssumption DEF Walk, rows, all
    <3>5. further \in Walk
      <4> HIDE DEF rows
      <4> QED
        BY <2>3, <3>3 DEF TypeOK, Walk, rows
    <3>6. walk' \in {fresh, further, Lost}
      BY <1>2 DEF PageRows
    <3> QED
      BY <3>1, <3>4, <3>5, <3>6
  <2> QED
    BY <1>2, <2>1, <2>2, <2>4 DEF PageRows, TypeOK, database
<1>3. CASE ~CountRows /\ ~PageRows
  <2>1. PICK page \in Nat \ {0}, size \in Size, filtered \in BOOLEAN, offered \in BOOLEAN :
          \/ Ask("count", "page", page, size, filtered, offered)
          \/ Ask("page", "count", page, size, filtered, offered)
    BY <1>3, AskFirst
  <2>2. request' \in Request
    BY <2>1, AskType DEF Statement
  <2> QED
    BY <1>3, <2>2, AskFirst, AskedType
<1> QED
  BY <1>1, <1>2, <1>3

LEMMA NextType == TypeOK /\ [Next]_vars => TypeOK'
<1>1. TypeOK /\ UNCHANGED vars => TypeOK'
  BY DEF TypeOK, vars
<1> QED
  BY <1>1, ChangeType, ReadType DEF Next

\* Every reachable state is well typed.
THEOREM ListPagesTypeCorrect == Spec => []TypeOK
BY InitType, NextType, PTL DEF Spec

-----------------------------------------------------------------------------
\* What a walk of `page` pages has passed is page * size rows, measured by how
\* many newer ones there are now: what it has seen is among them unless pushed
\* down, what it has not seen is below them unless something above it went.
Current == Matching(row, match, walk.filtered)
Passed == walk.page * walk.size
WalkInv ==
  /\ walk.page = 0 => walk.steady = {} /\ walk.seen = {} /\ walk.twice = {}
  /\ walk.steady \subseteq Listed(walk.filtered, cutoff)
  /\ \A f \in walk.steady : f \in walk.seen \/ f < walk.left \/ Passed <= Above(Current, f)
  /\ \A f \in walk.seen : f < walk.came \/ Above(Current, f) < Passed
  /\ NothingTwice

\* Between the count and the page nobody is further down than the count tells,
\* unless pushed by a row that came.
RequestInv ==
  /\ request.filtered => request.since <= cutoff
  /\ Idle => request.then = "none"
  /\ request.now = "count" => request.then \in {"none", "page"}
  /\ request.now = "page" => request.then \in {"none", "count"}
  /\ request.now = "page" /\ request.then = "count" => request.page = 1
  /\ Last("count") => walk.page = 1 /\ request.page = 1 /\ walk.size = request.size
                        /\ ~walk.filtered /\ ~request.filtered
  /\ request.now = "page" /\ request.then = "count" => ~request.filtered
  /\ Last("page") => \A f \in Row : f <= late \/ AtLeast(Selected, f) <= request.total

\* With the answer, the total is beyond the pages of the walk if a row is.
Unread(f) == f \notin walk.seen /\ ~(f < walk.left) /\ ~(f <= late)
ShownInv ==
  Idle /\ walk.page > 0 =>
    /\ walk.page = shown.page /\ walk.size = shown.size
    /\ \A f \in walk.steady : Unread(f) => Passed < shown.total

Inv == TypeOK /\ WalkInv /\ RequestInv /\ ShownInv

\* A step that changes the database changes one row, f.
OneRow(f) == \A filtered, g :
  g # f => (g \in Matching(row', match', filtered) <=> g \in Matching(row, match, filtered))

LEMMA PassedType ==
  ASSUME TypeOK
  PROVE  Passed \in Nat /\ walk.left \in Int /\ walk.came \in Int /\ late \in Int
         /\ walk.page \in Nat /\ walk.size \in Nat /\ Row \subseteq Int
         /\ walk.steady \subseteq Row /\ walk.seen \subseteq Row /\ walk.twice \subseteq Row
<1>1. walk.page \in Nat /\ walk.size \in Size
  BY DEF TypeOK, Walk
<1>2. walk.size \in Nat
  BY <1>1, SizeAssumption
<1>3. walk.page * walk.size \in Nat
  BY <1>1, <1>2
<1> QED
  BY <1>1, <1>2, <1>3, SizeAssumption DEF Passed, TypeOK, Walk, Row

LEMMA Products ==
  ASSUME NEW p \in Nat, NEW s \in Nat
  PROVE  p * s \in Nat /\ (p + 1) * s = p * s + s /\ 1 * s = s /\ 0 * s = 0
OBVIOUS

\* Rounding up: pages that are enough hold all rows.
LEMMA RoundedUp ==
  ASSUME NEW t \in Nat, NEW s \in Nat \ {0}, NEW p \in Nat, (t + s - 1) \div s <= p
  PROVE  t <= p * s
<1> DEFINE q == (t + s - 1) \div s
<1>1. q \in Nat /\ t + s - 1 < q * s + s
  OBVIOUS
<1>2. q * s \in Nat /\ t <= q * s
  BY <1>1
<1>3. q * s <= p * s
  <2> HIDE DEF q
  <2>1. PICK d \in Nat : p = q + d
    BY <1>1, p - q \in Nat, p = q + (p - q) DEF q
  <2>2. p * s = q * s + d * s /\ d * s \in Nat
    BY <1>1, <2>1
  <2> QED
    BY <2>2, <1>2
<1> QED
  BY <1>2, <1>3

\* Who is above a row does not depend on how old rows may be.
LEMMA AboveSelected ==
  ASSUME Inv, NEW f \in Listed(request.filtered, cutoff)
  PROVE  /\ f \in Selected
         /\ Above(Selected, f) = Above(Matching(row, match, request.filtered), f)
<1>1. f \in Row /\ cutoff \in Int /\ request.since \in Int /\ Row \subseteq Int
  BY SizeAssumption DEF Listed, Matching, Inv, TypeOK, Request, Row
<1>2. f \in Selected
  BY <1>1 DEF Selected, Listed, Inv, RequestInv
<1>3. \A g \in Row : g > f =>
        (g \in Selected <=> g \in Matching(row, match, request.filtered))
  BY <1>1, <1>2 DEF Selected, Listed, Matching
<1> QED
  BY <1>2, <1>3, AboveSame, MatchingType

-----------------------------------------------------------------------------
\* One row changes under a walk.
LEMMA WatchWalk ==
  ASSUME Inv, NEW f \in Row, OneRow(f), cutoff' = cutoff, Watch(f)
  PROVE  WalkInv'
<1>0. /\ Passed \in Nat /\ walk.left \in Int /\ walk.came \in Int /\ walk.page \in Nat
      /\ Row \subseteq Int /\ walk.steady \subseteq Row /\ walk.seen \subseteq Row
      /\ walk.twice \subseteq Row
  BY PassedType DEF Inv
<1>1. CASE walk.page = 0
  <2>1. walk' = walk /\ walk.steady = {} /\ walk.seen = {} /\ walk.twice = {}
    BY <1>1 DEF Watch, Inv, WalkInv
  <2> QED
    BY <2>1 DEF WalkInv, NothingTwice
<1>2. CASE walk.page # 0
  <2> DEFINE now == Matching(row', match', walk.filtered)
             goes == f \in Current /\ f \notin now
             comes == f \in now /\ f \notin Current
  <2>1. walk' = [walk EXCEPT !.steady = IF goes THEN @ \ {f} ELSE @,
                             !.left = IF goes THEN Later(f, @) ELSE @,
                             !.came = IF comes THEN Later(f, @) ELSE @]
    BY <1>2 DEF Watch, Current
  <2>2. /\ walk'.page = walk.page /\ walk'.size = walk.size /\ walk'.filtered = walk.filtered
        /\ walk'.seen = walk.seen /\ walk'.twice = walk.twice
        /\ walk'.steady = (IF goes THEN walk.steady \ {f} ELSE walk.steady)
        /\ walk'.left = (IF goes THEN Later(f, walk.left) ELSE walk.left)
        /\ walk'.came = (IF comes THEN Later(f, walk.came) ELSE walk.came)
    BY <2>1 DEF Inv, TypeOK, Walk
  <2>3. /\ walk'.left \in Int /\ walk'.left >= walk.left /\ (goes => walk'.left >= f)
        /\ walk'.came \in Int /\ walk'.came >= walk.came /\ (comes => walk'.came >= f)
    BY <2>2, <1>0 DEF Later
  <2>4. Current' = now /\ Passed' = Passed
    BY <2>2 DEF Current, Passed
  <2>5. now \in SUBSET Row /\ Current \in SUBSET Row
    BY MatchingType DEF Current
  <2>6. \A g : g # f => (g \in now <=> g \in Current)
    BY DEF OneRow, Current
  <2> HIDE DEF now
  <2>7. ASSUME NEW g \in Row, ~(f > g)
        PROVE  Above(now, g) = Above(Current, g)
    BY <2>6, <2>7, AboveSame
  <2>8. ASSUME NEW g \in Row, ~goes
        PROVE  Above(Current, g) <= Above(now, g)
    <3>1. Current \in SUBSET now
      BY <2>5, <2>6, <2>8
    <3> QED
      BY <2>5, <3>1, AboveGrows
  <2>9. ASSUME NEW g \in Row, ~comes
        PROVE  Above(now, g) <= Above(Current, g)
    <3>1. now \in SUBSET Current
      BY <2>5, <2>6, <2>9
    <3> QED
      BY <2>5, <3>1, AboveGrows
  <2>10. \A g \in Row : Above(now, g) \in Nat /\ Above(Current, g) \in Nat
    BY <2>5, AboveType
  <2>a. walk'.steady \subseteq Listed(walk.filtered, cutoff)'
    <3> SUFFICES ASSUME NEW g \in walk'.steady
                 PROVE  g \in Listed(walk.filtered, cutoff)'
      OBVIOUS
    <3>1. g \in walk.steady /\ (g = f => ~goes)
      BY <2>2
    <3>2. g \in Current /\ (walk.filtered => g > cutoff)
      BY <3>1 DEF Inv, WalkInv, Listed, Current
    <3>3. g \in now
      BY <3>1, <3>2, <2>6
    <3> QED
      BY <2>2, <3>2, <3>3 DEF Listed, now
  <2>b. ASSUME NEW g \in walk'.steady
        PROVE  g \in walk'.seen \/ g < walk'.left \/ Passed' <= Above(Current', g)
    <3>1. g \in walk.steady /\ g \in Row /\ g \in Int
      BY <2>2, <1>0
    <3>2. g \in walk.seen \/ g < walk.left \/ Passed <= Above(Current, g)
      BY <3>1 DEF Inv, WalkInv
    <3>3. CASE f > g /\ goes
      BY <3>1, <3>3, <2>3, <1>0
    <3>4. CASE ~(f > g)
      BY <3>1, <3>2, <3>4, <2>2, <2>3, <2>4, <2>7, <1>0
    <3>5. CASE ~goes
      BY <3>1, <3>2, <3>5, <2>2, <2>3, <2>4, <2>8, <2>10, <1>0
    <3> QED
      BY <3>3, <3>4, <3>5
  <2>c. ASSUME NEW g \in walk'.seen
        PROVE  g < walk'.came \/ Above(Current', g) < Passed'
    <3>1. g \in walk.seen /\ g \in Row /\ g \in Int
      BY <2>2, <2>c, <1>0
    <3>2. g < walk.came \/ Above(Current, g) < Passed
      BY <3>1 DEF Inv, WalkInv
    <3>3. CASE f > g /\ comes
      BY <3>1, <3>3, <2>3, <1>0
    <3>4. CASE ~(f > g)
      BY <3>1, <3>2, <3>4, <2>3, <2>4, <2>7, <1>0
    <3>5. CASE ~comes
      BY <3>1, <3>2, <3>5, <2>3, <2>4, <2>9, <2>10, <1>0
    <3> QED
      BY <3>3, <3>4, <3>5
  <2>d. NothingTwice'
    <3> SUFFICES ASSUME NEW g \in walk'.twice
                 PROVE  g < walk'.came
      BY DEF NothingTwice
    <3>1. g \in walk.twice /\ g \in Int
      BY <2>2, <1>0
    <3>2. g < walk.came
      BY <3>1 DEF Inv, WalkInv, NothingTwice
    <3> QED
      BY <3>1, <3>2, <2>3, <1>0
  <2> QED
    BY <1>2, <2>2, <2>a, <2>b, <2>c, <2>d DEF WalkInv
<1> QED
  BY <1>1, <1>2

\* ... and under a request ...
LEMMA WatchRequest ==
  ASSUME Inv, NEW f \in Row, OneRow(f), Watch(f), UNCHANGED request, cutoff' = cutoff
  PROVE  RequestInv'
<1> DEFINE now == Matching(row', match', request.filtered)
           old == Matching(row, match, request.filtered)
           comes == f \in now /\ f \notin old
           selected == {g \in now : request.filtered => g > request.since}
<1>0. late \in Int /\ request.total \in Int /\ Row \subseteq Int
  BY PassedType, SizeAssumption DEF Inv, TypeOK, Request
<1>1. late' = IF Last("page") /\ comes THEN Later(f, late) ELSE late
  BY DEF Watch
<1>2. late' \in Int /\ late' >= late /\ (Last("page") /\ comes => late' >= f)
  BY <1>0, <1>1 DEF Later
<1>3. walk.page # 0 =>
        walk'.page = walk.page /\ walk'.size = walk.size /\ walk'.filtered = walk.filtered
  BY DEF Watch, Inv, TypeOK, Walk
<1>4. Selected' = selected /\ Selected = {g \in old : request.filtered => g > request.since}
  BY DEF Selected, Listed
<1>5. ASSUME Last("page"), NEW g \in Row
      PROVE  g <= late' \/ AtLeast(selected, g) <= request.total
  <2>1. g <= late \/ AtLeast(Selected, g) <= request.total
    BY <1>5 DEF Inv, RequestInv
  <2>2. CASE g <= late
    BY <2>2, <1>0, <1>2
  <2>3. CASE f >= g /\ comes
    BY <2>3, <1>0, <1>2, <1>5
  <2>4. CASE ~(f >= g) /\ ~(g <= late)
    <3>1. \A h : h # f => (h \in now <=> h \in old)
      BY DEF OneRow
    <3>2. \A h \in selected \cup Selected : h >= g => (h \in selected <=> h \in Selected)
      BY <1>4, <2>4, <3>1
    <3>3. AtLeast(selected, g) = AtLeast(Selected, g)
      BY <3>2, AboveSame
    <3> QED
      BY <2>1, <2>4, <3>3
  <2>5. CASE ~comes /\ ~(g <= late)
    <3>1. \A h : h # f => (h \in now <=> h \in old)
      BY DEF OneRow
    <3>2. selected \in SUBSET Selected
      BY <1>4, <2>5, <3>1
    <3>3. AtLeast(selected, g) <= AtLeast(Selected, g)
      BY <3>2, MatchingType, AboveGrows
    <3>4. selected \in SUBSET Row
      BY <3>2, MatchingType
    <3>5. AtLeast(selected, g) \in Nat /\ AtLeast(Selected, g) \in Nat
      BY <3>4, MatchingType, AboveType
    <3> QED
      BY <2>1, <2>5, <3>3, <3>5, <1>0
  <2> QED
    BY <2>2, <2>3, <2>4, <2>5
<1>6. Last("page") => \A g \in Row : g <= late' \/ AtLeast(Selected', g) <= request.total
  BY <1>4, <1>5
<1> QED
  BY <1>3, <1>6 DEF Inv, RequestInv, Last, Idle

\* ... and beside a table that is shown.
LEMMA WatchShown ==
  ASSUME Inv, NEW f \in Row, Watch(f), UNCHANGED <<request, shown>>
  PROVE  ShownInv'
<1> SUFFICES ASSUME Idle, walk'.page > 0
             PROVE  /\ walk'.page = shown.page /\ walk'.size = shown.size
                    /\ \A g \in walk'.steady : Unread(g)' => Passed' < shown.total
  BY DEF ShownInv, Idle
<1>0. /\ walk.left \in Int /\ late \in Int /\ Row \subseteq Int /\ walk.steady \subseteq Row
      /\ walk.page \in Nat
  BY PassedType DEF Inv
<1>1. late' = late
  BY DEF Watch, Idle, Last
<1>2. /\ walk'.page = walk.page /\ walk'.size = walk.size /\ walk'.seen = walk.seen
      /\ walk'.steady \subseteq walk.steady
      /\ walk'.left \in Int /\ walk'.left >= walk.left
  BY <1>0 DEF Watch, Later, Inv, TypeOK, Walk
<1>3. ASSUME NEW g \in walk'.steady,
             g \notin walk'.seen, ~(g < walk'.left), ~(g <= late')
      PROVE  Unread(g)
  <2>1. g \in Int
    BY <1>0, <1>2
  <2> QED
    BY <1>0, <1>1, <1>2, <1>3, <2>1 DEF Unread
<1>4. \A g \in walk'.steady : Unread(g)' => Unread(g)
  BY <1>3 DEF Unread
<1> QED
  BY <1>2, <1>4 DEF Inv, ShownInv, Passed

\* A request that begins.
LEMMA AskInv ==
  ASSUME Inv, cutoff' = cutoff, NEW page, NEW size, NEW filtered \in BOOLEAN, NEW offered,
         \/ Ask("count", "page", page, size, filtered, offered)
         \/ page = 1 /\ ~filtered /\ Ask("page", "count", page, size, filtered, offered)
  PROVE  RequestInv' /\ ShownInv'
<1>1. CASE Ask("count", "page", page, size, filtered, offered)
  BY <1>1, SizeAssumption DEF Ask, RequestInv, ShownInv, Idle, Last, Inv, TypeOK
<1>2. CASE page = 1 /\ ~filtered /\ Ask("page", "count", page, size, filtered, offered)
  BY <1>2, SizeAssumption DEF Ask, RequestInv, ShownInv, Idle, Last, Inv, TypeOK
<1> QED
  BY <1>1, <1>2

LEMMA RestInv ==
  ASSUME Inv, NEW f \in Row, OneRow(f), cutoff' = cutoff, UNCHANGED shown, Watch(f),
         \/ UNCHANGED request
         \/ FirstPage("page", "count")
         \/ FirstPage("count", "page")
  PROVE  WalkInv' /\ RequestInv' /\ ShownInv'
<1>1. CASE UNCHANGED request
  BY <1>1, WatchWalk, WatchRequest, WatchShown
<1>2. CASE FirstPage("page", "count") \/ FirstPage("count", "page")
  BY <1>2, WatchWalk, AskInv DEF FirstPage
<1> QED
  BY <1>1, <1>2

LEMMA ChangeInv == ASSUME Inv, NEW f \in Row, Changes(f)
                   PROVE  WalkInv' /\ RequestInv' /\ ShownInv'
<1>0. row \in [Row -> {"none", "coming", "listed", "gone"}] /\ cutoff \in 0..N
  BY DEF Inv, TypeOK
<1>1. CASE Begin(f) \/ Refuse(f)
  <2>1. row' \in [Row -> {"none", "coming", "listed", "gone"}]
        /\ \A g \in Row : row'[g] = "listed" <=> row[g] = "listed"
    BY <1>0, <1>1 DEF Begin, Refuse
  <2>2. UNCHANGED <<match, cutoff, request, shown, walk, late>>
    BY <1>1 DEF Begin, Refuse
  <2>3. \A filtered : Matching(row', match', filtered) = Matching(row, match, filtered)
    BY <2>1, <2>2 DEF Matching
  <2>4. WalkInv'
    BY <2>2, <2>3 DEF Inv, WalkInv, Listed, Current, Passed, NothingTwice
  <2>5. RequestInv'
    BY <2>2, <2>3 DEF Inv, RequestInv, Selected, Listed, Idle, Last
  <2>6. ShownInv'
    BY <2>2 DEF Inv, ShownInv, Idle, Passed, Unread
  <2> QED
    BY <2>4, <2>5, <2>6
<1>2. ASSUME NEW own \in BOOLEAN,
             UploadFile(f, own) \/ CreateAccount(f, own) \/ DeleteFile(f, own)
      PROVE  WalkInv' /\ RequestInv' /\ ShownInv'
  <2>1. OneRow(f)
    BY <1>0, <1>2 DEF UploadFile, CreateAccount, Insert, DeleteFile, OneRow, Matching
  <2>2. cutoff' = cutoff /\ UNCHANGED shown /\ Watch(f)
    BY <1>2 DEF UploadFile, CreateAccount, Insert, DeleteFile
  <2>3. UNCHANGED request \/ FirstPage("page", "count") \/ FirstPage("count", "page")
    BY <1>2 DEF UploadFile, CreateAccount, DeleteFile
  <2> QED
    BY <2>1, <2>2, <2>3, RestInv
<1>3. CASE UpdateFile(f) \/ UpdateAccount(f)
  <2>1. OneRow(f)
    BY <1>0, <1>3 DEF UpdateFile, UpdateAccount, Update, OneRow, Matching
  <2>2. cutoff' = cutoff /\ UNCHANGED <<request, shown>> /\ Watch(f)
    BY <1>3 DEF UpdateFile, UpdateAccount, Update
  <2> QED
    BY <2>1, <2>2, RestInv
<1>4. CASE Expire(f)
  <2>1. f = cutoff + 1 /\ cutoff' = f /\ UNCHANGED <<row, match, request, shown, late>>
        /\ walk' = [walk EXCEPT !.steady = IF walk.filtered THEN @ \ {f} ELSE @]
    BY <1>4 DEF Expire
  <2>2. /\ walk'.page = walk.page /\ walk'.size = walk.size /\ walk'.filtered = walk.filtered
        /\ walk'.seen = walk.seen /\ walk'.twice = walk.twice /\ walk'.left = walk.left
        /\ walk'.came = walk.came
        /\ walk'.steady = IF walk.filtered THEN walk.steady \ {f} ELSE walk.steady
    BY <2>1 DEF Inv, TypeOK, Walk
  <2>3. walk'.steady \subseteq Listed(walk.filtered, cutoff)'
    <3> SUFFICES ASSUME NEW g \in walk'.steady
                 PROVE  g \in Listed(walk.filtered, cutoff)'
      OBVIOUS
    <3>1. g \in walk.steady /\ (walk.filtered => g # f)
      BY <2>2
    <3>2. g \in Matching(row, match, walk.filtered) /\ (walk.filtered => g > cutoff)
      BY <3>1 DEF Inv, WalkInv, Listed
    <3>3. g \in Int /\ cutoff \in Int
      BY <3>2, <1>0, SizeAssumption DEF Matching, Row
    <3> QED
      BY <2>1, <2>2, <3>1, <3>2, <3>3 DEF Listed
  <2>4. WalkInv'
    BY <2>1, <2>2, <2>3 DEF Inv, WalkInv, Current, Passed, NothingTwice
  <2>5. RequestInv'
    <3>1. request.filtered => request.since <= cutoff'
      BY <2>1, <1>0, SizeAssumption DEF Inv, RequestInv, TypeOK, Request
    <3>2. Selected' = Selected
      BY <2>1 DEF Selected, Listed
    <3> QED
      BY <2>1, <2>2, <3>1, <3>2 DEF Inv, RequestInv, Idle, Last
  <2>6. ShownInv'
    BY <2>1, <2>2 DEF Inv, ShownInv, Idle, Passed, Unread
  <2> QED
    BY <2>4, <2>5, <2>6
<1> QED
  BY <1>1, <1>2, <1>3, <1>4 DEF Changes

-----------------------------------------------------------------------------
\* The count.
LEMMA CountInv ==
  ASSUME Inv, CountRows
  PROVE  WalkInv' /\ RequestInv' /\ ShownInv'
<1> DEFINE r == [request EXCEPT !.total = Cardinality(Selected)]
<1>0. /\ request.now = "count" /\ UNCHANGED <<row, match, cutoff, walk>> /\ Answer(r)
      /\ late' = IF Last("count") THEN late ELSE 0
  BY DEF CountRows, database
<1>1. /\ r.page = request.page /\ r.size = request.size /\ r.filtered = request.filtered
      /\ r.since = request.since /\ r.then = request.then /\ r.total = Cardinality(Selected)
      /\ r \in [now : Statement, then : Statement, page : Nat \ {0}, size : Size,
                filtered : BOOLEAN, since : 0..N, total : {Cardinality(Selected)},
                offered : BOOLEAN]
  BY DEF Inv, TypeOK, Request
<1> HIDE DEF r
<1>2. WalkInv'
  BY <1>0 DEF Inv, WalkInv, Listed, Matching, Current, Passed, NothingTwice
<1>3. CASE request.then = "none"
  <2>1. /\ request' = Nothing
        /\ shown' = [r EXCEPT !.now = "none", !.offered = FALSE]
    BY <1>0, <1>1, <1>3 DEF Answer
  <2>2. /\ shown'.page = request.page /\ shown'.size = request.size
        /\ shown'.total = Cardinality(Selected)
    BY <1>1, <2>1
  <2>3. walk.page = 1 /\ request.page = 1 /\ walk.size = request.size
        /\ ~walk.filtered /\ ~request.filtered /\ late' = late
    BY <1>0, <1>3 DEF Inv, RequestInv, Last
  <2>4. Selected = Current
    BY <2>3 DEF Selected, Listed, Current, Matching
  <2>5. ASSUME NEW f \in walk.steady, Unread(f)
        PROVE  Passed < Cardinality(Selected)
    <3>1. Passed <= Above(Current, f) /\ f \in Current
      BY <2>5 DEF Inv, WalkInv, Unread, Listed, Current
    <3>2. Above(Current, f) < Cardinality(Selected) /\ Above(Current, f) \in Nat
      BY <2>4, <3>1, MatchingType, AboveItself, AboveType
    <3>3. Passed \in Nat /\ Cardinality(Selected) \in Int
      BY PassedType, MatchingType, RowsFinite DEF Inv
    <3> QED
      BY <3>1, <3>2, <3>3
  <2>6. ShownInv'
    BY <1>0, <2>2, <2>3, <2>5 DEF ShownInv, Passed, Unread
  <2>7. RequestInv'
    BY <2>1, SizeAssumption DEF Nothing, RequestInv, Idle, Last, Inv, TypeOK
  <2> QED
    BY <1>2, <2>6, <2>7
<1>4. CASE request.then = "page"
  <2>1. request' = [r EXCEPT !.now = "page", !.then = "none"]
    BY <1>0, <1>1, <1>4 DEF Answer
  <2>2. /\ request'.now = "page" /\ request'.then = "none"
        /\ request'.filtered = request.filtered /\ request'.since = request.since
        /\ request'.total = Cardinality(Selected)
    BY <1>1, <2>1 DEF Statement
  <2>3. Selected' = Selected
    BY <1>0, <2>2 DEF Selected, Listed, Matching
  <2>4. \A f \in Row : AtLeast(Selected, f) <= Cardinality(Selected)
    BY MatchingType, AboveType
  <2>5. RequestInv'
    BY <1>0, <2>2, <2>3, <2>4 DEF Inv, RequestInv, Last, Idle
  <2>6. ShownInv'
    BY <2>2 DEF ShownInv, Idle
  <2> QED
    BY <1>2, <2>5, <2>6
<1> QED
  BY <1>0, <1>3, <1>4 DEF Inv, RequestInv

\* The page.
LEMMA PageInv ==
  ASSUME Inv, PageRows
  PROVE  WalkInv' /\ RequestInv' /\ ShownInv'
<1> DEFINE rows == PageOf(Selected, request.page, request.size)
           all == Listed(request.filtered, cutoff)
           list0 == Matching(row, match, request.filtered)
           fresh == [page |-> 1, size |-> request.size, filtered |-> request.filtered,
                     seen |-> rows, twice |-> {}, steady |-> all, left |-> 0, came |-> 0]
           further == [walk EXCEPT !.page = request.page, !.seen = @ \cup rows,
                                   !.twice = @ \cup (walk.seen \cap rows)]
           on == /\ walk.page + 1 = request.page /\ walk.size = request.size
                 /\ walk.filtered = request.filtered /\ walk.page > 0
           before == (request.page - 1) * request.size
<1>0. /\ request.now = "page" /\ UNCHANGED <<row, match, cutoff>> /\ Answer(request)
      /\ walk' = IF request.page = 1 THEN fresh ELSE IF on THEN further ELSE Lost
      /\ late' = IF Last("page") /\ walk'.page > 0 THEN late ELSE 0
  BY DEF PageRows, database
<1>1. /\ request.page \in Nat \ {0} /\ request.size \in Nat /\ request.size > 0
      /\ request.filtered \in BOOLEAN /\ request.total \in Int
  <2>1. request.page \in Nat \ {0} /\ request.size \in Size /\ request.filtered \in BOOLEAN
        /\ request.total \in 0..N
    BY DEF Inv, TypeOK, Request
  <2>2. request.size \in Nat \ {0}
    BY <2>1, SizeAssumption, Zenon
  <2>3. request.total \in Int
    BY <2>1, SizeAssumption
  <2> QED
    BY <2>1, <2>2, <2>3
<1>2. before \in Nat /\ request.page * request.size = before + request.size
  <2>1. request.page - 1 \in Nat /\ (request.page - 1) + 1 = request.page
    BY <1>1
  <2> QED
    BY <1>1, <2>1, Products
<1>3. \A f \in all : f \in Selected /\ Above(Selected, f) = Above(list0, f)
  BY AboveSelected
<1>4. \A f \in Selected : Above(Selected, f) = Above(list0, f)
  <2> SUFFICES ASSUME NEW f \in Selected
               PROVE  Above(Selected, f) = Above(list0, f)
    OBVIOUS
  <2>1. f \in Int /\ request.since \in Int /\ Row \subseteq Int
    BY SizeAssumption DEF Selected, Listed, Matching, Row, Inv, TypeOK, Request
  <2>2. \A g \in Row : g > f => (g \in Selected <=> g \in list0)
    BY <2>1 DEF Selected, Listed, Matching
  <2> QED
    BY <2>2, AboveSame, MatchingType
<1>5. \A f \in Selected :
        f \in rows <=> before <= Above(Selected, f) /\ Above(Selected, f) < before + request.size
  BY DEF PageOf
<1>6. rows \subseteq Selected /\ all \subseteq Row /\ Selected \subseteq Row
  BY MatchingType DEF PageOf
<1>7. \A f : Above(list0, f) \in Nat
  BY MatchingType, AboveType
<1> HIDE DEF rows, all, list0, before
<1>8. ASSUME request.page = 1
      PROVE  WalkInv'
  <2>1. walk' = fresh /\ walk'.page = 1 /\ walk'.size = request.size
        /\ walk'.filtered = request.filtered /\ walk'.seen = rows /\ walk'.twice = {}
        /\ walk'.steady = all
    BY <1>0, <1>8
  <2>2. Passed' = request.page * request.size /\ Current' = list0
    BY <1>0, <1>8, <2>1 DEF Passed, Current, list0
  <2>3. before = 0
    BY <1>1, <1>8, Products DEF before
  <2>4. \A f \in all : f \in rows \/ Passed' <= Above(Current', f)
    BY <1>1, <1>2, <1>3, <1>5, <1>7, <2>2, <2>3
  <2>5. \A f \in rows : Above(Current', f) < Passed'
    BY <1>1, <1>2, <1>4, <1>5, <1>6, <2>2, <2>3
  <2>6. all = Listed(walk.filtered, cutoff)'
    BY <1>0, <2>1 DEF all, Listed, Matching
  <2>7. WalkInv'
    BY <2>1, <2>4, <2>5, <2>6 DEF WalkInv, NothingTwice
  <2> QED
    BY <2>7
<1>9. ASSUME request.page # 1 /\ on
      PROVE  WalkInv'
  <2>1. walk' = further
    BY <1>0, <1>9
  <2>2. walk'.page = request.page /\ walk'.size = request.size
        /\ walk'.filtered = request.filtered /\ walk'.seen = walk.seen \cup rows
        /\ walk'.twice = walk.twice \cup (walk.seen \cap rows)
        /\ walk'.steady = walk.steady /\ walk'.left = walk.left /\ walk'.came = walk.came
    BY <1>9, <2>1 DEF Inv, TypeOK, Walk
  <2>3. /\ Passed' = request.page * request.size /\ Current' = list0 /\ Current = list0
        /\ Passed = before
    <3>1. walk.page \in Nat /\ request.page - 1 = walk.page
      BY <1>1, <1>9, PassedType DEF Inv
    <3> QED
      BY <1>0, <1>9, <2>2, <3>1 DEF Passed, Current, list0, before
  <2>4. Passed' = before + request.size
    BY <1>2, <2>3
  <2>5. /\ walk.steady \subseteq all /\ walk.steady \subseteq Row /\ walk.seen \subseteq Row
        /\ Row \subseteq Int /\ walk.left \in Int /\ walk.came \in Int
    BY <1>9, PassedType DEF Inv, WalkInv, all
  <2>6. ASSUME NEW f \in walk.steady
        PROVE  f \in walk'.seen \/ f < walk'.left \/ Passed' <= Above(Current', f)
    <3>1. f \in walk.seen \/ f < walk.left \/ before <= Above(list0, f)
      BY <2>3 DEF Inv, WalkInv
    <3>2. f \in Selected /\ Above(Selected, f) = Above(list0, f)
      BY <1>3, <2>5
    <3> QED
      BY <1>1, <1>2, <1>5, <1>7, <2>2, <2>3, <2>4, <3>1, <3>2
  <2>7. ASSUME NEW f \in walk'.seen
        PROVE  f < walk'.came \/ Above(Current', f) < Passed'
    <3>1. CASE f \in walk.seen
      <4>1. f < walk.came \/ Above(list0, f) < before
        BY <2>3, <3>1 DEF Inv, WalkInv
      <4> QED
        BY <1>1, <1>2, <1>7, <2>2, <2>3, <2>4, <4>1
    <3>2. CASE f \in rows
      BY <1>4, <1>5, <1>6, <2>3, <2>4, <3>2
    <3> QED
      BY <2>2, <2>7, <3>1, <3>2
  <2>8. ASSUME NEW f \in walk'.twice
        PROVE  f < walk'.came
    <3>1. CASE f \in walk.twice
      BY <2>2, <3>1 DEF Inv, WalkInv, NothingTwice
    <3>2. CASE f \in walk.seen /\ f \in rows
      <4>1. f < walk.came \/ Above(list0, f) < before
        BY <2>3, <3>2 DEF Inv, WalkInv
      <4>2. before <= Above(list0, f)
        BY <1>4, <1>5, <1>6, <3>2
      <4>3. Above(list0, f) \in Nat
        BY <1>7
      <4> QED
        BY <1>2, <2>2, <4>1, <4>2, <4>3
    <3> QED
      BY <2>2, <2>8, <3>1, <3>2
  <2>9. walk.steady \subseteq Listed(walk.filtered, cutoff)'
    BY <1>0, <1>9, <2>2, <2>5 DEF all, Listed, Matching
  <2>10. walk'.page # 0
    BY <1>1, <2>2
  <2> QED
    BY <2>2, <2>6, <2>7, <2>8, <2>9, <2>10 DEF WalkInv, NothingTwice
<1>10. ASSUME request.page # 1 /\ ~on
      PROVE  WalkInv'
  BY <1>0, <1>10 DEF Lost, WalkInv, NothingTwice
<1>11. WalkInv'
  BY <1>8, <1>9, <1>10
<1>12. CASE request.then = "none"
  <2>1. /\ request' = Nothing
        /\ shown' = [request EXCEPT !.now = "none", !.offered = FALSE]
    BY <1>0, <1>12 DEF Answer
  <2>2. shown'.page = request.page /\ shown'.size = request.size /\ shown'.total = request.total
    BY <2>1 DEF Inv, TypeOK, Request
  <2>3. RequestInv'
    BY <2>1, SizeAssumption DEF Nothing, RequestInv, Idle, Last
  <2>4. ASSUME walk'.page > 0
        PROVE  /\ walk'.page = request.page /\ walk'.size = request.size
               /\ walk'.filtered = request.filtered /\ late' = late
    <3>1. walk' # Lost
      BY <2>4 DEF Lost
    <3>2. request.page = 1 \/ on
      BY <1>0, <3>1
    <3> QED
      BY <1>0, <1>12, <2>4, <3>2 DEF Last, Inv, TypeOK, Walk
  <2>5. ASSUME walk'.page > 0, NEW f \in walk'.steady, Unread(f)'
        PROVE  Passed' < request.total
    <3>1. Passed' <= Above(Current', f) /\ f \in Listed(walk.filtered, cutoff)'
      BY <1>11, <2>5 DEF WalkInv, Unread
    <3>2. Current' = list0 /\ f \in all
      BY <1>0, <2>4, <2>5, <3>1 DEF Current, list0, all, Listed, Matching
    <3>3. f \in Selected /\ Above(Selected, f) = Above(list0, f)
      BY <1>3, <3>2
    <3>4. ~(f <= late)
      BY <2>4, <2>5 DEF Unread
    <3>5. AtLeast(Selected, f) <= request.total
      BY <1>0, <1>6, <1>12, <3>3, <3>4 DEF Last, Inv, RequestInv
    <3>6. AtLeast(Selected, f) = Above(Selected, f) + 1
      BY <1>6, <3>3, AboveItself
    <3>7. Passed' \in Nat
      BY <1>1, <1>2, <2>4, <2>5 DEF Passed
    <3> QED
      BY <1>1, <1>7, <3>1, <3>2, <3>3, <3>5, <3>6, <3>7
  <2>6. ShownInv'
    BY <2>2, <2>4, <2>5 DEF ShownInv
  <2> QED
    BY <1>11, <2>3, <2>6
<1>13. CASE request.then = "count"
  <2>1. request' = [request EXCEPT !.now = "count", !.then = "none"]
    BY <1>0, <1>13 DEF Answer
  <2>2. /\ request'.now = "count" /\ request'.then = "none" /\ request'.page = request.page
        /\ request'.size = request.size /\ request'.filtered = request.filtered
    BY <1>13, <2>1 DEF Inv, TypeOK, Request
  <2>3. request.page = 1 /\ ~request.filtered
    BY <1>0, <1>13 DEF Inv, RequestInv
  <2>4. walk'.page = 1 /\ walk'.size = request.size /\ walk'.filtered = request.filtered
    BY <1>0, <2>3
  <2>5. RequestInv'
    BY <2>2, <2>3, <2>4 DEF RequestInv, Last, Idle
  <2>6. ShownInv'
    BY <2>2 DEF ShownInv, Idle
  <2> QED
    BY <1>11, <2>5, <2>6
<1> QED
  BY <1>0, <1>12, <1>13 DEF Inv, RequestInv

-----------------------------------------------------------------------------
LEMMA InvInit == Init => Inv
<1> SUFFICES ASSUME Init
             PROVE  Inv
  OBVIOUS
<1>1. TypeOK
  BY InitType
<1>2. WalkInv
  BY DEF Init, Lost, WalkInv, NothingTwice
<1>3. RequestInv /\ ShownInv
  BY DEF Init, Nothing, Lost, RequestInv, ShownInv, Idle, Last
<1> QED
  BY <1>1, <1>2, <1>3 DEF Inv

LEMMA InvNext == Inv /\ [Next]_vars => Inv'
<1> SUFFICES ASSUME Inv, [Next]_vars
             PROVE  Inv'
  OBVIOUS
<1>1. TypeOK'
  BY NextType DEF Inv
<1>2. CASE \E f \in Row : Changes(f)
  BY <1>1, <1>2, ChangeInv DEF Inv
<1>3. CASE CountRows \/ PageRows
  BY <1>1, <1>3, CountInv, PageInv DEF Inv
<1>4. CASE Reads /\ ~CountRows /\ ~PageRows
  <2>1. /\ UNCHANGED <<database, shown, walk, late, shrunk>>
        /\ \E page \in Nat \ {0}, size \in Size, filtered, offered \in BOOLEAN :
             \/ Ask("count", "page", page, size, filtered, offered)
             \/ page = 1 /\ ~filtered /\ Ask("page", "count", page, size, filtered, offered)
    BY <1>4, AskFirst DEF Inv
  <2>2. cutoff' = cutoff
    BY <2>1 DEF database
  <2>3. RequestInv' /\ ShownInv'
    BY <2>1, <2>2, AskInv
  <2>4. WalkInv'
    BY <2>1 DEF database, Inv, WalkInv, Listed, Matching, Current, Passed, NothingTwice
  <2> QED
    BY <1>1, <2>3, <2>4 DEF Inv
<1>5. CASE UNCHANGED vars
  <2>1. WalkInv'
    BY <1>5 DEF vars, Inv, WalkInv, Listed, Matching, Current, Passed, NothingTwice
  <2>2. RequestInv'
    BY <1>5 DEF vars, Inv, RequestInv, Selected, Listed, Matching, Idle, Last
  <2>3. ShownInv'
    BY <1>5 DEF vars, Inv, ShownInv, Passed, Unread, Idle
  <2> QED
    BY <1>1, <2>1, <2>2, <2>3 DEF Inv
<1> QED
  BY <1>2, <1>3, <1>4, <1>5 DEF Next

LEMMA SkippedFollows == Inv => NothingSkipped
<1> SUFFICES ASSUME Inv, Idle, walk.page > 0, walk.page = shown.page,
                    Pages(shown) <= walk.page, NEW f \in walk.steady
             PROVE  f \in walk.seen \/ f < walk.left \/ f <= late
  BY DEF NothingSkipped
<1>1. walk.size = shown.size /\ (Unread(f) => Passed < shown.total)
  BY DEF Inv, ShownInv
<1>2. shown.total \in 0..N /\ shown.size \in Size /\ walk.page \in Nat
  BY DEF Inv, TypeOK, Request, Walk
<1>3. shown.total \in Nat
  BY <1>2, SizeAssumption
<1>4. shown.size \in Nat \ {0}
  BY <1>2, SizeAssumption, Zenon
<1>5. shown.total <= walk.page * shown.size
  BY <1>2, <1>3, <1>4, RoundedUp DEF Pages
<1>6. Passed \in Nat /\ Passed = walk.page * shown.size
  BY <1>1, PassedType DEF Inv, Passed
<1> QED
  BY <1>1, <1>3, <1>5, <1>6 DEF Unread

\* The pages of the lists, taken in turn, leave out no row that was there all
\* the time, whatever is uploaded, renamed and deleted meanwhile: except below a
\* row that went, or pushed down by one that came between the two statements of
\* the last page.
THEOREM ListsSkipNothing == Spec => []NothingSkipped
BY InvInit, InvNext, SkippedFollows, PTL DEF Spec

\* And they show a row twice only when a newer one came meanwhile.
THEOREM ListsRepeatNothing == Spec => []NothingTwice
<1>1. Inv => NothingTwice
  BY DEF Inv, WalkInv
<1> QED
  BY <1>1, InvInit, InvNext, PTL DEF Spec

-----------------------------------------------------------------------------
\* Every place in a list is taken: the rows have different numbers of rows above
\* them, all of them less than the size of the list, and there are as many.
LEMMA PlaceTaken ==
  ASSUME NEW S \in SUBSET Row, NEW p \in Nat, p < Cardinality(S)
  PROVE  \E f \in S : Above(S, f) = p
<1> DEFINE n == Cardinality(S)
           place == [f \in S |-> Above(S, f)]
<1>1. n \in Nat /\ IsFiniteSet(S) /\ S \subseteq Int
  BY RowsFinite, SizeAssumption DEF Row
<1>2. \A f \in S : Above(S, f) \in 0..(n - 1)
  BY <1>1, AboveType, AboveItself
<1>3. ASSUME NEW f \in S, NEW g \in S, g > f
      PROVE  Above(S, g) < Above(S, f)
  <2>0. f \in Int /\ g \in Int /\ \A h \in S : h >= g => h > f
    BY <1>1, <1>3
  <2>1. {h \in S : h >= g} \in SUBSET {h \in S : h > f} /\ {h \in S : h > f} \in SUBSET Row
    BY <2>0
  <2>2. AtLeast(S, g) <= Above(S, f)
    BY <2>1, RowsFinite, FS_Subset DEF AtLeast, Above
  <2> QED
    BY <2>2, AboveItself, AboveType
<1>4. \A f, g \in S : Above(S, f) = Above(S, g) => f = g
  <2> SUFFICES ASSUME NEW f \in S, NEW g \in S, Above(S, f) = Above(S, g), f # g
               PROVE  FALSE
    OBVIOUS
  <2>1. f > g \/ g > f
    BY <1>1
  <2>2. Above(S, f) \in Nat /\ Above(S, g) \in Nat
    BY AboveType
  <2> QED
    BY <1>3, <2>1, <2>2
<1>5. place \in Injection(S, 0..(n - 1))
  BY <1>2, <1>4 DEF Injection, IsInjective
<1>6. IsFiniteSet(0..(n - 1)) /\ Cardinality(0..(n - 1)) = n
  <2> HIDE DEF n
  <2>1. 0 \in Int /\ n - 1 \in Int /\ (n - 1) - 0 + 1 = n /\ (0 > n - 1 => n = 0)
    BY <1>1
  <2> QED
    BY <2>1, FS_Interval
<1>7. place \in Surjection(S, 0..(n - 1))
  <2> HIDE DEF place, n
  <2> QED
    BY <1>5, <1>6, FS_Injection DEF n
<1>8. p \in 0..(n - 1)
  BY <1>1
<1>9. PICK f \in S : place[f] = p
  <2> HIDE DEF place, n
  <2> QED
    BY <1>7, <1>8 DEF Surjection
<1> QED
  BY <1>9

LEMMA PageFilled ==
  ASSUME NEW S \in SUBSET Row, NEW page \in Nat \ {0}, NEW size \in Nat \ {0},
         (page - 1) * size < Cardinality(S)
  PROVE  PageOf(S, page, size) # {}
<1>1. (page - 1) * size \in Nat
  BY page - 1 \in Nat, Products
<1>2. PICK f \in S : Above(S, f) = (page - 1) * size
  BY <1>1, PlaceTaken
<1> QED
  BY <1>1, <1>2 DEF PageOf

LEMMA PagesNeeded ==
  ASSUME NEW t \in Nat, NEW s \in Nat \ {0}, NEW p \in Nat \ {0}, p <= (t + s - 1) \div s
  PROVE  (p - 1) * s < t
<1> DEFINE q == (t + s - 1) \div s
<1>1. q \in Nat /\ q * s <= t + s - 1
  OBVIOUS
<1> HIDE DEF q
<1>2. PICK d \in Nat : q = p + d
  BY <1>1, q - p \in Nat, q = p + (q - p) DEF q
<1>3. q * s = p * s + d * s /\ d * s \in Nat /\ p * s \in Nat
  BY <1>1, <1>2
<1>4. p * s = (p - 1) * s + s /\ (p - 1) * s \in Nat
  BY p - 1 \in Nat, (p - 1) + 1 = p, Products
<1> QED
  BY <1>1, <1>3, <1>4

-----------------------------------------------------------------------------
\* Unless a row went, there are at least as many as were counted, for the table
\* that is shown and for the one whose page is still to be read; and a page that
\* was offered was among those of the table that is still shown.
Promised(r) == r.total <= Cardinality(Listed(r.filtered, cutoff))
OfferInv ==
  /\ ~shrunk.table => Promised(shown)
  /\ Last("page") /\ ~shrunk.request => Promised(request)
  /\ ~Idle /\ request.offered /\ request.size = shown.size =>
       request.filtered = shown.filtered /\ request.page <= Pages(shown)
  /\ ~Idle /\ request.offered => ~(request.now = "page" /\ request.then = "count")

\* A list that lost nothing is at least as long.
LEMMA KeptGrows ==
  ASSUME NEW B \in SUBSET Row, NEW A \in SUBSET B
  PROVE  Cardinality(A) \in Int /\ Cardinality(B) \in Int /\ Cardinality(A) <= Cardinality(B)
<1>1. IsFiniteSet(B) /\ Cardinality(A) \in Int /\ Cardinality(B) \in Int
  BY RowsFinite, SizeAssumption
<1> QED
  BY <1>1, FS_Subset

LEMMA TotalType ==
  ASSUME TypeOK
  PROVE  shown.total \in Int /\ request.total \in Int
<1>1. shown.total \in 0..N /\ request.total \in 0..N
  BY DEF TypeOK, Request
<1> QED
  BY <1>1, SizeAssumption

\* Watch notes what goes.
LEMMA WatchOffer ==
  ASSUME TypeOK, OfferInv, NEW f \in Row, OneRow(f), cutoff' = cutoff, Watch(f),
         shown' = shown,
         \/ request' = request
         \/ Idle /\ ~request'.offered /\ ~Last("page")'
  PROVE  OfferInv'
<1>1. shown.filtered \in BOOLEAN /\ request.filtered \in BOOLEAN
      /\ shrunk \in [table : BOOLEAN, request : BOOLEAN]
  BY DEF TypeOK, Request
<1>2. ASSUME NEW filtered \in BOOLEAN,
             ~(f \in Matching(row, match, filtered) \ Matching(row', match', filtered))
      PROVE  Cardinality(Listed(filtered, cutoff)) \in Int
             /\ Cardinality(Listed(filtered, cutoff)') \in Int
             /\ Cardinality(Listed(filtered, cutoff)) <= Cardinality(Listed(filtered, cutoff)')
  <2>1. Matching(row, match, filtered) \subseteq Matching(row', match', filtered)
    BY <1>2 DEF OneRow
  <2>2. Listed(filtered, cutoff) \subseteq Listed(filtered, cutoff)'
    BY <2>1 DEF Listed
  <2>3. Listed(filtered, cutoff)' \in SUBSET Row
    BY DEF Listed, Matching
  <2> QED
    BY <2>2, <2>3, KeptGrows
<1>3. ~shrunk'.table => Promised(shown)'
  <2> SUFFICES ASSUME ~shrunk'.table
               PROVE  Promised(shown)'
    OBVIOUS
  <2>1. /\ ~shrunk.table
        /\ ~(f \in Matching(row, match, shown.filtered) \ Matching(row', match', shown.filtered))
    BY DEF Watch
  <2>2. shown.total <= Cardinality(Listed(shown.filtered, cutoff))
    BY <2>1 DEF OfferInv, Promised
  <2>3. shown.total <= Cardinality(Listed(shown.filtered, cutoff)')
    BY <1>1, <1>2, <2>1, <2>2, TotalType
  <2> QED
    BY <2>3 DEF Promised, Listed
<1>4. CASE request' = request
  <2>1. Last("page") /\ ~shrunk'.request => Promised(request)'
    <3> SUFFICES ASSUME Last("page"), ~shrunk'.request
                 PROVE  Promised(request)'
      OBVIOUS
    <3>1. /\ ~shrunk.request
          /\ ~(f \in Matching(row, match, request.filtered) \ Matching(row', match', request.filtered))
      BY DEF Watch
    <3>2. request.total <= Cardinality(Listed(request.filtered, cutoff))
      BY <3>1 DEF OfferInv, Promised
    <3>3. /\ request.total \in Int
          /\ Cardinality(Listed(request.filtered, cutoff)) \in Int
          /\ Cardinality(Listed(request.filtered, cutoff)') \in Int
          /\ Cardinality(Listed(request.filtered, cutoff))
               <= Cardinality(Listed(request.filtered, cutoff)')
      BY <1>1, <1>2, <1>4, <3>1, TotalType
    <3>4. request.total <= Cardinality(Listed(request.filtered, cutoff)')
      BY <3>2, <3>3
    <3> QED
      BY <1>4, <3>4 DEF Promised, Listed
  <2> QED
    BY <1>3, <1>4, <2>1 DEF OfferInv, Last, Idle, Pages
<1>5. CASE Idle /\ ~request'.offered /\ ~Last("page")'
  BY <1>3, <1>5 DEF OfferInv
<1> QED
  BY <1>4, <1>5

\* A request begins: only links of the table, and the next page of its total,
\* count as offered.
LEMMA AskOffer ==
  ASSUME TypeOK, OfferInv, NEW page, NEW size, NEW filtered, NEW offered,
         UNCHANGED <<row, match, cutoff, shown, shrunk>>,
         \/ /\ Ask("count", "page", page, size, filtered, offered)
            /\ offered /\ size = shown.size => filtered = shown.filtered /\ page <= Pages(shown)
         \/ Ask("page", "count", page, size, filtered, FALSE)
  PROVE  OfferInv'
<1>1. ~Last("page")'
  BY DEF Ask, Last
<1>2. Promised(shown) <=> Promised(shown)'
  BY DEF Promised, Listed, Matching
<1> QED
  BY <1>1, <1>2 DEF Ask, OfferInv, Idle, Pages

\* The two statements: the count promises what is there, the page passes the
\* promise on to the table.
LEMMA CountOffer ==
  ASSUME TypeOK, RequestInv, OfferInv, CountRows
  PROVE  OfferInv'
<1> DEFINE r == [request EXCEPT !.total = Cardinality(Selected)]
           expired == Selected # Listed(request.filtered, cutoff)
<1>0. /\ request.now = "count" /\ UNCHANGED <<row, match, cutoff>> /\ Answer(r)
      /\ shrunk' = IF Last("count") THEN [table |-> expired, request |-> FALSE]
                                    ELSE [shrunk EXCEPT !.request = expired]
  BY DEF CountRows, database
<1>1. /\ r.page = request.page /\ r.size = request.size /\ r.filtered = request.filtered
      /\ r.then = request.then /\ r.total = Cardinality(Selected) /\ r.offered = request.offered
      /\ r \in [now : Statement, then : Statement, page : Nat \ {0}, size : Size,
                filtered : BOOLEAN, since : 0..N, total : {Cardinality(Selected)},
                offered : BOOLEAN]
  BY DEF TypeOK, Request
<1>2. Cardinality(Selected) \in Int
  BY MatchingType, RowsFinite, SizeAssumption
<1>3. \A filtered : Listed(filtered, cutoff)' = Listed(filtered, cutoff)
  BY <1>0 DEF Listed, Matching
<1>4. ~expired => Cardinality(Selected) <= Cardinality(Listed(request.filtered, cutoff))
  BY <1>2
<1>5. expired \in BOOLEAN /\ shrunk \in [table : BOOLEAN, request : BOOLEAN]
  BY DEF TypeOK
<1> HIDE DEF r, expired
<1>6. CASE request.then = "none"
  <2>1. request' = Nothing /\ shown' = [r EXCEPT !.now = "none", !.offered = FALSE]
    BY <1>0, <1>1, <1>6 DEF Answer
  <2>2. shown'.filtered = request.filtered /\ shown'.total = Cardinality(Selected)
    BY <1>1, <2>1
  <2>3. shrunk'.table = expired
    BY <1>0, <1>6 DEF Last
  <2>4. ~shrunk'.table => Promised(shown)'
    BY <1>3, <1>4, <2>2, <2>3 DEF Promised
  <2>5. request'.now = "none"
    BY <2>1 DEF Nothing
  <2> QED
    BY <2>4, <2>5 DEF OfferInv, Last, Idle
<1>7. CASE request.then = "page"
  <2>1. request' = [r EXCEPT !.now = "page", !.then = "none"] /\ shown' = shown
    BY <1>0, <1>1, <1>7 DEF Answer
  <2>2. /\ request'.now = "page" /\ request'.then = "none" /\ request'.page = request.page
        /\ request'.size = request.size /\ request'.offered = request.offered
        /\ request'.filtered = request.filtered /\ request'.total = Cardinality(Selected)
    BY <1>1, <2>1 DEF Statement
  <2>3. shrunk'.table = shrunk.table /\ shrunk'.request = expired
    BY <1>0, <1>5, <1>7 DEF Last
  <2>4. ~shrunk'.table => Promised(shown)'
    BY <1>3, <2>1, <2>3 DEF Promised, OfferInv
  <2>5. ~shrunk'.request => Promised(request)'
    BY <1>3, <1>4, <2>2, <2>3 DEF Promised
  <2> QED
    BY <1>0, <2>1, <2>2, <2>4, <2>5 DEF OfferInv, Idle, Pages
<1> QED
  BY <1>0, <1>6, <1>7 DEF RequestInv

LEMMA PageOffer ==
  ASSUME TypeOK, RequestInv, OfferInv, PageRows
  PROVE  OfferInv'
<1>0. /\ request.now = "page" /\ UNCHANGED <<row, match, cutoff>> /\ Answer(request)
      /\ shrunk' = IF Last("page") THEN [table |-> shrunk.request, request |-> FALSE] ELSE shrunk
  BY DEF PageRows, database
<1>1. \A filtered : Listed(filtered, cutoff)' = Listed(filtered, cutoff)
  BY <1>0 DEF Listed, Matching
<1>2. CASE request.then = "none"
  <2>1. request' = Nothing /\ shown' = [request EXCEPT !.now = "none", !.offered = FALSE]
    BY <1>0, <1>2 DEF Answer
  <2>2. shown'.filtered = request.filtered /\ shown'.total = request.total
    BY <2>1 DEF TypeOK, Request
  <2>3. Last("page") /\ shrunk'.table = shrunk.request
    BY <1>0, <1>2 DEF Last
  <2>4. ~shrunk'.table => Promised(shown)'
    BY <1>1, <2>2, <2>3 DEF OfferInv, Promised
  <2>5. request'.now = "none"
    BY <2>1 DEF Nothing
  <2> QED
    BY <2>4, <2>5 DEF OfferInv, Last, Idle
<1>3. CASE request.then = "count"
  <2>1. request' = [request EXCEPT !.now = "count", !.then = "none"] /\ shown' = shown
        /\ shrunk' = shrunk
    BY <1>0, <1>3 DEF Answer, Last
  <2>2. request'.now = "count" /\ request'.offered = request.offered
    BY <2>1 DEF TypeOK, Request
  <2>3. Promised(shown) <=> Promised(shown)'
    BY <1>1, <2>1 DEF Promised
  <2> QED
    BY <1>0, <1>3, <2>1, <2>2, <2>3 DEF OfferInv, Last, Idle
<1> QED
  BY <1>0, <1>2, <1>3 DEF RequestInv

LEMMA ChangeOffer ==
  ASSUME TypeOK, OfferInv, NEW f \in Row, Changes(f)
  PROVE  OfferInv'
<1>0. row \in [Row -> {"none", "coming", "listed", "gone"}]
  BY DEF TypeOK
<1>1. CASE Begin(f) \/ Refuse(f)
  <2>1. row' \in [Row -> {"none", "coming", "listed", "gone"}]
        /\ \A g \in Row : row'[g] = "listed" <=> row[g] = "listed"
    BY <1>0, <1>1 DEF Begin, Refuse
  <2>2. UNCHANGED <<match, cutoff, request, shown, shrunk>>
    BY <1>1 DEF Begin, Refuse
  <2>3. \A filtered : Matching(row', match', filtered) = Matching(row, match, filtered)
    BY <2>1, <2>2 DEF Matching
  <2> QED
    BY <2>2, <2>3 DEF OfferInv, Promised, Listed, Last, Idle, Pages
<1>2. ASSUME NEW own \in BOOLEAN,
             UploadFile(f, own) \/ CreateAccount(f, own) \/ DeleteFile(f, own)
      PROVE  OfferInv'
  <2>1. OneRow(f)
    BY <1>0, <1>2 DEF UploadFile, CreateAccount, Insert, DeleteFile, OneRow, Matching
  <2>2. cutoff' = cutoff /\ UNCHANGED shown /\ Watch(f)
    BY <1>2 DEF UploadFile, CreateAccount, Insert, DeleteFile
  <2>3. UNCHANGED request \/ FirstPage("page", "count") \/ FirstPage("count", "page")
    BY <1>2 DEF UploadFile, CreateAccount, DeleteFile
  <2>4. request' = request \/ (Idle /\ ~request'.offered /\ ~Last("page")')
    BY <2>3 DEF FirstPage, Ask, Last
  <2> QED
    BY <2>1, <2>2, <2>4, WatchOffer
<1>3. CASE UpdateFile(f) \/ UpdateAccount(f)
  <2>1. OneRow(f)
    BY <1>0, <1>3 DEF UpdateFile, UpdateAccount, Update, OneRow, Matching
  <2>2. cutoff' = cutoff /\ UNCHANGED <<request, shown>> /\ Watch(f)
    BY <1>3 DEF UpdateFile, UpdateAccount, Update
  <2> QED
    BY <2>1, <2>2, WatchOffer
<1>4. CASE Expire(f)
  <2>1. /\ UNCHANGED <<row, match, request, shown>>
        /\ shrunk' = [table |-> shrunk.table \/ shown.filtered,
                      request |-> Last("page") /\ (shrunk.request \/ request.filtered)]
    BY <1>4 DEF Expire
  <2>2. \A filtered : ~filtered => Listed(filtered, cutoff)' = Listed(filtered, cutoff)
    BY <2>1 DEF Listed
  <2>3. ~shrunk'.table => Promised(shown)'
    BY <2>1, <2>2 DEF OfferInv, Promised
  <2>4. Last("page") /\ ~shrunk'.request => Promised(request)'
    BY <2>1, <2>2 DEF OfferInv, Promised
  <2> QED
    BY <2>1, <2>3, <2>4 DEF OfferInv, Last, Idle, Pages
<1> QED
  BY <1>1, <1>2, <1>3, <1>4 DEF Changes

LEMMA ReadOffer ==
  ASSUME TypeOK, RequestInv, OfferInv, Reads
  PROVE  OfferInv'
<1>1. CASE CountRows \/ PageRows
  BY <1>1, CountOffer, PageOffer
<1>2. ASSUME NEW page \in 1..MaxPage, NEW size \in Size, NEW filtered \in BOOLEAN,
             Index(page, size, filtered) \/ AccountPage(page, size, filtered)
               \/ ListFiles(page, size, filtered)
      PROVE  OfferInv'
  <2>1. CASE Index(page, size, filtered) \/ AccountPage(page, size, filtered)
    <3>1. Ask("count", "page", page, size, filtered, FALSE)
          /\ UNCHANGED <<row, match, cutoff, shown, shrunk>>
      BY <2>1 DEF Index, AccountPage, Open, database
    <3> QED
      BY <3>1, AskOffer
  <2>2. CASE ListFiles(page, size, filtered)
    <3> DEFINE offered == filtered = shown.filtered /\ size = shown.size /\ page <= Pages(shown)
    <3>1. Ask("count", "page", page, size, filtered, offered)
          /\ UNCHANGED <<row, match, cutoff, shown, shrunk>>
      BY <2>2 DEF ListFiles, database
    <3>2. offered /\ size = shown.size => filtered = shown.filtered /\ page <= Pages(shown)
      OBVIOUS
    <3> HIDE DEF offered
    <3> QED
      BY <3>1, <3>2, AskOffer
  <2> QED
    BY <1>2, <2>1, <2>2
<1>3. ASSUME FileTablePartial \/ AccountTablePartial
      PROVE  OfferInv'
  <2>1. CASE Turn
    <3>1. PICK page \in Links(shown) : Table(page, shown.filtered, page <= Pages(shown))
      BY <2>1 DEF Turn
    <3> DEFINE offered == page <= Pages(shown)
    <3>2. Ask("count", "page", page, DefaultSize, shown.filtered, offered)
          /\ UNCHANGED <<row, match, cutoff, shown, shrunk>>
      BY <3>1 DEF Table, database
    <3>3. offered /\ DefaultSize = shown.size =>
            shown.filtered = shown.filtered /\ page <= Pages(shown)
      OBVIOUS
    <3> HIDE DEF offered
    <3> QED
      BY <3>2, <3>3, AskOffer
  <2>2. ASSUME NEW filtered \in BOOLEAN, Search(filtered)
        PROVE  OfferInv'
    <3>1. Ask("count", "page", 1, DefaultSize, filtered, FALSE)
          /\ UNCHANGED <<row, match, cutoff, shown, shrunk>>
      BY <2>2 DEF Search, Table, database
    <3> QED
      BY <3>1, AskOffer
  <2> QED
    BY <1>3, <2>1, <2>2 DEF FileTablePartial, AccountTablePartial, Partial
<1>4. CASE StartParse
  <2>1. Ask("page", "count", 1, DefaultSize, FALSE, FALSE)
        /\ UNCHANGED <<row, match, cutoff, shown, shrunk>>
    BY <1>4 DEF StartParse, FirstPage, database
  <2> QED
    BY <2>1, AskOffer
<1> QED
  BY <1>1, <1>2, <1>3, <1>4 DEF Reads

LEMMA OfferInit == Init => OfferInv
<1> SUFFICES ASSUME Init
             PROVE  OfferInv
  OBVIOUS
<1>1. shown.total = 0 /\ request.now = "none"
  BY DEF Init, Nothing
<1>2. Cardinality(Listed(shown.filtered, cutoff)) \in 0..N
  BY MatchingType, RowsFinite
<1>3. Promised(shown)
  BY <1>1, <1>2, SizeAssumption DEF Promised
<1> QED
  BY <1>1, <1>3 DEF OfferInv, Idle, Last

LEMMA OfferStep == Inv /\ OfferInv /\ [Next]_vars => OfferInv'
<1>1. CASE UNCHANGED vars
  BY <1>1 DEF vars, OfferInv, Promised, Listed, Matching, Last, Idle, Pages
<1> QED
  BY <1>1, ChangeOffer, ReadOffer DEF Inv, Next

\* The rows of the list as the request sees it contain those of the table: what
\* is too old now was at most that old when the request came.
LEMMA FilledFollows == Inv /\ OfferInv => OfferedPagesFilled
<1> SUFFICES ASSUME Inv, OfferInv, ~Idle, request.offered, request.size = shown.size,
                    ~shrunk.table
             PROVE  PageOf(Selected, request.page, request.size) # {}
  BY DEF OfferedPagesFilled
<1>1. shown.total <= Cardinality(Listed(request.filtered, cutoff))
      /\ request.page <= Pages(shown)
  BY DEF OfferInv, Promised
<1>2. request.page \in Nat \ {0} /\ request.size \in Size /\ shown.total \in 0..N
  BY DEF Inv, TypeOK, Request
<1>3. request.size \in Nat \ {0}
  BY <1>2, SizeAssumption, Zenon
<1>4. shown.total \in Nat
  BY <1>2, SizeAssumption
<1>5. (request.page - 1) * request.size < shown.total
  BY <1>1, <1>2, <1>3, <1>4, PagesNeeded DEF Pages
<1>6. Listed(request.filtered, cutoff) \in SUBSET Selected
  BY AboveSelected
<1>7. /\ Cardinality(Listed(request.filtered, cutoff)) \in Int
      /\ Cardinality(Selected) \in Int
      /\ Cardinality(Listed(request.filtered, cutoff)) <= Cardinality(Selected)
  BY <1>6, MatchingType, KeptGrows
<1>8. (request.page - 1) * request.size \in Nat
  BY <1>2, <1>3, request.page - 1 \in Nat, Products
<1>9. (request.page - 1) * request.size < Cardinality(Selected)
  BY <1>1, <1>4, <1>5, <1>7, <1>8
<1> QED
  BY <1>2, <1>3, <1>9, MatchingType, PageFilled

\* However many upload, rename and delete: a page that the reader was offered,
\* by a link of the table in front of him or by total_pages, has a row on it
\* unless a row went since that table's count.
THEOREM OfferedPagesHaveRows == Spec => []OfferedPagesFilled
BY InvInit, InvNext, OfferInit, OfferStep, FilledFollows, PTL DEF Spec
=============================================================================

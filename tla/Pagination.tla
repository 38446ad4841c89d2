----------------------------- MODULE Pagination -----------------------------
(***************************************************************************)
(* ListAnalyses and ListOperations: a client reads the table page by page  *)
(* while rows are inserted and change their state.  Of a row, only its     *)
(* state and the columns of the order matter here.                         *)
(*                                                                         *)
(* create_time is now(), the time at which the INSERT starts; the row is   *)
(* visible when it commits.  Several rows may have the same create_time,   *)
(* and they may commit in another order.  Each page is one SELECT and sees *)
(* the rows visible at that moment.                                        *)
(***************************************************************************)
EXTENDS Integers, FiniteSets

CONSTANTS
    Names,            \* operation names, in the order of their collation
    Outcomes,         \* terminal states of a row
    MaxTime,          \* bound: the last instant
    PageSizes,        \* values of page_size in a request
    DefaultPageSize,  \* for a page_size of zero or less
    MaxPageSize,      \* for a greater page_size
    NoFilter,         \* ListAnalyses, and ListOperations without a filter
    Filters,          \* filters of ListOperations, states and NoFilter
    NoToken           \* the empty page_token

ASSUME PaginationAssumption ==
    /\ Names \subseteq Int
    /\ MaxTime \in Nat \ {0}
    /\ PageSizes \subseteq Int
    /\ DefaultPageSize \in Nat \ {0}
    /\ MaxPageSize \in Nat \ {0}
    /\ Outcomes \cap {"ABSENT", "RUNNING"} = {}
    /\ NoToken \notin [time : Int, name : Int]

VARIABLES
    state,      \* state[n]: the state of the row n, "ABSENT" without one
    clock,      \* the clock of the database
    started,    \* started[n]: create_time of n, 0 before its INSERT starts
    client,     \* the client, with the token and filter of its next request
    returned,   \* rows the client has received since its first page
    repeated,   \* rows it has received more than once
    steady,     \* rows visible at the first page, of the same state since
    fresh       \* rows whose INSERT started after the first page

tableVars  == <<state, clock, started>>
clientVars == <<client, returned, repeated>>
pagingVars == <<tableVars, clientVars, steady, fresh>>

----------------------------------------------------------------------------
\* The columns of the order, which are also the content of a token.
Key(n) == [time |-> started[n], name |-> n]

Keys == [time : 0 .. MaxTime, name : Names]

Client == [pc : {"idle", "paging", "end"}, token : Keys \cup {NoToken},
           filter : Filters \cup {NoFilter}]

Exists(n) == state[n] # "ABSENT"

PagingInit ==
    /\ state = [n \in Names |-> "ABSENT"]
    /\ clock = 1
    /\ started = [n \in Names |-> 0]
    /\ client = [pc |-> "idle", token |-> NoToken, filter |-> NoFilter]
    /\ returned = {}
    /\ repeated = {}
    /\ steady = {}
    /\ fresh = {}

----------------------------------------------------------------------------
(* The table *)

Tick ==
    /\ clock < MaxTime
    /\ clock' = clock + 1
    /\ UNCHANGED <<state, started, clientVars, steady, fresh>>

\* The INSERT of CreateAnalysis starts.
StartInsert(n) ==
    /\ started[n] = 0
    /\ started' = [started EXCEPT ![n] = clock]
    /\ fresh' = fresh \cup {n}
    /\ UNCHANGED <<state, clock, clientVars, steady>>

\* It commits.
CommitInsert(n) ==
    /\ started[n] # 0
    /\ ~Exists(n)
    /\ state' = [state EXCEPT ![n] = "RUNNING"]
    /\ UNCHANGED <<clock, started, clientVars, steady, fresh>>

\* MarkSucceeded, MarkFailed or MarkCancelled, whatever the state was.
Mark(n, s) ==
    /\ Exists(n)
    /\ state' = [state EXCEPT ![n] = s]
    /\ steady' = IF state[n] = s THEN steady ELSE steady \ {n}
    /\ UNCHANGED <<clock, started, clientVars, fresh>>

----------------------------------------------------------------------------
(* store.ListAnalyses *)

\* ORDER BY create_time DESC, operation_name.
ListedBefore(a, b) ==
    a.time > b.time \/ (a.time = b.time /\ a.name < b.name)

\* A mutant of RowLess: <= instead of <.
RowAtMost(a, b) ==
    a.time < b.time \/ (a.time = b.time /\ a.name <= b.name)

\* (create_time, operation_name) < ($1, $2), the comparison of row values of
\* SQL: both columns ascend.
RowLess(a, b) ==
    a.time < b.time \/ (a.time = b.time /\ a.name < b.name)

\* A mutant of Selected: the page is cut by name alone.
SelectedByName(token) ==
    {n \in Names : Exists(n) /\ (token = NoToken \/ n > token.name)}

\* A mutant of Selected: the page is cut by time, but for the row of the token.
SelectedByTime(token) ==
    {n \in Names :
        /\ Exists(n)
        /\ token = NoToken \/ (started[n] <= token.time /\ n # token.name)}

\* The rows of the WHERE clause.
Selected(token) ==
    {n \in Names : Exists(n) /\ (token = NoToken \/ RowLess(Key(n), token))}

\* F is the first k rows of R, or all of R when there are not so many.
FirstRows(F, R, k) ==
    /\ F \subseteq R
    /\ \A n \in F, m \in R \ F : ListedBefore(Key(n), Key(m))
    /\ Cardinality(F) <= k
    /\ Cardinality(F) = k \/ F = R

LastRow(n, F) == n \in F /\ \A m \in F \ {n} : ListedBefore(Key(m), Key(n))

\* The handlers clamp page_size before they call the store.
Clamp(size) ==
    CASE size <= 0 -> DefaultPageSize
      [] size > MaxPageSize -> MaxPageSize
      [] OTHER -> size

\* A mutant of IsAnswer: the token is made from the extra row.
TokenOfExtraRow(token, size, page, next) ==
    \E fetched \in SUBSET Selected(token) :
        /\ FirstRows(fetched, Selected(token), size + 1)
        /\ \/ /\ Cardinality(fetched) = size + 1
              /\ FirstRows(page, fetched, size)
              /\ \E n \in fetched : LastRow(n, fetched) /\ next = Key(n)
           \/ /\ Cardinality(fetched) # size + 1
              /\ page = fetched
              /\ next = NoToken

\* A page and the next token.  One row more than the page is fetched, to know
\* whether there is a next page; the token is the last row of the page.
IsAnswer(token, size, page, next) ==
    \E fetched \in SUBSET Selected(token) :
        /\ FirstRows(fetched, Selected(token), size + 1)
        /\ \/ /\ Cardinality(fetched) = size + 1
              /\ FirstRows(page, fetched, size)
              /\ \E n \in page : LastRow(n, page) /\ next = Key(n)
           \/ /\ Cardinality(fetched) # size + 1
              /\ page = fetched
              /\ next = NoToken

----------------------------------------------------------------------------
(* ListAnalyses and ListOperations *)

Matches(filter, n) == filter = NoFilter \/ state[n] = filter

\* ListOperations drops the rows of another state after the page is cut.
Answered(page, filter) == {n \in page : Matches(filter, n)}

Pages(token) == SUBSET Selected(token)

Tokens == {Key(n) : n \in Names} \cup {NoToken}

Advance(next, filter) ==
    client' = [pc |-> IF next = NoToken THEN "end" ELSE "paging",
               token |-> next, filter |-> filter]

\* A request without a token starts over.
FirstPage(size, filter) ==
    \E page \in Pages(NoToken), next \in Tokens :
        /\ client.pc # "paging"
        /\ IsAnswer(NoToken, Clamp(size), page, next)
        /\ Advance(next, filter)
        /\ returned' = Answered(page, filter)
        /\ repeated' = {}
        /\ steady' = {n \in Names : Exists(n)}
        /\ fresh' = {}
        /\ UNCHANGED tableVars

NextPage(size) ==
    \E page \in Pages(client.token), next \in Tokens :
        LET answer == Answered(page, client.filter)
        IN  /\ client.pc = "paging"
            /\ IsAnswer(client.token, Clamp(size), page, next)
            /\ Advance(next, client.filter)
            /\ returned' = returned \cup answer
            /\ repeated' = repeated \cup (returned \cap answer)
            /\ UNCHANGED <<tableVars, steady, fresh>>

PagingNext ==
    \/ Tick
    \/ \E n \in Names :
          \/ StartInsert(n)
          \/ CommitInsert(n)
          \/ \E s \in Outcomes : Mark(n, s)
    \/ \E size \in PageSizes :
          \/ \E filter \in Filters : FirstPage(size, filter)
          \/ NextPage(size)

PagingSpec == PagingInit /\ [][PagingNext]_pagingVars

\* A client that goes on asking for the next page.
DiligentSpec ==
    PagingSpec /\ WF_pagingVars(\E size \in PageSizes : NextPage(size))

----------------------------------------------------------------------------
(* Properties *)

\* No other row has the create_time of n.
Untied(n) == \A m \in Names \ {n} : started[m] # started[n]

\* A client that has read all pages has received every row that was there
\* when it began, of the state it asked for all along, and none twice,
\* whatever was inserted and however the page sizes varied; except rows that
\* share their create_time with another.
ExactlyOnce ==
    \A n \in Names :
        Untied(n) =>
            /\ n \notin repeated
            /\ client.pc = "end" /\ n \in steady /\ Matches(client.filter, n)
                  => n \in returned

\* list.go: "new rows inserted between pages only appear on page 1".  It is
\* the start of the INSERT that counts: a row that starts after the first page
\* is on none of the next ones, unless it shares its create_time.
NewRowsOnFirstPage == \A n \in fresh : Untied(n) => n \notin returned

\* The tokens lead to an end, even if rows keep arriving.
EveryListingEnds == client.pc = "paging" ~> client.pc = "end"

\* The safety half of EveryListingEnds: each page that has a next one brings the
\* client strictly further down the order of the WHERE clause, past no token
\* twice, whatever the page size and whatever is inserted meanwhile.
TokenDescends ==
    [][client.pc = "paging" /\ client'.pc = "paging" =>
          client' = client \/ RowLess(client'.token, client.token)]_pagingVars

\* store.go: a page is the rows "strictly 'after' the cursor position in
\* (create_time DESC, operation_name) order"; so a client that has read all
\* pages has received every row, those with the same create_time too.
EveryRowListed ==
    \A n \in steady :
        client.pc = "end" /\ Matches(client.filter, n) => n \in returned

\* The inductive invariant.  What lies behind the token has been returned, and
\* nothing else.
PagingTypeOK ==
    /\ state \in [Names -> {"ABSENT", "RUNNING"} \cup Outcomes]
    /\ clock \in 1 .. MaxTime
    /\ started \in [Names -> 0 .. clock]
    /\ client \in Client
    /\ returned \subseteq Names
    /\ repeated \subseteq Names
    /\ steady \subseteq Names
    /\ fresh \subseteq Names

TokenIsRow ==
    /\ client.pc = "paging" <=> client.token # NoToken
    /\ client.pc = "paging" => /\ Exists(client.token.name)
                               /\ client.token = Key(client.token.name)

Behind(n) == client.pc = "paging" => ~RowLess(Key(n), client.token)

TokenSplitsRows ==
    \A n \in Names :
        /\ Exists(n) => started[n] # 0
        /\ n \in fresh => started[n] # 0
        /\ n \in steady \cup returned => Exists(n)
        /\ n \in repeated => n \in returned
        /\ client.pc = "idle" => n \notin returned \cup steady
        /\ Untied(n) =>
              /\ n \in fresh \cup returned => Behind(n)
              /\ /\ client.pc # "idle"
                 /\ n \in steady /\ Behind(n) /\ Matches(client.filter, n)
                 => n \in returned

PagingInv ==
    /\ PagingTypeOK
    /\ TokenIsRow
    /\ TokenSplitsRows
    /\ ExactlyOnce
    /\ NewRowsOnFirstPage
============================================================================

-------------------------- MODULE PaginationProofs --------------------------
(***************************************************************************)
(* That a listing returns every row of a create_time of its own exactly    *)
(* once, for any table, any page sizes and any interleaving of inserts.    *)
(***************************************************************************)
EXTENDS Pagination, TLAPS

\* The key of a row is a pair of numbers, and no key is the empty token.
LEMMA KeyType ==
    ASSUME PagingTypeOK, NEW n \in Names
    PROVE  /\ Key(n) \in Keys
           /\ Key(n).time = started[n]
           /\ Key(n).name = n
           /\ started[n] \in Int /\ n \in Int
           /\ Key(n) # NoToken
<1>1. started[n] \in 0 .. clock /\ clock \in 1 .. MaxTime /\ MaxTime \in Int
  BY PaginationAssumption DEF PagingTypeOK
<1>2. started[n] \in 0 .. MaxTime /\ started[n] \in Int /\ n \in Int
  BY <1>1, PaginationAssumption
<1>3. QED
  BY <1>2, PaginationAssumption DEF Key, Keys

\* Tokens are pairs of numbers.
LEMMA TokenType ==
    ASSUME NEW token \in Keys
    PROVE  token.time \in Int /\ token.name \in Int /\ token # NoToken
<1>1. 0 .. MaxTime \subseteq Int
  BY PaginationAssumption
<1>2. Keys \subseteq [time : Int, name : Int]
  BY <1>1, PaginationAssumption DEF Keys
<1>3. QED
  BY <1>2, PaginationAssumption

\* Of two rows with different times, the two orders agree.
LEMMA OrdersAgree ==
    ASSUME PagingTypeOK, NEW m \in Names, NEW n \in Names,
           started[m] # started[n]
    PROVE  /\ ListedBefore(Key(m), Key(n)) <=> started[m] > started[n]
           /\ RowLess(Key(m), Key(n)) <=> started[m] < started[n]
BY KeyType DEF ListedBefore, RowLess

\* What a page is: it is taken from the rows behind the token; without a next
\* token it is all of them; and a next token is a row of the page that
\* separates, among the rows with a time of their own, the page from the rest.
LEMMA AnswerSplits ==
    ASSUME PagingTypeOK,
           NEW token \in Keys \cup {NoToken}, NEW size \in Int, NEW page,
           NEW next, IsAnswer(token, size, page, next)
    PROVE  /\ page \subseteq Selected(token)
           /\ next = NoToken => page = Selected(token)
           /\ next # NoToken =>
                \E l \in page :
                    /\ next = Key(l)
                    /\ \A n \in Selected(token) :
                          Untied(n) => (n \in page <=> ~RowLess(Key(n), next))
<1> PICK fetched \in SUBSET Selected(token) :
        /\ FirstRows(fetched, Selected(token), size + 1)
        /\ \/ /\ Cardinality(fetched) = size + 1
              /\ FirstRows(page, fetched, size)
              /\ \E n \in page : LastRow(n, page) /\ next = Key(n)
           \/ /\ Cardinality(fetched) # size + 1
              /\ page = fetched
              /\ next = NoToken
  BY DEF IsAnswer
<1> Selected(token) \subseteq Names
  BY DEF Selected
<1>1. CASE /\ Cardinality(fetched) # size + 1
           /\ page = fetched
           /\ next = NoToken
  BY <1>1 DEF FirstRows
<1>2. CASE /\ Cardinality(fetched) = size + 1
           /\ FirstRows(page, fetched, size)
           /\ \E n \in page : LastRow(n, page) /\ next = Key(n)
  <2> PICK l \in page : LastRow(l, page) /\ next = Key(l)
    BY <1>2
  <2>1. page \subseteq fetched /\ l \in Names
    BY <1>2 DEF FirstRows
  <2>2. next # NoToken
    BY <2>1, KeyType
  <2>3. ASSUME NEW n \in Selected(token), Untied(n), n \in page
        PROVE  ~RowLess(Key(n), next)
    <3>1. CASE n = l
      BY <3>1, <2>1, KeyType DEF RowLess
    <3>2. CASE n # l
      <4>1. ListedBefore(Key(n), Key(l)) /\ started[n] # started[l]
        BY <3>2, <2>1, <2>3 DEF LastRow, Untied
      <4>2. started[n] \in Int /\ started[l] \in Int
        BY <2>1, KeyType
      <4>3. QED
        BY <4>1, <4>2, <2>1, OrdersAgree
    <3>3. QED
      BY <3>1, <3>2
  <2>4. ASSUME NEW n \in Selected(token), Untied(n), n \notin page
        PROVE  RowLess(Key(n), next)
    <3>1. ListedBefore(Key(l), Key(n))
      BY <1>2, <2>1, <2>4 DEF FirstRows
    <3>2. started[l] # started[n]
      BY <2>1, <2>4 DEF Untied
    <3>3. started[n] \in Int /\ started[l] \in Int
      BY <2>1, KeyType
    <3>4. QED
      BY <3>1, <3>2, <3>3, <2>1, OrdersAgree
  <2>5. QED
    BY <2>1, <2>2, <2>3, <2>4
<1>3. QED
  BY <1>1, <1>2

\* The token only moves backwards in time: what lies behind it stays behind.
LEMMA BehindStays ==
    ASSUME PagingTypeOK, NEW token \in Keys, NEW l \in Selected(token),
           NEW n \in Names, Untied(n), ~RowLess(Key(n), token)
    PROVE  ~RowLess(Key(n), Key(l))
<1>1. l \in Names /\ RowLess(Key(l), token)
  BY TokenType DEF Selected
<1>2. n # l /\ started[n] # started[l]
  BY <1>1 DEF Untied
<1>3. token.time \in Int /\ token.name \in Int
  BY TokenType
<1>4. started[n] > started[l]
  BY <1>1, <1>2, <1>3, KeyType DEF RowLess
<1>5. QED
  BY <1>1, <1>2, <1>4, KeyType DEF RowLess

----------------------------------------------------------------------------
\* Nothing is listed before the first request.
LEMMA InitEstablishes == PagingInit => PagingInv
<1> SUFFICES ASSUME PagingInit PROVE PagingInv
  OBVIOUS
<1> USE DEF PagingInit
<1>1. PagingTypeOK
  <2>1. 1 \in 1 .. MaxTime /\ 0 \in 0 .. 1
    BY PaginationAssumption
  <2>2. QED
    BY <2>1 DEF PagingTypeOK, Client
<1>2. TokenIsRow /\ TokenSplitsRows /\ ExactlyOnce /\ NewRowsOnFirstPage
  BY DEF TokenIsRow, TokenSplitsRows, ExactlyOnce, NewRowsOnFirstPage, Exists
<1>3. QED
  BY <1>1, <1>2 DEF PagingInv

\* Time passes without effect on a listing.
LEMMA TickKeeps == PagingInv /\ Tick => PagingInv'
<1> SUFFICES ASSUME PagingInv, Tick PROVE PagingInv'
  OBVIOUS
<1> UNCHANGED <<state, started, client, returned, repeated, steady, fresh>>
  BY DEF Tick, clientVars
<1>1. PagingTypeOK'
  <2>1. clock' \in 1 .. MaxTime /\ 0 .. clock \subseteq 0 .. clock'
    BY PaginationAssumption DEF PagingInv, PagingTypeOK, Tick
  <2>2. QED
    BY <2>1 DEF PagingInv, PagingTypeOK, Client, Keys
<1>2. (TokenIsRow /\ TokenSplitsRows /\ ExactlyOnce /\ NewRowsOnFirstPage)'
  BY DEF PagingInv, TokenIsRow, TokenSplitsRows, ExactlyOnce,
         NewRowsOnFirstPage, Exists, Key, Behind, Untied, Matches
<1>3. QED
  BY <1>1, <1>2 DEF PagingInv

\* A row that starts after the first page is not behind the token: its time
\* is no earlier, and if it is the same the two rows are tied.
LEMMA StartInsertKeeps ==
    ASSUME PagingInv, NEW n \in Names, StartInsert(n)
    PROVE  PagingInv'
<1> USE DEF PagingInv
<1>0. /\ started[n] = 0 /\ started' = [started EXCEPT ![n] = clock]
      /\ fresh' = fresh \cup {n}
      /\ UNCHANGED <<state, clock, client, returned, repeated, steady>>
  BY DEF StartInsert, clientVars
<1>1. clock \in 1 .. MaxTime /\ clock \in Int /\ clock > 0 /\ clock \in 0 .. clock
  BY PaginationAssumption DEF PagingTypeOK
<1>2. PagingTypeOK'
  BY <1>0, <1>1 DEF PagingTypeOK, Client, Keys
<1>3. /\ started \in [Names -> 0 .. clock] /\ started'[n] = clock
      /\ \A m \in Names \ {n} : started'[m] = started[m]
  BY <1>0 DEF PagingTypeOK
<1>4. ~Exists(n) /\ n \notin fresh /\ n \notin steady
  BY <1>0 DEF TokenSplitsRows
<1>5. TokenIsRow'
  <2>1. CASE client.pc = "paging"
    <3>1. client.token.name \in Names \ {n}
      <4>1. client.token \in Keys
        BY <2>1 DEF TokenIsRow, PagingTypeOK, Client
      <4>2. QED
        BY <4>1, <2>1, <1>4 DEF Keys, TokenIsRow
    <3>2. QED
      BY <3>1, <2>1, <1>0, <1>3 DEF TokenIsRow, Exists, Key
  <2>2. CASE client.pc # "paging"
    BY <2>2, <1>0 DEF TokenIsRow
  <2>3. QED
    BY <2>1, <2>2
<1>6. \A m \in Names \ {n} :
         /\ Key(m)' = Key(m)
         /\ started[m] # 0 /\ Untied(m)' => Untied(m)
  BY <1>0, <1>3 DEF Key, Untied
<1>7. ASSUME client.pc = "paging", Untied(n)'
      PROVE  ~RowLess(Key(n)', client.token)
  <2>1. client.token \in Keys
    BY <1>7 DEF TokenIsRow, PagingTypeOK, Client
  <2> PICK t \in Names : t = client.token.name
    BY <2>1 DEF Keys
  <2>2. t # n /\ client.token = Key(t)
    BY <1>7, <1>4 DEF TokenIsRow
  <2>3. started[t] # clock
    BY <2>2, <1>3, <1>7 DEF Untied
  <2>4. started[t] \in 0 .. clock
    BY <1>3
  <2>5. client.token.time = started[t] /\ Key(n)'.time = clock
    BY <2>2, <1>3 DEF Key
  <2>6. started[t] \in Int /\ started[t] < clock
    BY <2>3, <2>4, <1>1
  <2>7. QED
    BY <2>5, <2>6, <1>1 DEF RowLess
<1>8. TokenSplitsRows'
  <2> SUFFICES ASSUME NEW m \in Names
               PROVE  /\ Exists(m)' => started'[m] # 0
                      /\ m \in fresh' => started'[m] # 0
                      /\ m \in steady' \cup returned' => Exists(m)'
                      /\ m \in repeated' => m \in returned'
                      /\ client'.pc = "idle" => m \notin returned' \cup steady'
                      /\ Untied(m)' =>
                           /\ m \in fresh' \cup returned' => Behind(m)'
                           /\ /\ client'.pc # "idle" /\ m \in steady'
                              /\ Behind(m)' /\ Matches(client.filter, m)'
                              => m \in returned'
    BY DEF TokenSplitsRows
  <2>1. CASE m = n
    <3>1. m \notin returned /\ m \notin steady /\ m \notin repeated
      BY <2>1, <1>4 DEF TokenSplitsRows
    <3>2. Untied(m)' => Behind(m)'
      BY <2>1, <1>0, <1>7 DEF Behind
    <3>3. QED
      BY <3>1, <3>2, <2>1, <1>0, <1>1, <1>3, <1>4 DEF Exists
  <2>2. CASE m # n
    <3>1. /\ Exists(m)' = Exists(m) /\ started'[m] = started[m]
          /\ Behind(m)' = Behind(m)
          /\ Matches(client.filter, m)' = Matches(client.filter, m)
      BY <2>2, <1>0, <1>3, <1>6 DEF Exists, Behind, Matches
    <3>2. m \in fresh' => m \in fresh
      BY <2>2, <1>0
    <3>3. QED
      BY <3>1, <3>2, <2>2, <1>0, <1>6 DEF TokenSplitsRows
  <2>3. QED
    BY <2>1, <2>2
<1>9. ExactlyOnce' /\ NewRowsOnFirstPage'
  <2>1. \A m \in returned \cup repeated \cup steady :
          m \in Names => m # n /\ started[m] # 0
    BY <1>4 DEF TokenSplitsRows
  <2>2. ExactlyOnce'
    BY <2>1, <1>0, <1>6 DEF ExactlyOnce, Matches
  <2>3. NewRowsOnFirstPage'
    BY <2>1, <1>0, <1>6 DEF NewRowsOnFirstPage, PagingTypeOK
  <2>4. QED
    BY <2>2, <2>3
<1>10. QED
  BY <1>2, <1>5, <1>8, <1>9

\* A statement on the table disturbs no listing, if it makes no row disappear
\* and the rows whose state it changes are no longer counted as steady.
LEMMA TableChangeKeeps ==
    ASSUME PagingInv,
           UNCHANGED <<clock, started, client, returned, repeated, fresh>>,
           state' \in [Names -> {"ABSENT", "RUNNING"} \cup Outcomes],
           steady' \subseteq steady,
           \A m \in steady' : state'[m] = state[m],
           \A m \in Names : Exists(m) => Exists(m)',
           \A m \in Names : Exists(m)' => started[m] # 0
    PROVE  PagingInv'
<1> USE DEF PagingInv
<1>1. PagingTypeOK'
  BY DEF PagingTypeOK, Client, Keys
<1>2. \A m \in Names : /\ Untied(m)' = Untied(m)
                       /\ Key(m)' = Key(m)
                       /\ Behind(m)' = Behind(m)
                       /\ m \in steady' => m \in steady /\ Matches(client.filter, m)'
                                                  = Matches(client.filter, m)
  BY DEF Untied, Key, Behind, Matches
<1>3. TokenIsRow'
  <2>1. client.pc = "paging" => client.token.name \in Names
    <3>1. client.pc = "paging" => client.token \in Keys
      BY DEF TokenIsRow, PagingTypeOK, Client
    <3>2. QED
      BY <3>1 DEF Keys
  <2>2. QED
    BY <2>1, <1>2 DEF TokenIsRow
<1>4. TokenSplitsRows'
  BY <1>2 DEF TokenSplitsRows
<1>5. ExactlyOnce' /\ NewRowsOnFirstPage'
  BY <1>2 DEF ExactlyOnce, NewRowsOnFirstPage, PagingTypeOK
<1>6. QED
  BY <1>1, <1>3, <1>4, <1>5

\* A new row is visible to the next page; it was in no page and is not steady.
LEMMA CommitInsertKeeps ==
    ASSUME PagingInv, NEW n \in Names, CommitInsert(n)
    PROVE  PagingInv'
<1>1. /\ started[n] # 0 /\ ~Exists(n)
      /\ state' = [state EXCEPT ![n] = "RUNNING"]
      /\ UNCHANGED <<clock, started, client, returned, repeated, steady, fresh>>
  BY DEF CommitInsert, clientVars
<1>2. state \in [Names -> {"ABSENT", "RUNNING"} \cup Outcomes]
  BY DEF PagingInv, PagingTypeOK
<1>3. steady \subseteq Names /\ n \notin steady
  BY <1>1 DEF PagingInv, PagingTypeOK, TokenSplitsRows
<1>4. \A m \in Names : Exists(m) => started[m] # 0
  BY DEF PagingInv, TokenSplitsRows
<1>5. QED
  BY <1>1, <1>2, <1>3, <1>4, TableChangeKeeps DEF Exists

\* A row changes its state.
LEMMA MarkKeeps ==
    ASSUME PagingInv, NEW n \in Names, NEW s \in Outcomes, Mark(n, s)
    PROVE  PagingInv'
<1>1. /\ Exists(n)
      /\ state' = [state EXCEPT ![n] = s]
      /\ steady' = IF state[n] = s THEN steady ELSE steady \ {n}
      /\ UNCHANGED <<clock, started, client, returned, repeated, fresh>>
  BY DEF Mark, clientVars
<1>2. state \in [Names -> {"ABSENT", "RUNNING"} \cup Outcomes]
  BY DEF PagingInv, PagingTypeOK
<1>3. steady \subseteq Names /\ s # "ABSENT"
  BY PaginationAssumption DEF PagingInv, PagingTypeOK
<1>4. \A m \in Names : Exists(m) => started[m] # 0
  BY DEF PagingInv, TokenSplitsRows
<1>5. QED
  BY <1>1, <1>2, <1>3, <1>4, TableChangeKeeps DEF Exists

\* page_size after the clamp, and the type of the next token.
LEMMA RequestType ==
    ASSUME PagingTypeOK, NEW size \in PageSizes, NEW next \in Tokens
    PROVE  Clamp(size) \in Int /\ next \in Keys \cup {NoToken}
<1>1. Clamp(size) \in Int
  BY PaginationAssumption DEF Clamp
<1>2. next \in Keys \cup {NoToken}
  BY KeyType DEF Tokens
<1>3. QED
  BY <1>1, <1>2

\* The first page: what it leaves out lies behind its token.
LEMMA FirstPageKeeps ==
    ASSUME PagingInv, NEW size \in PageSizes, NEW filter \in Filters,
           FirstPage(size, filter)
    PROVE  PagingInv'
<1> USE DEF PagingInv
<1> PICK page \in Pages(NoToken), next \in Tokens :
      /\ IsAnswer(NoToken, Clamp(size), page, next)
      /\ Advance(next, filter)
      /\ returned' = Answered(page, filter)
      /\ repeated' = {}
      /\ steady' = {n \in Names : Exists(n)}
      /\ fresh' = {}
      /\ UNCHANGED tableVars
  BY DEF FirstPage
<1> UNCHANGED <<state, clock, started>>
  BY DEF tableVars
<1>1. Clamp(size) \in Int /\ next \in Keys \cup {NoToken}
  BY RequestType
<1>2. /\ page \subseteq Selected(NoToken)
      /\ next = NoToken => page = Selected(NoToken)
      /\ next # NoToken =>
           \E l \in page :
              /\ next = Key(l)
              /\ \A n \in Selected(NoToken) :
                    Untied(n) => (n \in page <=> ~RowLess(Key(n), next))
  BY <1>1, AnswerSplits
<1>3. Selected(NoToken) = {n \in Names : Exists(n)}
  BY DEF Selected
<1>4. client' = [pc |-> IF next = NoToken THEN "end" ELSE "paging",
                 token |-> next, filter |-> filter]
  BY DEF Advance
<1>5. returned' = {n \in page : Matches(filter, n)}
  BY DEF Answered
<1>6. PagingTypeOK'
  BY <1>1, <1>2, <1>3, <1>4, <1>5 DEF PagingTypeOK, Client, Keys
<1>7. TokenIsRow'
  <2>1. CASE next = NoToken
    BY <2>1, <1>4 DEF TokenIsRow
  <2>2. CASE next # NoToken
    <3> PICK l \in page : next = Key(l)
      BY <2>2, <1>2
    <3>1. l \in Names /\ Exists(l) /\ next.name = l
      BY <1>2, <1>3, KeyType
    <3>2. QED
      BY <3>1, <2>2, <1>4 DEF TokenIsRow, Exists, Key
  <2>3. QED
    BY <2>1, <2>2
<1>8. \A n \in Names : /\ Exists(n)' = Exists(n) /\ Untied(n)' = Untied(n)
                       /\ Matches(filter, n)' = Matches(filter, n)
                       /\ Behind(n)' = (next # NoToken => ~RowLess(Key(n), next))
  BY <1>4 DEF Exists, Untied, Matches, Behind, Key
<1>9. \A n \in Names : Untied(n) =>
         /\ n \in returned' => Behind(n)'
         /\ n \in steady' /\ Behind(n)' /\ Matches(filter, n) => n \in returned'
  BY <1>2, <1>3, <1>5, <1>8
<1>10. TokenSplitsRows'
  BY <1>2, <1>3, <1>4, <1>5, <1>8, <1>9 DEF TokenSplitsRows
<1>11. ExactlyOnce' /\ NewRowsOnFirstPage'
  BY <1>4, <1>8, <1>9 DEF ExactlyOnce, NewRowsOnFirstPage, Behind
<1>12. QED
  BY <1>6, <1>7, <1>10, <1>11

\* A later page: it repeats nothing that lies before the old token, and what it
\* leaves out lies behind the new one.
LEMMA NextPageKeeps ==
    ASSUME PagingInv, NEW size \in PageSizes, NextPage(size)
    PROVE  PagingInv'
<1> USE DEF PagingInv
<1> DEFINE token == client.token
           filter == client.filter
<1> PICK page \in Pages(token), next \in Tokens :
      /\ client.pc = "paging"
      /\ IsAnswer(token, Clamp(size), page, next)
      /\ Advance(next, filter)
      /\ returned' = returned \cup Answered(page, filter)
      /\ repeated' = repeated \cup (returned \cap Answered(page, filter))
      /\ UNCHANGED <<tableVars, steady, fresh>>
  BY DEF NextPage
<1> UNCHANGED <<state, clock, started, steady, fresh>>
  BY DEF tableVars
<1>1. /\ Clamp(size) \in Int /\ next \in Keys \cup {NoToken}
      /\ token \in Keys /\ token # NoToken
      /\ filter \in Filters \cup {NoFilter}
  BY RequestType DEF TokenIsRow, PagingTypeOK, Client
<1>2. /\ page \subseteq Selected(token)
      /\ next = NoToken => page = Selected(token)
      /\ next # NoToken =>
           \E l \in page :
              /\ next = Key(l)
              /\ \A n \in Selected(token) :
                    Untied(n) => (n \in page <=> ~RowLess(Key(n), next))
  BY <1>1, AnswerSplits
<1>3. Selected(token) = {n \in Names : Exists(n) /\ RowLess(Key(n), token)}
  BY <1>1 DEF Selected
<1>4. client' = [pc |-> IF next = NoToken THEN "end" ELSE "paging",
                 token |-> next, filter |-> filter]
  BY DEF Advance
<1>5. /\ returned' = returned \cup {n \in page : Matches(filter, n)}
      /\ repeated' = repeated \cup {n \in page \cap returned : Matches(filter, n)}
  BY DEF Answered
<1>6. PagingTypeOK'
  BY <1>1, <1>2, <1>3, <1>4, <1>5 DEF PagingTypeOK, Client, Keys
<1>7. TokenIsRow'
  <2>1. CASE next = NoToken
    BY <2>1, <1>4 DEF TokenIsRow
  <2>2. CASE next # NoToken
    <3> PICK l \in page : next = Key(l)
      BY <2>2, <1>2
    <3>1. l \in Names /\ Exists(l) /\ next.name = l
      BY <1>2, <1>3, KeyType
    <3>2. QED
      BY <3>1, <2>2, <1>4 DEF TokenIsRow, Exists, Key
  <2>3. QED
    BY <2>1, <2>2
<1>8. \A n \in Names : /\ Exists(n)' = Exists(n) /\ Untied(n)' = Untied(n)
                       /\ Behind(n) = ~RowLess(Key(n), token)
                       /\ Behind(n)' = (next # NoToken => ~RowLess(Key(n), next))
  BY <1>4 DEF Exists, Untied, Behind, Key
<1>9. \A n \in Names : Matches(client.filter, n)' = Matches(filter, n)
  BY <1>4 DEF Matches
<1>10. \A n \in Names : Untied(n) /\ n \in fresh \cup returned => n \notin page
  BY <1>2, <1>3, <1>8 DEF TokenSplitsRows
<1>11. \A n \in Names : Untied(n) /\ Behind(n) => Behind(n)'
  BY <1>1, <1>2, <1>8, BehindStays
<1>12. \A n \in Names : Untied(n) =>
         /\ n \in fresh \cup returned' => Behind(n)'
         /\ n \in steady /\ Behind(n)' /\ Matches(filter, n) => n \in returned'
  <2> SUFFICES ASSUME NEW n \in Names, Untied(n)
               PROVE  /\ n \in fresh \cup returned' => Behind(n)'
                      /\ n \in steady /\ Behind(n)' /\ Matches(filter, n)
                         => n \in returned'
    OBVIOUS
  <2>1. n \in fresh \cup returned => Behind(n)'
    BY <1>11 DEF TokenSplitsRows
  <2>2. n \in page => Behind(n)'
    BY <1>2, <1>8
  <2>3. CASE n \in steady /\ Matches(filter, n) /\ Behind(n)
    BY <2>3, <1>5, <2>1, <2>2 DEF TokenSplitsRows
  <2>4. CASE n \in steady /\ Matches(filter, n) /\ ~Behind(n)
    <3>1. n \in Selected(token)
      BY <2>4, <1>3, <1>8 DEF TokenSplitsRows
    <3>2. Behind(n)' => n \in page
      BY <3>1, <1>2, <1>8
    <3>3. QED
      BY <3>2, <2>1, <2>2, <2>4, <1>5
  <2>5. QED
    BY <2>1, <2>2, <2>3, <2>4, <1>5
<1>13. TokenSplitsRows'
  <2>1. page \subseteq Names /\ \A n \in page : Exists(n)
    BY <1>2, <1>3
  <2>2. client'.pc # "idle"
    BY <1>4
  <2>3. \A n \in Names : /\ (Exists(n) => started[n] # 0)'
                         /\ (n \in fresh => started[n] # 0)'
                         /\ (n \in steady \cup returned => Exists(n))'
                         /\ (n \in repeated => n \in returned)'
    BY <2>1, <1>5, <1>8 DEF TokenSplitsRows
  <2>4. \A n \in Names : (client.pc = "idle" => n \notin returned \cup steady)'
    BY <2>2
  <2>5. \A n \in Names : Untied(n)' =>
           /\ (n \in fresh \cup returned => Behind(n))'
           /\ (n \in steady /\ Behind(n) /\ Matches(client.filter, n)
                => n \in returned)'
    BY <1>8, <1>9, <1>12
  <2>6. QED
    BY <2>3, <2>4, <2>5 DEF TokenSplitsRows
<1>14. ExactlyOnce'
  <2> SUFFICES ASSUME NEW n \in Names, Untied(n)'
               PROVE  /\ n \notin repeated'
                      /\ (client.pc = "end" /\ n \in steady
                            /\ Matches(client.filter, n) => n \in returned)'
    BY DEF ExactlyOnce
  <2>1. Untied(n)
    BY <1>8
  <2>2. n \notin repeated'
    BY <2>1, <1>5, <1>10 DEF ExactlyOnce
  <2>3. client'.pc = "end" => Behind(n)'
    BY DEF Behind
  <2>4. QED
    BY <2>1, <2>2, <2>3, <1>9, <1>12
<1>15. NewRowsOnFirstPage'
  <2> SUFFICES ASSUME NEW n \in Names, n \in fresh, Untied(n)'
               PROVE  n \notin returned'
    BY <1>6, <1>8 DEF NewRowsOnFirstPage, PagingTypeOK
  <2>1. n \notin page
    BY <1>8, <1>10
  <2>2. n \notin returned
    BY <1>8 DEF NewRowsOnFirstPage
  <2>3. QED
    BY <2>1, <2>2, <1>5
<1>16. QED
  BY <1>6, <1>7, <1>13, <1>14, <1>15

----------------------------------------------------------------------------
\* The token separates what a listing has returned from what it has not.
THEOREM PagingInvariant == PagingSpec => []PagingInv
<1>1. PagingInv /\ [PagingNext]_pagingVars => PagingInv'
  <2> SUFFICES ASSUME PagingInv, [PagingNext]_pagingVars
               PROVE  PagingInv'
    OBVIOUS
  <2>1. CASE Tick
    BY <2>1, TickKeeps
  <2>2. CASE \E n \in Names : StartInsert(n)
    BY <2>2, StartInsertKeeps
  <2>3. CASE \E n \in Names : CommitInsert(n)
    BY <2>3, CommitInsertKeeps
  <2>4. CASE \E n \in Names : \E s \in Outcomes : Mark(n, s)
    BY <2>4, MarkKeeps
  <2>5. CASE \E size \in PageSizes : \E filter \in Filters : FirstPage(size, filter)
    BY <2>5, FirstPageKeeps
  <2>6. CASE \E size \in PageSizes : NextPage(size)
    BY <2>6, NextPageKeeps
  <2>7. CASE UNCHANGED pagingVars
    BY <2>7 DEF pagingVars, tableVars, clientVars, PagingInv, PagingTypeOK,
       TokenIsRow, TokenSplitsRows, ExactlyOnce, NewRowsOnFirstPage, Exists,
       Key, Behind, Untied, Matches, Client, Keys
  <2>8. QED
    BY <2>1, <2>2, <2>3, <2>4, <2>5, <2>6, <2>7 DEF PagingNext
<1>2. QED
  BY <1>1, InitEstablishes, PTL DEF PagingSpec

\* Every row with a create_time of its own is returned exactly once.
THEOREM ListedExactlyOnce == PagingSpec => []ExactlyOnce
BY PagingInvariant, PTL DEF PagingInv

\* A row that starts after the first page is on none of the next ones.
THEOREM NewRowsStayOnFirstPage == PagingSpec => []NewRowsOnFirstPage
BY PagingInvariant, PTL DEF PagingInv

\* A listing goes down strictly with each page and never comes to a token again,
\* for any rows, tied ones included, any page sizes and any inserts.
THEOREM TokensDescend == PagingSpec => TokenDescends
<1>1. ASSUME PagingInv, [PagingNext]_pagingVars,
             client.pc = "paging", client'.pc = "paging"
      PROVE  client' = client \/ RowLess(client'.token, client.token)
  <2>1. ASSUME NEW size \in PageSizes, NextPage(size)
        PROVE  RowLess(client'.token, client.token)
    <3> PICK page \in Pages(client.token), next \in Tokens :
               /\ IsAnswer(client.token, Clamp(size), page, next)
               /\ Advance(next, client.filter)
      BY <2>1 DEF NextPage
    <3>1. PagingTypeOK /\ client.token \in Keys /\ client.token # NoToken
      BY <1>1 DEF PagingInv, TokenIsRow, PagingTypeOK, Client
    <3>2. next # NoToken /\ client'.token = next
      BY <1>1 DEF Advance
    <3>3. Clamp(size) \in Int
      BY <3>1, RequestType
    <3>4. PICK l \in page : next = Key(l)
      BY <3>1, <3>2, <3>3, AnswerSplits
    <3>5. l \in Selected(client.token)
      BY DEF Pages
    <3>6. RowLess(Key(l), client.token)
      BY <3>1, <3>5 DEF Selected
    <3>7. QED
      BY <3>2, <3>4, <3>6
  <2>2. CASE \E size \in PageSizes, filter \in Filters : FirstPage(size, filter)
    BY <1>1, <2>2 DEF FirstPage
  <2>3. CASE UNCHANGED client
    BY <2>3
  <2>4. QED
    BY <1>1, <2>1, <2>2, <2>3 DEF PagingNext, pagingVars, clientVars, Tick,
       StartInsert, CommitInsert, Mark
<1>2. QED
  BY <1>1, PagingInvariant, PTL DEF PagingSpec, TokenDescends

============================================================================

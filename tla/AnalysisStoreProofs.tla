------------------------ MODULE AnalysisStoreProofs ------------------------
(***************************************************************************)
(* What the statements of AnalysisStore guarantee to every client, for any *)
(* number of rows and any order of the statements.                         *)
(***************************************************************************)
EXTENDS AnalysisStore, TLAPS

\* What each statement leaves in the table, whether or not it is rejected.
LEMMA InsertEffect ==
    ASSUME StoreTypeOK, NEW n \in Names, NEW i \in Inputs, Insert(n, i)
    PROVE  /\ StoreTypeOK'
           /\ Exists(n) => analyses' = analyses
           /\ ~Exists(n) =>
                /\ analyses'[n].state = "RUNNING"
                /\ analyses'[n].input = i
                /\ analyses'[n].output = FALSE
                /\ analyses'[n].error = FALSE
           /\ \A m \in Names \ {n} : analyses'[m] = analyses[m]
<1>1. CASE Exists(n)
  BY <1>1 DEF StoreTypeOK, Insert
<1>2. CASE ~Exists(n)
  <2>1. NewRow(i) \in Row
    BY DEF NewRow, Row, States
  <2>2. analyses' = [analyses EXCEPT ![n] = NewRow(i)]
    BY <1>2 DEF Insert
  <2>3. /\ StoreTypeOK'
        /\ analyses'[n] = NewRow(i)
        /\ \A m \in Names \ {n} : analyses'[m] = analyses[m]
    BY <2>1, <2>2 DEF StoreTypeOK
  <2>4. QED
    BY <1>2, <2>3 DEF NewRow
<1>3. QED
  BY <1>1, <1>2

LEMMA MarkFailedEffect ==
    ASSUME StoreTypeOK, NEW n \in Names, MarkFailed(n)
    PROVE  /\ StoreTypeOK'
           /\ analyses'[n].state = "FAILED"
           /\ analyses'[n].input = analyses[n].input
           /\ analyses'[n].output = analyses[n].output
           /\ analyses'[n].error = TRUE
           /\ \A m \in Names \ {n} : analyses'[m] = analyses[m]
BY DEF StoreTypeOK, Row, States, TerminalStates, MarkFailed

LEMMA MarkCancelledEffect ==
    ASSUME StoreTypeOK, NEW n \in Names, MarkCancelled(n)
    PROVE  /\ StoreTypeOK'
           /\ analyses'[n].state = "CANCELLED"
           /\ analyses'[n].input = analyses[n].input
           /\ analyses'[n].output = analyses[n].output
           /\ analyses'[n].error = analyses[n].error
           /\ \A m \in Names \ {n} : analyses'[m] = analyses[m]
BY DEF StoreTypeOK, Row, States, TerminalStates, MarkCancelled

LEMMA MarkSucceededEffect ==
    ASSUME StoreTypeOK, NEW n \in Names, MarkSucceeded(n)
    PROVE  /\ StoreTypeOK'
           /\ ~IndexAdmits(n) => analyses' = analyses
           /\ IndexAdmits(n) =>
                /\ analyses'[n].state = "SUCCEEDED"
                /\ analyses'[n].input = analyses[n].input
                /\ analyses'[n].output = TRUE
                /\ analyses'[n].error = analyses[n].error
           /\ \A m \in Names \ {n} : analyses'[m] = analyses[m]
<1>1. CASE IndexAdmits(n)
  BY <1>1 DEF StoreTypeOK, Row, States, TerminalStates, MarkSucceeded
<1>2. CASE ~IndexAdmits(n)
  BY <1>2 DEF StoreTypeOK, MarkSucceeded
<1>3. QED
  BY <1>1, <1>2

----------------------------------------------------------------------------
\* Every statement keeps the shape of every row.
LEMMA StoreTypeStep ==
    ASSUME StoreTypeOK, [StoreNext]_analyses
    PROVE  StoreTypeOK'
<1>1. CASE UNCHANGED analyses
  BY <1>1 DEF StoreTypeOK
<1>2. CASE StoreNext
  BY <1>2, InsertEffect, MarkSucceededEffect, MarkFailedEffect,
     MarkCancelledEffect DEF StoreNext
<1>3. QED
  BY <1>1, <1>2

\* The table is well typed under every client.
THEOREM StoreTypeCorrect == StoreSpec => []StoreTypeOK
<1>1. StoreInit => StoreTypeOK
  BY DEF StoreInit, StoreTypeOK, Row, NoRow, States
<1>2. StoreTypeOK /\ [StoreNext]_analyses => StoreTypeOK'
  BY StoreTypeStep
<1>3. QED
  BY <1>1, <1>2, PTL DEF StoreSpec

\* No statement brings about a second SUCCEEDED row of a hash: only
\* MarkSucceeded makes a row SUCCEEDED, and the index looks at all others.
LEMMA CacheStep ==
    ASSUME StoreTypeOK, CacheUnambiguous, [StoreNext]_analyses
    PROVE  CacheUnambiguous'
<1> USE DEF CacheUnambiguous, SameHash, HashInputs
<1>1. CASE UNCHANGED analyses
  BY <1>1
\* A statement that leaves the other rows alone and this one not SUCCEEDED.
<1>2. ASSUME NEW n \in Names, analyses'[n].state # "SUCCEEDED",
             \A m \in Names \ {n} : analyses'[m] = analyses[m]
      PROVE  CacheUnambiguous'
  BY <1>2
<1>3. ASSUME NEW n \in Names, NEW i \in Inputs, Insert(n, i)
      PROVE  CacheUnambiguous'
  <2>1. CASE Exists(n)
    <3>1. UNCHANGED analyses
      BY <1>3, <2>1, InsertEffect
    <3>2. QED
      BY <1>1, <3>1
  <2>2. CASE ~Exists(n)
    <3>1. /\ analyses'[n].state # "SUCCEEDED"
          /\ \A m \in Names \ {n} : analyses'[m] = analyses[m]
      BY <1>3, <2>2, InsertEffect DEF NewRow
    <3>2. QED
      BY <1>2, <3>1
  <2>3. QED
    BY <2>1, <2>2
<1>4. ASSUME NEW n \in Names, MarkSucceeded(n)
      PROVE  CacheUnambiguous'
  <2>1. CASE IndexAdmits(n)
    <3>1. /\ analyses'[n].state = "SUCCEEDED"
          /\ analyses'[n].input = analyses[n].input
          /\ analyses'[n].output = TRUE
          /\ analyses'[n].error = analyses[n].error
          /\ \A m \in Names \ {n} : analyses'[m] = analyses[m]
      BY <1>4, <2>1, MarkSucceededEffect
    <3>2. \A m \in Names : analyses'[m].input = analyses[m].input
      BY <3>1
    <3>3. QED
      BY <2>1, <3>1, <3>2 DEF IndexAdmits
  <2>2. CASE ~IndexAdmits(n)
    <3>1. UNCHANGED analyses
      BY <1>4, <2>2, MarkSucceededEffect
    <3>2. QED
      BY <1>1, <3>1
  <2>3. QED
    BY <2>1, <2>2
<1>5. ASSUME NEW n \in Names, MarkFailed(n)
      PROVE  CacheUnambiguous'
  <2>1. /\ analyses'[n].state # "SUCCEEDED"
        /\ \A m \in Names \ {n} : analyses'[m] = analyses[m]
    BY <1>5, MarkFailedEffect
  <2>2. QED
    BY <1>2, <2>1
<1>6. ASSUME NEW n \in Names, MarkCancelled(n)
      PROVE  CacheUnambiguous'
  <2>1. /\ analyses'[n].state # "SUCCEEDED"
        /\ \A m \in Names \ {n} : analyses'[m] = analyses[m]
    BY <1>6, MarkCancelledEffect
  <2>2. QED
    BY <1>2, <2>1
<1>7. QED
  BY <1>1, <1>3, <1>4, <1>5, <1>6 DEF StoreNext

\* The cache lookup is unambiguous for every client of the table.
THEOREM CacheIsUnambiguous == StoreSpec => []CacheUnambiguous
<1>1. StoreInit => CacheUnambiguous
  BY DEF StoreInit, CacheUnambiguous, NoRow
<1>2. StoreTypeOK /\ CacheUnambiguous /\ [StoreNext]_analyses
        => CacheUnambiguous'
  BY CacheStep
<1>3. QED
  BY <1>1, <1>2, StoreTypeCorrect, PTL DEF StoreSpec

\* A statement never takes back what a row is, or what it has.
LEMMA DurableStep ==
    ASSUME StoreTypeOK, StoreNext, NEW n \in Names, Exists(n)
    PROVE  /\ analyses'[n].input = analyses[n].input
           /\ analyses'[n].state # "ABSENT"
           /\ analyses'[n].state = "RUNNING" => analyses[n].state = "RUNNING"
           /\ analyses[n].output => analyses'[n].output
           /\ analyses[n].error => analyses'[n].error
<1>1. ASSUME NEW m \in Names, NEW i \in Inputs, Insert(m, i)
      PROVE  analyses'[n] = analyses[n]
  BY <1>1, InsertEffect
<1>2. ASSUME NEW m \in Names, MarkSucceeded(m)
      PROVE  \/ analyses'[n] = analyses[n]
             \/ /\ analyses'[n].state = "SUCCEEDED"
                /\ analyses'[n].input = analyses[n].input
                /\ analyses'[n].output = TRUE
                /\ analyses'[n].error = analyses[n].error
  BY <1>2, MarkSucceededEffect
<1>3. ASSUME NEW m \in Names, MarkFailed(m)
      PROVE  \/ analyses'[n] = analyses[n]
             \/ /\ analyses'[n].state = "FAILED"
                /\ analyses'[n].input = analyses[n].input
                /\ analyses'[n].output = analyses[n].output
                /\ analyses'[n].error = TRUE
  BY <1>3, MarkFailedEffect
<1>4. ASSUME NEW m \in Names, MarkCancelled(m)
      PROVE  \/ analyses'[n] = analyses[n]
             \/ /\ analyses'[n].state = "CANCELLED"
                /\ analyses'[n].input = analyses[n].input
                /\ analyses'[n].output = analyses[n].output
                /\ analyses'[n].error = analyses[n].error
  BY <1>4, MarkCancelledEffect
<1>5. QED
  BY <1>1, <1>2, <1>3, <1>4 DEF StoreNext, Exists

\* Rows are durable under every client of the table.
THEOREM RowsDurable == StoreSpec => RowsAreDurable
<1>1. StoreTypeOK /\ [StoreNext]_analyses =>
        [\A n \in Names :
           Exists(n) =>
             /\ analyses'[n].input = analyses[n].input
             /\ analyses'[n].state # "ABSENT"
             /\ analyses'[n].state = "RUNNING" => analyses[n].state = "RUNNING"
             /\ analyses[n].output => analyses'[n].output
             /\ analyses[n].error => analyses'[n].error]_analyses
  BY DurableStep
<1>2. QED
  BY <1>1, StoreTypeCorrect, PTL DEF StoreSpec, RowsAreDurable
============================================================================

--------------------------- MODULE AnalysisStore ---------------------------
(***************************************************************************)
(* The PostgreSQL table "analyses" and the statements pkg/store/store.go   *)
(* sends to it.  PostgreSQL runs each statement atomically, so every       *)
(* statement is one action; what a caller does between two statements is   *)
(* the business of the modules that extend this one.                       *)
(*                                                                         *)
(* A row keeps its state, its inputs, and whether its output columns       *)
(* (vertices_csv, arcs_csv) and its error column are set.  end_time is     *)
(* written by the same statements as state, to be set exactly when state   *)
(* is terminal, and is left out.                                           *)
(***************************************************************************)

CONSTANTS
    Names,      \* operation names, "operations/{id}"
    Inputs,     \* inputs, records with the joined edb and idb texts
    NoInput     \* the input of a row that does not exist

ASSUME NoInputAssumption == NoInput \notin Inputs

VARIABLE analyses

----------------------------------------------------------------------------
TerminalStates == {"SUCCEEDED", "FAILED", "CANCELLED"}

\* "ABSENT" stands for the absence of the row.
States == {"ABSENT", "RUNNING"} \cup TerminalStates

IsTerminal(s) == s \in TerminalStates

Row == [state : States, input : Inputs \cup {NoInput},
        output : BOOLEAN, error : BOOLEAN]

NoRow == [state |-> "ABSENT", input |-> NoInput,
          output |-> FALSE, error |-> FALSE]

\* Rows are inserted directly as RUNNING, with the outputs and the error NULL.
NewRow(i) == [state |-> "RUNNING", input |-> i,
              output |-> FALSE, error |-> FALSE]

\* SHA-256 of edb, a NUL byte and idb.  A text column of PostgreSQL holds no
\* NUL, so two stored rows have the same hash only if they agree on both.
HashInputs(i) == <<i.edb, i.idb>>

Exists(n) == analyses[n].state # "ABSENT"

SameHash(m, n) == HashInputs(analyses[m].input) = HashInputs(analyses[n].input)

----------------------------------------------------------------------------
\* A mutant of GetByHash: a hash of the rules alone.
GetByRulesHash(i) ==
    {n \in Names : /\ analyses[n].state = "SUCCEEDED"
                   /\ analyses[n].input.idb = i.idb}

\* SELECT ... WHERE input_hash = $1 AND state = 'SUCCEEDED' LIMIT 1: any of
\* these rows may be the answer, and none is when the set is empty.
GetByHash(i) ==
    {n \in Names : /\ analyses[n].state = "SUCCEEDED"
                   /\ HashInputs(analyses[n].input) = HashInputs(i)}

\* A mutant of Insert: ON CONFLICT DO UPDATE.
Upsert(n, i) ==
    analyses' = [analyses EXCEPT ![n] = NewRow(i)]

\* INSERT ... ON CONFLICT (operation_name) DO NOTHING.
Insert(n, i) ==
    IF Exists(n)
    THEN UNCHANGED analyses
    ELSE analyses' = [analyses EXCEPT ![n] = NewRow(i)]

\* A mutant of IndexAdmits: no unique index.
NoIndex(n) == TRUE

\* The partial unique index on input_hash WHERE state = 'SUCCEEDED' rejects
\* a second SUCCEEDED row of the same hash.
IndexAdmits(n) ==
    \A m \in Names \ {n} :
        analyses[m].state = "SUCCEEDED" => ~SameHash(m, n)

\* The UPDATE statements name the row and nothing else: none of them looks
\* at the state it replaces.  A rejected statement changes nothing.
MarkSucceeded(n) ==
    IF IndexAdmits(n)
    THEN analyses' = [analyses EXCEPT ![n].state = "SUCCEEDED",
                                      ![n].output = TRUE]
    ELSE UNCHANGED analyses

MarkFailed(n) ==
    analyses' = [analyses EXCEPT ![n].state = "FAILED", ![n].error = TRUE]

\* A mutant of MarkCancelled: it clears the outputs.
MarkCancelledAndClear(n) ==
    analyses' = [analyses EXCEPT ![n].state = "CANCELLED", ![n].output = FALSE]

MarkCancelled(n) ==
    analyses' = [analyses EXCEPT ![n].state = "CANCELLED"]

----------------------------------------------------------------------------
\* The table under any client: every statement, in any order.  Callers of
\* the UPDATE statements have read the row, and no statement deletes one.
StoreInit == analyses = [n \in Names |-> NoRow]

StoreNext ==
    \E n \in Names :
        \/ \E i \in Inputs : Insert(n, i)
        \/ Exists(n) /\ MarkSucceeded(n)
        \/ Exists(n) /\ MarkFailed(n)
        \/ Exists(n) /\ MarkCancelled(n)

StoreSpec == StoreInit /\ [][StoreNext]_analyses

----------------------------------------------------------------------------
\* Every row has the shape the schema gives it.
StoreTypeOK == analyses \in [Names -> Row]

\* The cache lookup is unambiguous: whatever the order of the statements,
\* at most one SUCCEEDED row exists for the hash of any input, and it is one
\* with the outputs the response is built from.
CacheUnambiguous ==
    \A m, n \in Names :
        analyses[m].state = "SUCCEEDED" =>
            /\ analyses[m].output
            /\ analyses[n].state = "SUCCEEDED" /\ SameHash(m, n) => m = n

\* What a client was told about a row stays true of its identity: a row is
\* never deleted, never changes its inputs, never returns to RUNNING, and
\* never loses a result or an error it has.
RowsAreDurable ==
    [][\A n \in Names :
         Exists(n) =>
            /\ analyses'[n].input = analyses[n].input
            /\ analyses'[n].state # "ABSENT"
            /\ analyses'[n].state = "RUNNING" => analyses[n].state = "RUNNING"
            /\ analyses[n].output => analyses'[n].output
            /\ analyses[n].error => analyses'[n].error]_analyses
============================================================================

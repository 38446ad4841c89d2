------------------------- MODULE AnalysisRunProofs -------------------------
(***************************************************************************)
(* The safety properties of AnalysisRun for any sets of operations, inputs *)
(* and handlers and any number of failures and restarts.                   *)
(*                                                                         *)
(* Every step of AnalysisRun is a statement of AnalysisStore or leaves the *)
(* table alone, so rows are durable here too.  The invariant IInv adds who *)
(* may still write a verdict.                                              *)
(***************************************************************************)
EXTENDS AnalysisRun, AnalysisStoreProofs, FiniteSetTheorems

\* Expands the groups of variables in UNCHANGED.
USE DEF runVars, serverVars

----------------------------------------------------------------------------
(* What the steps of a handler and a goroutine do to their own state *)

LEMMA CreatorGoesEffect ==
    ASSUME creator \in [Creators -> Creator], NEW c \in Creators,
           NEW pc \in CreatorPC, CreatorGoes(c, pc)
    PROVE  /\ creator' \in [Creators -> Creator]
           /\ creator'[c].pc = pc
           /\ creator'[c].name = creator[c].name
           /\ creator'[c].input = creator[c].input
           /\ creator'[c].created = creator[c].created
           /\ \A d \in Creators \ {c} : creator'[d] = creator[d]
BY DEF CreatorGoes, Creator

LEMMA AnswerEffect ==
    ASSUME creator \in [Creators -> Creator], NEW c \in Creators,
           NEW n \in Names \cup {NoName}, Answer(c, n)
    PROVE  /\ creator' \in [Creators -> Creator]
           /\ creator'[c].pc = "answered"
           /\ creator'[c].created = FALSE
           /\ \A d \in Creators \ {c} : creator'[d] = creator[d]
BY DEF Answer, IdleCreator, Creator, CreatorPC

LEMMA AnswerErrorEffect ==
    ASSUME creator \in [Creators -> Creator], NEW c \in Creators,
           AnswerError(c)
    PROVE  /\ creator' \in [Creators -> Creator]
           /\ creator'[c].pc = "idle"
           /\ creator'[c].created = FALSE
           /\ \A d \in Creators \ {c} : creator'[d] = creator[d]
BY DEF AnswerError, IdleCreator, Creator, CreatorPC

\* The row is inserted, or found: b.
LEMMA InsertedEffect ==
    ASSUME creator \in [Creators -> Creator], NEW c \in Creators,
           NEW b \in BOOLEAN,
           creator' = [creator EXCEPT ![c].pc = "fetch", ![c].created = b]
    PROVE  /\ creator' \in [Creators -> Creator]
           /\ creator'[c].pc = "fetch"
           /\ creator'[c].name = creator[c].name
           /\ creator'[c].input = creator[c].input
           /\ creator'[c].created = b
           /\ \A d \in Creators \ {c} : creator'[d] = creator[d]
BY DEF Creator, CreatorPC

\* The count of failures stays within its bound.
LEMMA FaultEffect ==
    ASSUME faults \in 0 .. MaxFaults, Fault \/ NoFault
    PROVE  faults' \in 0 .. MaxFaults
BY RunAssumption DEF Fault, NoFault

LEMMA RunnerGoesEffect ==
    ASSUME runner \in [Names -> RunnerPC], NEW n \in Names,
           NEW from, NEW to \in RunnerPC, RunnerGoes(n, from, to)
    PROVE  /\ runner' \in [Names -> RunnerPC]
           /\ runner[n] = from
           /\ runner'[n] = to
           /\ \A m \in Names \ {n} : runner'[m] = runner[m]
BY DEF RunnerGoes

----------------------------------------------------------------------------
(* The table *)

\* A statement that may fail is executed or not.
LEMMA FailsAtEffect ==
    /\ \A n, i : FailsAt(Insert(n, i)) => Insert(n, i) \/ UNCHANGED analyses
    /\ \A n : FailsAt(MarkFailed(n)) => MarkFailed(n) \/ UNCHANGED analyses
    /\ \A n : FailsAt(MarkSucceeded(n)) => MarkSucceeded(n) \/ UNCHANGED analyses
    /\ \A n : FailsAt(MarkCancelled(n)) => MarkCancelled(n) \/ UNCHANGED analyses
BY DEF FailsAt

\* Nothing has been decided about n yet.
Undecided(n) == Exists(n) /\ ~analyses[n].output /\ ~analyses[n].error

\* The statements the system sends to the table: only a row without a verdict
\* is given one.
Statement ==
    \E n \in Names :
        \/ \E i \in Inputs : Insert(n, i)
        \/ Undecided(n) /\ (MarkSucceeded(n) \/ MarkFailed(n))
        \/ Exists(n) /\ MarkCancelled(n)

\* Every step of a handler or a goroutine that touches the table is one
\* statement on a row that its caller has inserted or read.
LEMMA StepIsDecision ==
    ASSUME IInv, [Next]_vars
    PROVE  [Statement]_analyses
<1> USE FailsAtEffect DEF IInv, TypeOK
<1>1. CASE UNCHANGED vars
  BY <1>1 DEF vars
<1>2. ASSUME NEW c \in Creators, InsertRow(c)
      PROVE  [Statement]_analyses
  <2>1. creator[c].name \in Names /\ creator[c].input \in Inputs
    BY <1>2 DEF InsertRow, CreatorAt, LaunchRight, HandlersHold
  <2>2. \/ Insert(creator[c].name, creator[c].input)
        \/ UNCHANGED analyses
    BY <1>2 DEF InsertRow
  <2>3. QED
    BY <2>1, <2>2 DEF Statement
<1>3. ASSUME NEW c \in Creators, Cleanup(c)
      PROVE  [Statement]_analyses
  <2>1. /\ creator[c].name \in Names /\ Exists(creator[c].name)
        /\ creator[c].created
        /\ runner[creator[c].name] = "none"
    BY <1>3 DEF Cleanup, CreatorAt, LaunchRight, HandlersHold
  <2>2. Undecided(creator[c].name)
    BY <2>1 DEF Undecided, LaunchRight, VerdictIsLast, Launching
  <2>3. MarkFailed(creator[c].name) \/ UNCHANGED analyses
    BY <1>3 DEF Cleanup
  <2>4. QED
    BY <2>1, <2>2, <2>3 DEF Statement
<1>4. ASSUME NEW k \in Cancellers, CancelMark(k)
      PROVE  [Statement]_analyses
  <2>1. canceller[k].name \in Names /\ Exists(canceller[k].name)
    BY <1>4 DEF CancelMark, CancellerAt, CancelProgress
  <2>2. MarkCancelled(canceller[k].name) \/ UNCHANGED analyses
    BY <1>4 DEF CancelMark
  <2>3. QED
    BY <2>1, <2>2 DEF Statement
<1>5. ASSUME NEW n \in Names, PersistSuccess(n) \/ PersistFailure(n)
      PROVE  [Statement]_analyses
  <2>1. Undecided(n)
    BY <1>5 DEF PersistSuccess, PersistFailure, RunnerGoes, LaunchRight,
                VerdictIsLast, Undecided
  <2>2. MarkSucceeded(n) \/ MarkFailed(n) \/ UNCHANGED analyses
    BY <1>5 DEF PersistSuccess, PersistFailure
  <2>3. QED
    BY <2>1, <2>2 DEF Statement
<1>6. ASSUME NEW c \in Creators,
             \/ \E n \in Names, i \in Inputs : CreateRequest(c, n, i)
             \/ CacheLookup(c) \/ FetchRow(c) \/ Launch(c)
      PROVE  UNCHANGED analyses
  BY <1>6 DEF CreateRequest, CacheLookup, FetchRow, Launch
<1>7. ASSUME NEW k \in Cancellers,
             \/ \E n \in Names : CancelRequest(k, n)
             \/ CancelRead(k) \/ PublishCancel(k)
      PROVE  UNCHANGED analyses
  BY <1>7 DEF CancelRequest, CancelRead, PublishCancel
<1>8. ASSUME NEW n \in Names,
             \/ StartMulval(n) \/ KillMulval(n) \/ RunMulvalReturns(n)
             \/ PublishUpdate(n) \/ MulvalExits(n) \/ ChildrenEnd(n)
             \/ SetupFails(n)
             \/ ListenerStep(n) \/ CancelExpires(n)
      PROVE  UNCHANGED analyses
  BY <1>8 DEF StartMulval, KillMulval, RunMulvalReturns, PublishUpdate,
              MulvalExits, ChildrenEnd,
              SetupFails, OnlyRunnerMoves, ListenerStep,
              SubscribeCancel, PollCancel, ListenerStops, CancelExpires
<1>9. CASE Shutdown \/ Exit \/ Restart
  BY <1>9 DEF Shutdown, Exit, Restart
<1>10. QED
  BY <1>1, <1>2, <1>3, <1>4, <1>5, <1>6, <1>7, <1>8, <1>9
     DEF Next, CreatorStep, CancellerStep, RunnerStep

\* In particular every step is one a client of the table may take.
LEMMA StepIsStatement ==
    ASSUME IInv, [Next]_vars
    PROVE  [StoreNext]_analyses
BY StepIsDecision DEF Statement, StoreNext, Undecided

\* Rows and their terminal states are there to stay.
LEMMA RowsStay ==
    ASSUME IInv, [Next]_vars
    PROVE  /\ StoreTypeOK'
           /\ \A n \in Names : Exists(n) => Exists(n)'
           /\ \A n \in Names : IsTerminal(analyses[n].state) =>
                                 IsTerminal(analyses'[n].state)
<1>1. StoreTypeOK
  BY DEF IInv, TypeOK
<1>2. [StoreNext]_analyses
  BY StepIsStatement
<1>3. StoreTypeOK'
  BY <1>1, <1>2, StoreTypeStep
<1>4. CASE UNCHANGED analyses
  BY <1>3, <1>4 DEF Exists, IsTerminal
<1>5. CASE StoreNext
  <2>1. ASSUME NEW n \in Names, Exists(n)
        PROVE  /\ analyses'[n].state # "ABSENT"
               /\ analyses'[n].state = "RUNNING" => analyses[n].state = "RUNNING"
    BY <1>1, <1>5, <2>1, DurableStep
  <2>2. \A n \in Names : analyses'[n].state \in States
    BY <1>3 DEF StoreTypeOK, Row
  <2>3. QED
    BY <1>3, <2>1, <2>2 DEF Exists, IsTerminal, States, TerminalStates
<1>6. QED
  BY <1>2, <1>4, <1>5

----------------------------------------------------------------------------
(* Types *)

\* Every creator step keeps the type of the handlers and of the goroutines.
LEMMA CreatorTypes ==
    ASSUME TypeOK, NEW c \in Creators,
           \/ \E n \in Names, i \in Inputs : CreateRequest(c, n, i)
           \/ CreatorStep(c)
    PROVE  /\ creator' \in [Creators -> Creator]
           /\ runner' \in [Names -> RunnerPC]
           /\ listener' \in [Names -> ListenerPC]
           /\ faults' \in 0 .. MaxFaults
<1> USE RunAssumption DEF TypeOK
<1>1. ASSUME NEW n \in Names, NEW i \in Inputs, CreateRequest(c, n, i)
      PROVE  creator' \in [Creators -> Creator]
  BY <1>1 DEF CreateRequest, Creator, IdleCreator, CreatorPC
<1>2. ASSUME CacheLookup(c)
      PROVE  creator' \in [Creators -> Creator]
  <2>1. ASSUME NEW m \in Names, Answer(c, m)
        PROVE  creator' \in [Creators -> Creator]
    BY <2>1, AnswerEffect
  <2>2. CASE CreatorGoes(c, "insert")
    BY <2>2, CreatorGoesEffect DEF CreatorPC
  <2>3. CASE AnswerError(c)
    BY <2>3, AnswerErrorEffect
  <2>4. QED
    BY <1>2, <2>1, <2>2, <2>3 DEF CacheLookup, GetByHash
<1>3. ASSUME InsertRow(c)
      PROVE  creator' \in [Creators -> Creator]
  <2>1. CASE AnswerError(c)
    BY <2>1, AnswerErrorEffect
  <2>2. CASE creator' = [creator EXCEPT ![c].pc = "fetch",
                                        ![c].created = ~Exists(creator[c].name)]
    <3>1. (~Exists(creator[c].name)) \in BOOLEAN
      BY Zenon
    <3>2. QED
      BY <2>2, <3>1, InsertedEffect
  <2>3. QED
    BY <1>3, <2>1, <2>2 DEF InsertRow
<1>4. ASSUME FetchRow(c)
      PROVE  creator' \in [Creators -> Creator]
  <2>1. CASE CreatorGoes(c, "launch")
    BY <2>1, CreatorGoesEffect DEF CreatorPC
  <2>2. CASE Answer(c, creator[c].name)
    <3>1. creator[c].name \in Names \cup {NoName}
      BY DEF Creator
    <3>2. QED
      BY <2>2, <3>1, AnswerEffect
  <2>3. CASE AnswerError(c)
    BY <2>3, AnswerErrorEffect
  <2>4. QED
    BY <1>4, <2>1, <2>2, <2>3 DEF FetchRow
<1>5. ASSUME Launch(c)
      PROVE  creator' \in [Creators -> Creator]
  <2>1. CASE CreatorGoes(c, "cleanup")
    BY <2>1, CreatorGoesEffect DEF CreatorPC
  <2>2. CASE Answer(c, creator[c].name)
    <3>1. creator[c].name \in Names \cup {NoName}
      BY DEF Creator
    <3>2. QED
      BY <2>2, <3>1, AnswerEffect
  <2>3. QED
    BY <1>5, <2>1, <2>2 DEF Launch
<1>6. ASSUME Cleanup(c)
      PROVE  creator' \in [Creators -> Creator]
  BY <1>6, AnswerErrorEffect DEF Cleanup
<1>7. runner' \in [Names -> RunnerPC] /\ listener' \in [Names -> ListenerPC]
  BY DEF CreateRequest, CreatorStep, CacheLookup, InsertRow, FetchRow, Launch,
         Cleanup, RunnerPC, ListenerPC
<1>8. faults' \in 0 .. MaxFaults
  <2>1. Fault \/ NoFault
    BY DEF CreateRequest, CreatorStep, CacheLookup, InsertRow, FetchRow,
           Launch, Cleanup, NoFault, FailsAt
  <2>2. QED
    BY <2>1, FaultEffect
<1>9. QED
  BY <1>1, <1>2, <1>3, <1>4, <1>5, <1>6, <1>7, <1>8 DEF CreatorStep

LEMMA CancellerTypes ==
    ASSUME TypeOK, CancelProgress, NEW k \in Cancellers,
           \/ \E n \in Names : CancelRequest(k, n)
           \/ CancellerStep(k)
    PROVE  /\ canceller' \in [Cancellers -> Canceller]
           /\ cancelStream' \subseteq Names
           /\ faults' \in 0 .. MaxFaults
<1> USE RunAssumption DEF TypeOK
<1>1. canceller' \in [Cancellers -> Canceller]
  BY DEF CancelRequest, CancellerStep, CancelRead, CancelMark, PublishCancel,
         CancelFails, CancellerGoes, IdleCanceller, Canceller, CancellerPC
<1>2. cancelStream' \subseteq Names
  BY DEF CancelRequest, CancellerStep, CancelRead, CancelMark, PublishCancel,
         CancelProgress, CancellerAt
<1>3. faults' \in 0 .. MaxFaults
  <2>1. Fault \/ NoFault
    BY DEF CancelRequest, CancellerStep, CancelRead, CancelMark, PublishCancel,
           NoFault, FailsAt
  <2>2. QED
    BY <2>1, FaultEffect
<1>4. QED
  BY <1>1, <1>2, <1>3

LEMMA RunnerTypes ==
    ASSUME TypeOK, NEW n \in Names,
           \/ RunnerStep(n) \/ MulvalExits(n) \/ ChildrenEnd(n)
           \/ SetupFails(n)
           \/ ListenerStep(n) \/ CancelExpires(n)
    PROVE  /\ runner' \in [Names -> RunnerPC]
           /\ listener' \in [Names -> ListenerPC]
           /\ signalled' \subseteq Names
           /\ cancelStream' \subseteq Names
           /\ published' \subseteq Names
           /\ faults' \in 0 .. MaxFaults
<1> USE RunAssumption DEF TypeOK
<1>1. runner' \in [Names -> RunnerPC]
  BY DEF RunnerStep, StartMulval, KillMulval, RunMulvalReturns, PersistSuccess,
         PersistFailure, PublishUpdate, MulvalExits, ChildrenEnd,
         SetupFails, RunnerGoes,
         RunnerPC, ListenerStep, SubscribeCancel, PollCancel, ListenerStops,
         CancelExpires
<1>2. listener' \in [Names -> ListenerPC]
  BY DEF RunnerStep, StartMulval, KillMulval, RunMulvalReturns, PersistSuccess,
         PersistFailure, PublishUpdate, MulvalExits, ChildrenEnd, SetupFails,
         OnlyRunnerMoves, ListenerStep, SubscribeCancel, PollCancel,
         ListenerStops, ListenerGoes, ListenerPC, CancelExpires
<1>3. signalled' \subseteq Names /\ cancelStream' \subseteq Names
                                 /\ published' \subseteq Names
  BY DEF RunnerStep, StartMulval, KillMulval, RunMulvalReturns, PersistSuccess,
         PersistFailure, PublishUpdate, MulvalExits, ChildrenEnd, SetupFails,
         OnlyRunnerMoves, ListenerStep, SubscribeCancel, PollCancel,
         ListenerStops, CancelExpires
<1>4. faults' \in 0 .. MaxFaults
  BY DEF RunnerStep, StartMulval, KillMulval, RunMulvalReturns, PersistSuccess,
         PersistFailure, PublishUpdate, MulvalExits, ChildrenEnd, SetupFails,
         OnlyRunnerMoves, ListenerStep, SubscribeCancel, PollCancel,
         ListenerStops, CancelExpires, NoFault, Fault, FailsAt
<1>5. QED
  BY <1>1, <1>2, <1>3, <1>4

LEMMA ServerTypes ==
    ASSUME TypeOK, Shutdown \/ Exit \/ Restart
    PROVE  /\ creator' \in [Creators -> Creator]
           /\ canceller' \in [Cancellers -> Canceller]
           /\ runner' \in [Names -> RunnerPC]
           /\ listener' \in [Names -> ListenerPC]
           /\ server' \in ServerPC
           /\ exits' \in 0 .. MaxExits
<1> USE DEF TypeOK, Shutdown, Exit, Restart
<1>1. creator' \in [Creators -> Creator]
  <2>1. IdleCreator \in Creator
    BY DEF IdleCreator, Creator, CreatorPC
  <2>2. QED
    BY <2>1
<1>2. canceller' \in [Cancellers -> Canceller]
  <2>1. IdleCanceller \in Canceller
    BY DEF IdleCanceller, Canceller, CancellerPC
  <2>2. QED
    BY <2>1
<1>3. runner' \in [Names -> RunnerPC] /\ listener' \in [Names -> ListenerPC]
  BY DEF RunnerPC, ListenerPC
<1>4. server' \in ServerPC /\ exits' \in 0 .. MaxExits
  BY RunAssumption DEF ServerPC
<1>5. QED
  BY <1>1, <1>2, <1>3, <1>4

LEMMA TypeStep ==
    ASSUME IInv, [Next]_vars
    PROVE  TypeOK'
<1> USE DEF IInv
<1>1. StoreTypeOK'
  BY RowsStay
<1>2. CASE UNCHANGED vars
  BY <1>1, <1>2 DEF TypeOK, vars
<1>3. ASSUME NEW c \in Creators,
             \/ \E n \in Names, i \in Inputs : CreateRequest(c, n, i)
             \/ CreatorStep(c)
      PROVE  TypeOK'
  <2>1. UNCHANGED <<canceller, signalled, cancelStream, published, serverVars>>
    BY <1>3 DEF CreateRequest, CreatorStep, CacheLookup, InsertRow, FetchRow,
                Launch, Cleanup
  <2>2. QED
    BY <1>1, <1>3, <2>1, CreatorTypes DEF TypeOK
<1>4. ASSUME NEW k \in Cancellers,
             \/ \E n \in Names : CancelRequest(k, n)
             \/ CancellerStep(k)
      PROVE  TypeOK'
  <2>1. UNCHANGED <<creator, runVars, serverVars>>
    BY <1>4 DEF CancelRequest, CancellerStep, CancelRead, CancelMark,
                PublishCancel
  <2>2. QED
    BY <1>1, <1>4, <2>1, CancellerTypes DEF TypeOK
<1>5. ASSUME NEW n \in Names,
             \/ RunnerStep(n) \/ MulvalExits(n) \/ ChildrenEnd(n)
             \/ SetupFails(n)
             \/ ListenerStep(n) \/ CancelExpires(n)
      PROVE  TypeOK'
  <2>1. UNCHANGED <<creator, canceller, serverVars>>
    BY <1>5 DEF RunnerStep, StartMulval, KillMulval, RunMulvalReturns,
         PersistSuccess, PersistFailure, PublishUpdate, MulvalExits, ChildrenEnd,
         SetupFails, OnlyRunnerMoves, ListenerStep, SubscribeCancel, PollCancel,
         ListenerStops, CancelExpires
  <2>2. QED
    BY <1>1, <1>5, <2>1, RunnerTypes DEF TypeOK
<1>6. CASE Shutdown \/ Exit \/ Restart
  <2>1. UNCHANGED <<signalled, published, cancelStream, faults>>
    BY <1>6 DEF Shutdown, Exit, Restart
  <2>2. QED
    BY <1>1, <1>6, <2>1, ServerTypes DEF TypeOK
<1>7. QED
  BY <1>2, <1>3, <1>4, <1>5, <1>6 DEF Next

----------------------------------------------------------------------------
(* Cancellation: the row is written before the signal *)

LEMMA CancelStep ==
    ASSUME IInv, [Next]_vars
    PROVE  CancelProgress' /\ SignalFollowsWrite'
<1> USE DEF IInv
<1>1. /\ \A n \in Names : analyses[n].state # "ABSENT" =>
                            analyses'[n].state # "ABSENT"
      /\ \A n \in Names : IsTerminal(analyses[n].state) =>
                            IsTerminal(analyses'[n].state)
  BY RowsStay DEF Exists
\* Steps that leave the handlers and the signals alone.
<1>2. ASSUME UNCHANGED canceller
      PROVE  CancelProgress'
  BY <1>1, <1>2 DEF CancelProgress, Exists
<1>3. ASSUME UNCHANGED <<cancelStream, signalled>>
      PROVE  SignalFollowsWrite'
  BY <1>1, <1>3 DEF SignalFollowsWrite, TypeOK
<1>4. CASE UNCHANGED vars
  BY <1>2, <1>3, <1>4 DEF vars
<1>5. ASSUME NEW k \in Cancellers,
             \/ \E n \in Names : CancelRequest(k, n)
             \/ CancellerStep(k)
      PROVE  CancelProgress' /\ SignalFollowsWrite'
  <2>1. /\ canceller' \in [Cancellers -> Canceller]
        /\ \A j \in Cancellers \ {k} : canceller'[j] = canceller[j]
    <3>1. canceller' \in [Cancellers -> Canceller]
      BY <1>5, CancellerTypes
    <3>2. \A j \in Cancellers \ {k} : canceller'[j] = canceller[j]
      BY <1>5 DEF TypeOK, CancelRequest, CancellerStep, CancelRead, CancelMark,
                  PublishCancel, CancelFails, CancellerGoes
    <3>3. QED
      BY <3>1, <3>2
  <2> DEFINE Progress ==
        /\ canceller'[k].pc # "idle" => canceller'[k].name \in Names
        /\ canceller'[k].pc = "mark" => 
              analyses'[canceller'[k].name].state # "ABSENT"
        /\ canceller'[k].pc \in {"publish", "ok"} =>
              IsTerminal(analyses'[canceller'[k].name].state)
  <2>2. ASSUME Progress
        PROVE  CancelProgress'
    BY <1>1, <2>1, <2>2 DEF CancelProgress, Exists
  <2>3. CancelFails(k) => Progress
    BY DEF TypeOK, CancelFails, IdleCanceller
  <2>4. ASSUME NEW pc \in CancellerPC, CancellerGoes(k, pc)
        PROVE  canceller'[k].pc = pc /\ canceller'[k].name = canceller[k].name
    BY <2>4 DEF TypeOK, CancellerGoes, Canceller
  <2>5. ASSUME NEW n \in Names, CancelRequest(k, n)
        PROVE  CancelProgress' /\ SignalFollowsWrite'
    <3>1. canceller'[k].pc = "read" /\ canceller'[k].name = n
      BY <2>5 DEF TypeOK, CancelRequest
    <3>2. UNCHANGED <<cancelStream, signalled>>
      BY <2>5 DEF CancelRequest
    <3>3. QED
      BY <1>3, <2>2, <3>1, <3>2
  <2>6. CASE CancelRead(k)
    <3>1. canceller[k].name \in Names
      BY <2>6 DEF CancelRead, CancellerAt, CancelProgress
    <3>4. UNCHANGED <<cancelStream, signalled>>
      BY <2>6 DEF CancelRead
    <3>6. CancellerGoes(k, "ok") /\ IsTerminal(analyses[canceller[k].name].state)
            => Progress
      BY <1>1, <2>4, <3>1 DEF CancellerPC
    <3>7. CancellerGoes(k, "mark") /\ analyses[canceller[k].name].state = "RUNNING"
            => Progress
      BY <1>1, <2>4, <3>1 DEF CancellerPC, Exists
    <3>8. Progress
      BY <2>3, <2>6, <3>6, <3>7 DEF CancelRead
    <3>9. QED
      BY <1>3, <2>2, <3>4, <3>8
  <2>7. CASE CancelMark(k)
    <3>1. canceller[k].name \in Names
      BY <2>7 DEF CancelMark, CancellerAt, CancelProgress
    <3>3. MarkCancelled(canceller[k].name) /\ CancellerGoes(k, "publish")
            => Progress
      <4>1. MarkCancelled(canceller[k].name) =>
               analyses'[canceller[k].name].state = "CANCELLED"
        BY <3>1, MarkCancelledEffect DEF TypeOK
      <4>2. QED
        BY <2>4, <3>1, <4>1 DEF CancellerPC, IsTerminal, TerminalStates
    <3>4. Progress
      BY <2>3, <2>7, <3>3 DEF CancelMark
    <3>5. UNCHANGED <<cancelStream, signalled>>
      BY <2>7 DEF CancelMark
    <3>6. QED
      BY <1>3, <2>2, <3>4, <3>5
  <2>8. CASE PublishCancel(k)
    <3>1. /\ canceller[k].name \in Names
          /\ IsTerminal(analyses[canceller[k].name].state)
      BY <2>8 DEF PublishCancel, CancellerAt, CancelProgress
    <3>2. Progress
      BY <1>1, <2>4, <2>8, <3>1 DEF PublishCancel, CancellerPC
    <3>3. /\ signalled' = signalled
          /\ \/ cancelStream' = cancelStream
             \/ cancelStream' = cancelStream \cup {canceller[k].name}
      BY <2>8 DEF PublishCancel
    <3>4. SignalFollowsWrite'
      BY <1>1, <3>1, <3>3 DEF SignalFollowsWrite, TypeOK
    <3>5. QED
      BY <2>2, <3>2, <3>4
  <2>9. QED
    BY <1>5, <2>5, <2>6, <2>7, <2>8 DEF CancellerStep
\* A fetched message moves from the stream to the signals.
<1>6. ASSUME NEW n \in Names, PollCancel(n) \/ CancelExpires(n)
      PROVE  CancelProgress' /\ SignalFollowsWrite'
  <2>1. /\ UNCHANGED canceller
        /\ cancelStream' \cup signalled' \subseteq cancelStream \cup signalled
    BY <1>6 DEF PollCancel, CancelExpires
  <2>2. QED
    BY <1>1, <1>2, <2>1 DEF SignalFollowsWrite, TypeOK
<1>7. ASSUME NEW c \in Creators,
             \/ \E n \in Names, i \in Inputs : CreateRequest(c, n, i)
             \/ CreatorStep(c)
      PROVE  UNCHANGED <<canceller, cancelStream, signalled>>
  BY <1>7 DEF CreateRequest, CreatorStep, CacheLookup, InsertRow, FetchRow,
              Launch, Cleanup
<1>8. ASSUME NEW n \in Names,
             \/ RunnerStep(n) \/ MulvalExits(n) \/ ChildrenEnd(n)
             \/ SetupFails(n)
             \/ SubscribeCancel(n) \/ ListenerStops(n)
      PROVE  UNCHANGED <<canceller, cancelStream, signalled>>
  BY <1>8 DEF RunnerStep, StartMulval, KillMulval, RunMulvalReturns,
         PersistSuccess, PersistFailure, PublishUpdate, MulvalExits, ChildrenEnd,
         SetupFails, OnlyRunnerMoves, SubscribeCancel, ListenerStops
<1>9. CASE Shutdown \/ Exit \/ Restart
  <2>1. UNCHANGED <<cancelStream, signalled>>
    BY <1>9 DEF Shutdown, Exit, Restart
  <2>2. \/ UNCHANGED canceller
        \/ canceller' = [k \in Cancellers |-> IdleCanceller]
    BY <1>9 DEF Shutdown, Exit, Restart
  <2>3. CancelProgress'
    BY <1>2, <2>2 DEF CancelProgress, IdleCanceller
  <2>4. QED
    BY <1>3, <2>1, <2>3
<1>10. QED
  BY <1>2, <1>3, <1>4, <1>5, <1>6, <1>7, <1>8, <1>9 DEF Next, ListenerStep

----------------------------------------------------------------------------
(* Verdicts: who may still launch, fail or finish an operation *)

\* A step of a handler that neither gains the right to launch nor uses it
\* keeps all of LaunchRight: it may give the right up.
LEMMA HandlerMoves ==
    ASSUME IInv, NEW c \in Creators, UNCHANGED <<analyses, runner>>,
           \A d \in Creators \ {c} : creator'[d] = creator[d],
           creator'[c].created => creator[c].created,
           creator'[c].created => creator'[c].name = creator[c].name,
           creator'[c].created \/ creator'[c].pc \notin {"launch", "cleanup"},
           creator'[c].created =>
                creator'[c].pc \in {"fetch", "launch", "cleanup"},
           creator'[c].pc = "fetch" => Exists(creator'[c].name),
           creator'[c].pc \notin {"idle", "answered"} =>
                creator'[c].name \in Names /\ creator'[c].input \in Inputs
    PROVE  LaunchRight' /\ OneVerdict'
<1> USE DEF IInv, LaunchRight
<1>1. \A n : Exists(n) => analyses'[n].state # "ABSENT"
  BY DEF Exists
<1>2. HandlersHold'
  BY <1>1 DEF HandlersHold, Exists
<1>3. OneHolder'
  BY DEF OneHolder
<1>4. \A d \in Creators, n \in Names : Launching(d, n)' => Launching(d, n)
  BY DEF Launching
<1>5. VerdictIsLast'
  BY <1>4 DEF VerdictIsLast, Exists
<1>6. OneVerdict'
  BY DEF OneVerdict
<1>7. QED
  BY <1>2, <1>3, <1>5, <1>6

\* A goroutine that moves on without writing to the table.
LEMMA RunnerMoves ==
    ASSUME IInv, UNCHANGED <<analyses, creator>>, NEW n \in Names,
           runner[n] \in InFlight, runner'[n] \in RunnerPC \ {"none"},
           \A m \in Names \ {n} : runner'[m] = runner[m],
           runner[n] = "publish" => runner'[n] = "done"
    PROVE  LaunchRight' /\ OneVerdict'
<1> USE DEF IInv, LaunchRight
<1>1. \A c \in Creators : ~Launching(c, n)
  BY DEF HandlersHold, Launching, InFlight
<1>2. HandlersHold'
  <2>1. \A c \in Creators : creator[c].created =>
           runner'[creator[c].name] = runner[creator[c].name]
    BY <1>1 DEF HandlersHold, Launching
  <2>2. QED
    BY <2>1 DEF HandlersHold, Exists
<1>3. OneHolder'
  BY DEF OneHolder
<1>4. VerdictIsLast'
  BY DEF VerdictIsLast, Exists, Launching, InFlight
<1>5. OneVerdict'
  BY DEF OneVerdict
<1>6. QED
  BY <1>2, <1>3, <1>4, <1>5

\* A row that is written, with an output or an error that its writer may give.
LEMMA RowWritten ==
    ASSUME IInv, NEW n \in Names,
           analyses'[n].state # "ABSENT",
           \A m \in Names \ {n} : analyses'[m] = analyses[m],
           \A m \in Names \ {n} : runner'[m] = runner[m],
           HandlersHold', OneHolder',
           \A c \in Creators, m \in Names \ {n} :
              Launching(c, m)' => Launching(c, m),
           ~(analyses'[n].output /\ analyses'[n].error),
           analyses'[n].output => runner'[n] \in {"publish", "done", "lost"},
           analyses'[n].error =>
             /\ runner'[n] \in {"none", "publish", "done", "lost"}
             /\ \A c \in Creators : ~Launching(c, n)'
    PROVE  LaunchRight' /\ OneVerdict'
<1> USE DEF IInv, LaunchRight
<1>1. VerdictIsLast'
  BY DEF VerdictIsLast, Exists
<1>2. OneVerdict'
  BY DEF OneVerdict
<1>3. QED
  BY <1>1, <1>2

\* InsertRow: a handler that makes the row gets the right, which nobody else
\* holds for a row that did not exist.
LEMMA InsertRowStep ==
    ASSUME IInv, NEW c \in Creators, InsertRow(c)
    PROVE  LaunchRight' /\ OneVerdict'
<1> DEFINE n == creator[c].name
           i == creator[c].input
<1> USE DEF IInv, TypeOK, LaunchRight
<1>1. /\ n \in Names /\ i \in Inputs
      /\ creator[c].pc = "insert" /\ ~creator[c].created
      /\ UNCHANGED runner
  BY DEF InsertRow, CreatorAt, HandlersHold
<1>2. ASSUME Insert(n, i)
      PROVE  /\ analyses'[n].state # "ABSENT"
             /\ \A m \in Names \ {n} : analyses'[m] = analyses[m]
             /\ Exists(n) => analyses' = analyses
             /\ ~Exists(n) => /\ analyses'[n].output = FALSE
                              /\ analyses'[n].error = FALSE
  BY <1>1, <1>2, InsertEffect DEF Exists
\* The row existed: the handler goes on without the right.
<1>3. ASSUME Insert(n, i), Exists(n), NEW b \in BOOLEAN, b = ~Exists(n),
             creator' = [creator EXCEPT ![c].pc = "fetch", ![c].created = b]
      PROVE  LaunchRight' /\ OneVerdict'
  <2>1. UNCHANGED analyses
    BY <1>2, <1>3
  <2>2. /\ creator'[c].pc = "fetch"
        /\ creator'[c].name = n /\ creator'[c].input = i
        /\ creator'[c].created = FALSE
        /\ \A d \in Creators \ {c} : creator'[d] = creator[d]
    BY <1>3, InsertedEffect
  <2>3. QED
    BY <1>1, <1>3, <2>1, <2>2, HandlerMoves
\* The row is new.
<1>4. ASSUME Insert(n, i), ~Exists(n), NEW b \in BOOLEAN, b = ~Exists(n),
             creator' = [creator EXCEPT ![c].pc = "fetch", ![c].created = b]
      PROVE  LaunchRight' /\ OneVerdict'
  <2>1. /\ creator'[c].pc = "fetch"
        /\ creator'[c].name = n /\ creator'[c].input = i
        /\ creator'[c].created = TRUE
        /\ \A d \in Creators \ {c} : creator'[d] = creator[d]
    BY <1>4, InsertedEffect
  <2>2. runner[n] = "none"
    BY <1>1, <1>4 DEF VerdictIsLast
  <2>3. \A d \in Creators : creator[d].created => creator[d].name # n
    BY <1>1, <1>4 DEF HandlersHold
  <2>4. HandlersHold'
    BY <1>1, <1>2, <1>4, <2>1, <2>2 DEF HandlersHold, Exists
  <2>5. OneHolder'
    BY <1>1, <2>1, <2>3 DEF OneHolder
  <2>6. \A d \in Creators, m \in Names \ {n} :
           Launching(d, m)' => Launching(d, m)
    BY <2>1 DEF Launching
  <2>7. QED
    BY <1>1, <1>2, <1>4, <2>4, <2>5, <2>6, RowWritten
\* The handler answers an error, the row inserted or not.
<1>5. ASSUME Insert(n, i) \/ UNCHANGED analyses, AnswerError(c)
      PROVE  LaunchRight' /\ OneVerdict'
  <2>1. /\ creator'[c].pc = "idle"
        /\ creator'[c].created = FALSE
        /\ \A d \in Creators \ {c} : creator'[d] = creator[d]
    BY <1>5, AnswerErrorEffect
  <2>2. CASE UNCHANGED analyses
    BY <1>1, <2>1, <2>2, HandlerMoves
  <2>3. CASE Insert(n, i) /\ ~Exists(n)
    <3>1. HandlersHold'
      BY <1>1, <1>2, <2>1, <2>3 DEF HandlersHold, Exists
    <3>2. OneHolder'
      BY <2>1 DEF OneHolder
    <3>3. \A d \in Creators, m \in Names : Launching(d, m)' => Launching(d, m)
      BY <2>1 DEF Launching
    <3>4. QED
      BY <1>1, <1>2, <2>3, <3>1, <3>2, <3>3, RowWritten
  <2>4. QED
    BY <1>2, <1>5, <2>2, <2>3
<1>6. QED
  <2>1. (~Exists(n)) \in BOOLEAN
    BY Zenon
  <2>2. \/ /\ Insert(n, i)
           /\ creator' = [creator EXCEPT ![c].pc = "fetch",
                                         ![c].created = ~Exists(n)]
        \/ (Insert(n, i) \/ UNCHANGED analyses) /\ AnswerError(c)
    BY FailsAtEffect DEF InsertRow
  <2>3. QED
    BY <1>3, <1>4, <1>5, <2>1, <2>2

\* The other steps of a CreateAnalysis handler.
LEMMA CreatorVerdicts ==
    ASSUME IInv, NEW c \in Creators,
           \/ \E n \in Names, i \in Inputs : CreateRequest(c, n, i)
           \/ CreatorStep(c)
    PROVE  LaunchRight' /\ OneVerdict'
<1> USE DEF IInv, TypeOK, LaunchRight
<1>1. ASSUME NEW n \in Names, NEW i \in Inputs, CreateRequest(c, n, i)
      PROVE  LaunchRight' /\ OneVerdict'
  <2>1. /\ creator'[c].pc = "lookup"
        /\ creator'[c].name = n /\ creator'[c].input = i
        /\ creator'[c].created = FALSE
        /\ \A d \in Creators \ {c} : creator'[d] = creator[d]
        /\ UNCHANGED <<analyses, runner>>
    BY <1>1 DEF CreateRequest, IdleCreator
  <2>2. QED
    BY <2>1, HandlerMoves
\* An answer, or an error, while the table is left alone.
<1>2. ASSUME UNCHANGED <<analyses, runner>>,
             AnswerError(c) \/ \E m \in Names : Answer(c, m)
      PROVE  LaunchRight' /\ OneVerdict'
  <2>1. /\ creator'[c].pc \in {"idle", "answered"}
        /\ creator'[c].created = FALSE
        /\ \A d \in Creators \ {c} : creator'[d] = creator[d]
    BY <1>2, AnswerEffect, AnswerErrorEffect
  <2>2. QED
    BY <1>2, <2>1, HandlerMoves
<1>3. CASE CacheLookup(c)
  <2>1. UNCHANGED <<analyses, runner>>
    BY <1>3 DEF CacheLookup
  <2>2. CASE CreatorGoes(c, "insert")
    <3>1. creator[c].name \in Names /\ creator[c].input \in Inputs
      BY <1>3 DEF CacheLookup, CreatorAt, HandlersHold
    <3>2. ~creator[c].created
      BY <1>3 DEF CacheLookup, CreatorAt, HandlersHold
    <3>3. /\ creator'[c].pc = "insert"
          /\ creator'[c].name = creator[c].name
          /\ creator'[c].input = creator[c].input
          /\ creator'[c].created = creator[c].created
          /\ \A d \in Creators \ {c} : creator'[d] = creator[d]
      BY <2>2, CreatorGoesEffect DEF CreatorPC
    <3>4. QED
      BY <2>1, <3>1, <3>2, <3>3, HandlerMoves
  <2>3. QED
    BY <1>2, <1>3, <2>1, <2>2 DEF CacheLookup, GetByHash
<1>4. CASE InsertRow(c)
  BY <1>4, InsertRowStep
<1>5. CASE FetchRow(c)
  <2>1. /\ UNCHANGED <<analyses, runner>>
        /\ creator[c].name \in Names /\ creator[c].input \in Inputs
    BY <1>5 DEF FetchRow, CreatorAt, HandlersHold
  <2>2. CASE creator[c].created /\ CreatorGoes(c, "launch")
    <3>1. /\ creator'[c].pc = "launch"
          /\ creator'[c].name = creator[c].name
          /\ creator'[c].input = creator[c].input
          /\ creator'[c].created = creator[c].created
          /\ \A d \in Creators \ {c} : creator'[d] = creator[d]
      BY <2>2, CreatorGoesEffect DEF CreatorPC
    <3>2. QED
      BY <2>1, <2>2, <3>1, HandlerMoves
  <2>3. QED
    BY <1>2, <1>5, <2>1, <2>2 DEF FetchRow
<1>6. CASE Launch(c)
  <2> DEFINE n == creator[c].name
  <2>1. /\ n \in Names /\ creator[c].input \in Inputs
        /\ creator[c].created
        /\ Exists(n)
        /\ runner[n] = "none"
        /\ UNCHANGED analyses
    BY <1>6 DEF Launch, CreatorAt, HandlersHold
  <2>2. CASE CreatorGoes(c, "cleanup") /\ UNCHANGED runner
    <3>1. /\ creator'[c].pc = "cleanup"
          /\ creator'[c].name = creator[c].name
          /\ creator'[c].input = creator[c].input
          /\ creator'[c].created = creator[c].created
          /\ \A d \in Creators \ {c} : creator'[d] = creator[d]
      BY <2>2, CreatorGoesEffect DEF CreatorPC
    <3>2. QED
      BY <2>1, <2>2, <3>1, HandlerMoves
  \* The right is used: no other handler has it, and none will.
  <2>3. CASE Answer(c, n) /\ runner' = [runner EXCEPT ![n] = "starting"]
    <3>1. /\ creator'[c].pc = "answered"
          /\ creator'[c].created = FALSE
          /\ \A d \in Creators \ {c} : creator'[d] = creator[d]
      BY <2>1, <2>3, AnswerEffect
    <3>2. \A d \in Creators \ {c} : creator[d].created => creator[d].name # n
      BY <2>1 DEF OneHolder
    <3>3. \A m \in Names \ {n} : runner'[m] = runner[m]
      BY <2>3
    <3>4. HandlersHold'
      <4>1. \A d \in Creators \ {c} : creator[d].created =>
               /\ creator[d].name \in Names
               /\ runner'[creator[d].name] = "none"
        BY <3>2, <3>3 DEF HandlersHold
      <4>2. QED
        BY <2>1, <3>1, <4>1 DEF HandlersHold, Exists
    <3>5. OneHolder'
      BY <3>1 DEF OneHolder
    <3>6. \A d \in Creators, m \in Names : Launching(d, m)' => Launching(d, m)
      BY <3>1 DEF Launching
    <3>7. ~analyses[n].output /\ ~analyses[n].error
      BY <2>1 DEF VerdictIsLast, Launching
    <3>8. QED
      BY <2>1, <3>3, <3>4, <3>5, <3>6, <3>7, RowWritten DEF Exists
  <2>4. QED
    BY <1>6, <2>2, <2>3 DEF Launch
<1>7. CASE Cleanup(c)
  <2>0. PICK n \in Names : n = creator[c].name
    BY <1>7 DEF Cleanup, CreatorAt, HandlersHold
  <2>1. /\ creator[c].created /\ Exists(n)
        /\ runner[n] = "none"
        /\ UNCHANGED runner
        /\ AnswerError(c)
    BY <1>7, <2>0 DEF Cleanup, CreatorAt, HandlersHold
  <2>2. CASE UNCHANGED analyses
    BY <1>2, <2>1, <2>2
  <2>3. CASE MarkFailed(n)
    <3>1. /\ creator'[c].pc = "idle"
          /\ creator'[c].created = FALSE
          /\ \A d \in Creators \ {c} : creator'[d] = creator[d]
      BY <2>1, AnswerErrorEffect
    <3>2. /\ analyses'[n].state = "FAILED"
          /\ analyses'[n].output = analyses[n].output
          /\ analyses'[n].error = TRUE
          /\ \A m \in Names \ {n} : analyses'[m] = analyses[m]
      BY <2>1, <2>3, MarkFailedEffect
    <3>3. ~analyses[n].output
      BY <2>1 DEF VerdictIsLast
    <3>4. \A d \in Creators \ {c} : creator[d].created => creator[d].name # n
      BY <2>0, <2>1 DEF OneHolder
    <3>5. HandlersHold'
      BY <2>1, <3>1, <3>2 DEF HandlersHold, Exists
    <3>6. OneHolder'
      BY <3>1 DEF OneHolder
    <3>7. /\ \A d \in Creators, m \in Names : Launching(d, m)' => Launching(d, m)
          /\ \A d \in Creators : ~Launching(d, n)'
      BY <2>0, <3>1, <3>4 DEF Launching
    <3>8. QED
      BY <2>1, <3>2, <3>3, <3>5, <3>6, <3>7, RowWritten
  <2>4. QED
    BY <1>7, <2>0, <2>2, <2>3, FailsAtEffect DEF Cleanup
<1>8. QED
  BY <1>1, <1>3, <1>4, <1>5, <1>6, <1>7 DEF CreatorStep

\* A cancel adds no verdict to the row it marks.
LEMMA CancelMarkVerdicts ==
    ASSUME IInv, NEW k \in Cancellers, CancelMark(k)
    PROVE  LaunchRight' /\ OneVerdict'
<1> DEFINE n == canceller[k].name
<1> USE DEF IInv, TypeOK, LaunchRight
<1>1. /\ n \in Names /\ Exists(n)
      /\ UNCHANGED <<creator, runner>>
  BY DEF CancelMark, CancellerAt, CancelProgress
<1>2. CASE UNCHANGED analyses
  BY <1>1, <1>2 DEF HandlersHold, OneHolder, VerdictIsLast, OneVerdict, Exists,
                    Launching
<1>3. CASE MarkCancelled(n)
  <2>1. /\ analyses'[n].state = "CANCELLED"
        /\ analyses'[n].output = analyses[n].output
        /\ analyses'[n].error = analyses[n].error
        /\ \A m \in Names \ {n} : analyses'[m] = analyses[m]
    BY <1>1, <1>3, MarkCancelledEffect
  <2>2. HandlersHold'
    BY <1>1, <2>1 DEF HandlersHold, Exists
  <2>3. OneHolder'
    BY <1>1 DEF OneHolder
  <2>4. \A d \in Creators, m \in Names : Launching(d, m)' <=> Launching(d, m)
    BY <1>1 DEF Launching
  <2>5. QED
    BY <1>1, <2>1, <2>2, <2>3, <2>4, RowWritten DEF VerdictIsLast, OneVerdict
<1>4. QED
  BY <1>2, <1>3, FailsAtEffect DEF CancelMark

\* The goroutine writes its verdict once: before, the row has none.
LEMMA RunnerVerdicts ==
    ASSUME IInv, NEW n \in Names,
           RunnerStep(n) \/ MulvalExits(n) \/ ChildrenEnd(n) \/ SetupFails(n)
    PROVE  LaunchRight' /\ OneVerdict'
<1> USE DEF IInv, TypeOK, LaunchRight
<1>1. CASE \/ StartMulval(n) \/ KillMulval(n) \/ RunMulvalReturns(n)
           \/ PublishUpdate(n) \/ MulvalExits(n) \/ ChildrenEnd(n)
           \/ SetupFails(n)
  <2>1. UNCHANGED <<analyses, creator>>
    BY <1>1 DEF StartMulval, KillMulval, RunMulvalReturns, PublishUpdate,
                MulvalExits, ChildrenEnd, SetupFails, OnlyRunnerMoves
  <2>2. /\ runner[n] \in InFlight
        /\ runner'[n] \in RunnerPC \ {"none"}
        /\ \A m \in Names \ {n} : runner'[m] = runner[m]
        /\ runner[n] = "publish" => runner'[n] = "done"
    BY <1>1 DEF StartMulval, KillMulval, RunMulvalReturns, PublishUpdate,
                MulvalExits, ChildrenEnd,
                SetupFails, RunnerGoes, InFlight, RunnerPC
  <2>3. QED
    BY <2>1, <2>2, RunnerMoves
<1>2. CASE PersistSuccess(n) \/ PersistFailure(n)
  <2>1. /\ runner[n] \in {"markSucceeded", "markFailed"}
        /\ runner'[n] = "publish"
        /\ \A m \in Names \ {n} : runner'[m] = runner[m]
        /\ UNCHANGED creator
    BY <1>2 DEF PersistSuccess, PersistFailure, RunnerGoes
  <2>2. Exists(n) /\ ~analyses[n].output /\ ~analyses[n].error
    BY <2>1 DEF VerdictIsLast
  <2>3. \A d \in Creators : ~Launching(d, n)
    BY <2>1 DEF HandlersHold, Launching
  <2>4. ASSUME UNCHANGED analyses
        PROVE  LaunchRight' /\ OneVerdict'
    BY <2>1, <2>4, RunnerMoves DEF InFlight, RunnerPC
  <2>5. ASSUME analyses'[n].state # "ABSENT",
               \A m \in Names \ {n} : analyses'[m] = analyses[m],
               ~(analyses'[n].output /\ analyses'[n].error)
        PROVE  LaunchRight' /\ OneVerdict'
    <3>1. HandlersHold'
      <4>1. \A d \in Creators : creator[d].created =>
               runner'[creator[d].name] = runner[creator[d].name]
        BY <2>1, <2>3 DEF HandlersHold, Launching
      <4>2. QED
        BY <2>1, <2>5, <4>1 DEF HandlersHold, Exists
    <3>2. OneHolder'
      BY <2>1 DEF OneHolder
    <3>3. \A d \in Creators, m \in Names : Launching(d, m)' <=> Launching(d, m)
      BY <2>1 DEF Launching
    <3>4. QED
      BY <2>1, <2>3, <2>5, <3>1, <3>2, <3>3, RowWritten
  <2>6. CASE MarkSucceeded(n)
    <3>1. CASE IndexAdmits(n)
      <4>1. /\ analyses'[n].state = "SUCCEEDED"
            /\ analyses'[n].error = analyses[n].error
            /\ \A m \in Names \ {n} : analyses'[m] = analyses[m]
        BY <2>6, <3>1, MarkSucceededEffect
      <4>2. QED
        BY <2>2, <2>5, <4>1
    <3>2. CASE ~IndexAdmits(n)
      BY <2>4, <2>6, <3>2, MarkSucceededEffect
    <3>3. QED
      BY <3>1, <3>2
  <2>7. CASE MarkFailed(n)
    <3>1. /\ analyses'[n].state = "FAILED"
          /\ analyses'[n].output = analyses[n].output
          /\ \A m \in Names \ {n} : analyses'[m] = analyses[m]
      BY <2>7, MarkFailedEffect
    <3>2. QED
      BY <2>2, <2>5, <3>1
  <2>8. QED
    BY <1>2, <2>4, <2>6, <2>7, FailsAtEffect
       DEF PersistSuccess, PersistFailure
<1>3. QED
  BY <1>1, <1>2 DEF RunnerStep

\* The end of the process takes every right and every goroutine with it.
LEMMA ExitVerdicts ==
    ASSUME IInv, Exit
    PROVE  LaunchRight' /\ OneVerdict'
<1> USE DEF IInv, TypeOK, LaunchRight
<1>1. /\ UNCHANGED analyses
      /\ \A c \in Creators : creator'[c] = IdleCreator
      /\ \A n \in Names : runner'[n] = IF runner[n] \in InFlight
                                       THEN "lost" ELSE runner[n]
  BY DEF Exit
<1>2. \A c \in Creators : creator'[c].pc = "idle" /\ creator'[c].created = FALSE
  BY <1>1 DEF IdleCreator
<1>3. HandlersHold' /\ OneHolder'
  BY <1>2 DEF HandlersHold, OneHolder
<1>4. VerdictIsLast'
  BY <1>1, <1>2 DEF VerdictIsLast, Launching, Exists, InFlight
<1>5. OneVerdict'
  BY <1>1 DEF OneVerdict
<1>6. QED
  BY <1>3, <1>4, <1>5

LEMMA VerdictStep ==
    ASSUME IInv, [Next]_vars
    PROVE  LaunchRight' /\ OneVerdict'
<1>1. ASSUME UNCHANGED <<analyses, creator, runner>>
      PROVE  LaunchRight' /\ OneVerdict'
  BY <1>1 DEF IInv, LaunchRight, HandlersHold, OneHolder, VerdictIsLast,
              OneVerdict, Exists, Launching
<1>2. CASE UNCHANGED vars
  BY <1>1, <1>2 DEF vars
<1>3. ASSUME NEW c \in Creators,
             \/ \E n \in Names, i \in Inputs : CreateRequest(c, n, i)
             \/ CreatorStep(c)
      PROVE  LaunchRight' /\ OneVerdict'
  BY <1>3, CreatorVerdicts
<1>4. ASSUME NEW k \in Cancellers,
             \/ \E n \in Names : CancelRequest(k, n)
             \/ CancelRead(k) \/ PublishCancel(k)
      PROVE  LaunchRight' /\ OneVerdict'
  <2>1. UNCHANGED <<analyses, creator, runner>>
    BY <1>4 DEF CancelRequest, CancelRead, PublishCancel
  <2>2. QED
    BY <1>1, <2>1
<1>5. ASSUME NEW k \in Cancellers, CancelMark(k)
      PROVE  LaunchRight' /\ OneVerdict'
  BY <1>5, CancelMarkVerdicts
<1>6. ASSUME NEW n \in Names, RunnerStep(n) \/ MulvalExits(n) \/ ChildrenEnd(n)
                              \/ SetupFails(n)
      PROVE  LaunchRight' /\ OneVerdict'
  BY <1>6, RunnerVerdicts
<1>7. ASSUME NEW n \in Names, ListenerStep(n) \/ CancelExpires(n)
      PROVE  LaunchRight' /\ OneVerdict'
  <2>1. UNCHANGED <<analyses, creator, runner>>
    BY <1>7 DEF ListenerStep, SubscribeCancel, PollCancel, ListenerStops,
                CancelExpires
  <2>2. QED
    BY <1>1, <2>1
<1>8. CASE Shutdown \/ Restart
  BY <1>1, <1>8 DEF Shutdown, Restart
<1>9. CASE Exit
  BY <1>9, ExitVerdicts
<1>10. QED
  BY <1>2, <1>3, <1>4, <1>5, <1>6, <1>7, <1>8, <1>9
     DEF Next, CancellerStep

----------------------------------------------------------------------------
(* The theorems *)

LEMMA InitIInv == Init => IInv
<1> SUFFICES ASSUME Init PROVE IInv
  OBVIOUS
<1> USE DEF Init
<1>1. TypeOK
  BY RunAssumption
     DEF StoreInit, TypeOK, StoreTypeOK, NoRow, Row, States, IdleCreator,
         Creator, CreatorPC, IdleCanceller, Canceller, CancellerPC, RunnerPC,
         ListenerPC, ServerPC
<1>2. LaunchRight /\ OneVerdict
  BY DEF StoreInit, NoRow, IdleCreator, LaunchRight, HandlersHold, OneHolder,
         VerdictIsLast, OneVerdict, Exists
<1>3. CancelProgress /\ SignalFollowsWrite
  BY DEF IdleCanceller, CancelProgress, SignalFollowsWrite
<1>4. QED
  BY <1>1, <1>2, <1>3 DEF IInv

\* IInv is an invariant: every step, of any handler, goroutine or stream, in
\* any order and with any failure, keeps it.
THEOREM InductiveInvariant == Spec => []IInv
<1>1. Init => IInv
  BY InitIInv
<1>2. IInv /\ [Next]_vars => IInv'
  BY TypeStep, VerdictStep, CancelStep DEF IInv
<1>3. QED
  BY <1>1, <1>2, PTL DEF Spec

\* Every variable keeps its type.
THEOREM TypeCorrect == Spec => []TypeOK
<1>1. IInv => TypeOK
  BY DEF IInv
<1>2. QED
  BY <1>1, InductiveInvariant, PTL

\* No operation ever has the outputs of a run and the error of another.
THEOREM OneVerdictHolds == Spec => []OneVerdict
<1>1. IInv => OneVerdict
  BY DEF IInv
<1>2. QED
  BY <1>1, InductiveInvariant, PTL

\* A cancel signal always finds the row it speaks of terminal.
THEOREM SignalsFollowWrites == Spec => []SignalFollowsWrite
<1>1. IInv => SignalFollowsWrite
  BY DEF IInv
<1>2. QED
  BY <1>1, InductiveInvariant, PTL

\* An OK answer of CancelOperation speaks of a terminal row, for good.
THEOREM CancelOkHolds == Spec => []CancelOkIsTerminal
<1>1. IInv => CancelOkIsTerminal
  BY DEF IInv, CancelProgress, CancelOkIsTerminal
<1>2. QED
  BY <1>1, InductiveInvariant, PTL

\* No goroutine is started for an operation that has had one.
THEOREM NoRelaunch == Spec => NeverRelaunched
<1>1. IInv /\ [Next]_vars =>
        [\A n \in Names :
           runner[n] # "none" => \/ runner'[n] # "starting"
                                 \/ runner[n] = "starting"]_vars
  <2> SUFFICES ASSUME IInv, Next, NEW n \in Names,
                      runner[n] # "none", runner'[n] = "starting"
               PROVE  runner[n] = "starting"
    OBVIOUS
  <2>1. ASSUME NEW c \in Creators, Launch(c)
        PROVE  runner'[n] = runner[n]
    BY <2>1 DEF IInv, TypeOK, LaunchRight, HandlersHold, Launch, CreatorAt
  <2>2. ASSUME NEW m \in Names, RunnerStep(m) \/ MulvalExits(m) \/ ChildrenEnd(m)
                                \/ SetupFails(m)
        PROVE  runner[n] = "starting"
    BY <2>2 DEF IInv, TypeOK, RunnerStep, StartMulval, KillMulval,
                RunMulvalReturns, PersistSuccess, PersistFailure, PublishUpdate,
                MulvalExits, ChildrenEnd, SetupFails, RunnerGoes
  <2>3. CASE Exit
    BY <2>3 DEF Exit
  <2>4. ASSUME NEW c \in Creators,
               \/ \E m \in Names, i \in Inputs : CreateRequest(c, m, i)
               \/ CacheLookup(c) \/ InsertRow(c) \/ FetchRow(c) \/ Cleanup(c)
        PROVE  UNCHANGED runner
    BY <2>4 DEF CreateRequest, CacheLookup, InsertRow, FetchRow, Cleanup
  <2>5. ASSUME NEW k \in Cancellers,
               \/ \E m \in Names : CancelRequest(k, m)
               \/ CancellerStep(k)
        PROVE  UNCHANGED runner
    BY <2>5 DEF CancelRequest, CancellerStep, CancelRead, CancelMark,
                PublishCancel
  <2>6. ASSUME NEW m \in Names, ListenerStep(m) \/ CancelExpires(m)
        PROVE  UNCHANGED runner
    BY <2>6 DEF ListenerStep, SubscribeCancel, PollCancel, ListenerStops,
                CancelExpires
  <2>7. CASE Shutdown \/ Restart
    BY <2>7 DEF Shutdown, Restart
  <2>8. QED
    BY <2>1, <2>2, <2>3, <2>4, <2>5, <2>6, <2>7 DEF Next, CreatorStep
<1>2. QED
  BY <1>1, InductiveInvariant, PTL DEF Spec, NeverRelaunched

\* The system as a whole is a client of the table: what AnalysisStoreProofs
\* proves of its statements holds of it.
THEOREM ImplementsStore == Spec => StoreSpec
<1>1. Init => StoreInit
  BY DEF Init
<1>2. IInv /\ [Next]_vars => [StoreNext]_analyses
  BY StepIsStatement
<1>3. QED
  BY <1>1, <1>2, InductiveInvariant, PTL DEF Spec, StoreSpec

\* What a statement does to the status and the verdict of its row.
LEMMA StatementIsLifecycleStep ==
    ASSUME StoreTypeOK, Statement
    PROVE  \/ UNCHANGED analyses
           \/ \E n \in Names :
                /\ \A m \in Names \ {n} : analyses'[m] = analyses[m]
                /\ \/ /\ analyses[n].state = "ABSENT"
                      /\ analyses'[n].state = "RUNNING"
                      /\ ~analyses'[n].output /\ ~analyses'[n].error
                   \/ /\ Undecided(n)
                      /\ analyses'[n].state = "SUCCEEDED"
                      /\ analyses'[n].output
                   \/ /\ Undecided(n)
                      /\ analyses'[n].state = "FAILED"
                      /\ ~analyses'[n].output /\ analyses'[n].error
                   \/ /\ Exists(n)
                      /\ analyses'[n].state = "CANCELLED"
                      /\ analyses'[n].output = analyses[n].output
                      /\ analyses'[n].error = analyses[n].error
<1>1. ASSUME NEW n \in Names, NEW i \in Inputs, Insert(n, i), ~Exists(n)
      PROVE  /\ \A m \in Names \ {n} : analyses'[m] = analyses[m]
             /\ analyses'[n].state = "RUNNING"
             /\ ~analyses'[n].output /\ ~analyses'[n].error
  BY <1>1, InsertEffect
<1>2. ASSUME NEW n \in Names, NEW i \in Inputs, Insert(n, i), Exists(n)
      PROVE  UNCHANGED analyses
  BY <1>2, InsertEffect
<1>3. ASSUME NEW n \in Names, MarkSucceeded(n), Undecided(n)
      PROVE  \/ UNCHANGED analyses
             \/ /\ \A m \in Names \ {n} : analyses'[m] = analyses[m]
                /\ analyses'[n].state = "SUCCEEDED"
                /\ analyses'[n].output
  BY <1>3, MarkSucceededEffect
<1>4. ASSUME NEW n \in Names, MarkFailed(n), Undecided(n)
      PROVE  /\ \A m \in Names \ {n} : analyses'[m] = analyses[m]
             /\ analyses'[n].state = "FAILED"
             /\ ~analyses'[n].output /\ analyses'[n].error
  BY <1>4, MarkFailedEffect DEF Undecided
<1>5. ASSUME NEW n \in Names, MarkCancelled(n)
      PROVE  /\ \A m \in Names \ {n} : analyses'[m] = analyses[m]
             /\ analyses'[n].state = "CANCELLED"
             /\ analyses'[n].output = analyses[n].output
             /\ analyses'[n].error = analyses[n].error
  BY <1>5, MarkCancelledEffect
<1>6. QED
  BY <1>1, <1>2, <1>3, <1>4, <1>5 DEF Statement, Exists

\* A statement of the system is a step of the lifecycle, or none.
LEMMA DecisionIsLifecycleStep ==
    ASSUME IInv, [Statement]_analyses
    PROVE  [Lifecycle!LifecycleNext]_<<[n \in Names |-> analyses[n].state],
                                      [n \in Names |-> Verdict(analyses[n])]>>
<1> DEFINE status  == [n \in Names |-> analyses[n].state]
           verdict == [n \in Names |-> Verdict(analyses[n])]
<1>1. CASE UNCHANGED analyses
  BY <1>1
<1>2. ASSUME NEW n \in Names,
             \A m \in Names \ {n} : analyses'[m] = analyses[m]
      PROVE  /\ status' = [status EXCEPT ![n] = analyses'[n].state]
             /\ verdict' = [verdict EXCEPT ![n] = Verdict(analyses'[n])]
  <2>1. status' = [status EXCEPT ![n] = analyses'[n].state]
    BY <1>2
  <2>2. verdict' = [m \in Names |-> Verdict(analyses'[m])]
    BY DEF Verdict
  <2>3. \A m \in Names \ {n} : Verdict(analyses'[m]) = Verdict(analyses[m])
    BY <1>2
  <2>4. [m \in Names |-> Verdict(analyses'[m])]
          = [verdict EXCEPT ![n] = Verdict(analyses'[n])]
    BY <2>3
  <2>5. QED
    BY <2>1, <2>2, <2>4
<1>3. ASSUME NEW n \in Names,
             \A m \in Names \ {n} : analyses'[m] = analyses[m],
             analyses[n].state = "ABSENT",
             analyses'[n].state = "RUNNING",
             ~analyses'[n].output /\ ~analyses'[n].error
      PROVE  Lifecycle!Start(n)
  <2>1. ~analyses[n].output /\ ~analyses[n].error
    BY <1>3 DEF IInv, LaunchRight, VerdictIsLast, Exists
  <2>2. Verdict(analyses'[n]) = Verdict(analyses[n])
    BY <1>3, <2>1 DEF Verdict
  <2>3. QED
    BY <1>2, <1>3, <2>2 DEF Lifecycle!Start
<1>4. ASSUME NEW n \in Names,
             \A m \in Names \ {n} : analyses'[m] = analyses[m],
             Undecided(n),
             analyses'[n].state = "SUCCEEDED",
             analyses'[n].output
      PROVE  Lifecycle!Decide(n, "result")
  <2>1. Verdict(analyses[n]) = "none" /\ Verdict(analyses'[n]) = "result"
    BY <1>4 DEF Undecided, Verdict
  <2>2. QED
    BY <1>2, <1>4, <2>1
       DEF Undecided, Exists, Lifecycle!Decide, Lifecycle!StatusOf
<1>5. ASSUME NEW n \in Names,
             \A m \in Names \ {n} : analyses'[m] = analyses[m],
             Undecided(n),
             analyses'[n].state = "FAILED",
             ~analyses'[n].output /\ analyses'[n].error
      PROVE  Lifecycle!Decide(n, "failure")
  <2>1. Verdict(analyses[n]) = "none" /\ Verdict(analyses'[n]) = "failure"
    BY <1>5 DEF Undecided, Verdict
  <2>2. QED
    BY <1>2, <1>5, <2>1
       DEF Undecided, Exists, Lifecycle!Decide, Lifecycle!StatusOf
<1>6. ASSUME NEW n \in Names,
             \A m \in Names \ {n} : analyses'[m] = analyses[m],
             Exists(n),
             analyses'[n].state = "CANCELLED",
             analyses'[n].output = analyses[n].output,
             analyses'[n].error = analyses[n].error
      PROVE  Lifecycle!Cancel(n)
  <2>1. Verdict(analyses'[n]) = Verdict(analyses[n])
    BY <1>6 DEF Verdict
  <2>2. QED
    BY <1>2, <1>6, <2>1 DEF Exists, Lifecycle!Cancel
<1>7. StoreTypeOK
  BY DEF IInv, TypeOK
<1>8. QED
  BY <1>1, <1>3, <1>4, <1>5, <1>6, <1>7, StatementIsLifecycleStep
     DEF Lifecycle!LifecycleNext, Lifecycle!Verdicts

\* The table implements AnalysisLifecycle: whatever races, fails or restarts,
\* an operation starts once and gets one verdict, and a cancel is the only
\* thing that can hide it.
THEOREM LifecycleImplemented == Spec => ImplementsLifecycle
<1>1. Init => Lifecycle!LifecycleInit
  BY DEF Init, StoreInit, NoRow, Verdict, Lifecycle!LifecycleInit
<1>2. IInv /\ [Next]_vars =>
        [Lifecycle!LifecycleNext]_<<[n \in Names |-> analyses[n].state],
                                   [n \in Names |-> Verdict(analyses[n])]>>
  BY StepIsDecision, DecisionIsLifecycleStep
<1>3. QED
  BY <1>1, <1>2, InductiveInvariant, PTL
     DEF Spec, ImplementsLifecycle, Lifecycle!LifecycleSpec

\* The cache lookup of CreateAnalysis is unambiguous in the whole system.
THEOREM CacheUnambiguousInSystem == Spec => []CacheUnambiguous
BY ImplementsStore, CacheIsUnambiguous, PTL

\* Rows are durable in the whole system.
THEOREM RowsDurableInSystem == Spec => RowsAreDurable
BY ImplementsStore, RowsDurable, PTL

----------------------------------------------------------------------------
(* Nothing is forgotten but for one row for each failure, as long as nobody *)
(* stops the server                                                        *)

\* A handler will launch or fail n, or a goroutine will write its row.
InHand(n) ==
    \/ \E c \in Creators : Launching(c, n)
    \/ runner[n] \in InFlight \ {"publish"}

\* Nobody is going to write the RUNNING row of n.  A goroutine that has come
\* to its update has written it or will never do.
Forgotten(n) ==
    analyses[n].state = "RUNNING" /\ ~InHand(n) /\ ~Superseded(n)

ForgottenRows == {n \in Names : Forgotten(n)}

\* Adds to IInv how many rows are forgotten, and that an update is the last
\* thing a goroutine does.
Carried ==
    /\ \A n \in published : runner[n] = "done"
    /\ exits = 0 => server # "down"
    /\ server = "up" /\ exits = 0 =>
          /\ IsFiniteSet(ForgottenRows)
          /\ Cardinality(ForgottenRows) <= faults

\* Without a failure nothing is forgotten.
LEMMA NothingForgotten ==
    ASSUME Carried, Undisturbed, NEW n \in Names, analyses[n].state = "RUNNING"
    PROVE  InHand(n) \/ Superseded(n)
<1>1. /\ IsFiniteSet(ForgottenRows)
      /\ Cardinality(ForgottenRows) <= 0
  BY DEF Carried, Undisturbed
<1>2. ForgottenRows = {}
  BY <1>1, FS_CardinalityType, FS_EmptySet
<1>3. QED
  BY <1>2 DEF ForgottenRows, Forgotten

\* A request changes its handler and nothing else.
LEMMA CreateRequestEffect ==
    ASSUME creator \in [Creators -> Creator], NEW c \in Creators,
           NEW n \in Names, NEW i \in Inputs, CreateRequest(c, n, i)
    PROVE  /\ creator[c].pc \in {"idle", "answered"}
           /\ UNCHANGED <<analyses, runVars, serverVars, faults>>
           /\ creator'[c].answer = NoName
           /\ \A d \in Creators \ {c} : creator'[d] = creator[d]
<1>1. /\ creator[c].pc \in {"idle", "answered"}
      /\ UNCHANGED <<analyses, runVars, serverVars, faults>>
  BY Zenon DEF CreateRequest
<1>2. PICK x : creator' = [creator EXCEPT ![c] = x] /\ x.answer = NoName
  <2>1. creator' = [creator EXCEPT
                      ![c] = [IdleCreator EXCEPT !.pc = "lookup",
                                                 !.name = n, !.input = i]]
    BY Zenon DEF CreateRequest
  <2>2. [IdleCreator EXCEPT !.pc = "lookup", !.name = n, !.input = i].answer
          = NoName
    BY DEF IdleCreator
  <2>3. QED
    BY <2>1, <2>2, Zenon
<1>3. QED
  BY <1>1, <1>2

\* The steps of a CreateAnalysis handler that leave the goroutines alone, and
\* those that leave the server alone.
LEMMA CreatorLeaves ==
    ASSUME creator \in [Creators -> Creator], NEW c \in Creators
    PROVE  /\ \A n \in Names, i \in Inputs :
                CreateRequest(c, n, i) => UNCHANGED <<runVars, serverVars>>
           /\ CacheLookup(c) => UNCHANGED <<runVars, serverVars>>
           /\ InsertRow(c) => UNCHANGED <<runVars, serverVars>>
           /\ FetchRow(c) => UNCHANGED <<runVars, serverVars>>
           /\ Cleanup(c) => UNCHANGED <<runVars, serverVars>>
           /\ Launch(c) => UNCHANGED <<published, serverVars>>
<1>1. \A n \in Names, i \in Inputs :
         CreateRequest(c, n, i) => UNCHANGED <<runVars, serverVars>>
  BY CreateRequestEffect
<1>2. CacheLookup(c) => UNCHANGED <<runVars, serverVars>>
  BY DEF CacheLookup
<1>3. InsertRow(c) => UNCHANGED <<runVars, serverVars>>
  BY DEF InsertRow
<1>4. FetchRow(c) => UNCHANGED <<runVars, serverVars>>
  BY DEF FetchRow
<1>5. Cleanup(c) => UNCHANGED <<runVars, serverVars>>
  BY DEF Cleanup
<1>6. Launch(c) => UNCHANGED <<published, serverVars>>
  BY DEF Launch
<1>7. QED
  BY <1>1, <1>2, <1>3, <1>4, <1>5, <1>6

\* They fail, or they do not.
LEMMA CreatorFaults ==
    ASSUME creator \in [Creators -> Creator], NEW c \in Creators,
           \/ \E n \in Names, i \in Inputs : CreateRequest(c, n, i)
           \/ CreatorStep(c)
    PROVE  Fault \/ NoFault
<1>1. CASE \E n \in Names, i \in Inputs : CreateRequest(c, n, i)
  BY <1>1, CreateRequestEffect DEF NoFault
<1>2. CASE CacheLookup(c)
  BY <1>2 DEF CacheLookup
<1>3. CASE InsertRow(c)
  BY <1>3 DEF InsertRow, FailsAt
<1>4. CASE FetchRow(c)
  BY <1>4 DEF FetchRow
<1>5. CASE Launch(c)
  BY <1>5 DEF Launch, NoFault
<1>6. CASE Cleanup(c)
  BY <1>6 DEF Cleanup, FailsAt
<1>7. QED
  BY <1>1, <1>2, <1>3, <1>4, <1>5, <1>6 DEF CreatorStep

\* A step before the end of the first process is one of a handler, a goroutine
\* or a listener; it fails or does not.
LEMMA RunningOn ==
    ASSUME IInv, Carried, Next, server' = "up", exits' = 0
    PROVE  /\ server = "up" /\ exits = 0 /\ UNCHANGED serverVars
           /\ Fault \/ NoFault
           /\ ~Shutdown /\ ~Exit /\ ~Restart
<1> USE DEF IInv, TypeOK
<1>1. exits \in Nat
  BY RunAssumption
<1>2. ASSUME UNCHANGED serverVars
      PROVE  exits = 0 /\ server = "up"
  BY <1>2
<1>4. ~Shutdown /\ ~Exit /\ ~Restart
  BY <1>1 DEF Shutdown, Exit, Restart, Carried
<1>5. ASSUME NEW c \in Creators,
             \/ \E n \in Names, i \in Inputs : CreateRequest(c, n, i)
             \/ CreatorStep(c)
      PROVE  (Fault \/ NoFault) /\ UNCHANGED serverVars
  BY <1>5, CreatorFaults, CreatorLeaves DEF CreatorStep
<1>6. ASSUME NEW k \in Cancellers,
             \/ \E n \in Names : CancelRequest(k, n)
             \/ CancellerStep(k)
      PROVE  (Fault \/ NoFault) /\ UNCHANGED serverVars
  BY <1>6 DEF CancelRequest, CancellerStep, CancelRead, CancelMark,
     PublishCancel, FailsAt, NoFault
<1>7. ASSUME NEW n \in Names,
             RunnerStep(n) \/ MulvalExits(n) \/ ChildrenEnd(n) \/ SetupFails(n)
      PROVE  (Fault \/ NoFault) /\ UNCHANGED serverVars
  BY <1>7 DEF RunnerStep, StartMulval, KillMulval, RunMulvalReturns,
     PersistSuccess, PersistFailure, PublishUpdate, MulvalExits, ChildrenEnd,
     SetupFails, OnlyRunnerMoves, FailsAt, NoFault
<1>8. ASSUME NEW n \in Names, ListenerStep(n) \/ CancelExpires(n)
      PROVE  (Fault \/ NoFault) /\ UNCHANGED serverVars
  BY <1>8 DEF ListenerStep, SubscribeCancel, PollCancel, ListenerStops,
     CancelExpires, NoFault
<1>9. QED
  BY <1>2, <1>4, <1>5, <1>6, <1>7, <1>8 DEF Next

\* A failure is counted, and a step fails or does not.
LEMMA FaultsCount ==
    ASSUME IInv
    PROVE  /\ faults \in Nat
           /\ ~(Fault /\ NoFault)
           /\ Fault => faults' = faults + 1
           /\ NoFault => faults' = faults
BY RunAssumption DEF IInv, TypeOK, Fault, NoFault

\* A step after which nothing has failed did not fail.
LEMMA QuietStep ==
    ASSUME IInv, Carried, Next, Undisturbed'
    PROVE  Undisturbed /\ NoFault /\ UNCHANGED serverVars
<1>1. server' = "up" /\ exits' = 0 /\ faults' = 0
  BY DEF Undisturbed
<1>2. /\ server = "up" /\ exits = 0 /\ UNCHANGED serverVars
      /\ Fault \/ NoFault
  BY <1>1, RunningOn
<1>3. NoFault /\ faults = 0
  BY <1>1, <1>2, FaultsCount
<1>4. QED
  BY <1>2, <1>3 DEF Undisturbed

\* An identical success is there to stay.
LEMMA SupersededStays ==
    ASSUME IInv, [Next]_vars, NEW n \in Names, Superseded(n)
    PROVE  Superseded(n)'
<1>1. PICK m \in Names \ {n} :
         analyses[m].output /\ Exists(n) /\ SameHash(m, n)
  BY DEF Superseded
<1>2. Exists(m)
  BY <1>1 DEF IInv, LaunchRight, VerdictIsLast
<1>3. StoreTypeOK /\ [StoreNext]_analyses
  BY StepIsStatement DEF IInv, TypeOK
<1>4. /\ analyses'[m].input = analyses[m].input
      /\ analyses'[n].input = analyses[n].input
      /\ analyses'[n].state # "ABSENT"
      /\ analyses[m].output => analyses'[m].output
  BY <1>1, <1>2, <1>3, DurableStep DEF Exists
<1>5. QED
  BY <1>1, <1>4 DEF Superseded, Exists, SameHash

\* A row that is RUNNING after a step was RUNNING before or is new.
LEMMA RunningBefore ==
    ASSUME IInv, [Next]_vars, NEW n \in Names,
           analyses'[n].state = "RUNNING", Exists(n)
    PROVE  analyses[n].state = "RUNNING"
<1>1. StoreTypeOK /\ [StoreNext]_analyses
  BY StepIsStatement DEF IInv, TypeOK
<1>2. QED
  BY <1>1, DurableStep

\* A step of a CreateAnalysis handler that does not fail: it gives a right up
\* only to a goroutine or with its last statement.
LEMMA CreatorCarries ==
    ASSUME IInv, NEW c \in Creators, NoFault,
           NEW n \in Names, analyses'[n].state = "RUNNING",
           \/ \E m \in Names, i \in Inputs : CreateRequest(c, m, i)
           \/ CreatorStep(c)
    PROVE  InHand(n) \/ ~Exists(n) => InHand(n)'
<1> USE DEF IInv, TypeOK, LaunchRight
<1>0. ~Fault
  BY FaultsCount
<1>1. ASSUME UNCHANGED <<analyses, runner>>,
             \A d \in Creators : Launching(d, n) => Launching(d, n)'
      PROVE  InHand(n) \/ ~Exists(n) => InHand(n)'
  BY <1>1 DEF InHand, Exists
<1>2. ASSUME NEW m \in Names, NEW i \in Inputs, CreateRequest(c, m, i)
      PROVE  InHand(n) \/ ~Exists(n) => InHand(n)'
  <2>1. ~creator[c].created
    BY <1>2, CreateRequestEffect DEF HandlersHold
  <2>2. /\ UNCHANGED <<analyses, runner>>
        /\ \A d \in Creators \ {c} : creator'[d] = creator[d]
    BY <1>2, CreateRequestEffect
  <2>3. QED
    BY <1>1, <2>1, <2>2 DEF Launching
<1>3. ASSUME CacheLookup(c)
      PROVE  InHand(n) \/ ~Exists(n) => InHand(n)'
  <2>1. ~creator[c].created
    BY <1>3 DEF CacheLookup, CreatorAt, HandlersHold
  <2>2. /\ UNCHANGED <<analyses, runner>>
        /\ \A d \in Creators \ {c} : creator'[d] = creator[d]
    <3>1. /\ UNCHANGED <<analyses, runner>>
          /\ \/ CreatorGoes(c, "insert") \/ AnswerError(c)
             \/ \E m \in GetByHash(creator[c].input) : Answer(c, m)
      BY <1>3 DEF CacheLookup
    <3>2. QED
      BY <3>1, AnswerEffect, AnswerErrorEffect, CreatorGoesEffect
         DEF CreatorPC, GetByHash
  <2>3. QED
    BY <1>1, <2>1, <2>2 DEF Launching
<1>4. ASSUME InsertRow(c)
      PROVE  InHand(n) \/ ~Exists(n) => InHand(n)'
  <2>1. /\ ~creator[c].created
        /\ creator[c].name \in Names /\ creator[c].input \in Inputs
    BY <1>4 DEF InsertRow, CreatorAt, HandlersHold
  <2>2. /\ Insert(creator[c].name, creator[c].input)
        /\ creator' = [creator EXCEPT ![c].pc = "fetch",
                                      ![c].created = ~Exists(creator[c].name)]
        /\ UNCHANGED runner
    BY <1>0, <1>4 DEF InsertRow, FailsAt
  <2>3. \A d \in Creators : Launching(d, n) => Launching(d, n)'
    BY <2>1, <2>2 DEF Launching
  <2>4. CASE n = creator[c].name /\ ~Exists(n)
    <3>1. creator'[c].created /\ creator'[c].name = n
      BY <2>2, <2>4 DEF Creator
    <3>2. QED
      BY <3>1 DEF InHand, Launching
  <2>5. CASE n # creator[c].name
    BY <2>1, <2>2, <2>3, <2>5, InsertEffect DEF InHand, Exists
  <2>6. CASE Exists(n)
    BY <2>2, <2>3, <2>6 DEF InHand
  <2>7. QED
    BY <2>4, <2>5, <2>6
<1>5. ASSUME FetchRow(c)
      PROVE  InHand(n) \/ ~Exists(n) => InHand(n)'
  <2>1. UNCHANGED <<analyses, runner>>
    BY <1>5 DEF FetchRow
  <2>2. \/ CreatorGoes(c, "launch")
        \/ ~creator[c].created /\ Answer(c, creator[c].name)
    BY <1>0, <1>5 DEF FetchRow
  <2>3. \A d \in Creators : Launching(d, n) => Launching(d, n)'
    BY <2>2 DEF CreatorGoes, Answer, Launching, Creator
  <2>4. QED
    BY <1>1, <2>1, <2>3
<1>6. ASSUME Launch(c)
      PROVE  InHand(n) \/ ~Exists(n) => InHand(n)'
  <2>1. CASE CreatorGoes(c, "cleanup") /\ UNCHANGED runner
    <3>1. \A d \in Creators : Launching(d, n) => Launching(d, n)'
      BY <2>1 DEF CreatorGoes, Launching, Creator
    <3>2. QED
      BY <1>1, <1>6, <2>1, <3>1 DEF Launch
  <2>2. CASE /\ runner' = [runner EXCEPT ![creator[c].name] = "starting"]
             /\ Answer(c, creator[c].name)
    <3>1. UNCHANGED analyses
      BY <1>6 DEF Launch
    <3>2. CASE n = creator[c].name
      BY <2>2, <3>2 DEF InHand, InFlight
    <3>3. CASE n # creator[c].name
      <4>1. runner'[n] = runner[n]
        BY <2>2, <3>3
      <4>2. \A d \in Creators : Launching(d, n) => Launching(d, n)'
        BY <2>2, <3>3 DEF Answer, Launching
      <4>3. QED
        BY <3>1, <4>1, <4>2 DEF InHand, Exists
    <3>4. QED
      BY <3>2, <3>3
  <2>3. QED
    BY <1>6, <2>1, <2>2 DEF Launch
<1>7. ASSUME Cleanup(c)
      PROVE  InHand(n) \/ ~Exists(n) => InHand(n)'
  <2>1. creator[c].name \in Names
    BY <1>7 DEF Cleanup, CreatorAt, HandlersHold
  <2>2. MarkFailed(creator[c].name) /\ AnswerError(c) /\ UNCHANGED runner
    BY <1>0, <1>7 DEF Cleanup, FailsAt
  <2>3. n # creator[c].name /\ analyses'[n] = analyses[n]
    BY <2>1, <2>2, MarkFailedEffect
  <2>4. \A d \in Creators : Launching(d, n) => Launching(d, n)'
    BY <2>2, <2>3 DEF AnswerError, Launching
  <2>5. QED
    BY <2>2, <2>3, <2>4 DEF InHand, Exists
<1>8. QED
  BY <1>2, <1>3, <1>4, <1>5, <1>6, <1>7 DEF CreatorStep

\* A step of a goroutine that does not fail: it goes on to publish when its row
\* is terminal or the index has rejected its success.
LEMMA RunnerCarries ==
    ASSUME IInv, CacheUnambiguous, NEW m \in Names, NoFault,
           server = "up", RunnerStep(m) \/ MulvalExits(m) \/ ChildrenEnd(m)
                          \/ SetupFails(m),
           NEW n \in Names, analyses'[n].state = "RUNNING", InHand(n)
    PROVE  InHand(n)' \/ Superseded(n)
<1> USE DEF IInv, TypeOK
<1>0. ~Fault
  BY FaultsCount
<1>1. UNCHANGED creator
  BY DEF RunnerStep, StartMulval, KillMulval, RunMulvalReturns,
     PersistSuccess, PersistFailure, PublishUpdate, MulvalExits, ChildrenEnd,
     SetupFails, OnlyRunnerMoves
<1>2. CASE \E c \in Creators : Launching(c, n)
  BY <1>1, <1>2 DEF InHand, Launching
<1>3. CASE n # m
  <2>1. runner'[n] = runner[n]
    BY <1>3 DEF RunnerStep, StartMulval, KillMulval, RunMulvalReturns,
       PersistSuccess, PersistFailure, PublishUpdate, MulvalExits, ChildrenEnd,
       SetupFails, RunnerGoes
  <2>2. QED
    BY <1>1, <2>1 DEF InHand, Launching
<1>4. CASE n = m /\ runner[n] \in InFlight \ {"publish"}
  <2>1. CASE StartMulval(n) \/ KillMulval(n) \/ MulvalExits(n) \/ ChildrenEnd(n)
             \/ SetupFails(n)
    BY <2>1 DEF StartMulval, KillMulval, MulvalExits, ChildrenEnd,
       SetupFails, RunnerGoes,
       InHand, InFlight
  <2>2. CASE RunMulvalReturns(n)
    <3>1. UNCHANGED analyses
      BY <2>2 DEF RunMulvalReturns, OnlyRunnerMoves
    <3>2. n \notin signalled
      BY <3>1 DEF SignalFollowsWrite, IsTerminal, TerminalStates
    <3>3. ~Aborted(n)
      BY <3>2 DEF Aborted
    <3>4. QED
      BY <2>2, <3>3 DEF RunMulvalReturns, RunnerGoes, InHand, InFlight
  <2>3. CASE PersistSuccess(n)
    <3>1. MarkSucceeded(n)
      BY <1>0, <2>3 DEF PersistSuccess, FailsAt
    <3>2. ~IndexAdmits(n)
      BY <3>1, MarkSucceededEffect
    <3>3. PICK j \in Names \ {n} :
             analyses[j].state = "SUCCEEDED" /\ SameHash(j, n)
      BY <3>2 DEF IndexAdmits
    <3>4. analyses[j].output
      BY <3>3 DEF CacheUnambiguous
    <3>5. UNCHANGED analyses
      BY <3>1, <3>2 DEF MarkSucceeded
    <3>6. QED
      BY <3>3, <3>4, <3>5 DEF Superseded, Exists
  <2>4. CASE PersistFailure(n)
    <3>1. MarkFailed(n)
      BY <1>0, <2>4 DEF PersistFailure, FailsAt
    <3>2. QED
      BY <3>1, MarkFailedEffect
  <2>5. CASE PublishUpdate(n)
    BY <1>4, <2>5 DEF PublishUpdate, RunnerGoes
  <2>6. QED
    BY <1>4, <2>1, <2>2, <2>3, <2>4, <2>5 DEF RunnerStep
<1>5. QED
  BY <1>2, <1>3, <1>4 DEF InHand

\* A handler changes itself and no other handler.
LEMMA OneHandlerMoves ==
    ASSUME IInv, NEW d \in Creators,
           \/ \E n \in Names, i \in Inputs : CreateRequest(d, n, i)
           \/ CreatorStep(d)
    PROVE  \A c \in Creators \ {d} : creator'[c] = creator[c]
<1> USE DEF IInv, TypeOK
<1>1. CASE \E n \in Names, i \in Inputs : CreateRequest(d, n, i)
  BY <1>1, CreateRequestEffect
<1>2. CASE CacheLookup(d)
  BY <1>2, AnswerEffect, AnswerErrorEffect, CreatorGoesEffect
     DEF CacheLookup, CreatorPC, GetByHash
<1>3. CASE InsertRow(d)
  <2>1. \/ AnswerError(d)
        \/ creator' = [creator EXCEPT ![d].pc = "fetch",
                            ![d].created = ~Exists(creator[d].name)]
    BY <1>3 DEF InsertRow
  <2>2. QED
    BY <2>1, AnswerErrorEffect
<1>4. CASE FetchRow(d) \/ Launch(d)
  <2>1. creator[d].name \in Names
    BY <1>4 DEF FetchRow, Launch, CreatorAt, IInv, LaunchRight,
       HandlersHold
  <2>2. \/ \E pc \in {"launch", "cleanup"} : CreatorGoes(d, pc)
        \/ Answer(d, creator[d].name)
        \/ AnswerError(d)
    BY <1>4 DEF FetchRow, Launch
  <2>3. QED
    BY <2>1, <2>2, AnswerEffect, AnswerErrorEffect,
       CreatorGoesEffect DEF CreatorPC
<1>5. CASE Cleanup(d)
  BY <1>5, AnswerErrorEffect DEF Cleanup
<1>6. QED
  BY <1>1, <1>2, <1>3, <1>4, <1>5 DEF CreatorStep

\* A step touches one operation at most, unless the process ends.
Spares(n) ==
    /\ analyses'[n] = analyses[n]
    /\ runner'[n] = runner[n]
    /\ \A c \in Creators : Launching(c, n) => Launching(c, n)'

LEMMA StepTouchesOne ==
    ASSUME IInv, Next, ~Exit
    PROVE  \E m : \A n \in Names : n # m => Spares(n)
<1> USE DEF IInv, TypeOK
<1>1. ASSUME NEW c \in Creators,
             \/ \E n \in Names, i \in Inputs : CreateRequest(c, n, i)
             \/ CreatorStep(c)
      PROVE  \A n \in Names : n # creator[c].name => Spares(n)
  <2>1. ASSUME NEW n \in Names, n # creator[c].name
        PROVE  /\ analyses'[n] = analyses[n]
               /\ runner'[n] = runner[n]
    <3>1. CASE \/ \E m \in Names, i \in Inputs : CreateRequest(c, m, i)
               \/ CacheLookup(c) \/ FetchRow(c)
      BY <3>1, CreateRequestEffect DEF CacheLookup, FetchRow
    <3>2. CASE InsertRow(c)
      <4>1. creator[c].name \in Names /\ creator[c].input \in Inputs
        BY <3>2 DEF InsertRow, CreatorAt, LaunchRight, HandlersHold
      <4>2. /\ UNCHANGED runner
            /\ \/ Insert(creator[c].name, creator[c].input)
               \/ UNCHANGED analyses
        BY <3>2, FailsAtEffect DEF InsertRow
      <4>3. QED
        BY <2>1, <4>1, <4>2, InsertEffect
    <3>3. CASE Launch(c)
      <4>1. UNCHANGED analyses
        BY <3>3 DEF Launch
      <4>2. \/ UNCHANGED runner
            \/ runner' = [runner EXCEPT ![creator[c].name] = "starting"]
        BY <3>3 DEF Launch
      <4>3. QED
        BY <2>1, <4>1, <4>2
    <3>4. CASE Cleanup(c)
      <4>1. creator[c].name \in Names
        BY <3>4 DEF Cleanup, CreatorAt, LaunchRight, HandlersHold
      <4>2. /\ UNCHANGED runner
            /\ MarkFailed(creator[c].name) \/ UNCHANGED analyses
        BY <3>4, FailsAtEffect DEF Cleanup
      <4>3. QED
        BY <2>1, <4>1, <4>2, MarkFailedEffect
    <3>5. QED
      BY <1>1, <3>1, <3>2, <3>3, <3>4 DEF CreatorStep
  <2>2. ASSUME NEW n \in Names, n # creator[c].name,
               NEW d \in Creators, Launching(d, n)
        PROVE  Launching(d, n)'
    <3>1. d # c
      BY <2>2 DEF Launching
    <3>2. creator'[d] = creator[d]
      BY <1>1, <3>1, OneHandlerMoves
    <3>3. QED
      BY <2>2, <3>2 DEF Launching
  <2>3. QED
    BY <2>1, <2>2 DEF Spares
<1>2. ASSUME NEW k \in Cancellers,
             (\E n \in Names : CancelRequest(k, n)) \/ CancellerStep(k)
      PROVE  \A n \in Names : n # canceller[k].name => Spares(n)
  <2>1. UNCHANGED <<creator, runner>>
    BY <1>2 DEF CancelRequest, CancellerStep, CancelRead, CancelMark,
       PublishCancel
  <2>2. CASE CancelMark(k)
    <3>1. canceller[k].name \in Names
      BY <2>2 DEF CancelMark, CancellerAt, CancelProgress
    <3>2. MarkCancelled(canceller[k].name) \/ UNCHANGED analyses
      BY <2>2, FailsAtEffect DEF CancelMark
    <3>3. QED
      BY <2>1, <3>1, <3>2, MarkCancelledEffect DEF Spares, Launching
  <2>3. CASE ~CancelMark(k)
    <3>1. UNCHANGED analyses
      BY <1>2, <2>3 DEF CancelRequest, CancellerStep, CancelRead,
         PublishCancel
    <3>2. QED
      BY <2>1, <3>1 DEF Spares, Launching
  <2>4. QED
    BY <2>2, <2>3
<1>3. ASSUME NEW m \in Names, RunnerStep(m) \/ MulvalExits(m) \/ ChildrenEnd(m)
                              \/ SetupFails(m)
      PROVE  \A n \in Names : n # m => Spares(n)
  <2>1. UNCHANGED creator
    BY <1>3 DEF RunnerStep, StartMulval, KillMulval, RunMulvalReturns,
       PersistSuccess, PersistFailure, PublishUpdate, MulvalExits, ChildrenEnd,
       SetupFails, OnlyRunnerMoves
  <2>2. \A n \in Names : n # m => runner'[n] = runner[n]
    BY <1>3 DEF RunnerStep, StartMulval, KillMulval, RunMulvalReturns,
       PersistSuccess, PersistFailure, PublishUpdate, MulvalExits, ChildrenEnd,
       SetupFails, RunnerGoes
  <2>3. MarkSucceeded(m) \/ MarkFailed(m) \/ UNCHANGED analyses
    BY <1>3, FailsAtEffect DEF RunnerStep, StartMulval, KillMulval,
       RunMulvalReturns, PersistSuccess, PersistFailure, PublishUpdate,
       MulvalExits, ChildrenEnd, SetupFails, OnlyRunnerMoves
  <2>4. \A n \in Names : n # m => analyses'[n] = analyses[n]
    BY <2>3, MarkSucceededEffect, MarkFailedEffect
  <2>5. QED
    BY <2>1, <2>2, <2>4 DEF Spares, Launching
<1>4. ASSUME UNCHANGED <<analyses, creator, runner>>
      PROVE  \A n \in Names : Spares(n)
  BY <1>4 DEF Spares, Launching
<1>5. ASSUME NEW m \in Names, ListenerStep(m) \/ CancelExpires(m)
      PROVE  UNCHANGED <<analyses, creator, runner>>
  BY <1>5 DEF ListenerStep, SubscribeCancel, PollCancel, ListenerStops,
     CancelExpires
<1>6. CASE Shutdown \/ Restart
  BY <1>4, <1>6 DEF Shutdown, Restart
<1>7. QED
  BY <1>1, <1>2, <1>3, <1>4, <1>5, <1>6 DEF Next

\* A step that does not fail forgets nothing.
LEMMA GoodStepForgetsNothing ==
    ASSUME IInv, CacheUnambiguous, Next, NoFault,
           server = "up", ~Shutdown, ~Exit, ~Restart,
           NEW n \in Names, Forgotten(n)'
    PROVE  Forgotten(n)
<1> USE DEF IInv, TypeOK
<1>0. analyses'[n].state = "RUNNING"
  BY DEF Forgotten
<1>1. SUFFICES ASSUME ~Forgotten(n)
               PROVE  InHand(n)' \/ Superseded(n)'
  BY DEF Forgotten
<1>2. \/ ~Exists(n)
      \/ analyses[n].state = "RUNNING" /\ InHand(n)
      \/ Superseded(n)
  BY <1>0, <1>1, RunningBefore DEF Forgotten
<1>3. Superseded(n) => Superseded(n)'
  BY SupersededStays
<1>4. ASSUME NEW c \in Creators,
             \/ \E m \in Names, i \in Inputs : CreateRequest(c, m, i)
             \/ CreatorStep(c)
      PROVE  InHand(n)' \/ Superseded(n)'
  BY <1>0, <1>1, <1>2, <1>3, <1>4, CreatorCarries
<1>5. ASSUME NEW m \in Names, RunnerStep(m) \/ MulvalExits(m) \/ ChildrenEnd(m)
                              \/ SetupFails(m)
      PROVE  InHand(n)' \/ Superseded(n)'
  <2>1. Exists(n)
    <3>1. ASSUME ~Exists(n)
          PROVE  runner[n] = "none" /\ n # m
      BY <1>5, <3>1 DEF LaunchRight, VerdictIsLast, RunnerStep, StartMulval,
         KillMulval, RunMulvalReturns, PersistSuccess, PersistFailure,
         PublishUpdate, MulvalExits, ChildrenEnd, SetupFails, RunnerGoes
    <3>2. n # m => analyses'[n] = analyses[n]
      BY <1>5, FailsAtEffect, MarkSucceededEffect, MarkFailedEffect
         DEF RunnerStep, StartMulval, KillMulval, RunMulvalReturns,
         PersistSuccess, PersistFailure, PublishUpdate, MulvalExits,
         ChildrenEnd, SetupFails, OnlyRunnerMoves
    <3>3. QED
      BY <1>0, <3>1, <3>2 DEF Exists
  <2>2. QED
    BY <1>0, <1>1, <1>2, <1>3, <1>5, <2>1, RunnerCarries
<1>6. ASSUME UNCHANGED <<creator, runner>>,
             analyses'[n] = analyses[n] \/ IsTerminal(analyses'[n].state)
      PROVE  InHand(n)' \/ Superseded(n)'
  <2>1. analyses'[n] = analyses[n]
    BY <1>0, <1>6 DEF IsTerminal, TerminalStates
  <2>2. InHand(n) => InHand(n)'
    BY <1>6 DEF InHand, Launching
  <2>3. QED
    BY <1>0, <1>2, <1>3, <2>1, <2>2 DEF Exists
<1>7. ASSUME NEW k \in Cancellers,
             (\E m \in Names : CancelRequest(k, m)) \/ CancellerStep(k)
      PROVE  InHand(n)' \/ Superseded(n)'
  <2>1. UNCHANGED <<creator, runner>>
    BY <1>7 DEF CancelRequest, CancellerStep, CancelRead, CancelMark,
       PublishCancel
  <2>2. CASE CancelMark(k)
    <3>1. canceller[k].name \in Names
      BY <2>2 DEF CancelMark, CancellerAt, CancelProgress
    <3>2. MarkCancelled(canceller[k].name) \/ UNCHANGED analyses
      BY <2>2, FailsAtEffect DEF CancelMark
    <3>3. analyses'[n] = analyses[n] \/ IsTerminal(analyses'[n].state)
      BY <3>1, <3>2, MarkCancelledEffect DEF IsTerminal, TerminalStates
    <3>4. QED
      BY <1>6, <2>1, <3>3
  <2>3. CASE ~CancelMark(k)
    <3>1. UNCHANGED analyses
      BY <1>7, <2>3 DEF CancelRequest, CancellerStep, CancelRead,
         PublishCancel
    <3>2. QED
      BY <1>6, <2>1, <3>1
  <2>4. QED
    BY <2>2, <2>3
<1>8. ASSUME NEW m \in Names, ListenerStep(m) \/ CancelExpires(m)
      PROVE  InHand(n)' \/ Superseded(n)'
  <2>1. UNCHANGED <<analyses, creator, runner>>
    BY <1>8 DEF ListenerStep, SubscribeCancel, PollCancel, ListenerStops,
       CancelExpires
  <2>2. QED
    BY <1>6, <2>1
<1>9. QED
  BY <1>4, <1>5, <1>7, <1>8 DEF Next

\* What a step forgets that was not forgotten: nothing, or the operation that
\* the failing step was about.
LEMMA StepForgetsOne ==
    ASSUME IInv, CacheUnambiguous, Carried, Next, server' = "up", exits' = 0
    PROVE  /\ NoFault => ForgottenRows' \subseteq ForgottenRows
           /\ \E m : ForgottenRows' \subseteq ForgottenRows \cup {m}
<1>1. server = "up" /\ ~Shutdown /\ ~Exit /\ ~Restart
  BY RunningOn
<1>2. NoFault => ForgottenRows' \subseteq ForgottenRows
  BY <1>1, GoodStepForgetsNothing DEF ForgottenRows
<1>3. PICK m : \A n \in Names : n # m => Spares(n)
  BY <1>1, StepTouchesOne
<1>4. ASSUME NEW n \in Names, n # m, Forgotten(n)'
      PROVE  Forgotten(n)
  <2>1. Spares(n)
    BY <1>3, <1>4
  <2>2. analyses[n].state = "RUNNING"
    BY <1>4, <2>1 DEF Spares, Forgotten
  <2>3. ~InHand(n)
    BY <1>4, <2>1 DEF Spares, Forgotten, InHand
  <2>4. ~Superseded(n)
    BY <1>4, SupersededStays DEF Forgotten
  <2>5. QED
    BY <2>2, <2>3, <2>4 DEF Forgotten
<1>5. ForgottenRows' \subseteq ForgottenRows \cup {m}
  BY <1>4 DEF ForgottenRows
<1>6. QED
  BY <1>2, <1>5

\* A set that gains one element.
LEMMA OneMoreAtMost ==
    ASSUME NEW S, IsFiniteSet(S), NEW m, NEW T \in SUBSET (S \cup {m})
    PROVE  /\ IsFiniteSet(T)
           /\ Cardinality(T) \in Nat
           /\ Cardinality(T) <= Cardinality(S) + 1
<1>1. Cardinality(S) \in Nat
  BY FS_CardinalityType
<1>2. /\ IsFiniteSet(S \cup {m})
      /\ \/ Cardinality(S \cup {m}) = Cardinality(S)
         \/ Cardinality(S \cup {m}) = Cardinality(S) + 1
  <2>1. /\ IsFiniteSet(S \cup {m})
        /\ Cardinality(S \cup {m}) =
             IF m \in S THEN Cardinality(S) ELSE Cardinality(S) + 1
    BY FS_AddElement
  <2>2. QED
    BY <2>1
<1>3. IsFiniteSet(T) /\ Cardinality(T) <= Cardinality(S \cup {m})
  BY <1>2, FS_Subset
<1>4. Cardinality(T) \in Nat
  BY <1>3, FS_CardinalityType
<1>5. QED
  BY <1>1, <1>2, <1>3, <1>4

\* The rows that are forgotten are no more than the failures.
LEMMA CarriedStep ==
    ASSUME IInv, CacheUnambiguous, Carried, [Next]_vars
    PROVE  Carried'
<1> USE DEF IInv, TypeOK
<1>1. CASE UNCHANGED vars
  BY <1>1 DEF vars, Carried, ForgottenRows, Forgotten, InHand, Launching,
     Superseded, Exists, SameHash
<1>2. ASSUME Next, NEW n \in published'
      PROVE  runner'[n] = "done"
  <2>1. n \in Names
    BY <1>2, TypeStep
  <2>2. ASSUME NEW c \in Creators, Launch(c)
        PROVE  runner'[n] = "done"
    BY <1>2, <2>1, <2>2 DEF Launch, CreatorAt, Carried, LaunchRight,
       HandlersHold
  <2>3. ASSUME NEW m \in Names, RunnerStep(m) \/ MulvalExits(m) \/ ChildrenEnd(m)
                                \/ SetupFails(m)
        PROVE  runner'[n] = "done"
    BY <1>2, <2>1, <2>3 DEF RunnerStep, StartMulval, KillMulval,
       RunMulvalReturns, PersistSuccess, PersistFailure, PublishUpdate,
       MulvalExits, ChildrenEnd,
       SetupFails, OnlyRunnerMoves, RunnerGoes, Carried
  <2>4. CASE Exit
    BY <1>2, <2>1, <2>4 DEF Exit, Carried, InFlight
  <2>5. ASSUME NEW c \in Creators,
               \/ \E m \in Names, i \in Inputs : CreateRequest(c, m, i)
               \/ CacheLookup(c) \/ InsertRow(c) \/ FetchRow(c) \/ Cleanup(c)
        PROVE  UNCHANGED <<runner, published>>
    BY <2>5, CreatorLeaves
  <2>6. ASSUME NEW k \in Cancellers,
               (\E m \in Names : CancelRequest(k, m)) \/ CancellerStep(k)
        PROVE  UNCHANGED <<runner, published>>
    BY <2>6 DEF CancelRequest, CancellerStep, CancelRead, CancelMark,
       PublishCancel
  <2>7. ASSUME NEW m \in Names, ListenerStep(m) \/ CancelExpires(m)
        PROVE  UNCHANGED <<runner, published>>
    BY <2>7 DEF ListenerStep, SubscribeCancel, PollCancel, ListenerStops,
       CancelExpires
  <2>8. CASE Shutdown \/ Restart
    BY <1>2, <2>8 DEF Shutdown, Restart, Carried
  <2>9. QED
    BY <1>2, <2>2, <2>3, <2>4, <2>5, <2>6, <2>7, <2>8
       DEF Next, CreatorStep, Carried
<1>3. ASSUME Next, exits' = 0
      PROVE  server' # "down"
  <2>1. exits \in Nat
    BY RunAssumption
  <2>2. ASSUME UNCHANGED serverVars
        PROVE  server' # "down"
    BY <1>3, <2>2 DEF Carried
  <2>3. CASE Shutdown \/ Exit \/ Restart
    BY <1>3, <2>1, <2>3 DEF Shutdown, Exit, Restart
  <2>4. ASSUME NEW c \in Creators,
               \/ \E m \in Names, i \in Inputs : CreateRequest(c, m, i)
               \/ CreatorStep(c)
        PROVE  UNCHANGED serverVars
    BY <2>4, CreatorLeaves DEF CreatorStep
  <2>5. ASSUME NEW k \in Cancellers,
               (\E m \in Names : CancelRequest(k, m)) \/ CancellerStep(k)
        PROVE  UNCHANGED serverVars
    BY <2>5 DEF CancelRequest, CancellerStep, CancelRead, CancelMark,
       PublishCancel
  <2>6. ASSUME NEW m \in Names,
               \/ RunnerStep(m) \/ MulvalExits(m) \/ ChildrenEnd(m)
               \/ SetupFails(m)
               \/ ListenerStep(m) \/ CancelExpires(m)
        PROVE  UNCHANGED serverVars
    BY <2>6 DEF RunnerStep, StartMulval, KillMulval, RunMulvalReturns,
       PersistSuccess, PersistFailure, PublishUpdate, MulvalExits, ChildrenEnd,
       SetupFails, OnlyRunnerMoves, ListenerStep, SubscribeCancel, PollCancel,
       ListenerStops, CancelExpires
  <2>7. QED
    BY <1>3, <2>2, <2>3, <2>4, <2>5, <2>6 DEF Next
<1>4. ASSUME Next, server' = "up", exits' = 0
      PROVE  /\ IsFiniteSet(ForgottenRows')
             /\ Cardinality(ForgottenRows') <= faults'
  <2>1. /\ IsFiniteSet(ForgottenRows)
        /\ Cardinality(ForgottenRows) <= faults
        /\ Cardinality(ForgottenRows) \in Nat
    BY <1>4, RunningOn, FS_CardinalityType DEF Carried
  <2>2. CASE NoFault
    <3>1. ForgottenRows' \in SUBSET ForgottenRows
      BY <1>4, <2>2, StepForgetsOne
    <3>2. /\ IsFiniteSet(ForgottenRows')
          /\ Cardinality(ForgottenRows') <= Cardinality(ForgottenRows)
      BY <2>1, <3>1, FS_Subset
    <3>3. Cardinality(ForgottenRows') \in Nat
      BY <3>2, FS_CardinalityType
    <3>4. QED
      BY <2>1, <2>2, <3>2, <3>3, FaultsCount
  <2>3. CASE Fault
    <3>1. PICK m : ForgottenRows' \in SUBSET (ForgottenRows \cup {m})
      BY <1>4, StepForgetsOne
    <3>2. /\ IsFiniteSet(ForgottenRows')
          /\ Cardinality(ForgottenRows') \in Nat
          /\ Cardinality(ForgottenRows') <= Cardinality(ForgottenRows) + 1
      BY <2>1, <3>1, OneMoreAtMost
    <3>3. QED
      BY <2>1, <2>3, <3>2, FaultsCount
  <2>4. QED
    BY <1>4, <2>2, <2>3, RunningOn
<1>5. QED
  BY <1>1, <1>2, <1>3, <1>4 DEF Carried

LEMMA InitCarried ==
    ASSUME Init
    PROVE  Carried
<1>1. ForgottenRows = {}
  BY DEF Init, StoreInit, NoRow, ForgottenRows, Forgotten
<1>2. QED
  BY <1>1, FS_EmptySet DEF Init, Carried

\* The invariant and Carried are kept together.
LEMMA CarriedHolds == Spec => []Carried
<1>1. Init => Carried
  BY InitCarried
<1>2. IInv /\ CacheUnambiguous /\ Carried /\ [Next]_vars => Carried'
  BY CarriedStep
<1>3. QED
  BY <1>1, <1>2, InductiveInvariant, CacheUnambiguousInSystem, PTL DEF Spec

\* An orphaned row is a forgotten one.
LEMMA OrphansCounted ==
    ASSUME IInv, Carried
    PROVE  OrphansAreFailures
<1>0. SUFFICES ASSUME server = "up", exits = 0
               PROVE  Cardinality({n \in Names : Orphaned(n)}) <= faults
  BY DEF OrphansAreFailures
<1>1. {n \in Names : Orphaned(n)} \in SUBSET ForgottenRows
  BY DEF Orphaned, ForgottenRows, Forgotten, InHand
<1>2. IsFiniteSet(ForgottenRows) /\ Cardinality(ForgottenRows) <= faults
  BY <1>0 DEF Carried
<1>3. /\ IsFiniteSet({n \in Names : Orphaned(n)})
      /\ Cardinality({n \in Names : Orphaned(n)}) <= Cardinality(ForgottenRows)
  BY <1>1, <1>2, FS_Subset
<1>4. /\ Cardinality({n \in Names : Orphaned(n)}) \in Nat
      /\ Cardinality(ForgottenRows) \in Nat
  BY <1>2, <1>3, FS_CardinalityType
<1>5. QED
  BY <1>0, <1>2, <1>3, <1>4, FaultsCount

\* Each failure leaves one row at most RUNNING for ever, as long as nobody stops
\* the server, for any number of operations, handlers and failures.
THEOREM FailuresOrphanOne == Spec => []OrphansAreFailures
BY OrphansCounted, InductiveInvariant, CarriedHolds, PTL

\* A published update belongs to a goroutine that is done.
LEMMA UpdatesAfterWrites ==
    ASSUME IInv, Carried
    PROVE  UpdateFollowsWrite
<1>0. SUFFICES ASSUME Undisturbed, NEW n \in published
               PROVE  IsTerminal(analyses[n].state) \/ Superseded(n)
  BY DEF UpdateFollowsWrite
<1>1. n \in Names /\ runner[n] = "done"
  BY <1>0 DEF IInv, TypeOK, Carried
<1>2. Exists(n) /\ ~InHand(n)
  BY <1>0, <1>1 DEF IInv, LaunchRight, VerdictIsLast, HandlersHold, InHand,
     Launching, InFlight
<1>3. analyses[n].state \in States
  BY <1>0, <1>1 DEF IInv, TypeOK, StoreTypeOK, Row
<1>4. QED
  BY <1>0, <1>1, <1>2, <1>3, NothingForgotten DEF Exists, States, IsTerminal

\* As long as nothing fails and nobody stops the server, an update is published
\* after its row was written.
THEOREM UpdatesFollowWrites == Spec => []UpdateFollowsWrite
BY UpdatesAfterWrites, InductiveInvariant, CarriedHolds, PTL

\* A handler that has not answered has no answer yet.
NoAnswerYet ==
    \A c \in Creators :
        creator[c].pc # "answered" => creator[c].answer = NoName

\* The answer of c, if the step is one, is what AnswerIsRelevant says.
Relevant(c) ==
    LET n == creator'[c].answer
    IN  creator[c].pc # "answered" /\ n # NoName =>
          /\ Exists(n)
          /\ \/ n = creator[c].name
             \/ HashInputs(analyses[n].input) = HashInputs(creator[c].input)

\* A handler answers when it has found a row or launched one.
LEMMA AnswerStep ==
    ASSUME IInv, NoAnswerYet, [Next]_vars, NEW c \in Creators
    PROVE  /\ creator'[c].pc # "answered" => creator'[c].answer = NoName
           /\ Relevant(c)
<1> DEFINE Goal == /\ creator'[c].pc # "answered" => creator'[c].answer = NoName
                   /\ Relevant(c)
<1>1. creator \in [Creators -> Creator]
  BY DEF IInv, TypeOK
<1>2. ASSUME creator'[c] = creator[c]
      PROVE  Goal
  BY <1>2 DEF NoAnswerYet, Relevant
<1>3. ASSUME creator'[c].answer = NoName
      PROVE  Goal
  BY <1>3 DEF Relevant
<1>4. ASSUME NEW pc \in CreatorPC \ {"answered"}, CreatorGoes(c, pc),
             creator[c].pc # "answered"
      PROVE  Goal
  <2>1. creator'[c].answer = creator[c].answer
    BY <1>1, <1>4 DEF CreatorGoes, Creator
  <2>2. QED
    BY <1>3, <1>4, <2>1 DEF NoAnswerYet
<1>5. ASSUME AnswerError(c)
      PROVE  Goal
  <2>1. creator'[c].answer = NoName
    BY <1>1, <1>5 DEF AnswerError, IdleCreator
  <2>2. QED
    BY <1>3, <2>1
<1>6. ASSUME NEW n \in Names, Answer(c, n), Exists(n),
             \/ n = creator[c].name
             \/ HashInputs(analyses[n].input) = HashInputs(creator[c].input)
      PROVE  Goal
  <2>1. creator'[c].answer = n /\ creator'[c].pc = "answered"
    BY <1>1, <1>6 DEF Answer, IdleCreator
  <2>2. QED
    BY <1>6, <2>1 DEF Relevant
<1>7. ASSUME \/ \E n \in Names, i \in Inputs : CreateRequest(c, n, i)
             \/ CreatorStep(c)
      PROVE  Goal
  <2>1. ASSUME NEW n \in Names, NEW i \in Inputs, CreateRequest(c, n, i)
        PROVE  Goal
    <3>1. creator'[c].answer = NoName
      BY <1>1, <2>1, CreateRequestEffect
    <3>2. QED
      BY <1>3, <3>1
  <2>2. CASE CacheLookup(c)
    <3>1. ASSUME NEW n \in GetByHash(creator[c].input), Answer(c, n)
          PROVE  Goal
      <4>1. /\ n \in Names /\ Exists(n)
            /\ HashInputs(analyses[n].input) = HashInputs(creator[c].input)
        BY <3>1 DEF GetByHash, Exists
      <4>2. QED
        BY <1>6, <3>1, <4>1
    <3>2. CASE CreatorGoes(c, "insert")
      BY <1>4, <2>2, <3>2 DEF CacheLookup, CreatorAt, CreatorPC
    <3>3. QED
      BY <1>5, <2>2, <3>1, <3>2 DEF CacheLookup
  <2>3. CASE InsertRow(c)
    <3>1. ASSUME creator' = [creator EXCEPT ![c].pc = "fetch",
                                 ![c].created = ~Exists(creator[c].name)]
          PROVE  Goal
      <4>1. creator'[c].answer = creator[c].answer
        BY <1>1, <3>1 DEF Creator
      <4>2. QED
        BY <1>3, <2>3, <4>1 DEF InsertRow, CreatorAt, NoAnswerYet
    <3>2. QED
      BY <1>5, <2>3, <3>1 DEF InsertRow
  <2>4. CASE FetchRow(c)
    <3>1. creator[c].name \in Names /\ Exists(creator[c].name)
      BY <2>4 DEF FetchRow, CreatorAt, IInv, LaunchRight, HandlersHold
    <3>2. CASE CreatorGoes(c, "launch")
      BY <1>4, <2>4, <3>2 DEF FetchRow, CreatorAt, CreatorPC
    <3>3. QED
      BY <1>5, <1>6, <2>4, <3>1, <3>2 DEF FetchRow
  <2>5. CASE Launch(c)
    <3>1. creator[c].name \in Names /\ Exists(creator[c].name)
      BY <2>5 DEF Launch, CreatorAt, IInv, LaunchRight, HandlersHold
    <3>2. CASE CreatorGoes(c, "cleanup")
      BY <1>4, <2>5, <3>2 DEF Launch, CreatorAt, CreatorPC
    <3>3. QED
      BY <1>6, <2>5, <3>1, <3>2 DEF Launch
  <2>6. CASE Cleanup(c)
    BY <1>5, <2>6 DEF Cleanup
  <2>7. QED
    BY <1>7, <2>1, <2>2, <2>3, <2>4, <2>5, <2>6 DEF CreatorStep
<1>8. ASSUME NEW d \in Creators \ {c},
             \/ \E n \in Names, i \in Inputs : CreateRequest(d, n, i)
             \/ CreatorStep(d)
      PROVE  creator'[c] = creator[c]
  BY <1>8, OneHandlerMoves
<1>9. ASSUME NEW k \in Cancellers,
             (\E n \in Names : CancelRequest(k, n)) \/ CancellerStep(k)
      PROVE  UNCHANGED creator
  BY <1>9 DEF CancelRequest, CancellerStep, CancelRead, CancelMark,
     PublishCancel
<1>10. ASSUME NEW n \in Names,
              \/ RunnerStep(n) \/ MulvalExits(n) \/ ChildrenEnd(n)
              \/ SetupFails(n)
              \/ ListenerStep(n) \/ CancelExpires(n)
       PROVE  UNCHANGED creator
  BY <1>10 DEF RunnerStep, StartMulval, KillMulval, RunMulvalReturns,
     PersistSuccess, PersistFailure, PublishUpdate, MulvalExits, ChildrenEnd,
     SetupFails, OnlyRunnerMoves, ListenerStep, SubscribeCancel, PollCancel,
     ListenerStops, CancelExpires
<1>11. CASE Exit
  <2>1. creator'[c].answer = NoName
    BY <1>11 DEF Exit, IdleCreator
  <2>2. QED
    BY <1>3, <2>1
<1>12. CASE Shutdown \/ Restart \/ UNCHANGED vars
  BY <1>2, <1>12 DEF Shutdown, Restart, vars
<1>13. QED
  BY <1>2, <1>7, <1>8, <1>9, <1>10, <1>11, <1>12 DEF Next

\* Whoever creates is answered with the operation it named or with one of the
\* same inputs, for any number of operations, handlers and failures.
THEOREM AnswersAreRelevant == Spec => AnswerIsRelevant
<1>1. Init => NoAnswerYet
  BY DEF Init, IdleCreator, NoAnswerYet
<1>2. IInv /\ NoAnswerYet /\ [Next]_vars => NoAnswerYet'
  BY AnswerStep DEF NoAnswerYet
<1>3. IInv /\ NoAnswerYet /\ [Next]_vars => [\A c \in Creators : Relevant(c)]_vars
  BY AnswerStep
<1>4. Spec => []NoAnswerYet
  BY <1>1, <1>2, InductiveInvariant, PTL DEF Spec
<1>5. Spec => [][\A c \in Creators : Relevant(c)]_vars
  BY <1>3, <1>4, InductiveInvariant, PTL DEF Spec
<1>6. QED
  BY <1>5 DEF AnswerIsRelevant, Relevant

----------------------------------------------------------------------------
(* No cancel is lost on its way *)

\* With the process end its handlers and goroutines.
DownIsIdle ==
    server = "down" =>
        /\ \A n \in Names : runner[n] \notin InFlight
        /\ \A c \in Creators : creator[c] = IdleCreator

\* A goroutine of the process that runs has its listener.
HasListener ==
    faults = 0 /\ server = "up" =>
        \A n \in Names : runner[n] \in InFlight =>
                            listener[n] \in {"subscribing", "polling"}

\* Somebody runs n, or has the right to launch it.
InUse(n) == runner[n] \in InFlight \/ \E c \in Creators : Launching(c, n)

\* The cancel of an operation that is in use is kept for its listener.
CancelKept ==
    faults = 0 =>
        \A n \in Names :
            analyses[n].state = "CANCELLED" /\ InUse(n) =>
                n \in signalled \/ CancelOnItsWay(n)

CancelsInTransit == DownIsIdle /\ HasListener /\ CancelKept

\* What the handlers, goroutines and listeners leave alone.
LEMMA CreatorsLeaveCancels ==
    ASSUME creator \in [Creators -> Creator], NEW c \in Creators,
           \/ \E n \in Names, i \in Inputs : CreateRequest(c, n, i)
           \/ CreatorStep(c)
    PROVE  UNCHANGED <<canceller, signalled, cancelStream, serverVars>>
<1>1. CASE \E n \in Names, i \in Inputs : CreateRequest(c, n, i)
  BY <1>1, Zenon DEF CreateRequest
<1>2. CASE CacheLookup(c) \/ InsertRow(c) \/ FetchRow(c) \/ Launch(c)
             \/ Cleanup(c)
  BY <1>2 DEF CacheLookup, InsertRow, FetchRow, Launch, Cleanup
<1>3. QED
  BY <1>1, <1>2 DEF CreatorStep

LEMMA CancellersLeave ==
    ASSUME NEW k \in Cancellers,
           (\E n \in Names : CancelRequest(k, n)) \/ CancellerStep(k)
    PROVE  UNCHANGED <<creator, runVars, serverVars>>
BY DEF CancelRequest, CancellerStep, CancelRead, CancelMark, PublishCancel

LEMMA RunnersLeave ==
    ASSUME NEW m \in Names, RunnerStep(m) \/ MulvalExits(m) \/ ChildrenEnd(m)
                            \/ SetupFails(m)
    PROVE  UNCHANGED <<creator, canceller, listener, signalled, cancelStream,
                       serverVars>>
BY DEF RunnerStep, StartMulval, KillMulval, RunMulvalReturns, PersistSuccess,
   PersistFailure, PublishUpdate, MulvalExits, ChildrenEnd,
   SetupFails, OnlyRunnerMoves

LEMMA ListenersLeave ==
    ASSUME NEW m \in Names, ListenerStep(m) \/ CancelExpires(m)
    PROVE  UNCHANGED <<analyses, creator, canceller, runner, serverVars>>
BY DEF ListenerStep, SubscribeCancel, PollCancel, ListenerStops, CancelExpires

\* Only Launch starts a goroutine.
LEMMA RunnersGoOn ==
    ASSUME runner \in [Names -> RunnerPC], NEW m \in Names, NEW n \in Names,
           runner'[n] \in InFlight,
           RunnerStep(m) \/ MulvalExits(m) \/ ChildrenEnd(m) \/ SetupFails(m)
    PROVE  runner[n] \in InFlight /\ runner[m] \in InFlight
BY DEF RunnerStep, StartMulval, KillMulval, RunMulvalReturns, PersistSuccess,
   PersistFailure, PublishUpdate, MulvalExits, ChildrenEnd,
   SetupFails, RunnerGoes, InFlight

\* After a step without failures so far, the step itself did not fail.
LEMMA CalmStep ==
    ASSUME IInv, [Next]_vars, faults' = 0
    PROVE  faults = 0 /\ ~Fault
<1>1. CASE UNCHANGED vars
  BY <1>1, FaultsCount DEF vars
<1>2. CASE Fault \/ UNCHANGED faults
  BY <1>2, FaultsCount
<1>3. ASSUME NEW c \in Creators,
             \/ \E n \in Names, i \in Inputs : CreateRequest(c, n, i)
             \/ CreatorStep(c)
      PROVE  Fault \/ UNCHANGED faults
  BY <1>3, CreatorFaults DEF NoFault, IInv, TypeOK
<1>4. ASSUME NEW k \in Cancellers,
             (\E n \in Names : CancelRequest(k, n)) \/ CancellerStep(k)
      PROVE  Fault \/ UNCHANGED faults
  BY <1>4 DEF CancelRequest, CancellerStep, CancelRead, CancelMark,
     PublishCancel, FailsAt, NoFault
<1>5. ASSUME NEW n \in Names, RunnerStep(n) \/ MulvalExits(n) \/ ChildrenEnd(n)
                              \/ SetupFails(n)
      PROVE  Fault \/ UNCHANGED faults
  BY <1>5 DEF RunnerStep, StartMulval, KillMulval, RunMulvalReturns,
     PersistSuccess, PersistFailure, PublishUpdate, MulvalExits, ChildrenEnd,
     SetupFails, OnlyRunnerMoves, FailsAt, NoFault
<1>6. ASSUME NEW n \in Names, ListenerStep(n) \/ CancelExpires(n)
      PROVE  Fault \/ UNCHANGED faults
  BY <1>6 DEF ListenerStep, SubscribeCancel, PollCancel, ListenerStops,
     CancelExpires, NoFault
<1>7. CASE Shutdown \/ Exit \/ Restart
  BY <1>2, <1>7 DEF Shutdown, Exit, Restart
<1>8. QED
  BY <1>1, <1>2, <1>3, <1>4, <1>5, <1>6, <1>7 DEF Next

LEMMA DownIsIdleStep ==
    ASSUME IInv, DownIsIdle, [Next]_vars
    PROVE  DownIsIdle'
<1> USE DEF IInv, TypeOK
<1>1. CASE UNCHANGED vars
  BY <1>1 DEF vars, DownIsIdle
<1>2. ASSUME NEW c \in Creators,
             \/ \E n \in Names, i \in Inputs : CreateRequest(c, n, i)
             \/ CreatorStep(c)
      PROVE  server' # "down"
  <2>1. server # "down"
    <3>1. CASE \E n \in Names, i \in Inputs : CreateRequest(c, n, i)
      BY <3>1, Zenon DEF CreateRequest
    <3>2. CASE CreatorStep(c)
      <4>1. creator[c].pc # "idle"
        BY <3>2 DEF CreatorStep, CacheLookup, InsertRow, FetchRow, Launch,
           Cleanup, CreatorAt
      <4>2. QED
        BY <4>1 DEF DownIsIdle, IdleCreator
    <3>3. QED
      BY <1>2, <3>1, <3>2
  <2>2. QED
    BY <1>2, <2>1, CreatorsLeaveCancels
<1>3. ASSUME NEW k \in Cancellers,
             (\E n \in Names : CancelRequest(k, n)) \/ CancellerStep(k)
      PROVE  UNCHANGED <<creator, runner, server>>
  BY <1>3, CancellersLeave
<1>4. ASSUME NEW m \in Names, RunnerStep(m) \/ MulvalExits(m) \/ ChildrenEnd(m)
                              \/ SetupFails(m)
      PROVE  DownIsIdle'
  BY <1>4, RunnersLeave, RunnersGoOn DEF DownIsIdle
<1>5. ASSUME NEW m \in Names, ListenerStep(m) \/ CancelExpires(m)
      PROVE  UNCHANGED <<creator, runner, server>>
  BY <1>5, ListenersLeave
<1>6. CASE Shutdown \/ Restart
  BY <1>6 DEF Shutdown, Restart, DownIsIdle
<1>7. CASE Exit
  BY <1>7 DEF Exit, DownIsIdle, InFlight
<1>8. CASE UNCHANGED <<creator, runner, server>>
  BY <1>8 DEF DownIsIdle
<1>9. QED
  BY <1>1, <1>2, <1>3, <1>4, <1>5, <1>6, <1>7, <1>8 DEF Next, DownIsIdle

\* A listener is made with its goroutine and ends with the root context or by
\* a failure.
LEMMA ListenerStaysStep ==
    ASSUME IInv, CancelsInTransit, [Next]_vars
    PROVE  HasListener'
<1> USE DEF IInv, TypeOK
<1>1. SUFFICES ASSUME faults' = 0, server' = "up",
                      NEW n \in Names, runner'[n] \in InFlight
               PROVE  listener'[n] \in {"subscribing", "polling"}
  BY DEF HasListener
<1>2. faults = 0 /\ ~Fault
  BY <1>1, CalmStep
<1>3. ASSUME server = "up", runner[n] \in InFlight, UNCHANGED listener
      PROVE  listener'[n] \in {"subscribing", "polling"}
  BY <1>2, <1>3 DEF CancelsInTransit, HasListener
<1>4. CASE UNCHANGED vars
  BY <1>1, <1>3, <1>4 DEF vars
<1>5. ASSUME NEW c \in Creators,
             \/ \E m \in Names, i \in Inputs : CreateRequest(c, m, i)
             \/ CreatorStep(c)
      PROVE  listener'[n] \in {"subscribing", "polling"}
  <2>1. server = "up"
    BY <1>1, <1>5, CreatorsLeaveCancels
  <2>2. CASE /\ runner' = [runner EXCEPT ![creator[c].name] = "starting"]
             /\ listener' = [listener EXCEPT ![creator[c].name] = "subscribing"]
    BY <1>1, <1>2, <2>1, <2>2 DEF CancelsInTransit, HasListener
  <2>3. CASE UNCHANGED <<runner, listener>>
    BY <1>1, <1>3, <2>1, <2>3
  <2>4. CASE Launch(c)
    BY <2>2, <2>3, <2>4 DEF Launch
  <2>5. QED
    BY <1>5, <2>3, <2>4, CreatorLeaves DEF CreatorStep
<1>6. ASSUME NEW k \in Cancellers,
             (\E m \in Names : CancelRequest(k, m)) \/ CancellerStep(k)
      PROVE  listener'[n] \in {"subscribing", "polling"}
  BY <1>1, <1>3, <1>6, CancellersLeave
<1>7. ASSUME NEW m \in Names, RunnerStep(m) \/ MulvalExits(m) \/ ChildrenEnd(m)
                              \/ SetupFails(m)
      PROVE  listener'[n] \in {"subscribing", "polling"}
  BY <1>1, <1>3, <1>7, RunnersLeave, RunnersGoOn
<1>8. ASSUME NEW m \in Names, ListenerStep(m) \/ CancelExpires(m)
      PROVE  listener'[n] \in {"subscribing", "polling"}
  <2>1. server = "up" /\ UNCHANGED runner
    BY <1>1, <1>8, ListenersLeave
  <2>2. \/ UNCHANGED listener
        \/ listener' = [listener EXCEPT ![m] = "polling"]
    BY <1>2, <1>8, <2>1 DEF ListenerStep, SubscribeCancel, PollCancel,
       ListenerStops, CancelExpires, ListenerGoes
  <2>3. QED
    BY <1>1, <1>2, <2>1, <2>2 DEF CancelsInTransit, HasListener
<1>9. CASE Shutdown \/ Exit
  BY <1>1, <1>9 DEF Shutdown, Exit
<1>10. CASE Restart
  BY <1>1, <1>10 DEF Restart, CancelsInTransit, DownIsIdle
<1>11. QED
  BY <1>4, <1>5, <1>6, <1>7, <1>8, <1>9, <1>10 DEF Next

\* An operation keeps being in use or stops being so, as far as a step of a
\* CreateAnalysis handler goes that leaves its row CANCELLED.
LEMMA CreatorKeepsUse ==
    ASSUME IInv, NEW c \in Creators,
           \/ \E m \in Names, i \in Inputs : CreateRequest(c, m, i)
           \/ CreatorStep(c),
           NEW n \in Names, analyses'[n].state = "CANCELLED", InUse(n)'
    PROVE  analyses[n].state = "CANCELLED" /\ InUse(n)
<1> USE DEF IInv, TypeOK
<1>1. \A d \in Creators \ {c} : creator'[d] = creator[d]
  BY OneHandlerMoves
<1>2. ASSUME UNCHANGED <<analyses, runner>>,
             Launching(c, n)' => Launching(c, n)
      PROVE  analyses[n].state = "CANCELLED" /\ InUse(n)
  BY <1>1, <1>2 DEF InUse, Launching
<1>3. ASSUME NEW m \in Names, NEW i \in Inputs, CreateRequest(c, m, i)
      PROVE  analyses[n].state = "CANCELLED" /\ InUse(n)
  <2>1. ~creator'[c].created
    <3>1. creator' = [creator EXCEPT
                        ![c] = [IdleCreator EXCEPT !.pc = "lookup",
                                                   !.name = m, !.input = i]]
      BY <1>3, Zenon DEF CreateRequest
    <3>2. [IdleCreator EXCEPT !.pc = "lookup", !.name = m, !.input = i].created
            = FALSE
      BY DEF IdleCreator
    <3>3. creator'[c].created = FALSE
      BY <3>1, <3>2, Zenon
    <3>4. QED
      BY <3>3
  <2>2. QED
    BY <1>2, <1>3, <2>1, CreateRequestEffect DEF Launching
<1>4. CASE CacheLookup(c)
  <2>1. UNCHANGED <<analyses, runner>>
    BY <1>4 DEF CacheLookup
  <2>2. \/ CreatorGoes(c, "insert") \/ AnswerError(c)
        \/ \E m \in GetByHash(creator[c].input) : Answer(c, m)
    BY <1>4 DEF CacheLookup
  <2>3. Launching(c, n)' => Launching(c, n)
    BY <2>2, AnswerEffect, AnswerErrorEffect, CreatorGoesEffect
       DEF CreatorPC, GetByHash, Launching
  <2>4. QED
    BY <1>2, <2>1, <2>3
<1>5. CASE InsertRow(c)
  <2>1. creator[c].name \in Names /\ creator[c].input \in Inputs
    BY <1>5 DEF InsertRow, CreatorAt, LaunchRight, HandlersHold
  <2>2. UNCHANGED runner
    BY <1>5 DEF InsertRow
  <2>3. CASE AnswerError(c)
    <3>1. ~creator'[c].created
      BY <2>3, AnswerErrorEffect
    <3>2. \/ Insert(creator[c].name, creator[c].input)
          \/ UNCHANGED analyses
      BY <1>5, FailsAtEffect DEF InsertRow
    <3>3. analyses[n].state = "CANCELLED"
      BY <2>1, <3>2, InsertEffect
    <3>4. QED
      BY <1>1, <2>2, <3>1, <3>3 DEF InUse, Launching
  <2>4. CASE /\ Insert(creator[c].name, creator[c].input)
             /\ creator' = [creator EXCEPT ![c].pc = "fetch",
                                           ![c].created = ~Exists(creator[c].name)]
    <3>1. analyses[n].state = "CANCELLED"
      BY <2>1, <2>4, InsertEffect
    <3>2. ~Launching(c, n)'
      <4>1. CASE n = creator[c].name
        <5>1. Exists(creator[c].name)
          BY <3>1, <4>1 DEF Exists
        <5>2. creator' = [creator EXCEPT ![c].pc = "fetch",
                                         ![c].created = FALSE]
          <6>1. (~Exists(creator[c].name)) = FALSE
            BY <5>1
          <6>2. QED
            BY <2>4, <6>1, Zenon
        <5>3. creator'[c].created = FALSE
          BY <5>2, InsertedEffect
        <5>4. QED
          BY <5>3 DEF Launching
      <4>2. CASE n # creator[c].name
        <5>1. creator'[c].name = creator[c].name
          BY <2>4 DEF Creator
        <5>2. QED
          BY <4>2, <5>1 DEF Launching
      <4>3. QED
        BY <4>1, <4>2
    <3>3. QED
      BY <1>1, <2>2, <3>1, <3>2 DEF InUse, Launching
  <2>5. QED
    BY <1>5, <2>3, <2>4 DEF InsertRow
<1>6. CASE FetchRow(c)
  <2>1. UNCHANGED <<analyses, runner>> /\ creator[c].name \in Names
    BY <1>6 DEF FetchRow, CreatorAt, LaunchRight, HandlersHold
  <2>2. \/ CreatorGoes(c, "launch") \/ AnswerError(c)
        \/ Answer(c, creator[c].name)
    BY <1>6 DEF FetchRow
  <2>3. Launching(c, n)' => Launching(c, n)
    BY <2>1, <2>2, AnswerEffect, AnswerErrorEffect, CreatorGoesEffect
       DEF CreatorPC, Launching
  <2>4. QED
    BY <1>2, <2>1, <2>3
<1>7. CASE Launch(c)
  <2>1. /\ UNCHANGED analyses
        /\ creator[c].created /\ creator[c].name \in Names
    BY <1>7 DEF Launch, CreatorAt, LaunchRight, HandlersHold
  <2>2. \/ CreatorGoes(c, "cleanup") \/ Answer(c, creator[c].name)
    BY <1>7 DEF Launch
  <2>3. Launching(c, n)' => Launching(c, n)
    BY <2>1, <2>2, AnswerEffect, CreatorGoesEffect DEF CreatorPC, Launching
  <2>4. CASE UNCHANGED runner
    BY <1>2, <2>1, <2>3, <2>4
  <2>5. CASE runner' = [runner EXCEPT ![creator[c].name] = "starting"]
    <3>1. CASE n = creator[c].name
      BY <2>1, <3>1 DEF InUse, Launching
    <3>2. CASE n # creator[c].name
      <4>1. runner'[n] = runner[n]
        BY <2>5, <3>2
      <4>2. QED
        BY <1>1, <2>1, <2>3, <4>1 DEF InUse, Launching
    <3>3. QED
      BY <3>1, <3>2
  <2>6. QED
    BY <1>7, <2>4, <2>5 DEF Launch
<1>8. CASE Cleanup(c)
  <2>1. creator[c].name \in Names
    BY <1>8 DEF Cleanup, CreatorAt, LaunchRight, HandlersHold
  <2>2. /\ AnswerError(c) /\ UNCHANGED runner
        /\ MarkFailed(creator[c].name) \/ UNCHANGED analyses
    BY <1>8, FailsAtEffect DEF Cleanup
  <2>3. analyses[n].state = "CANCELLED"
    BY <2>1, <2>2, MarkFailedEffect
  <2>4. ~creator'[c].created
    BY <2>2, AnswerErrorEffect
  <2>5. QED
    BY <1>1, <2>2, <2>3, <2>4 DEF InUse, Launching
<1>9. QED
  BY <1>3, <1>4, <1>5, <1>6, <1>7, <1>8 DEF CreatorStep

\* The signal follows the write, goes to the stream, and from the stream to
\* the listener.
LEMMA CancelKeptStep ==
    ASSUME IInv, CancelsInTransit, [Next]_vars
    PROVE  CancelKept'
<1> USE DEF IInv, TypeOK
<1>1. SUFFICES ASSUME faults' = 0, NEW n \in Names,
                      analyses'[n].state = "CANCELLED", InUse(n)'
               PROVE  n \in signalled' \/ CancelOnItsWay(n)'
  BY DEF CancelKept
<1>2. faults = 0 /\ ~Fault
  BY <1>1, CalmStep
<1>3. ASSUME analyses[n].state = "CANCELLED", InUse(n)
      PROVE  n \in signalled \/ CancelOnItsWay(n)
  BY <1>2, <1>3 DEF CancelsInTransit, CancelKept
<1>4. CASE UNCHANGED vars
  BY <1>1, <1>3, <1>4 DEF vars, InUse, Launching, CancelOnItsWay
<1>5. ASSUME NEW c \in Creators,
             \/ \E m \in Names, i \in Inputs : CreateRequest(c, m, i)
             \/ CreatorStep(c)
      PROVE  n \in signalled' \/ CancelOnItsWay(n)'
  <2>1. UNCHANGED <<canceller, signalled, cancelStream>>
    BY <1>5, CreatorsLeaveCancels
  <2>2. analyses[n].state = "CANCELLED" /\ InUse(n)
    BY <1>1, <1>5, CreatorKeepsUse
  <2>3. QED
    BY <1>3, <2>1, <2>2 DEF CancelOnItsWay
<1>6. ASSUME NEW k \in Cancellers,
             (\E m \in Names : CancelRequest(k, m)) \/ CancellerStep(k)
      PROVE  n \in signalled' \/ CancelOnItsWay(n)'
  <2>1. UNCHANGED <<creator, runner, signalled>>
    BY <1>6, CancellersLeave
  <2>2. InUse(n)
    BY <1>1, <2>1 DEF InUse, Launching
  <2>3. ASSUME canceller[k].pc # "publish", cancelStream' = cancelStream,
               \A j \in Cancellers \ {k} : canceller'[j] = canceller[j],
               n \in signalled \/ CancelOnItsWay(n)
        PROVE  n \in signalled' \/ CancelOnItsWay(n)'
    BY <2>1, <2>3 DEF CancelOnItsWay
  <2>4. \A j \in Cancellers \ {k} : canceller'[j] = canceller[j]
    BY <1>6 DEF CancelRequest, CancellerStep, CancelRead, CancelMark,
       PublishCancel, CancelFails, CancellerGoes
  <2>5. CASE (\E m \in Names : CancelRequest(k, m)) \/ CancelRead(k)
    <3>1. /\ canceller[k].pc # "publish"
          /\ UNCHANGED <<analyses, cancelStream>>
      BY <2>5 DEF CancelRequest, CancelRead, CancellerAt
    <3>2. QED
      BY <1>1, <1>3, <2>2, <2>3, <2>4, <3>1
  <2>6. CASE CancelMark(k)
    <3>1. canceller[k].name \in Names /\ canceller[k].pc = "mark"
      BY <2>6 DEF CancelMark, CancellerAt, CancelProgress
    <3>2. /\ MarkCancelled(canceller[k].name) /\ UNCHANGED cancelStream
          /\ CancellerGoes(k, "publish")
      BY <1>2, <2>6 DEF CancelMark, FailsAt
    <3>3. CASE n = canceller[k].name
      <4>1. canceller'[k] = [pc |-> "publish", name |-> n]
        BY <3>2, <3>3 DEF CancellerGoes, Canceller
      <4>2. QED
        BY <4>1 DEF CancelOnItsWay
    <3>4. CASE n # canceller[k].name
      <4>1. analyses'[n] = analyses[n]
        BY <3>1, <3>2, <3>4, MarkCancelledEffect
      <4>2. QED
        BY <1>1, <1>3, <2>2, <2>3, <2>4, <3>1, <3>2, <4>1
    <3>5. QED
      BY <3>3, <3>4
  <2>7. CASE PublishCancel(k)
    <3>1. /\ UNCHANGED analyses
          /\ cancelStream' = cancelStream \cup {canceller[k].name}
      BY <1>2, <2>7 DEF PublishCancel
    <3>2. CASE n = canceller[k].name
      BY <3>1, <3>2 DEF CancelOnItsWay
    <3>3. CASE n # canceller[k].name
      <4>1. n \in signalled \/ CancelOnItsWay(n)
        BY <1>1, <1>3, <2>2, <3>1
      <4>2. canceller[k] # [pc |-> "publish", name |-> n]
        BY <3>3
      <4>3. QED
        BY <2>1, <2>4, <3>1, <4>1, <4>2 DEF CancelOnItsWay
    <3>4. QED
      BY <3>2, <3>3
  <2>8. QED
    BY <1>6, <2>5, <2>6, <2>7 DEF CancellerStep
<1>7. ASSUME NEW m \in Names, RunnerStep(m) \/ MulvalExits(m) \/ ChildrenEnd(m)
                              \/ SetupFails(m)
      PROVE  n \in signalled' \/ CancelOnItsWay(n)'
  <2>1. UNCHANGED <<creator, canceller, signalled, cancelStream>>
    BY <1>7, RunnersLeave
  <2>2. MarkSucceeded(m) \/ MarkFailed(m) \/ UNCHANGED analyses
    BY <1>7, FailsAtEffect DEF RunnerStep, StartMulval, KillMulval,
       RunMulvalReturns, PersistSuccess, PersistFailure, PublishUpdate,
       MulvalExits, ChildrenEnd, SetupFails, OnlyRunnerMoves
  <2>3. analyses[n].state = "CANCELLED"
    BY <1>1, <2>2, MarkSucceededEffect, MarkFailedEffect
  <2>4. InUse(n)
    BY <1>1, <1>7, <2>1, RunnersGoOn DEF InUse, Launching
  <2>5. QED
    BY <1>3, <2>1, <2>3, <2>4 DEF CancelOnItsWay
<1>8. ASSUME NEW m \in Names, ListenerStep(m) \/ CancelExpires(m)
      PROVE  n \in signalled' \/ CancelOnItsWay(n)'
  <2>1. UNCHANGED <<analyses, creator, canceller, runner>>
    BY <1>8, ListenersLeave
  <2>2. \/ UNCHANGED <<signalled, cancelStream>>
        \/ cancelStream' = cancelStream \ {m} /\ signalled' = signalled \cup {m}
    BY <1>2, <1>8 DEF ListenerStep, SubscribeCancel, PollCancel, ListenerStops,
       CancelExpires
  <2>3. n \in signalled \/ CancelOnItsWay(n)
    BY <1>1, <1>3, <2>1 DEF InUse, Launching
  <2>4. QED
    BY <2>1, <2>2, <2>3 DEF CancelOnItsWay
<1>9. CASE Shutdown \/ Restart
  BY <1>1, <1>3, <1>9 DEF Shutdown, Restart, InUse, Launching, CancelOnItsWay
<1>10. ~Exit
  BY <1>1 DEF Exit, InUse, InFlight, Launching, IdleCreator
<1>11. QED
  BY <1>4, <1>5, <1>6, <1>7, <1>8, <1>9, <1>10 DEF Next

\* The three conjuncts are kept together.
LEMMA TransitStep ==
    ASSUME IInv, CancelsInTransit, [Next]_vars
    PROVE  CancelsInTransit'
BY DownIsIdleStep, ListenerStaysStep, CancelKeptStep DEF CancelsInTransit

LEMMA InitTransit ==
    ASSUME Init
    PROVE  CancelsInTransit
BY DEF Init, StoreInit, NoRow, CancelsInTransit, DownIsIdle, HasListener,
   CancelKept, InFlight

LEMMA CancelsKept ==
    ASSUME CancelsInTransit
    PROVE  NoLostCancel
BY DEF CancelsInTransit, HasListener, CancelKept, NoLostCancel, InUse,
   InFlight, Aborted

\* A cancel is kept for its run as long as no message is lost, also when it
\* came before the launch or the subscription, and after restarts, for any
\* number of operations and handlers.
THEOREM CancelsAreNotLost == Spec => []NoLostCancel
<1>1. IInv /\ CancelsInTransit /\ [Next]_vars => CancelsInTransit'
  BY TransitStep
<1>2. Spec => []CancelsInTransit
  BY <1>1, InitTransit, InductiveInvariant, PTL DEF Spec
<1>3. QED
  BY <1>2, CancelsKept, PTL
============================================================================

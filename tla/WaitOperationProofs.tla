------------------------- MODULE WaitOperationProofs -------------------------
(***************************************************************************)
(* No wakeup is lost, for any number of waiters, operations and handlers.  *)
(*                                                                         *)
(* A waiter changes nothing of AnalysisRun but the count of failures, so   *)
(* the invariants of AnalysisRunProofs hold in the composition.  Whoever   *)
(* has an operation in hand passes it on until its update is published,    *)
(* and a sleeping waiter has its consumer by then.                         *)
(***************************************************************************)
EXTENDS WaitOperation, AnalysisRunProofs

\* Expands the groups of variables in UNCHANGED.
USE DEF runVars, serverVars

\* A handler gets to its cleanup by the rejection of a blank edb.
CleanupIsBlank ==
    \A c \in Creators : CreatorAt(c, "cleanup") => Unlaunchable(creator[c].name)

\* A handler that has not returned waits for some operation.
WaitersAsked == \A w \in Waiters : ~WaiterAt(w, "idle") => waiter[w].name \in Names

\* The invariant that the steps of the composition keep.
WaitInv ==
    /\ IInv /\ CacheUnambiguous /\ Carried /\ CancelsInTransit
    /\ CleanupIsBlank
    /\ WaitTypeOK
    /\ WaitersAsked
    /\ NoLostWakeup

----------------------------------------------------------------------------
(* Steps of AnalysisRun *)

\* A new row is RUNNING.
LEMMA NewRowsRun ==
    ASSUME StoreTypeOK, [StoreNext]_analyses, NEW n \in Names, ~Exists(n)
    PROVE  ~IsTerminal(analyses'[n].state)
<1> USE DEF Exists, IsTerminal, TerminalStates
<1>1. CASE UNCHANGED analyses
  BY <1>1
<1>2. ASSUME NEW m \in Names, NEW i \in Inputs, Insert(m, i)
      PROVE  ~IsTerminal(analyses'[n].state)
  BY <1>2 DEF Insert, NewRow, StoreTypeOK
<1>3. ASSUME NEW m \in Names, Exists(m),
             MarkSucceeded(m) \/ MarkFailed(m) \/ MarkCancelled(m)
      PROVE  ~IsTerminal(analyses'[n].state)
  BY <1>3, MarkSucceededEffect, MarkFailedEffect, MarkCancelledEffect
<1>4. QED
  BY <1>1, <1>2, <1>3 DEF StoreNext

\* An operation that the executor rejects stays one.
LEMMA UnlaunchableStays ==
    ASSUME IInv, [Next]_vars, NEW n \in Names, Unlaunchable(n)
    PROVE  Unlaunchable(n)'
<1>1. StoreTypeOK /\ [StoreNext]_analyses
  BY StepIsStatement DEF IInv, TypeOK
<1>2. /\ analyses'[n].input = analyses[n].input
      /\ analyses'[n].state # "ABSENT"
  BY <1>1, DurableStep DEF Unlaunchable, Exists
<1>3. QED
  BY <1>2 DEF Unlaunchable, Exists, Blank

\* Only Launch takes a handler to its cleanup.
LEMMA CleanupStep ==
    ASSUME IInv, CleanupIsBlank, [Next]_vars
    PROVE  CleanupIsBlank'
<1> USE DEF IInv, TypeOK
<1>0. SUFFICES ASSUME NEW c \in Creators, CreatorAt(c, "cleanup")'
               PROVE  Unlaunchable(creator[c].name)'
  BY DEF CleanupIsBlank
<1>1. ASSUME CreatorAt(c, "cleanup"), creator'[c].name = creator[c].name
      PROVE  Unlaunchable(creator[c].name)'
  <2>1. creator[c].name \in Names /\ Unlaunchable(creator[c].name)
    BY <1>1 DEF CleanupIsBlank, CreatorAt, LaunchRight, HandlersHold
  <2>2. QED
    BY <1>1, <2>1, UnlaunchableStays DEF Unlaunchable, Exists, Blank
<1>2. ASSUME NEW d \in Creators, creator'[d].pc # "cleanup" \/ c # d,
             \A e \in Creators \ {d} : creator'[e] = creator[e]
      PROVE  Unlaunchable(creator[c].name)'
  BY <1>0, <1>1, <1>2 DEF CreatorAt
<1>3. CASE UNCHANGED creator
  BY <1>0, <1>1, <1>3 DEF CreatorAt
<1>4. ASSUME NEW d \in Creators, NEW n \in Names, NEW i \in Inputs,
             CreateRequest(d, n, i)
      PROVE  Unlaunchable(creator[c].name)'
  <2>1. creator'[d].pc = "lookup"
    <3>1. creator' = [creator EXCEPT
                        ![d] = [IdleCreator EXCEPT !.pc = "lookup",
                                                   !.name = n, !.input = i]]
      BY <1>4, Zenon DEF CreateRequest
    <3>2. [IdleCreator EXCEPT !.pc = "lookup", !.name = n, !.input = i].pc
            = "lookup"
      BY DEF IdleCreator
    <3>3. QED
      BY <3>1, <3>2, Zenon
  <2>2. QED
    BY <1>2, <1>4, <2>1, CreateRequestEffect
<1>5. ASSUME NEW d \in Creators,
             CacheLookup(d) \/ InsertRow(d) \/ FetchRow(d) \/ Cleanup(d)
      PROVE  Unlaunchable(creator[c].name)'
  <2>1. CASE CacheLookup(d)
    <3>1. \/ CreatorGoes(d, "insert") \/ AnswerError(d)
          \/ \E m \in GetByHash(creator[d].input) : Answer(d, m)
      BY <2>1 DEF CacheLookup
    <3>2. QED
      BY <1>2, <3>1, AnswerEffect, AnswerErrorEffect, CreatorGoesEffect
         DEF CreatorPC, GetByHash
  <2>2. CASE InsertRow(d)
    <3>1. \/ AnswerError(d)
          \/ creator' = [creator EXCEPT ![d].pc = "fetch",
                                ![d].created = ~Exists(creator[d].name)]
      BY <2>2 DEF InsertRow
    <3>2. QED
      BY <1>2, <3>1, AnswerErrorEffect, InsertedEffect DEF Exists
  <2>3. CASE FetchRow(d)
    <3>1. \/ CreatorGoes(d, "launch") \/ AnswerError(d)
          \/ Answer(d, creator[d].name)
      BY <2>3 DEF FetchRow
    <3>2. creator[d].name \in Names
      BY <2>3 DEF FetchRow, CreatorAt, LaunchRight, HandlersHold
    <3>3. QED
      BY <1>2, <3>1, <3>2, AnswerEffect, AnswerErrorEffect, CreatorGoesEffect
         DEF CreatorPC
  <2>4. CASE Cleanup(d)
    BY <1>2, <2>4, AnswerErrorEffect DEF Cleanup
  <2>5. QED
    BY <1>5, <2>1, <2>2, <2>3, <2>4
<1>6. ASSUME NEW d \in Creators, Launch(d)
      PROVE  Unlaunchable(creator[c].name)'
  <2>1. creator[d].name \in Names /\ Exists(creator[d].name)
    BY <1>6 DEF Launch, CreatorAt, LaunchRight, HandlersHold
  <2>2. CASE Answer(d, creator[d].name)
    BY <1>2, <2>1, <2>2, AnswerEffect
  <2>3. CASE /\ Blank(analyses[creator[d].name].input)
             /\ CreatorGoes(d, "cleanup")
    <3>1. CASE c = d
      <4>1. creator'[c].name = creator[c].name /\ UNCHANGED analyses
        BY <1>6, <2>3, <3>1, CreatorGoesEffect DEF Launch, CreatorPC
      <4>2. QED
        BY <2>1, <2>3, <3>1, <4>1 DEF Unlaunchable, Exists, Blank
    <3>2. CASE c # d
      BY <1>2, <2>3, <3>2, CreatorGoesEffect DEF CreatorPC
    <3>3. QED
      BY <3>1, <3>2
  <2>4. QED
    BY <1>6, <2>2, <2>3 DEF Launch
<1>7. ASSUME NEW k \in Cancellers,
             (\E m \in Names : CancelRequest(k, m)) \/ CancellerStep(k)
      PROVE  UNCHANGED creator
  BY <1>7 DEF CancelRequest, CancellerStep, CancelRead, CancelMark,
     PublishCancel
<1>8. ASSUME NEW m \in Names,
             \/ RunnerStep(m) \/ MulvalExits(m) \/ ChildrenEnd(m)
             \/ SetupFails(m)
             \/ ListenerStep(m) \/ CancelExpires(m)
      PROVE  UNCHANGED creator
  BY <1>8 DEF RunnerStep, StartMulval, KillMulval, RunMulvalReturns,
     PersistSuccess, PersistFailure, PublishUpdate, MulvalExits, ChildrenEnd,
     SetupFails, OnlyRunnerMoves, ListenerStep, SubscribeCancel, PollCancel,
     ListenerStops, CancelExpires
<1>9. CASE Shutdown \/ Restart
  BY <1>3, <1>9 DEF Shutdown, Restart
<1>10. ~Exit
  BY <1>0 DEF Exit, IdleCreator, CreatorAt
<1>11. CASE UNCHANGED vars
  BY <1>3, <1>11 DEF vars
<1>12. QED
  BY <1>3, <1>4, <1>5, <1>6, <1>7, <1>8, <1>9, <1>10, <1>11
     DEF Next, CreatorStep

\* As long as nothing fails, whoever is to end an operation passes it on, until
\* the update is published or the launch is rejected.
LEMMA UpdateStaysToCome ==
    ASSUME IInv, Carried, CleanupIsBlank, Next, Undisturbed',
           NEW n \in Names, UpdateToCome(n)
    PROVE  \/ UpdateToCome(n)'
           \/ n \in published' \ published
           \/ Unlaunchable(n)'
<1> USE DEF IInv, TypeOK
<1>0. Undisturbed /\ NoFault /\ ~Fault /\ UNCHANGED serverVars
  BY QuietStep DEF Fault, NoFault
<1>1. ASSUME UNCHANGED runner,
             \A d \in Creators : Launching(d, n) => Launching(d, n)'
      PROVE  UpdateToCome(n)'
  BY <1>1 DEF UpdateToCome
<1>2. ASSUME NEW c \in Creators,
             \/ \E m \in Names, i \in Inputs : CreateRequest(c, m, i)
             \/ CacheLookup(c) \/ InsertRow(c)
      PROVE  UpdateToCome(n)'
  <2>1. ~creator[c].created
    BY <1>2, CreateRequestEffect DEF CacheLookup, InsertRow, CreatorAt,
       LaunchRight, HandlersHold
  <2>2. UNCHANGED runner
    BY <1>2, CreatorLeaves
  <2>3. \A d \in Creators \ {c} : creator'[d] = creator[d]
    <3>1. CASE \E m \in Names, i \in Inputs : CreateRequest(c, m, i)
      BY <3>1, CreateRequestEffect
    <3>2. CASE CacheLookup(c) \/ InsertRow(c)
      <4>1. \/ CreatorGoes(c, "insert") \/ AnswerError(c)
            \/ \E m \in GetByHash(creator[c].input) : Answer(c, m)
            \/ creator' = [creator EXCEPT ![c].pc = "fetch",
                                  ![c].created = ~Exists(creator[c].name)]
        BY <3>2 DEF CacheLookup, InsertRow
      <4>2. QED
        BY <4>1, AnswerEffect, AnswerErrorEffect, CreatorGoesEffect,
           InsertedEffect DEF CreatorPC, GetByHash, Exists
    <3>3. QED
      BY <1>2, <3>1, <3>2
  <2>4. QED
    BY <1>1, <2>1, <2>2, <2>3 DEF Launching
<1>3. ASSUME NEW c \in Creators, FetchRow(c)
      PROVE  UpdateToCome(n)'
  <2>1. \/ CreatorGoes(c, "launch")
        \/ ~creator[c].created /\ Answer(c, creator[c].name)
    BY <1>0, <1>3 DEF FetchRow
  <2>2. \A d \in Creators : Launching(d, n) => Launching(d, n)'
    BY <2>1 DEF CreatorGoes, Answer, Launching, Creator
  <2>3. QED
    BY <1>1, <1>3, <2>2 DEF FetchRow
<1>4. ASSUME NEW c \in Creators, Launch(c)
      PROVE  UpdateToCome(n)'
  <2>1. CASE CreatorGoes(c, "cleanup") /\ UNCHANGED runner
    BY <1>1, <2>1 DEF CreatorGoes, Launching, Creator
  <2>2. CASE /\ runner' = [runner EXCEPT ![creator[c].name] = "starting"]
             /\ Answer(c, creator[c].name)
    <3>1. CASE n = creator[c].name
      BY <2>2, <3>1 DEF UpdateToCome, InFlight
    <3>2. CASE n # creator[c].name
      <4>1. \A d \in Creators : Launching(d, n) => Launching(d, n)'
        BY <2>2, <3>2 DEF Answer, Launching
      <4>2. QED
        BY <2>2, <3>2, <4>1 DEF UpdateToCome
    <3>3. QED
      BY <3>1, <3>2
  <2>3. QED
    BY <1>4, <2>1, <2>2 DEF Launch
<1>5. ASSUME NEW c \in Creators, Cleanup(c)
      PROVE  UpdateToCome(n)' \/ Unlaunchable(n)'
  <2>1. AnswerError(c) /\ UNCHANGED runner
    BY <1>5 DEF Cleanup
  <2>2. CASE n = creator[c].name
    <3>1. Unlaunchable(n)
      BY <1>5, <2>2 DEF Cleanup, CleanupIsBlank
    <3>2. QED
      BY <3>1, UnlaunchableStays
  <2>3. CASE n # creator[c].name
    <3>1. \A d \in Creators : Launching(d, n) => Launching(d, n)'
      BY <2>1, <2>3 DEF AnswerError, Launching
    <3>2. QED
      BY <1>1, <2>1, <3>1
  <2>4. QED
    BY <2>2, <2>3
<1>6. ASSUME NEW m \in Names, RunnerStep(m) \/ MulvalExits(m) \/ ChildrenEnd(m)
                              \/ SetupFails(m)
      PROVE  UpdateToCome(n)' \/ n \in published' \ published
  <2>1. UNCHANGED creator
    BY <1>6 DEF RunnerStep, StartMulval, KillMulval, RunMulvalReturns,
       PersistSuccess, PersistFailure, PublishUpdate, MulvalExits, ChildrenEnd,
       SetupFails, OnlyRunnerMoves
  <2>2. CASE n # m \/ \E c \in Creators : Launching(c, n)
    <3>1. n # m => runner'[n] = runner[n]
      BY <1>6 DEF RunnerStep, StartMulval, KillMulval, RunMulvalReturns,
         PersistSuccess, PersistFailure, PublishUpdate, MulvalExits,
         ChildrenEnd, SetupFails, OnlyRunnerMoves, RunnerGoes
    <3>2. QED
      BY <2>1, <2>2, <3>1 DEF UpdateToCome, Launching
  <2>3. CASE n = m /\ ~PublishUpdate(n)
    BY <1>6, <2>3 DEF RunnerStep, StartMulval, KillMulval, RunMulvalReturns,
       PersistSuccess, PersistFailure, MulvalExits, ChildrenEnd,
       SetupFails, RunnerGoes,
       UpdateToCome, InFlight
  <2>4. CASE PublishUpdate(n)
    <3>1. n \notin published
      BY <2>4 DEF PublishUpdate, RunnerGoes, Carried
    <3>2. QED
      BY <1>0, <2>4, <3>1 DEF PublishUpdate
  <2>5. QED
    BY <2>2, <2>3, <2>4
<1>7. ASSUME NEW k \in Cancellers,
             (\E m \in Names : CancelRequest(k, m)) \/ CancellerStep(k)
      PROVE  UpdateToCome(n)'
  <2>1. UNCHANGED <<creator, runner>>
    BY <1>7 DEF CancelRequest, CancellerStep, CancelRead, CancelMark,
       PublishCancel
  <2>2. QED
    BY <1>1, <2>1 DEF Launching
<1>8. ASSUME NEW m \in Names, ListenerStep(m) \/ CancelExpires(m)
      PROVE  UpdateToCome(n)'
  <2>1. UNCHANGED <<creator, runner>>
    BY <1>8 DEF ListenerStep, SubscribeCancel, PollCancel, ListenerStops,
       CancelExpires
  <2>2. QED
    BY <1>1, <2>1 DEF Launching
<1>9. ~Shutdown /\ ~Exit /\ ~Restart
  BY <1>0 DEF Shutdown, Exit, Restart, Undisturbed
<1>10. QED
  BY <1>2, <1>3, <1>4, <1>5, <1>6, <1>7, <1>8, <1>9 DEF Next, CreatorStep

\* Whoever makes a row terminal has an update to publish after it, or the row is
\* one that publishes none.
LEMMA TerminalHasUpdate ==
    ASSUME IInv, Carried, CleanupIsBlank, Next, Undisturbed',
           NEW n \in Names, IsTerminal(analyses'[n].state),
           ~IsTerminal(analyses[n].state)
    PROVE  UpdateToCome(n) \/ Superseded(n)
<1>1. StoreTypeOK /\ StoreTypeOK' /\ [StoreNext]_analyses
  BY StepIsStatement, TypeStep DEF IInv, TypeOK
<1>2. Exists(n)
  BY <1>1, NewRowsRun DEF IsTerminal, TerminalStates
<1>3. analyses[n].state = "RUNNING"
  BY <1>1, <1>2 DEF StoreTypeOK, Row, States, Exists, IsTerminal
<1>4. Undisturbed
  BY QuietStep
<1>5. QED
  BY <1>3, <1>4, NothingForgotten DEF InHand, UpdateToCome

----------------------------------------------------------------------------
(* Steps of a waiter *)

WaiterActs(w) ==
    \/ \E n \in Names : WaitRequest(w, n)
    \/ WaiterStep(w) \/ TimeOut(w) \/ ClientLeaves(w) \/ UpdateLost(w)

LEMMA WaiterGoesEffect ==
    ASSUME WaitTypeOK, NEW w \in Waiters, NEW pc \in WaiterPC,
           WaiterGoes(w, pc)
    PROVE  /\ waiter' \in [Waiters -> Waiter]
           /\ waiter'[w].pc = pc
           /\ waiter'[w].name = waiter[w].name
           /\ \A v \in Waiters \ {w} : waiter'[v] = waiter[v]
BY DEF WaiterGoes, WaitTypeOK, Waiter

LEMMA ReturnEffect ==
    ASSUME WaitTypeOK, NEW w \in Waiters, Return(w)
    PROVE  /\ waiter' \in [Waiters -> Waiter]
           /\ waiter'[w].pc = "idle"
           /\ \A v \in Waiters \ {w} : waiter'[v] = waiter[v]
           /\ inbox' = inbox \ {w}
BY DEF Return, WaitTypeOK, Waiter, WaiterPC, IdleWaiter

\* A waiter leaves AnalysisRun alone but for the count of failures.
LEMMA WaiterLeaves ==
    ASSUME NEW w \in Waiters, WaiterActs(w)
    PROVE  WaiterOnly /\ (Fault \/ NoFault)
BY DEF WaiterActs, WaitRequest, WaiterStep, Check, Subscribe, Recheck, Receive,
   Reread, LastRead, ReadRow, TimeOut, ClientLeaves, UpdateLost, NoFault

\* What a step of the waiter w does to it: it keeps its updates only as long
\* as it is subscribed, and it falls asleep on a RUNNING row only.
StepOf(w) ==
    /\ waiter' \in [Waiters -> Waiter]
    /\ \A v \in Waiters \ {w} : waiter'[v] = waiter[v]
    /\ inbox' \ {w} = inbox \ {w}
    /\ w \in inbox' => Subscribed(w)'
    /\ ~WaiterAt(w, "idle")' => waiter'[w].name \in Names
    /\ WaiterAt(w, "select")' =>
          \/ analyses[waiter'[w].name].state = "RUNNING"
          \/ Fault

LEMMA ReadRowEffect ==
    ASSUME WaitTypeOK, WaitersAsked, NEW w \in Waiters,
           NEW from \in WaiterPC \ {"idle"}, NEW to \in {"subscribe", "select"},
           ReadRow(w, from, to), to = "subscribe" => from = "check"
    PROVE  StepOf(w)
<1>1. CASE Return(w)
  BY <1>1, ReturnEffect DEF StepOf, WaiterAt
<1>2. CASE /\ analyses[waiter[w].name].state = "RUNNING"
           /\ WaiterGoes(w, to) /\ UNCHANGED inbox
  <2>1. to \in WaiterPC /\ WaiterAt(w, from)
    BY DEF WaiterPC, ReadRow
  <2>2. w \in inbox => to = "select"
    BY <2>1 DEF WaitTypeOK, Subscribed, WaiterAt
  <2>3. QED
    BY <1>2, <2>1, <2>2, WaiterGoesEffect
       DEF StepOf, WaiterAt, Subscribed, WaitersAsked
<1>3. QED
  BY <1>1, <1>2 DEF ReadRow

LEMMA WaiterEffect ==
    ASSUME WaitTypeOK, WaitersAsked, NEW w \in Waiters, WaiterActs(w)
    PROVE  StepOf(w)
<1>1. CASE \E n \in Names : WaitRequest(w, n)
  <2>1. PICK n \in Names : WaitRequest(w, n)
    BY <1>1
  <2>2. waiter' = [waiter EXCEPT ![w] = [pc |-> "check", name |-> n]]
    BY <2>1 DEF WaitRequest
  <2>3. w \notin inbox' /\ UNCHANGED inbox
    BY <2>1 DEF WaitRequest, WaiterAt, WaitTypeOK, Subscribed
  <2>4. QED
    BY <2>2, <2>3 DEF StepOf, WaitTypeOK, Waiter, WaiterPC, WaiterAt
<1>2. CASE Check(w) \/ Recheck(w) \/ Reread(w)
  BY <1>2, ReadRowEffect DEF Check, Recheck, Reread, WaiterPC
<1>3. CASE Subscribe(w)
  <2>1. WaiterAt(w, "subscribe") /\ waiter[w].name \in Names /\ w \notin inbox
    BY <1>3 DEF Subscribe, WaiterAt, WaitersAsked, WaitTypeOK, Subscribed
  <2>2. CASE WaiterGoes(w, "recheck") /\ inbox' \in {inbox, inbox \cup {w}}
    BY <2>1, <2>2, WaiterGoesEffect DEF StepOf, WaiterAt, Subscribed, WaiterPC
  <2>3. CASE WaiterGoes(w, "fallback") /\ UNCHANGED inbox
    BY <2>1, <2>3, WaiterGoesEffect DEF StepOf, WaiterAt, Subscribed, WaiterPC
  <2>4. QED
    BY <1>3, <2>2, <2>3 DEF Subscribe
<1>4. CASE Receive(w)
  <2>1. /\ WaiterAt(w, "select") /\ WaiterGoes(w, "reread")
        /\ inbox' = inbox \ {w}
    BY <1>4 DEF Receive
  <2>2. QED
    BY <2>1, WaiterGoesEffect DEF StepOf, WaiterAt, WaitersAsked, WaiterPC
<1>5. CASE LastRead(w) \/ ClientLeaves(w)
  BY <1>5, ReturnEffect DEF LastRead, ClientLeaves, StepOf, WaiterAt
<1>6. CASE TimeOut(w)
  <2>1. /\ waiter[w].pc \in {"select", "fallback"}
        /\ WaiterGoes(w, "lastRead") /\ UNCHANGED inbox
    BY <1>6 DEF TimeOut
  <2>2. QED
    BY <2>1, WaiterGoesEffect
       DEF StepOf, WaiterAt, Subscribed, WaitersAsked, WaiterPC
<1>7. CASE UpdateLost(w)
  BY <1>7 DEF UpdateLost, StepOf, WaiterAt, WaitersAsked, WaitTypeOK
<1>8. QED
  BY <1>1, <1>2, <1>3, <1>4, <1>5, <1>6, <1>7 DEF WaiterActs, WaiterStep

\* The waiters keep the invariant.
LEMMA WaiterKeeps ==
    ASSUME WaitInv, NEW w \in Waiters, WaiterActs(w)
    PROVE  WaitInv'
<1> USE DEF WaitInv
<1>1. /\ UNCHANGED <<analyses, creator, canceller, runner, listener, signalled,
                     published, cancelStream, server, exits>>
      /\ faults' \in 0 .. MaxFaults
      /\ faults \in Nat /\ faults <= faults'
      /\ Undisturbed' => Undisturbed /\ ~Fault
  <2>1. WaiterOnly /\ (Fault \/ NoFault)
    BY WaiterLeaves
  <2>2. faults \in 0 .. MaxFaults
    BY DEF IInv, TypeOK
  <2>3. faults' \in 0 .. MaxFaults /\ faults <= faults'
    BY <2>1, <2>2, FaultsCount, FaultEffect
  <2>4. Undisturbed' => Undisturbed /\ ~Fault
    BY <2>1, FaultsCount DEF WaiterOnly, Undisturbed
  <2>5. QED
    BY <2>1, <2>3, <2>4, FaultsCount DEF WaiterOnly
<1>2. IInv'
  BY <1>1 DEF IInv, TypeOK, StoreTypeOK, LaunchRight, HandlersHold, OneHolder,
     VerdictIsLast, Launching, Exists, OneVerdict, CancelProgress,
     SignalFollowsWrite
<1>3. CacheUnambiguous' /\ CleanupIsBlank'
  BY <1>1 DEF CacheUnambiguous, SameHash, CleanupIsBlank, CreatorAt,
     Unlaunchable, Exists
<1>4. Carried'
  <2>1. ForgottenRows' = ForgottenRows
    BY <1>1 DEF ForgottenRows, Forgotten, InHand, Launching, Superseded, Exists,
       SameHash
  <2>2. ASSUME server = "up", exits = 0
        PROVE  /\ IsFiniteSet(ForgottenRows)
               /\ Cardinality(ForgottenRows) <= faults'
    <3>1. IsFiniteSet(ForgottenRows) /\ Cardinality(ForgottenRows) <= faults
      BY <2>2 DEF Carried
    <3>2. Cardinality(ForgottenRows) \in Nat
      BY <3>1, FS_CardinalityType
    <3>3. QED
      BY <1>1, <3>1, <3>2
  <2>3. QED
    BY <1>1, <2>1, <2>2 DEF Carried
<1>8. CancelsInTransit'
  <2>1. faults' = 0 => faults = 0
    BY <1>1
  <2>2. QED
    BY <1>1, <2>1 DEF CancelsInTransit, DownIsIdle, HasListener, CancelKept,
       InUse, Launching, CancelOnItsWay
<1>5. WaitTypeOK' /\ WaitersAsked'
  BY WaiterEffect DEF StepOf, WaitTypeOK, WaitersAsked, WaiterAt, Subscribed
<1>6. NoLostWakeup'
  <2>1. SUFFICES ASSUME Undisturbed', NEW v \in Waiters,
                        WaiterAt(v, "select")',
                        IsTerminal(analyses'[waiter'[v].name].state)
                 PROVE  \/ v \in inbox'
                        \/ UpdateToCome(waiter[v].name)'
                        \/ Unlaunchable(waiter[v].name)'
                        \/ Superseded(waiter[v].name)'
    BY DEF NoLostWakeup
  <2>2. v # w
    BY <1>1, <2>1, WaiterEffect DEF StepOf, IsTerminal, TerminalStates
  <2>3. waiter'[v] = waiter[v] /\ (v \in inbox => v \in inbox')
    BY <2>2, WaiterEffect DEF StepOf
  <2>4. \/ v \in inbox
        \/ UpdateToCome(waiter[v].name)
        \/ Unlaunchable(waiter[v].name)
        \/ Superseded(waiter[v].name)
    BY <1>1, <2>1, <2>3 DEF NoLostWakeup, WaiterAt
  <2>5. QED
    BY <1>1, <2>3, <2>4 DEF UpdateToCome, Launching, Unlaunchable, Superseded,
       Exists, SameHash
<1>7. QED
  BY <1>2, <1>3, <1>4, <1>5, <1>6, <1>8

----------------------------------------------------------------------------
(* The theorems *)

\* A step of AnalysisRun keeps the invariant of the waiters.
LEMMA SystemKeeps ==
    ASSUME WaitInv, Next, Deliver
    PROVE  WaitInv'
<1> USE DEF WaitInv
<1>1. IInv'
  BY TypeStep, VerdictStep, CancelStep DEF IInv
<1>2. CacheUnambiguous' /\ Carried' /\ CancelsInTransit' /\ CleanupIsBlank'
  BY StepIsStatement, CacheStep, CarriedStep, TransitStep, CleanupStep
     DEF IInv, TypeOK
<1>3. CASE server' = "down"
  <2>1. waiter' = [w \in Waiters |-> IdleWaiter] /\ inbox' = {}
    BY <1>3 DEF Deliver
  <2>2. WaitTypeOK' /\ WaitersAsked'
    BY <2>1 DEF WaitTypeOK, WaitersAsked, WaiterAt, IdleWaiter, Waiter, WaiterPC
  <2>3. NoLostWakeup'
    BY <1>3 DEF NoLostWakeup, Undisturbed
  <2>4. QED
    BY <1>1, <1>2, <2>2, <2>3
<1>4. CASE server' # "down"
  <2>1. /\ UNCHANGED waiter
        /\ \A w \in inbox : w \in inbox'
        /\ \A w \in inbox' \ inbox : w \in Waiters /\ Subscribed(w)
        /\ \A w \in Waiters :
              /\ WaiterAt(w, "select")
              /\ waiter[w].name \in published' \ published
              => w \in inbox'
    BY <1>4 DEF Deliver, Subscribed, WaiterAt
  <2>2. WaitTypeOK' /\ WaitersAsked'
    BY <2>1 DEF WaitTypeOK, WaitersAsked, WaiterAt, Subscribed
  <2>3. ASSUME Undisturbed', NEW w \in Waiters, WaiterAt(w, "select"),
               IsTerminal(analyses'[waiter[w].name].state)
        PROVE  \/ w \in inbox'
               \/ UpdateToCome(waiter[w].name)'
               \/ Unlaunchable(waiter[w].name)'
               \/ Superseded(waiter[w].name)'
    <3> DEFINE n == waiter[w].name
    <3>1. n \in Names
      BY <2>3 DEF WaitersAsked, WaiterAt
    <3>2. Undisturbed
      BY <2>3, QuietStep
    <3>3. \/ w \in inbox
          \/ UpdateToCome(n) \/ Unlaunchable(n) \/ Superseded(n)
      BY <2>3, <3>1, <3>2, TerminalHasUpdate DEF NoLostWakeup
    <3>4. CASE w \in inbox
      BY <2>1, <3>4
    <3>5. CASE UpdateToCome(n)
      BY <2>1, <2>3, <3>1, <3>5, UpdateStaysToCome
    <3>6. CASE Unlaunchable(n)
      BY <3>1, <3>6, <2>1, UnlaunchableStays DEF Unlaunchable, Exists, Blank
    <3>7. CASE Superseded(n)
      BY <3>1, <3>7, <2>1, SupersededStays DEF Superseded, Exists, SameHash
    <3>8. QED
      BY <3>3, <3>4, <3>5, <3>6, <3>7
  <2>4. NoLostWakeup'
    BY <2>1, <2>3 DEF NoLostWakeup, WaiterAt
  <2>5. QED
    BY <1>1, <1>2, <2>2, <2>4
<1>5. QED
  BY <1>3, <1>4

\* The invariant holds of waiters and system together, whatever fails.
THEOREM WaitInvariant == WaitSpec => []WaitInv
<1>1. WaitInit => WaitInv
  <2> SUFFICES ASSUME WaitInit PROVE WaitInv
    OBVIOUS
  <2>1. IInv
    BY InitIInv DEF WaitInit
  <2>2. CacheUnambiguous /\ CleanupIsBlank
    BY DEF WaitInit, Init, StoreInit, NoRow, CacheUnambiguous, CleanupIsBlank,
       CreatorAt, IdleCreator
  <2>5. Carried /\ CancelsInTransit
    BY InitCarried, InitTransit DEF WaitInit
  <2>3. WaitTypeOK /\ WaitersAsked /\ NoLostWakeup
    BY DEF WaitInit, WaitTypeOK, WaitersAsked, NoLostWakeup, WaiterAt,
       IdleWaiter, Waiter, WaiterPC
  <2>4. QED
    BY <2>1, <2>2, <2>3, <2>5 DEF WaitInv
<1>2. WaitInv /\ [WaitNext]_allVars => WaitInv'
  <2> SUFFICES ASSUME WaitInv, [WaitNext]_allVars PROVE WaitInv'
    OBVIOUS
  <2>1. CASE Next /\ Deliver
    BY <2>1, SystemKeeps
  <2>2. CASE \E w \in Waiters : WaiterActs(w)
    BY <2>2, WaiterKeeps
  <2>3. CASE UNCHANGED allVars
    <3>1. UNCHANGED <<vars, waiter, inbox>>
      BY <2>3 DEF allVars, waitVars
    <3>2. IInv'
      BY <3>1, TypeStep, VerdictStep, CancelStep DEF WaitInv, IInv
    <3>3. /\ CacheUnambiguous' /\ CleanupIsBlank'
          /\ Carried' /\ CancelsInTransit'
      BY <3>1, CarriedStep, TransitStep, CleanupStep
         DEF WaitInv, vars, CacheUnambiguous, SameHash
    <3>4. WaitTypeOK' /\ WaitersAsked'
      BY <3>1 DEF WaitInv, WaitTypeOK, WaitersAsked, WaiterAt, Subscribed
    <3>5. NoLostWakeup'
      BY <3>1 DEF WaitInv, vars, NoLostWakeup, WaiterAt, Undisturbed,
         UpdateToCome, Launching, Unlaunchable, Superseded, Exists, SameHash
    <3>6. QED
      BY <3>2, <3>3, <3>4, <3>5 DEF WaitInv
  <2>4. QED
    BY <2>1, <2>2, <2>3 DEF WaitNext, WaiterActs
<1>3. QED
  BY <1>1, <1>2, PTL DEF WaitSpec

\* Every waiter is at one of its steps, and only a consumer has updates.
THEOREM WaitTypeCorrect == WaitSpec => []WaitTypeOK
<1>1. WaitInv => WaitTypeOK
  BY DEF WaitInv
<1>2. QED
  BY <1>1, WaitInvariant, PTL

\* Wherever a completion falls between the checks of WaitOperation, a waiter
\* that sleeps on a terminal row has an update waiting or to come, for any
\* number of waiters, operations and requests.
THEOREM WakeupsAreNotLost == WaitSpec => []NoLostWakeup
<1>1. WaitInv => NoLostWakeup
  BY DEF WaitInv
<1>2. QED
  BY <1>1, WaitInvariant, PTL

\* Whatever the waiters read and lose, the analyses keep their promises: one
\* verdict for each, no signal before its write and no OK before it, no cancel
\* lost on its way, no update before its write, and one orphan at most for
\* each failure, those of the waiters included.
THEOREM WaitersDisturbNothing ==
    WaitSpec => [](/\ OneVerdict
                   /\ CacheUnambiguous
                   /\ SignalFollowsWrite
                   /\ CancelOkIsTerminal
                   /\ NoLostCancel
                   /\ UpdateFollowsWrite
                   /\ OrphansAreFailures)
<1>1. WaitInv => OneVerdict /\ CacheUnambiguous /\ SignalFollowsWrite
  BY DEF WaitInv, IInv
<1>2. WaitInv => CancelOkIsTerminal
  BY DEF WaitInv, IInv, CancelProgress, CancelOkIsTerminal
<1>3. WaitInv => NoLostCancel /\ UpdateFollowsWrite /\ OrphansAreFailures
  BY CancelsKept, UpdatesAfterWrites, OrphansCounted DEF WaitInv
<1>4. QED
  BY <1>1, <1>2, <1>3, WaitInvariant, PTL

\* Analyses and waiters together implement AnalysisLifecycle: no read, timeout
\* or subscription of a waiter is a step of the life of an operation.
THEOREM WaitersImplementLifecycle == WaitSpec => ImplementsLifecycle
<1>1. WaitInit => Lifecycle!LifecycleInit
  BY DEF WaitInit, Init, StoreInit, NoRow, Verdict, Lifecycle!LifecycleInit
<1>2. WaitInv /\ [WaitNext]_allVars => [Statement]_analyses
  <2>1. ASSUME NEW w \in Waiters, WaiterActs(w)
        PROVE  UNCHANGED analyses
    BY <2>1, WaiterLeaves DEF WaiterOnly
  <2>2. WaitInv /\ Next => [Statement]_analyses
    BY StepIsDecision DEF WaitInv
  <2>3. QED
    BY <2>1, <2>2 DEF WaitNext, WaiterActs, allVars, vars
<1>3. WaitInv /\ [WaitNext]_allVars =>
        [Lifecycle!LifecycleNext]_<<[n \in Names |-> analyses[n].state],
                                   [n \in Names |-> Verdict(analyses[n])]>>
  BY <1>2, DecisionIsLifecycleStep DEF WaitInv
<1>4. QED
  BY <1>1, <1>3, WaitInvariant, PTL
     DEF WaitSpec, ImplementsLifecycle, Lifecycle!LifecycleSpec
============================================================================

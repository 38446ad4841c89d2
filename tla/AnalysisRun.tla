---------------------------- MODULE AnalysisRun ----------------------------
(***************************************************************************)
(* The life of an analysis: CreateAnalysis handlers, the executor          *)
(* goroutines they launch, the cancel listener of each executor,           *)
(* CancelOperation handlers, the shutdown of the server, its crash and its *)
(* restart, all over the table of AnalysisStore and the cancel and update  *)
(* streams of NATS.                                                        *)
(*                                                                         *)
(* A handler is a process with a pc; each database statement and each      *)
(* message it sends is a step of its own, and anything may happen between  *)
(* two steps.  A statement or a message may fail (the connection breaks,   *)
(* or the client has gone and its request context with it); a failed       *)
(* statement may or may not have been executed.                            *)
(***************************************************************************)
EXTENDS AnalysisStore, Naturals, FiniteSets

CONSTANTS
    Creators,     \* CreateAnalysis handlers
    Cancellers,   \* CancelOperation handlers
    BlankTexts,   \* edb texts that strings.TrimSpace leaves empty
    NoName,       \* no operation
    MaxFaults,    \* bound: statements, messages and subscriptions that fail
    MaxExits      \* bound: times the server process ends

ASSUME RunAssumption ==
    /\ NoName \notin Names
    /\ MaxFaults \in Nat
    /\ MaxExits \in Nat

VARIABLES
    creator,      \* creator[c]: the CreateAnalysis handler c
    canceller,    \* canceller[k]: the CancelOperation handler k
    runner,       \* runner[n]: where the executor goroutine of n is
    listener,     \* listener[n]: where its listenForCancellation is
    signalled,    \* operations whose listener has called rc.cancel()
    cancelStream, \* subjects with a cancel message not yet fetched
    published,    \* operations with an update on the operation stream
    server,       \* the server process
    faults,       \* failures so far
    exits         \* ends of the server process so far

vars == <<analyses, creator, canceller, runner, listener, signalled,
          cancelStream, published, server, faults, exits>>

runVars    == <<runner, listener, signalled, published>>
serverVars == <<server, exits>>

----------------------------------------------------------------------------
CreatorPC == {"idle", "lookup", "insert", "fetch", "launch", "cleanup",
              "answered"}

Creator == [pc : CreatorPC, name : Names \cup {NoName},
            input : Inputs \cup {NoInput}, created : BOOLEAN,
            answer : Names \cup {NoName}]

IdleCreator == [pc |-> "idle", name |-> NoName, input |-> NoInput,
                created |-> FALSE, answer |-> NoName]

CancellerPC == {"idle", "read", "mark", "publish", "ok"}

Canceller == [pc : CancellerPC, name : Names \cup {NoName}]

IdleCanceller == [pc |-> "idle", name |-> NoName]

\* "killed": Abort has ended the script, but the goroutine has not returned
\* from it.  "lost": the goroutine ended with the process it ran in.
RunnerPC == {"none", "starting", "running", "killed", "exited", "errored",
             "markSucceeded", "markFailed", "publish", "done", "lost"}

\* The goroutine exists: e.wg counts it.
InFlight == {"starting", "running", "killed", "exited", "errored",
             "markSucceeded", "markFailed", "publish"}

ListenerPC == {"none", "subscribing", "polling", "gone"}

ServerPC == {"up", "stopping", "down"}

Init ==
    /\ StoreInit
    /\ creator = [c \in Creators |-> IdleCreator]
    /\ canceller = [k \in Cancellers |-> IdleCanceller]
    /\ runner = [n \in Names |-> "none"]
    /\ listener = [n \in Names |-> "none"]
    /\ signalled = {}
    /\ cancelStream = {}
    /\ published = {}
    /\ server = "up"
    /\ faults = 0
    /\ exits = 0

----------------------------------------------------------------------------
Fault == faults < MaxFaults /\ faults' = faults + 1

NoFault == UNCHANGED faults

\* A write statement that fails: executed or not, the caller gets an error.
FailsAt(statement) == Fault /\ (statement \/ UNCHANGED analyses)

\* rc.Abort.Err() # nil: the listener has cancelled the context, or the root
\* context it derives from is cancelled.
Aborted(n) == n \in signalled \/ server # "up"

\* strings.TrimSpace(op.EDBFacts) == ""
Blank(i) == i.edb \in BlankTexts

----------------------------------------------------------------------------
(* CreateAnalysis *)

CreatorAt(c, pc) == creator[c].pc = pc

CreatorGoes(c, pc) == creator' = [creator EXCEPT ![c].pc = pc]

\* The handler answers with the operation n.
Answer(c, n) ==
    creator' = [creator EXCEPT ![c] = [IdleCreator EXCEPT !.pc = "answered",
                                                          !.answer = n]]

\* The handler answers with an error; nothing of the request is left.
AnswerError(c) == creator' = [creator EXCEPT ![c] = IdleCreator]

\* A request for the name n: the client's analysis_id, or a new UUID, a name
\* nobody has used.  A request with no edb_facts is rejected here.
CreateRequest(c, n, i) ==
    /\ server # "down"
    /\ creator[c].pc \in {"idle", "answered"}
    /\ creator' = [creator EXCEPT
                     ![c] = [IdleCreator EXCEPT !.pc = "lookup",
                                                !.name = n, !.input = i]]
    /\ UNCHANGED <<analyses, canceller, runVars, cancelStream, serverVars,
                   faults>>

\* store.GetByHash: an identical analysis that succeeded is the answer.
CacheLookup(c) ==
    /\ CreatorAt(c, "lookup")
    /\ \/ /\ \E m \in GetByHash(creator[c].input) : Answer(c, m)
          /\ NoFault
       \/ /\ GetByHash(creator[c].input) = {}
          /\ CreatorGoes(c, "insert")
          /\ NoFault
       \/ Fault /\ AnswerError(c)
    /\ UNCHANGED <<analyses, canceller, runVars, cancelStream, serverVars>>

\* A mutant of InsertRow: the number of affected rows is not looked at.
InsertRowAsNew(c) ==
    LET n == creator[c].name
        i == creator[c].input
    IN  /\ CreatorAt(c, "insert")
        /\ \/ /\ Insert(n, i)
              /\ creator' = [creator EXCEPT ![c].pc = "fetch",
                                            ![c].created = TRUE]
              /\ NoFault
           \/ FailsAt(Insert(n, i)) /\ AnswerError(c)
        /\ UNCHANGED <<canceller, runVars, cancelStream, serverVars>>

\* The first statement of store.CreateAnalysis; created is set when the
\* statement affected one row.
InsertRow(c) ==
    LET n == creator[c].name
        i == creator[c].input
    IN  /\ CreatorAt(c, "insert")
        /\ \/ /\ Insert(n, i)
              /\ creator' = [creator EXCEPT ![c].pc = "fetch",
                                            ![c].created = ~Exists(n)]
              /\ NoFault
           \/ FailsAt(Insert(n, i)) /\ AnswerError(c)
        /\ UNCHANGED <<canceller, runVars, cancelStream, serverVars>>

\* A mutant of FetchRow: a found row that is still RUNNING is launched too.
FetchRowAndResume(c) ==
    /\ CreatorAt(c, "fetch")
    /\ \/ /\ creator[c].created \/ analyses[creator[c].name].state = "RUNNING"
          /\ CreatorGoes(c, "launch")
          /\ NoFault
       \/ ~creator[c].created /\ Answer(c, creator[c].name) /\ NoFault
       \/ Fault /\ AnswerError(c)
    /\ UNCHANGED <<analyses, canceller, runVars, cancelStream, serverVars>>

\* The second one, GetByName, and the answer of a retry.  Rows are never
\* deleted, so the row is there.
FetchRow(c) ==
    /\ CreatorAt(c, "fetch")
    /\ \/ creator[c].created /\ CreatorGoes(c, "launch") /\ NoFault
       \/ ~creator[c].created /\ Answer(c, creator[c].name) /\ NoFault
       \/ Fault /\ AnswerError(c)
    /\ UNCHANGED <<analyses, canceller, runVars, cancelStream, serverVars>>

\* A mutant of Launch: the error of Run is answered without any cleanup.
LaunchWithoutCleanup(c) ==
    LET n == creator[c].name
    IN  /\ CreatorAt(c, "launch")
        /\ \/ /\ ~Blank(analyses[n].input)
              /\ runner' = [runner EXCEPT ![n] = "starting"]
              /\ listener' = [listener EXCEPT ![n] = "subscribing"]
              /\ Answer(c, n)
           \/ /\ Blank(analyses[n].input)
              /\ AnswerError(c)
              /\ UNCHANGED <<runner, listener>>
        /\ UNCHANGED <<analyses, canceller, signalled, published,
                       cancelStream, serverVars, faults>>

\* Executor.Run starts run(rc, op) and, in NewRunContext, the listener, or
\* rejects a blank edb.
Launch(c) ==
    LET n == creator[c].name
    IN  /\ CreatorAt(c, "launch")
        /\ \/ /\ ~Blank(analyses[n].input)
              /\ runner' = [runner EXCEPT ![n] = "starting"]
              /\ listener' = [listener EXCEPT ![n] = "subscribing"]
              /\ Answer(c, n)
           \/ /\ Blank(analyses[n].input)
              /\ CreatorGoes(c, "cleanup")
              /\ UNCHANGED <<runner, listener>>
        /\ UNCHANGED <<analyses, canceller, signalled, published,
                       cancelStream, serverVars, faults>>

\* After a rejected launch the handler marks the row failed.
Cleanup(c) ==
    LET n == creator[c].name
    IN  /\ CreatorAt(c, "cleanup")
        /\ \/ MarkFailed(n) /\ NoFault
           \/ FailsAt(MarkFailed(n))
        /\ AnswerError(c)
        /\ UNCHANGED <<canceller, runVars, cancelStream, serverVars>>

CreatorStep(c) ==
    \/ CacheLookup(c)
    \/ InsertRow(c)
    \/ FetchRow(c)
    \/ Launch(c)
    \/ Cleanup(c)

----------------------------------------------------------------------------
(* CancelOperation *)

CancellerAt(k, pc) == canceller[k].pc = pc

CancellerGoes(k, pc) == canceller' = [canceller EXCEPT ![k].pc = pc]

\* The handler has answered an error; nothing of the request is left.
CancelFails(k) == canceller' = [canceller EXCEPT ![k] = IdleCanceller]

CancelRequest(k, n) ==
    /\ server # "down"
    /\ canceller[k].pc \in {"idle", "ok"}
    /\ canceller' = [canceller EXCEPT ![k] = [pc |-> "read", name |-> n]]
    /\ UNCHANGED <<analyses, creator, runVars, cancelStream, serverVars,
                   faults>>

\* A mutant of CancelRead: the signal is sent before the row is written.
CancelReadThenSignal(k) ==
    LET n == canceller[k].name
    IN  /\ CancellerAt(k, "read")
        /\ \/ ~Exists(n) /\ CancelFails(k) /\ NoFault
           \/ IsTerminal(analyses[n].state) /\ CancellerGoes(k, "ok") /\ NoFault
           \/ analyses[n].state = "RUNNING" /\ CancellerGoes(k, "publish") /\ NoFault
           \/ Fault /\ CancelFails(k)
        /\ UNCHANGED <<analyses, creator, runVars, cancelStream, serverVars>>

CancelRead(k) ==
    LET n == canceller[k].name
    IN  /\ CancellerAt(k, "read")
        /\ \/ ~Exists(n) /\ CancelFails(k) /\ NoFault
           \/ IsTerminal(analyses[n].state) /\ CancellerGoes(k, "ok") /\ NoFault
           \/ analyses[n].state = "RUNNING" /\ CancellerGoes(k, "mark") /\ NoFault
           \/ Fault /\ CancelFails(k)
        /\ UNCHANGED <<analyses, creator, runVars, cancelStream, serverVars>>

\* A mutant of CancelMark: an error of the statement is ignored.
CancelMarkBestEffort(k) ==
    LET n == canceller[k].name
    IN  /\ CancellerAt(k, "mark")
        /\ \/ MarkCancelled(n) /\ NoFault
           \/ FailsAt(MarkCancelled(n))
        /\ CancellerGoes(k, "publish")
        /\ UNCHANGED <<creator, runVars, cancelStream, serverVars>>

CancelMark(k) ==
    LET n == canceller[k].name
    IN  /\ CancellerAt(k, "mark")
        /\ \/ MarkCancelled(n) /\ CancellerGoes(k, "publish") /\ NoFault
           \/ FailsAt(MarkCancelled(n)) /\ CancelFails(k)
        /\ UNCHANGED <<creator, runVars, cancelStream, serverVars>>

\* A mutant of PublishCancel: the InterestPolicy, which drops a message that
\* no consumer waits for.
PublishCancelToInterested(k) ==
    /\ CancellerAt(k, "publish")
    /\ cancelStream' = IF listener[canceller[k].name] = "polling"
                       THEN cancelStream \cup {canceller[k].name}
                       ELSE cancelStream
    /\ CancellerGoes(k, "ok")
    /\ UNCHANGED <<analyses, creator, runVars, serverVars, faults>>

\* PublishCancel.  The stream keeps one message for each subject, whether or
\* not a consumer is there.  The handler ignores a failure.
PublishCancel(k) ==
    /\ CancellerAt(k, "publish")
    /\ \/ cancelStream' = cancelStream \cup {canceller[k].name} /\ NoFault
       \/ Fault /\ UNCHANGED cancelStream
    /\ CancellerGoes(k, "ok")
    /\ UNCHANGED <<analyses, creator, runVars, serverVars>>

CancellerStep(k) == CancelRead(k) \/ CancelMark(k) \/ PublishCancel(k)

\* MaxAge of the cancel stream: ten minutes without a fetch.
CancelExpires(n) ==
    /\ n \in cancelStream
    /\ cancelStream' = cancelStream \ {n}
    /\ Fault
    /\ UNCHANGED <<analyses, creator, canceller, runVars, serverVars>>

----------------------------------------------------------------------------
(* The executor goroutine: Executor.run and runMulval *)

RunnerGoes(n, from, to) ==
    runner[n] = from /\ runner' = [runner EXCEPT ![n] = to]

OnlyRunnerMoves ==
    UNCHANGED <<analyses, creator, canceller, listener, signalled, published,
                cancelStream, serverVars, faults>>

\* The work directory and the input files are written and graph_gen.sh is
\* started, unless Abort has already fired.
StartMulval(n) ==
    /\ \/ ~Aborted(n) /\ RunnerGoes(n, "starting", "running")
       \/ Aborted(n) /\ RunnerGoes(n, "starting", "errored")
    /\ OnlyRunnerMoves

\* The script ends by itself, having written its results or found no attack
\* path ("exited"), or in an error, its files missing or unreadable included.
MulvalExits(n) ==
    /\ \/ RunnerGoes(n, "running", "exited")
       \/ RunnerGoes(n, "running", "errored")
    /\ OnlyRunnerMoves

\* A file cannot be written before the script is started.
SetupFails(n) == RunnerGoes(n, "starting", "errored") /\ OnlyRunnerMoves

\* exec.CommandContext kills the script when Abort fires, and none of the
\* processes the script has started: they keep the pipe of its output open, and
\* CombinedOutput, with no WaitDelay, reads it to its end.
KillMulval(n) ==
    Aborted(n) /\ RunnerGoes(n, "running", "killed") /\ OnlyRunnerMoves

\* The last of these processes ends.  The script may have ended by itself, with
\* success, before the kill.
ChildrenEnd(n) ==
    /\ \/ RunnerGoes(n, "killed", "errored")
       \/ RunnerGoes(n, "killed", "exited")
    /\ OnlyRunnerMoves

\* A mutant of RunMulvalReturns: every error is taken for a cancellation.
RunMulvalIgnoresErrors(n) ==
    /\ \/ RunnerGoes(n, "exited", "markSucceeded")
       \/ RunnerGoes(n, "errored", "publish")
    /\ OnlyRunnerMoves


\* runMulval returns.  An error under a fired Abort is a cancellation, which
\* leaves the row to CancelOperation.
RunMulvalReturns(n) ==
    /\ \/ RunnerGoes(n, "exited", "markSucceeded")
       \/ ~Aborted(n) /\ RunnerGoes(n, "errored", "markFailed")
       \/ Aborted(n) /\ RunnerGoes(n, "errored", "publish")
    /\ OnlyRunnerMoves

\* run logs an error of either statement and goes on.
PersistSuccess(n) ==
    /\ RunnerGoes(n, "markSucceeded", "publish")
    /\ \/ MarkSucceeded(n) /\ NoFault
       \/ FailsAt(MarkSucceeded(n))
    /\ UNCHANGED <<creator, canceller, listener, signalled, published,
                   cancelStream, serverVars>>

PersistFailure(n) ==
    /\ RunnerGoes(n, "markFailed", "publish")
    /\ \/ MarkFailed(n) /\ NoFault
       \/ FailsAt(MarkFailed(n))
    /\ UNCHANGED <<creator, canceller, listener, signalled, published,
                   cancelStream, serverVars>>

\* PublishOperationUpdate, best effort, and the end of the goroutine.
PublishUpdate(n) ==
    /\ RunnerGoes(n, "publish", "done")
    /\ \/ published' = published \cup {n} /\ NoFault
       \/ Fault /\ UNCHANGED published
    /\ UNCHANGED <<analyses, creator, canceller, listener, signalled,
                   cancelStream, serverVars>>

RunnerStep(n) ==
    \/ StartMulval(n)
    \/ KillMulval(n)
    \/ RunMulvalReturns(n)
    \/ PersistSuccess(n)
    \/ PersistFailure(n)
    \/ PublishUpdate(n)

----------------------------------------------------------------------------
(* listenForCancellation and the polling goroutine of SubscribeCancel *)

ListenerGoes(n, from, to) ==
    listener[n] = from /\ listener' = [listener EXCEPT ![n] = to]

\* A mutant of SubscribeCancel: DeliverNewPolicy, which skips the messages that
\* are older than the consumer.
SubscribeCancelFromNow(n) ==
    /\ \/ server = "up" /\ ListenerGoes(n, "subscribing", "polling") /\ NoFault
       \/ server # "up" /\ ListenerGoes(n, "subscribing", "gone") /\ NoFault
       \/ Fault /\ ListenerGoes(n, "subscribing", "gone")
    /\ cancelStream' = cancelStream \ {n}
    /\ UNCHANGED <<analyses, creator, canceller, runner, signalled, published,
                   serverVars>>

\* Without a subscription the listener is gone, and nobody is told.
SubscribeCancel(n) ==
    /\ \/ server = "up" /\ ListenerGoes(n, "subscribing", "polling") /\ NoFault
       \/ server # "up" /\ ListenerGoes(n, "subscribing", "gone") /\ NoFault
       \/ Fault /\ ListenerGoes(n, "subscribing", "gone")
    /\ UNCHANGED <<analyses, creator, canceller, runner, signalled, published,
                   cancelStream, serverVars>>

\* One tick with a message: the handler records the reason and cancels Abort.
PollCancel(n) ==
    /\ listener[n] = "polling"
    /\ server # "down"
    /\ n \in cancelStream
    /\ cancelStream' = cancelStream \ {n}
    /\ signalled' = signalled \cup {n}
    /\ UNCHANGED <<analyses, creator, canceller, runner, listener, published,
                   serverVars, faults>>

\* The goroutine ends with the context it was given, derived from the root.
ListenerStops(n) ==
    /\ server # "up"
    /\ ListenerGoes(n, "polling", "gone")
    /\ UNCHANGED <<analyses, creator, canceller, runner, signalled, published,
                   cancelStream, serverVars, faults>>

ListenerStep(n) == SubscribeCancel(n) \/ PollCancel(n) \/ ListenerStops(n)

----------------------------------------------------------------------------
(* The server process *)

\* SIGTERM or SIGINT cancels the root context.
Shutdown ==
    /\ exits < MaxExits
    /\ server = "up"
    /\ server' = "stopping"
    /\ UNCHANGED <<analyses, creator, canceller, runVars, cancelStream, faults,
                   exits>>

\* Executor.Wait has returned, the grace period is over, or the process has
\* crashed: what it held in memory is gone.
Exit ==
    /\ exits < MaxExits
    /\ server # "down"
    /\ server' = "down"
    /\ exits' = exits + 1
    /\ creator' = [c \in Creators |-> IdleCreator]
    /\ canceller' = [k \in Cancellers |-> IdleCanceller]
    /\ runner' = [n \in Names |->
                    IF runner[n] \in InFlight THEN "lost" ELSE runner[n]]
    /\ listener' = [n \in Names |->
                      IF listener[n] = "none" THEN "none" ELSE "gone"]
    /\ UNCHANGED <<analyses, signalled, published, cancelStream, faults>>

\* A new process starts, with no knowledge of the operations of the old one.
Restart ==
    /\ server = "down"
    /\ server' = "up"
    /\ UNCHANGED <<analyses, creator, canceller, runVars, cancelStream, faults,
                   exits>>

----------------------------------------------------------------------------
Next ==
    \/ \E c \in Creators :
          \/ \E n \in Names, i \in Inputs : CreateRequest(c, n, i)
          \/ CreatorStep(c)
    \/ \E k \in Cancellers :
          \/ \E n \in Names : CancelRequest(k, n)
          \/ CancellerStep(k)
    \/ \E n \in Names :
          \/ RunnerStep(n)
          \/ MulvalExits(n)
          \/ ChildrenEnd(n)
          \/ SetupFails(n)
          \/ ListenerStep(n)
          \/ CancelExpires(n)
    \/ Shutdown
    \/ Exit
    \/ Restart

Spec == Init /\ [][Next]_vars

\* The Go scheduler runs every goroutine that can run.  Nothing makes a client
\* send a request, graph_gen.sh or a process it has started end, or an operator
\* stop the server.
Fairness ==
    /\ \A c \in Creators : WF_vars(CreatorStep(c))
    /\ \A k \in Cancellers : WF_vars(CancellerStep(k))
    /\ \A n \in Names : WF_vars(RunnerStep(n)) /\ WF_vars(ListenerStep(n))

----------------------------------------------------------------------------
(* Properties *)

\* A server that has not been stopped and has met no failure.
Undisturbed == faults = 0 /\ exits = 0 /\ server = "up"

\* Another analysis of the same inputs has succeeded at some time: the unique
\* index may have rejected the success of n.
Superseded(n) ==
    \E m \in Names \ {n} :
        analyses[m].output /\ Exists(n) /\ SameHash(m, n)

\* The executor rejects n.
Unlaunchable(n) == Exists(n) /\ Blank(analyses[n].input)

\* The handler c has inserted the row of n and not yet launched or failed it.
Launching(c, n) == creator[c].created /\ creator[c].name = n

\* Every variable has the values its handler or goroutine gives it.
TypeOK ==
    /\ StoreTypeOK
    /\ creator \in [Creators -> Creator]
    /\ canceller \in [Cancellers -> Canceller]
    /\ runner \in [Names -> RunnerPC]
    /\ listener \in [Names -> ListenerPC]
    /\ signalled \subseteq Names
    /\ cancelStream \subseteq Names
    /\ published \subseteq Names
    /\ server \in ServerPC
    /\ faults \in 0 .. MaxFaults
    /\ exits \in 0 .. MaxExits

\* An analysis gets one verdict: however requests with the same analysis_id
\* race, are retried or are answered by a new process, no row ever holds both
\* the outputs of one run and the error of another.
OneVerdict == \A n \in Names : ~(analyses[n].output /\ analyses[n].error)

\* An operation is executed once.  A handler that finds the row, also one
\* that has raced with the insert, and a handler of a restarted server start
\* no second goroutine for it; not even for a RUNNING row whose goroutine was
\* lost with its process.  context.go says of the cancelled root context that
\* "the operation can be retried by another executor": no executor ever does.
NeverRelaunched ==
    [][\A n \in Names :
         runner[n] # "none" => \/ runner'[n] # "starting"
                               \/ runner[n] = "starting"]_vars

\* A RUNNING row that no handler will launch and no goroutine will finish, for
\* another reason than that an identical analysis has succeeded first.
Orphaned(n) ==
    /\ analyses[n].state = "RUNNING"
    /\ \A c \in Creators : ~Launching(c, n)
    /\ runner[n] \notin InFlight
    /\ ~Superseded(n)

\* Nothing is forgotten, and what a failure costs.  As long as nobody stops
\* the server, every RUNNING row has somebody to end it, but for one row at
\* most for each statement, message or subscription that has failed: whichever
\* it was, and whatever races with it.
OrphansAreFailures ==
    server = "up" /\ exits = 0 =>
        Cardinality({n \in Names : Orphaned(n)}) <= faults

\* A row has been cancelled and its signal is on the stream or about to be.
CancelOnItsWay(n) ==
    \/ n \in cancelStream
    \/ \E k \in Cancellers : canceller[k] = [pc |-> "publish", name |-> n]

\* No cancel is lost on its way.  A run that has not ended under a CANCELLED
\* row has been aborted, or has a listener that will get the signal; also when
\* the cancel came before the launch, between the launch and the subscription,
\* when several cancels race, and after a restart.
NoLostCancel ==
    faults = 0 =>
        \A n \in Names :
            analyses[n].state = "CANCELLED" /\ runner[n] \in {"starting", "running"}
            => \/ Aborted(n)
               \/ listener[n] \in {"subscribing", "polling"} /\ CancelOnItsWay(n)

\* The DB write precedes the signal: once a cancel message for n is on its
\* way or has fired Abort, the row is terminal for good.  This is what lets
\* the executor leave the row alone when it finds Abort fired.
SignalFollowsWrite ==
    \A n \in cancelStream \cup signalled : IsTerminal(analyses[n].state)

\* An OK answer of CancelOperation means that the row is terminal, whatever
\* the executor, other cancels and restarts do in the meantime.
CancelOkIsTerminal ==
    \A k \in Cancellers :
        canceller[k].pc = "ok" => IsTerminal(analyses[canceller[k].name].state)

\* A create request is answered with the operation it named or with one of
\* the same inputs, and that operation exists.
AnswerIsRelevant ==
    [][\A c \in Creators :
         LET n == creator'[c].answer
         IN  creator[c].pc # "answered" /\ n # NoName =>
               /\ Exists(n)
               /\ \/ n = creator[c].name
                  \/ HashInputs(analyses[n].input) = HashInputs(creator[c].input)]_vars

\* An update is published after the row was written: a subscriber that is
\* woken finds a terminal row, unless a statement failed, the server was
\* stopped, or the unique index rejected the write.
UpdateFollowsWrite ==
    Undisturbed =>
        \A n \in published : IsTerminal(analyses[n].state) \/ Superseded(n)

\* wait.go: an update wakes the waiter to a terminal row, "since
\* PublishOperationUpdate is called after DB write".
UpdateMeansTerminal == \A n \in published : IsTerminal(analyses[n].state)

\* executor.go: Wait "blocks until all in-flight operations have reached a
\* terminal state", after the root context is cancelled.
DrainedIsTerminal ==
    /\ server = "stopping"
    /\ \A n \in Names : runner[n] \notin InFlight
    => \A n \in Names : runner[n] = "done" => IsTerminal(analyses[n].state)

\* cancel.go: "If the operation is already in a terminal state, the call
\* succeeds without modifying anything."
CancelSparesTerminal ==
    [][\A n \in Names : analyses[n].state \in {"SUCCEEDED", "FAILED"} =>
                          analyses'[n].state # "CANCELLED"]_vars

\* analysis.proto: a request whose analysis_id exists is answered with that
\* operation.
RetryReturnsExisting ==
    [][\A c \in Creators :
         /\ creator[c].pc = "lookup"
         /\ Exists(creator[c].name)
         /\ creator'[c].answer # NoName
         => creator'[c].answer = creator[c].name]_vars

\* Every analysis comes to an end when MulVAL does: its row becomes terminal,
\* or an identical analysis has succeeded before it.
EventuallyDecided ==
    (\A n \in Names : WF_vars(MulvalExits(n))) =>
        \A n \in Names :
            Exists(n) ~> \/ IsTerminal(analyses[n].state)
                        \/ Superseded(n)
                        \/ ~Undisturbed

\* A cancel is not lost, also one that precedes the launch or the
\* subscription, even if MulVAL itself never ends: the script is killed, or the
\* goroutine is done.  When a goroutine with a killed script is done is up to
\* the processes the script has started.
CancelStopsRun ==
    \A n \in Names :
        (\E k \in Cancellers : canceller[k] = [pc |-> "publish", name |-> n])
            ~> \/ runner[n] \in {"killed", "done"}
               \/ Unlaunchable(n)
               \/ ~Undisturbed

\* Why an analysis gets one verdict: one handler at most holds the right to
\* launch or to fail an operation, from the INSERT that made the row to the
\* launch; until then nobody runs it; and whoever writes a verdict has given
\* up the right to write another.
HandlersHold ==
    \A c \in Creators :
        /\ creator[c].pc \notin {"idle", "answered"} =>
              creator[c].name \in Names /\ creator[c].input \in Inputs
        /\ creator[c].pc \in {"launch", "cleanup"} => creator[c].created
        /\ creator[c].pc \in {"fetch", "launch", "cleanup"} =>
              Exists(creator[c].name)
        /\ creator[c].created =>
              /\ creator[c].pc \in {"fetch", "launch", "cleanup"}
              /\ runner[creator[c].name] = "none"

OneHolder ==
    \A c, d \in Creators :
        /\ creator[c].created /\ creator[d].created
        /\ creator[c].name = creator[d].name
        => c = d

VerdictIsLast ==
    \A n \in Names :
        /\ ~Exists(n) => /\ ~analyses[n].output /\ ~analyses[n].error
                         /\ runner[n] = "none"
        /\ analyses[n].output => runner[n] \in {"publish", "done", "lost"}
        /\ analyses[n].error =>
              /\ runner[n] \in {"none", "publish", "done", "lost"}
              /\ \A c \in Creators : ~Launching(c, n)

LaunchRight == HandlersHold /\ OneHolder /\ VerdictIsLast

\* A handler that has marked a row, or found it terminal, and a signal that
\* has been sent, leave a terminal row behind.
CancelProgress ==
    \A k \in Cancellers :
        /\ canceller[k].pc # "idle" => canceller[k].name \in Names
        /\ canceller[k].pc = "mark" => Exists(canceller[k].name)
        /\ canceller[k].pc \in {"publish", "ok"} =>
              IsTerminal(analyses[canceller[k].name].state)

\* The inductive invariant.
IInv ==
    /\ TypeOK
    /\ LaunchRight
    /\ OneVerdict
    /\ CancelProgress
    /\ SignalFollowsWrite

\* The lifecycle of AnalysisLifecycle, read off the rows: the table, under
\* every race, failure, crash and restart of this module, implements it.
Verdict(row) == CASE row.output -> "result"
                  [] ~row.output /\ row.error -> "failure"
                  [] OTHER -> "none"

Lifecycle ==
    INSTANCE AnalysisLifecycle
        WITH status  <- [n \in Names |-> analyses[n].state],
             verdict <- [n \in Names |-> Verdict(analyses[n])]

ImplementsLifecycle == Lifecycle!LifecycleSpec
============================================================================

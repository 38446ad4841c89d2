--------------------------- MODULE WaitOperation ---------------------------
(***************************************************************************)
(* WaitOperation handlers composed with AnalysisRun: a handler reads the   *)
(* row, subscribes to the updates of the operation, reads the row again    *)
(* and then sleeps until an update or its timeout wakes it.                *)
(*                                                                         *)
(* The operation stream has the interest policy: an update goes to the     *)
(* consumers that exist when it is published and is kept only until all of *)
(* them have it.  A consumer is an ordered consumer of its own for every   *)
(* handler, created on the server before Subscribe returns.                *)
(***************************************************************************)
EXTENDS AnalysisRun

CONSTANT Waiters    \* WaitOperation handlers

VARIABLES
    waiter,    \* waiter[w]: the WaitOperation handler w
    inbox      \* handlers with an update on their consumer or channel

waitVars == <<waiter, inbox>>

allVars == <<vars, waitVars>>

----------------------------------------------------------------------------
WaiterPC == {"idle", "check", "subscribe", "recheck", "select", "reread",
             "fallback", "lastRead"}

Waiter == [pc : WaiterPC, name : Names \cup {NoName}]

IdleWaiter == [pc |-> "idle", name |-> NoName]

WaitInit ==
    /\ Init
    /\ waiter = [w \in Waiters |-> IdleWaiter]
    /\ inbox = {}

----------------------------------------------------------------------------
WaiterAt(w, pc) == waiter[w].pc = pc

WaiterGoes(w, pc) == waiter' = [waiter EXCEPT ![w].pc = pc]

\* A mutant of Return: no deferred stop().
ReturnWithoutStop(w) ==
    /\ waiter' = [waiter EXCEPT ![w] = IdleWaiter]
    /\ UNCHANGED inbox

\* The handler returns an answer or an error; its deferred stop() removes the
\* consumer.
Return(w) ==
    /\ waiter' = [waiter EXCEPT ![w] = IdleWaiter]
    /\ inbox' = inbox \ {w}

\* A consumer exists between Subscribe and stop().
Subscribed(w) == waiter[w].pc \in {"recheck", "select", "reread", "lastRead"}

\* The statements of WaitOperation leave everything of AnalysisRun alone but
\* the count of failures.
WaiterOnly == UNCHANGED <<analyses, creator, canceller, runVars, cancelStream,
                          serverVars>>

WaitRequest(w, n) ==
    /\ server # "down"
    /\ WaiterAt(w, "idle")
    /\ waiter' = [waiter EXCEPT ![w] = [pc |-> "check", name |-> n]]
    /\ UNCHANGED <<inbox, faults>>
    /\ WaiterOnly

\* Reads the row: a missing one and a failed read are errors, a terminal one
\* is the answer, and a RUNNING one takes the handler to the given pc.
ReadRow(w, from, to) ==
    LET n == waiter[w].name
    IN  /\ WaiterAt(w, from)
        /\ \/ analyses[n].state # "RUNNING" /\ Return(w) /\ NoFault
           \/ /\ analyses[n].state = "RUNNING"
              /\ WaiterGoes(w, to)
              /\ UNCHANGED inbox
              /\ NoFault
           \/ Fault /\ Return(w)
        /\ WaiterOnly

Check(w) == ReadRow(w, "check", "subscribe")

\* An update that another consumer has not received yet is on the stream and
\* may be delivered to the new consumer too (DeliverAllPolicy).
Retained(n) == \E v \in inbox : waiter[v].name = n

\* A mutant of Subscribe: no second check after it.
SubscribeAndSleep(w) ==
    /\ WaiterAt(w, "subscribe")
    /\ \/ WaiterGoes(w, "select") /\ UNCHANGED inbox /\ NoFault
       \/ Fault /\ WaiterGoes(w, "fallback") /\ UNCHANGED inbox
    /\ WaiterOnly

\* SubscribeOperationUpdate.  Without NATS the handler sleeps out its timeout.
Subscribe(w) ==
    /\ WaiterAt(w, "subscribe")
    /\ \/ /\ WaiterGoes(w, "recheck")
          /\ \/ UNCHANGED inbox
             \/ Retained(waiter[w].name) /\ inbox' = inbox \cup {w}
          /\ NoFault
       \/ Fault /\ WaiterGoes(w, "fallback") /\ UNCHANGED inbox
    /\ WaiterOnly

Recheck(w) == ReadRow(w, "recheck", "select")

\* The select of the loop takes an update, which carries no state.
Receive(w) ==
    /\ WaiterAt(w, "select")
    /\ w \in inbox
    /\ inbox' = inbox \ {w}
    /\ WaiterGoes(w, "reread")
    /\ UNCHANGED faults
    /\ WaiterOnly

Reread(w) == ReadRow(w, "reread", "select")

\* The deadline of waitCtx.
TimeOut(w) ==
    /\ waiter[w].pc \in {"select", "fallback"}
    /\ WaiterGoes(w, "lastRead")
    /\ UNCHANGED <<inbox, faults>>
    /\ WaiterOnly

\* The client has gone and the request context with it.
ClientLeaves(w) ==
    /\ WaiterAt(w, "select")
    /\ Return(w)
    /\ UNCHANGED faults
    /\ WaiterOnly

\* The row as it is after the timeout is the answer.  The error of this read
\* is dropped and the client told that there is no such operation.
LastRead(w) ==
    /\ WaiterAt(w, "lastRead")
    /\ Return(w)
    /\ NoFault \/ Fault
    /\ WaiterOnly

\* The ordered consumer is reset after a lost connection, and the stream has
\* dropped the update in between.
UpdateLost(w) ==
    /\ w \in inbox
    /\ inbox' = inbox \ {w}
    /\ Fault
    /\ UNCHANGED waiter
    /\ WaiterOnly

WaiterStep(w) ==
    \/ Check(w)
    \/ Subscribe(w)
    \/ Recheck(w)
    \/ Receive(w)
    \/ Reread(w)
    \/ LastRead(w)

----------------------------------------------------------------------------
\* A step of AnalysisRun as the waiters see it: an update published in it is
\* put on every consumer of its subject, and the end of the process ends
\* every handler.
Deliver ==
    LET woken == {w \in Waiters : /\ Subscribed(w)
                                  /\ waiter[w].name \in published' \ published}
    IN  IF server' = "down"
        THEN /\ waiter' = [w \in Waiters |-> IdleWaiter]
             /\ inbox' = {}
        ELSE inbox' = inbox \cup woken /\ UNCHANGED waiter

WaitNext ==
    \/ Next /\ Deliver
    \/ \E w \in Waiters :
          \/ \E n \in Names : WaitRequest(w, n)
          \/ WaiterStep(w)
          \/ TimeOut(w)
          \/ ClientLeaves(w)
          \/ UpdateLost(w)

\* Nothing is assumed of timeouts: what follows does not need them.
WaitSpec ==
    /\ WaitInit
    /\ [][WaitNext]_allVars
    /\ Fairness
    /\ \A w \in Waiters : WF_allVars(WaiterStep(w))

----------------------------------------------------------------------------
(* Properties *)

\* Every handler is at one of its steps, and only a consumer has updates.
WaitTypeOK ==
    /\ waiter \in [Waiters -> Waiter]
    /\ inbox \subseteq {w \in Waiters : Subscribed(w)}

\* Whoever ends n is still to publish its update: the goroutine, or the
\* handler that will launch it.
UpdateToCome(n) ==
    runner[n] \in InFlight \/ \E c \in Creators : Launching(c, n)

\* No lost wakeup.  Wherever the completion falls between the two checks, the
\* subscription and the select, a handler that sleeps on a terminal row has
\* an update waiting or to come.  Two kinds of operations never publish one:
\* those the executor rejected, and those whose run ended before a cancel
\* because the unique index rejected their result.
NoLostWakeup ==
    Undisturbed =>
        \A w \in Waiters :
            LET n == waiter[w].name
            IN  WaiterAt(w, "select") /\ IsTerminal(analyses[n].state) =>
                    \/ w \in inbox
                    \/ UpdateToCome(n)
                    \/ Unlaunchable(n)
                    \/ Superseded(n)

============================================================================

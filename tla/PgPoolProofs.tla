---------------------------- MODULE PgPoolProofs ----------------------------
(* The safety properties of PgPool, for any callers and pools. *)
EXTENDS PgPool, TLAPS

\* A caller without a pool yet: only its pc changes.
LEMMA CallKeeps ==
    ASSUME PoolInv, NEW c \in Callers, Call(c)
    PROVE  PoolInv'
<1>1. PoolTypeOK'
  BY PoolAssumption DEF PoolInv, Call, PoolTypeOK, Goto, manager, CallerPC,
     Threads
<1>2. Owners'
  BY DEF PoolInv, Call, Owners, Goto, manager, Locked
<1>3. ThreadsKnow' /\ PoolIsOpen' /\ NoLeak' /\ UsersAreWaitedFor'
  BY DEF PoolInv, Call, ThreadsKnow, PoolIsOpen, NoLeak, UsersAreWaitedFor,
     Goto, manager
<1>4. QED
  BY <1>1, <1>2, <1>3 DEF PoolInv

\* Nobody has m.mu, so nobody is probing a pool the caller might pick up.
LEMMA ReadPoolKeeps ==
    ASSUME PoolInv, NEW c \in Callers, ReadPool(c)
    PROVE  PoolInv'
<1>1. PoolTypeOK'
  BY DEF PoolInv, ReadPool, PoolTypeOK, Goto, Hold, manager, CallerPC,
     Threads
<1>2. Owners'
  BY PoolAssumption DEF PoolInv, ReadPool, Owners, PoolTypeOK, Goto, manager,
     Locked, Threads
<1>3. ThreadsKnow'
  BY PoolAssumption DEF PoolInv, ReadPool, ThreadsKnow, PoolTypeOK, Goto,
     Hold, manager
<1>4. PoolIsOpen' /\ NoLeak' /\ UsersAreWaitedFor'
  BY DEF PoolInv, ReadPool, PoolIsOpen, NoLeak, UsersAreWaitedFor, Goto,
     Hold, manager
<1>5. QED
  BY <1>1, <1>2, <1>3, <1>4 DEF PoolInv

\* The answer of the last check; recreatePool then unlocks m.mu.
LEMMA CheckIsRecentKeeps ==
    ASSUME PoolInv, NEW c \in Callers, CheckIsRecent(c)
    PROVE  PoolInv'
<1>1. PoolTypeOK'
  BY DEF PoolInv, CheckIsRecent, PoolTypeOK, Goto, Unlocked, CallerPC,
     Threads
<1>2. Owners'
  BY PoolAssumption DEF PoolInv, CheckIsRecent, Owners, PoolTypeOK, Goto,
     Unlocked, Locked
<1>3. ThreadsKnow' /\ PoolIsOpen' /\ NoLeak' /\ UsersAreWaitedFor'
  BY DEF PoolInv, CheckIsRecent, ThreadsKnow, PoolIsOpen, NoLeak,
     UsersAreWaitedFor, Goto
<1>4. QED
  BY <1>1, <1>2, <1>3 DEF PoolInv

\* hcMu is taken.
LEMMA StartPingKeeps ==
    ASSUME PoolInv, NEW c \in Callers, StartPing(c)
    PROVE  PoolInv'
<1>1. PoolTypeOK'
  BY DEF PoolInv, StartPing, PoolTypeOK, Goto, CallerPC, Locked, Threads
<1>2. Owners'
  BY PoolAssumption DEF PoolInv, StartPing, Owners, PoolTypeOK, Goto,
     Locked, Threads
<1>3. ThreadsKnow' /\ PoolIsOpen' /\ NoLeak' /\ UsersAreWaitedFor'
  BY DEF PoolInv, StartPing, ThreadsKnow, PoolIsOpen, NoLeak,
     UsersAreWaitedFor, Goto
<1>4. QED
  BY <1>1, <1>2, <1>3 DEF PoolInv

\* hcMu is released; m.mu too, when recreatePool has its answer.
LEMMA PingKeeps ==
    ASSUME PoolInv, NEW c \in Callers, Ping(c)
    PROVE  PoolInv'
<1>1. PoolTypeOK'
  BY DEF PoolInv, Ping, PoolTypeOK, Goto, Unlocked, CallerPC, Locked,
     Threads
<1>2. Owners'
  BY PoolAssumption DEF PoolInv, Ping, Owners, PoolTypeOK, Goto, Unlocked,
     Locked, Threads
<1>3. ThreadsKnow'
  BY DEF PoolInv, Ping, ThreadsKnow, PoolTypeOK, Goto, Threads
<1>4. PoolIsOpen'
  BY DEF PoolInv, Ping, PoolIsOpen, PoolTypeOK, Goto
<1>5. NoLeak'
  BY DEF PoolInv, Ping, NoLeak, PoolTypeOK, Goto, Threads
<1>6. UsersAreWaitedFor'
  BY DEF PoolInv, Ping, UsersAreWaitedFor, PoolTypeOK, Goto, Threads
<1>7. QED
  BY <1>1, <1>2, <1>3, <1>4, <1>5, <1>6 DEF PoolInv

\* With m.mu locked, what the caller reads of m.pool stays true.
LEMMA LockManagerKeeps ==
    ASSUME PoolInv, NEW c \in Callers, LockManager(c)
    PROVE  PoolInv'
<1>1. PoolTypeOK'
  BY DEF PoolInv, LockManager, PoolTypeOK, Goto, Hold, CallerPC, Locked,
     Threads
<1>2. Owners'
  BY PoolAssumption DEF PoolInv, LockManager, Owners, PoolTypeOK, Goto,
     Locked, Threads
<1>3. ThreadsKnow'
  BY PoolAssumption DEF PoolInv, LockManager, ThreadsKnow, PoolTypeOK, Goto,
     Hold
<1>4. PoolIsOpen' /\ NoLeak' /\ UsersAreWaitedFor'
  BY DEF PoolInv, LockManager, PoolIsOpen, NoLeak, UsersAreWaitedFor, Goto,
     Hold
<1>5. QED
  BY <1>1, <1>2, <1>3, <1>4 DEF PoolInv

\* m.pool is open until now, and no other pool is.
LEMMA BeginCloseKeeps ==
    ASSUME PoolInv, NEW c \in Callers, BeginClose(c)
    PROVE  PoolInv'
<1>1. PoolTypeOK'
  BY DEF PoolInv, BeginClose, PoolTypeOK, Goto, manager, CallerPC, Locked,
     Threads
<1>2. Owners'
  BY DEF PoolInv, BeginClose, Owners, Goto, manager, Locked
<1>3. ThreadsKnow'
  BY PoolAssumption DEF PoolInv, BeginClose, ThreadsKnow, PoolTypeOK,
     Owners, PoolIsOpen, NoLeak, Goto, manager, CallerPC, Locked, Threads
<1>4. PoolIsOpen'
  BY DEF PoolInv, BeginClose, PoolIsOpen, PoolTypeOK, Goto, manager, Threads
<1>5. NoLeak' /\ UsersAreWaitedFor'
  BY DEF PoolInv, BeginClose, NoLeak, UsersAreWaitedFor, Goto, manager
<1>6. QED
  BY <1>1, <1>2, <1>3, <1>4, <1>5 DEF PoolInv

\* m.pool is closed and without users, so no pool is open and none in use.
LEMMA EndCloseKeeps ==
    ASSUME PoolInv, NEW c \in Callers, EndClose(c)
    PROVE  PoolInv'
<1>1. PoolTypeOK'
  BY PoolAssumption DEF PoolInv, EndClose, PoolTypeOK, Goto, Hold, CallerPC,
     Locked, Threads
<1>2. Owners'
  BY PoolAssumption DEF PoolInv, EndClose, Owners, Goto, Locked
<1>3. ThreadsKnow'
  BY PoolAssumption DEF PoolInv, EndClose, ThreadsKnow, PoolTypeOK, Owners,
     Goto, Hold, Locked
<1>4. NoLeak'
  BY DEF PoolInv, EndClose, NoLeak, PoolIsOpen, Goto, Hold, Threads
<1>5. UsersAreWaitedFor'
  BY DEF PoolInv, EndClose, UsersAreWaitedFor, Goto, Users
<1>6. PoolIsOpen'
  BY DEF PoolInv, EndClose, PoolIsOpen
<1>7. QED
  BY <1>1, <1>2, <1>3, <1>4, <1>5, <1>6 DEF PoolInv

\* m.pool stays nil.
LEMMA ResetKeeps ==
    ASSUME PoolInv, NEW c \in Callers, Reset(c)
    PROVE  PoolInv'
<1>1. PoolTypeOK'
  BY DEF PoolInv, Reset, PoolTypeOK, Goto, CallerPC, Locked, Threads
<1>2. Owners'
  BY DEF PoolInv, Reset, Owners, Goto, Locked
<1>3. ThreadsKnow' /\ PoolIsOpen' /\ NoLeak' /\ UsersAreWaitedFor'
  BY DEF PoolInv, Reset, ThreadsKnow, PoolIsOpen, NoLeak, UsersAreWaitedFor,
     Goto
<1>4. QED
  BY <1>1, <1>2, <1>3 DEF PoolInv

\* m.pool stays nil, and m.mu is released.
LEMMA ConnectFailsKeeps ==
    ASSUME PoolInv, NEW c \in Callers, ConnectFails(c)
    PROVE  PoolInv'
<1>1. PoolTypeOK'
  BY DEF PoolInv, ConnectFails, PoolTypeOK, Goto, CallerPC, Threads
<1>2. Owners'
  BY PoolAssumption DEF PoolInv, ConnectFails, Owners, PoolTypeOK, Goto,
     Locked
<1>3. ThreadsKnow' /\ PoolIsOpen' /\ NoLeak' /\ UsersAreWaitedFor'
  BY DEF PoolInv, ConnectFails, ThreadsKnow, PoolIsOpen, NoLeak,
     UsersAreWaitedFor, Goto
<1>4. QED
  BY <1>1, <1>2, <1>3 DEF PoolInv

\* No pool was open, so the new one is the only one, and only c knows it.
LEMMA ConnectKeeps ==
    ASSUME PoolInv, NEW c \in Callers, Connect(c)
    PROVE  PoolInv'
<1>1. PoolTypeOK'
  BY DEF PoolInv, Connect, PoolTypeOK, Goto, Hold, manager, Unused,
     CallerPC, Locked, Threads
<1>2. Owners'
  BY DEF PoolInv, Connect, Owners, Goto, manager, Locked
<1>3. ThreadsKnow'
  BY DEF PoolInv, Connect, ThreadsKnow, PoolTypeOK, Goto, Hold, manager,
     Unused
<1>4. PoolIsOpen'
  BY DEF PoolInv, Connect, PoolIsOpen, Goto, manager, Unused
<1>5. NoLeak'
  BY PoolAssumption DEF PoolInv, Connect, NoLeak, PoolTypeOK, Owners,
     ThreadsKnow, Goto, Hold, Locked
<1>6. UsersAreWaitedFor'
  BY DEF PoolInv, Connect, UsersAreWaitedFor, Goto, Hold, manager
<1>7. QED
  BY <1>1, <1>2, <1>3, <1>4, <1>5, <1>6 DEF PoolInv

\* The new pool becomes m.pool.
LEMMA ProbeSucceedsKeeps ==
    ASSUME PoolInv, NEW c \in Callers, ProbeSucceeds(c)
    PROVE  PoolInv'
<1>1. PoolTypeOK'
  BY DEF PoolInv, ProbeSucceeds, PoolTypeOK, Goto, CallerPC, Threads
<1>2. Owners'
  BY PoolAssumption DEF PoolInv, ProbeSucceeds, Owners, PoolTypeOK, Goto,
     Locked
<1>3. ThreadsKnow'
  BY PoolAssumption DEF PoolInv, ProbeSucceeds, ThreadsKnow, PoolTypeOK,
     Owners, Goto, Locked
<1>4. PoolIsOpen'
  BY DEF PoolInv, ProbeSucceeds, PoolIsOpen, Owners, ThreadsKnow, Goto,
     Locked, Threads
<1>5. NoLeak'
  BY DEF PoolInv, ProbeSucceeds, NoLeak, ThreadsKnow
<1>6. UsersAreWaitedFor'
  BY DEF PoolInv, ProbeSucceeds, UsersAreWaitedFor, ThreadsKnow, Goto
<1>7. QED
  BY <1>1, <1>2, <1>3, <1>4, <1>5, <1>6 DEF PoolInv

\* It is closed again, and no pool is left.
LEMMA ProbeFailsKeeps ==
    ASSUME PoolInv, NEW c \in Callers, ProbeFails(c)
    PROVE  PoolInv'
<1>1. PoolTypeOK'
  BY DEF PoolInv, ProbeFails, PoolTypeOK, Goto, Hold, CallerPC, Threads
<1>2. Owners'
  BY PoolAssumption DEF PoolInv, ProbeFails, Owners, PoolTypeOK, Goto,
     Locked
<1>3. ThreadsKnow'
  BY PoolAssumption DEF PoolInv, ProbeFails, ThreadsKnow, PoolTypeOK, Goto,
     Hold, Threads
<1>4. PoolIsOpen'
  BY DEF PoolInv, ProbeFails, PoolIsOpen, ThreadsKnow
<1>5. NoLeak' /\ UsersAreWaitedFor'
  BY DEF PoolInv, ProbeFails, NoLeak, UsersAreWaitedFor, Goto, Hold
<1>6. QED
  BY <1>1, <1>2, <1>3, <1>4, <1>5 DEF PoolInv

\* An open pool that another caller than its maker holds is m.pool.
LEMMA StatementKeeps ==
    ASSUME PoolInv, NEW c \in Callers, Statement(c)
    PROVE  PoolInv'
<1>1. PoolTypeOK'
  BY DEF PoolInv, Statement, PoolTypeOK, Goto, manager, CallerPC, Threads
<1>2. Owners'
  BY DEF PoolInv, Statement, Owners, Goto, manager, Locked
<1>3. ThreadsKnow'
  BY PoolAssumption DEF PoolInv, Statement, ThreadsKnow, PoolTypeOK, Goto,
     manager, Alive
<1>4. UsersAreWaitedFor'
  BY DEF PoolInv, Statement, UsersAreWaitedFor, ThreadsKnow, NoLeak, Goto,
     manager, Alive
<1>5. PoolIsOpen' /\ NoLeak'
  BY DEF PoolInv, Statement, PoolIsOpen, NoLeak, Goto, manager
<1>6. QED
  BY <1>1, <1>2, <1>3, <1>4, <1>5 DEF PoolInv

\* The caller forgets its pool.
LEMMA FinishKeeps ==
    ASSUME PoolInv, NEW c \in Callers, Finish(c)
    PROVE  PoolInv'
<1>1. PoolTypeOK'
  BY DEF PoolInv, Finish, PoolTypeOK, Goto, Hold, manager, CallerPC, Threads
<1>2. Owners'
  BY DEF PoolInv, Finish, Owners, Goto, manager, Locked
<1>3. ThreadsKnow'
  BY PoolAssumption DEF PoolInv, Finish, ThreadsKnow, PoolTypeOK, Goto,
     Hold, manager, Threads
<1>4. UsersAreWaitedFor'
  BY DEF PoolInv, Finish, UsersAreWaitedFor, PoolTypeOK, Goto, Hold,
     manager, Threads
<1>5. PoolIsOpen' /\ NoLeak'
  BY DEF PoolInv, Finish, PoolIsOpen, NoLeak, Goto, Hold, manager
<1>6. QED
  BY <1>1, <1>2, <1>3, <1>4, <1>5 DEF PoolInv

\* Close waits for m.mu.
LEMMA CloseRequestKeeps ==
    ASSUME PoolInv, CloseRequest
    PROVE  PoolInv'
<1>1. PoolTypeOK'
  BY PoolAssumption DEF PoolInv, CloseRequest, PoolTypeOK, Goto, manager,
     Threads
<1>2. Owners'
  BY PoolAssumption DEF PoolInv, CloseRequest, Owners, Goto, manager
<1>3. ThreadsKnow' /\ PoolIsOpen' /\ NoLeak' /\ UsersAreWaitedFor'
  BY DEF PoolInv, CloseRequest, ThreadsKnow, PoolIsOpen, NoLeak,
     UsersAreWaitedFor, Goto, manager
<1>4. QED
  BY <1>1, <1>2, <1>3 DEF PoolInv

\* Close takes m.mu, so nobody is probing a pool.
LEMMA LockToCloseKeeps ==
    ASSUME PoolInv, LockToClose
    PROVE  PoolInv'
<1>1. PoolTypeOK'
  BY DEF PoolInv, LockToClose, PoolTypeOK, Goto, CallerPC, Locked, Threads
<1>2. Owners'
  BY PoolAssumption DEF PoolInv, LockToClose, Owners, PoolTypeOK, Goto,
     Threads
<1>3. ThreadsKnow'
  BY PoolAssumption DEF PoolInv, LockToClose, ThreadsKnow, PoolTypeOK, Goto,
     Threads
<1>4. PoolIsOpen'
  BY DEF PoolInv, LockToClose, PoolIsOpen, PoolTypeOK, Goto, Threads
<1>5. NoLeak'
  BY DEF PoolInv, LockToClose, NoLeak, PoolTypeOK, Goto, Threads
<1>6. UsersAreWaitedFor'
  BY DEF PoolInv, LockToClose, UsersAreWaitedFor, PoolTypeOK, Goto, Threads
<1>7. QED
  BY <1>1, <1>2, <1>3, <1>4, <1>5, <1>6 DEF PoolInv

\* As EndClose, and m.mu is free again.
LEMMA FinishCloseKeeps ==
    ASSUME PoolInv, FinishClose
    PROVE  PoolInv'
<1>1. PoolTypeOK'
  BY DEF PoolInv, FinishClose, PoolTypeOK, Goto, CallerPC
<1>2. Owners'
  BY PoolAssumption DEF PoolInv, FinishClose, Owners, PoolTypeOK, Goto
<1>3. ThreadsKnow'
  BY PoolAssumption DEF PoolInv, FinishClose, ThreadsKnow, PoolTypeOK,
     Owners, Goto, Locked, Threads
<1>4. NoLeak'
  BY DEF PoolInv, FinishClose, NoLeak, PoolIsOpen, Goto, Threads
<1>5. UsersAreWaitedFor'
  BY DEF PoolInv, FinishClose, UsersAreWaitedFor, Goto, Users
<1>6. PoolIsOpen'
  BY DEF PoolInv, FinishClose, PoolIsOpen
<1>7. QED
  BY <1>1, <1>2, <1>3, <1>4, <1>5, <1>6 DEF PoolInv

\* The manager does not see it.
LEMMA DatabaseChangesKeeps ==
    ASSUME PoolInv, DatabaseChanges
    PROVE  PoolInv'
  BY DEF PoolInv, DatabaseChanges, PoolTypeOK, Owners, ThreadsKnow,
     PoolIsOpen, NoLeak, UsersAreWaitedFor, manager

\* No part of the invariant looks at the window.
LEMMA WindowEndsKeeps ==
    ASSUME PoolInv, WindowEnds
    PROVE  PoolInv'
  BY DEF PoolInv, WindowEnds, PoolTypeOK, Owners, ThreadsKnow, PoolIsOpen,
     NoLeak, UsersAreWaitedFor

----------------------------------------------------------------------------
\* The process starts without a pool.
LEMMA InitEstablishes == PoolInit => PoolInv
<1> SUFFICES ASSUME PoolInit
             PROVE  PoolInv
  OBVIOUS
<1>1. PoolTypeOK
  <2>1. pc \in [Threads -> CallerPC \cup {"closing"}]
    BY DEF PoolInit, CallerPC
  <2>2. pc[Main] = "idle" /\ closes \in 0 .. MaxCloses
    BY PoolAssumption DEF PoolInit, Threads
  <2>3. QED
    BY <2>1, <2>2 DEF PoolInit, PoolTypeOK
<1>2. \A t \in Threads : pc[t] = "idle"
  BY DEF PoolInit
<1>3. Owners
  BY <1>2, PoolAssumption DEF PoolInit, Owners, Threads, Locked
<1>4. ThreadsKnow /\ PoolIsOpen /\ NoLeak /\ UsersAreWaitedFor
  BY <1>2 DEF PoolInit, ThreadsKnow, PoolIsOpen, NoLeak, UsersAreWaitedFor,
     Threads
<1>5. QED
  BY <1>1, <1>3, <1>4 DEF PoolInv

\* Every step of a caller, of Close and of the database keeps the invariant.
LEMMA NextKeeps == PoolInv /\ [PoolNext]_poolVars => PoolInv'
<1> SUFFICES ASSUME PoolInv, [PoolNext]_poolVars
             PROVE  PoolInv'
  OBVIOUS
<1>1. ASSUME NEW c \in Callers, Call(c)
      PROVE  PoolInv'
  BY <1>1, CallKeeps
<1>2. ASSUME NEW c \in Callers, CallerStep(c)
      PROVE  PoolInv'
  <2>1. CASE Recreate(c)
    BY <2>1, LockManagerKeeps, BeginCloseKeeps, EndCloseKeeps, ResetKeeps,
       ConnectFailsKeeps, ConnectKeeps, ProbeSucceedsKeeps, ProbeFailsKeeps
       DEF Recreate
  <2>2. CASE ~Recreate(c)
    BY <1>2, <2>2, ReadPoolKeeps, CheckIsRecentKeeps, StartPingKeeps,
       PingKeeps, StatementKeeps, FinishKeeps DEF CallerStep
  <2>3. QED
    BY <2>1, <2>2
<1>3. CASE CloseRequest \/ CloseStep \/ DatabaseChanges \/ WindowEnds
  BY <1>3, CloseRequestKeeps, LockToCloseKeeps, FinishCloseKeeps,
     DatabaseChangesKeeps, WindowEndsKeeps DEF CloseStep
<1>4. CASE UNCHANGED poolVars
  BY <1>4 DEF poolVars, manager, PoolInv, PoolTypeOK, Owners, ThreadsKnow,
     PoolIsOpen, NoLeak, UsersAreWaitedFor
<1>5. QED
  BY <1>1, <1>2, <1>3, <1>4 DEF PoolNext

\* Who holds which lock, and what m.pool is meanwhile.
THEOREM PoolInvariant == PoolSpec => []PoolInv
<1>1. QED
  BY InitEstablishes, NextKeeps, PTL DEF PoolSpec

\* There is one pool with connections at most, and the manager has it or is
\* about to.
THEOREM NoPoolLeaks == PoolSpec => []NoLeak
<1>1. PoolInv => NoLeak
  BY DEF PoolInv
<1>2. QED
  BY <1>1, PoolInvariant, PTL

\* A statement runs on m.pool until it ends.
THEOREM StatementsAreWaitedFor == PoolSpec => []UsersAreWaitedFor
<1>1. PoolInv => UsersAreWaitedFor
  BY DEF PoolInv
<1>2. QED
  BY <1>1, PoolInvariant, PTL

\* Only ReadPool takes a caller from "read" to "check".
LEMMA OnlyReadPoolReads ==
    ASSUME PoolInv, NEW c \in Callers, [PoolNext]_poolVars,
           pc[c] = "read", pc'[c] = "check"
    PROVE  ReadPool(c)
<1>1. pc' # pc
  OBVIOUS
<1>2. ASSUME NEW d \in Callers, Call(d) \/ CallerStep(d)
      PROVE  ReadPool(c)
  <2>1. d = c
    BY <1>2 DEF PoolInv, PoolTypeOK, Call, CallerStep, Recreate, ReadPool,
       CheckIsRecent, StartPing, Ping, LockManager, BeginClose, EndClose,
       Reset, ConnectFails, Connect, ProbeSucceeds, ProbeFails, Statement,
       Finish, Goto, Threads
  <2>2. QED
    BY <1>2, <2>1 DEF PoolInv, PoolTypeOK, Call, CallerStep, Recreate,
       CheckIsRecent, StartPing, Ping, LockManager, BeginClose, EndClose,
       Reset, ConnectFails, Connect, ProbeSucceeds, ProbeFails, Statement,
       Finish, Goto, Threads
<1>3. ~(CloseRequest \/ CloseStep)
  BY PoolAssumption DEF PoolInv, PoolTypeOK, CloseRequest, CloseStep,
     LockToClose, FinishClose, Goto, Threads
<1>4. QED
  BY <1>1, <1>2, <1>3 DEF PoolNext, poolVars, DatabaseChanges, WindowEnds

\* m.mu is not locked when a caller reads m.pool, so nobody is closing it.
THEOREM CallersReadOpenPools == PoolSpec => ReadsOpenPool
<1>1. PoolInv /\ [PoolNext]_poolVars =>
        [\A c \in Callers :
            pc[c] = "read" /\ pc'[c] = "check"
                => held'[c] \in openPools]_poolVars
  <2> SUFFICES ASSUME PoolInv, [PoolNext]_poolVars, NEW c \in Callers,
                      pc[c] = "read", pc'[c] = "check"
               PROVE  held'[c] \in openPools
    OBVIOUS
  <2>1. ReadPool(c)
    BY OnlyReadPoolReads
  <2>2. held'[c] = pool /\ pool # NoPool /\ mu = NoOne
    BY <2>1 DEF ReadPool, Hold, Goto, PoolInv, PoolTypeOK, Threads
  <2>3. \A t \in Threads : pc[t] # "drain"
    BY <2>2, PoolAssumption DEF PoolInv, Owners, Threads, Locked
  <2>4. QED
    BY <2>2, <2>3 DEF PoolInv, PoolIsOpen
<1>2. QED
  BY <1>1, PoolInvariant, PTL DEF PoolSpec, ReadsOpenPool

\* No circle of threads waits for each other, for any number of callers and of
\* connections: what each of them holds is known by its pc.
THEOREM NoCircleOfWaits == PoolSpec => []WaitsAreOrdered
<1>1. PoolInv => WaitsAreOrdered
  <2> SUFFICES ASSUME PoolInv, NEW t \in Threads, NEW u \in WaitsFor(t)
               PROVE  u \in Threads /\ Rank(u) < Rank(t)
    BY DEF WaitsAreOrdered
  <2>1. CASE pc[t] \in {"read", "lock", "closing"}
    <3>1. u = mu /\ u \in Threads
      BY <2>1 DEF WaitsFor, PoolInv, PoolTypeOK
    <3>2. pc[u] \in Locked
      BY <3>1 DEF PoolInv, Owners, Threads, Locked
    <3>3. Rank(u) \in {1, 2} /\ Rank(t) = 3
      BY <2>1, <3>2 DEF Rank, Locked
    <3>4. QED
      BY <3>1, <3>3
  <2>2. CASE pc[t] \in {"check", "recheck", "reset"}
    <3>1. u = hcMu /\ u \in Callers
      BY <2>2 DEF WaitsFor, PoolInv, PoolTypeOK
    <3>2. pc[u] \in {"ping", "reping"}
      BY <3>1 DEF PoolInv, Owners
    <3>3. Rank(u) = 1 /\ Rank(t) = 2
      BY <2>2, <3>2 DEF Rank
    <3>4. QED
      BY <3>1, <3>3 DEF Threads
  <2>3. CASE pc[t] \in {"ping", "reping", "got", "drain"}
    <3>1. u \in Callers /\ pc[u] = "using"
      BY <2>3 DEF WaitsFor, Users
    <3>2. Rank(u) = 0 /\ Rank(t) = 1
      BY <2>3, <3>1 DEF Rank
    <3>3. QED
      BY <3>1, <3>2 DEF Threads
  <2>4. QED
    BY <2>1, <2>2, <2>3 DEF WaitsFor
<1>2. QED
  BY <1>1, PoolInvariant, PTL

----------------------------------------------------------------------------
(* The manager implements ConnectionPool *)

\* One step of the abstract pool, or none.
PoolStep == [Leased!ConnectionPoolNext]_<<Phase, Leases>>

\* Steps of a caller that has no connection and gets none, on a pool that stays
\* what it is: the local variable, the mutexes and the health check move.
LEMMA CallerLeavesPool ==
    ASSUME PoolInv, NEW c \in Callers,
           \/ Call(c) \/ ReadPool(c) \/ CheckIsRecent(c) \/ StartPing(c)
           \/ Ping(c) \/ LockManager(c) \/ Reset(c) \/ ConnectFails(c)
    PROVE  PoolStep
<1>1. /\ pc[c] # "using" /\ pool' = pool /\ openPools' = openPools
      /\ \E l \in CallerPC \ {"using"} : Goto(c, l)
  BY DEF Call, ReadPool, CheckIsRecent, StartPing, Ping, LockManager, Reset,
     ConnectFails, manager, CallerPC, Locked
<1>2. Phase' = Phase
  BY <1>1 DEF Phase
<1>3. Leases' = Leases
  BY <1>1 DEF Leases, Goto, PoolInv, PoolTypeOK, Threads
<1>4. QED
  BY <1>2, <1>3 DEF PoolStep

\* A new pool is nobody's until its probe has answered.
LEMMA ProbeLeavesPool ==
    ASSUME PoolInv, NEW c \in Callers, Connect(c) \/ ProbeFails(c)
    PROVE  PoolStep
<1>1. pool = NoPool /\ pool' = pool
  BY DEF PoolInv, ThreadsKnow, Connect, ProbeFails, manager
<1>2. Phase' = Phase
  BY <1>1 DEF Phase
<1>3. Leases' = Leases
  BY DEF Leases, Connect, ProbeFails, Goto, PoolInv, PoolTypeOK, Threads
<1>4. QED
  BY <1>2, <1>3 DEF PoolStep

\* Then it is m.pool, and open.
LEMMA ProbeOpens ==
    ASSUME PoolInv, NEW c \in Callers, ProbeSucceeds(c)
    PROVE  PoolStep
<1>1. /\ pool = NoPool /\ pool' = held[c] /\ openPools' = openPools
      /\ held[c] \in openPools /\ held[c] # NoPool
  BY PoolAssumption
     DEF PoolInv, PoolTypeOK, ThreadsKnow, ProbeSucceeds
<1>2. Phase = "none" /\ Phase' = "open"
  BY <1>1 DEF Phase
<1>3. Leases' = Leases
  BY DEF Leases, ProbeSucceeds, Goto, PoolInv, PoolTypeOK, Threads
<1>4. QED
  BY <1>2, <1>3 DEF PoolStep, Leased!ConnectionPoolNext, Leased!Open

\* recreatePool and Close begin with an open pool: nobody is draining it.
LEMMA ClosingBegins ==
    ASSUME PoolInv,
           (\E c \in Callers : BeginClose(c)) \/ (LockToClose /\ pool # NoPool)
    PROVE  PoolStep
<1>1. pool # NoPool /\ \A t \in Threads : pc[t] # "drain"
  BY PoolAssumption DEF PoolInv, Owners, ThreadsKnow, PoolTypeOK, BeginClose,
     LockToClose, Locked, Threads
<1>2. /\ pool \in openPools /\ pool' = pool
      /\ openPools' = openPools \ {pool}
  BY <1>1 DEF PoolInv, PoolIsOpen, BeginClose, LockToClose, manager
<1>3. Phase = "open" /\ Phase' = "closing"
  BY <1>1, <1>2 DEF Phase
<1>4. Leases' = Leases
  BY PoolAssumption DEF Leases, BeginClose, LockToClose, Goto, PoolInv,
     PoolTypeOK, Threads
<1>5. QED
  BY <1>3, <1>4 DEF PoolStep, Leased!ConnectionPoolNext, Leased!BeginClose

\* They end when no statement is under way on it, so none at all: a statement
\* under way uses m.pool.
LEMMA ClosingEnds ==
    ASSUME PoolInv, (\E c \in Callers : EndClose(c)) \/ FinishClose
    PROVE  PoolStep
<1>1. /\ pool # NoPool /\ \E t \in Threads : pc[t] = "drain"
      /\ Users(pool) = {} /\ pool' = NoPool
  <2>1. CASE FinishClose
    <3>1. mu = Main /\ pc[Main] = "drain"
      BY <2>1 DEF FinishClose, PoolInv, Owners
    <3>2. Main \in Threads
      BY DEF Threads
    <3>3. pool # NoPool
      BY <3>1 DEF PoolInv, ThreadsKnow
    <3>4. QED
      BY <2>1, <3>1, <3>2, <3>3 DEF FinishClose
  <2>2. CASE \E c \in Callers : EndClose(c)
    BY <2>2 DEF EndClose, PoolInv, ThreadsKnow, Threads
  <2>3. QED
    BY <2>1, <2>2
<1>2. pool \notin openPools
  BY <1>1 DEF PoolInv, PoolIsOpen
<1>3. Leases = {}
  BY <1>1 DEF Leases, Users, PoolInv, UsersAreWaitedFor
<1>4. Leases' = Leases
  BY PoolAssumption DEF Leases, EndClose, FinishClose, Goto, PoolInv,
     PoolTypeOK, Threads
<1>5. Phase = "closing" /\ Phase' = "none"
  BY <1>1, <1>2 DEF Phase
<1>6. QED
  BY <1>3, <1>4, <1>5 DEF PoolStep, Leased!ConnectionPoolNext,
     Leased!EndClose

\* A statement gets a connection of an open pool, which is m.pool.
LEMMA StatementLeases ==
    ASSUME PoolInv, NEW c \in Callers, Statement(c)
    PROVE  PoolStep
<1>1. pool' = pool /\ openPools' = openPools
  BY DEF Statement, manager
<1>2. Phase' = Phase
  BY <1>1 DEF Phase
<1>3. CASE Alive(held[c])
  <2>1. held[c] = pool /\ pool \in openPools
    BY <1>3 DEF Alive, Statement, PoolInv, NoLeak, ThreadsKnow
  <2>2. Phase = "open"
    BY <2>1, PoolAssumption DEF Phase, PoolInv, PoolTypeOK
  <2>3. c \notin Leases /\ Leases' = Leases \cup {c}
    BY <1>3 DEF Leases, Statement, Goto, PoolInv, PoolTypeOK, Threads
  <2>4. QED
    BY <1>2, <2>2, <2>3
       DEF PoolStep, Leased!ConnectionPoolNext, Leased!Lease
<1>4. CASE ~Alive(held[c])
  <2>1. Leases' = Leases
    BY <1>4 DEF Leases, Statement, Goto, PoolInv, PoolTypeOK, Threads
  <2>2. QED
    BY <1>2, <2>1 DEF PoolStep
<1>5. QED
  BY <1>3, <1>4

\* A caller that had a connection returns it.
LEMMA FinishReturns ==
    ASSUME PoolInv, NEW c \in Callers, Finish(c)
    PROVE  PoolStep
<1>1. pool' = pool /\ openPools' = openPools
  BY DEF Finish, manager
<1>2. Phase' = Phase
  BY <1>1 DEF Phase
<1>3. Leases' = Leases \ {c}
  BY DEF Leases, Finish, Goto, PoolInv, PoolTypeOK, Threads
<1>4. CASE c \in Leases
  BY <1>2, <1>3, <1>4 DEF PoolStep, Leased!ConnectionPoolNext, Leased!Return
<1>5. CASE c \notin Leases
  BY <1>2, <1>3, <1>5 DEF PoolStep
<1>6. QED
  BY <1>4, <1>5

\* The request of Close, the database and time touch no pool.
LEMMA OthersLeavePool ==
    ASSUME PoolInv,
           \/ CloseRequest
           \/ LockToClose /\ pool = NoPool
           \/ DatabaseChanges \/ WindowEnds
           \/ UNCHANGED poolVars
    PROVE  PoolStep
<1>1. pool' = pool /\ openPools' = openPools
  BY DEF CloseRequest, LockToClose, DatabaseChanges, WindowEnds, poolVars,
     manager
<1>2. Phase' = Phase
  BY <1>1 DEF Phase
<1>3. Leases' = Leases
  BY PoolAssumption DEF CloseRequest, LockToClose, DatabaseChanges,
     WindowEnds, poolVars, Leases, Goto, PoolInv, PoolTypeOK, Threads
<1>4. QED
  BY <1>2, <1>3 DEF PoolStep

\* Any number of callers that probe, replace and close the pool of the manager
\* behave as clients of one pool that is never closed under a lease and never
\* leased from while it closes.
THEOREM PoolImplemented == PoolSpec => ImplementsPool
<1>1. PoolInit => Leased!ConnectionPoolInit
  <2> SUFFICES ASSUME PoolInit
               PROVE  Leased!ConnectionPoolInit
    OBVIOUS
  <2>1. Leases = {}
    BY DEF PoolInit, Leases, Threads
  <2>2. Phase = "none"
    BY DEF PoolInit, Phase
  <2>3. QED
    BY <2>1, <2>2 DEF Leased!ConnectionPoolInit
<1>2. PoolInv /\ [PoolNext]_poolVars => PoolStep
  <2> SUFFICES ASSUME PoolInv, [PoolNext]_poolVars
               PROVE  PoolStep
    OBVIOUS
  <2>1. ASSUME NEW c \in Callers, Call(c) \/ CallerStep(c)
        PROVE  PoolStep
    BY <2>1, CallerLeavesPool, ProbeLeavesPool, ProbeOpens, ClosingBegins,
       ClosingEnds, StatementLeases, FinishReturns
       DEF CallerStep, Recreate
  <2>2. CASE CloseStep
    BY <2>2, ClosingBegins, ClosingEnds, OthersLeavePool DEF CloseStep
  <2>3. CASE \/ CloseRequest \/ DatabaseChanges \/ WindowEnds
            \/ UNCHANGED poolVars
    BY <2>3, OthersLeavePool
  <2>4. QED
    BY <2>1, <2>2, <2>3 DEF PoolNext
<1>3. QED
  BY <1>1, <1>2, PoolInvariant, PTL
     DEF PoolSpec, ImplementsPool, Leased!ConnectionPoolSpec, PoolStep
============================================================================

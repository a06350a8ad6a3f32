------------------------------ MODULE Scheduler ------------------------------
(***************************************************************************)
(* The durable scheduler of deerflow/runtime/scheduler.py: any number of   *)
(* scheduler processes share one SQLite database with two tables, the task *)
(* definitions and their occurrences (scheduled_task_runs).  A process     *)
(* polls: it reconciles orphaned launch fences, then claims due work in    *)
(* one BEGIN IMMEDIATE transaction and starts a dispatch coroutine for     *)
(* every claimed occurrence.  A dispatch starts a managed agent run in its *)
(* own process and reports the outcome.  Each store call is one atomic     *)
(* step; everything between two awaits of a coroutine is one step.         *)
(***************************************************************************)
EXTENDS Integers, FiniteSets

CONSTANTS
  Process,        \* scheduler processes sharing the database
  Task,           \* rows of scheduled_tasks
  Thread,         \* conversations
  ThreadOf,       \* the conversation of a task
  Once,           \* tasks with schedule_type = 'once'
  Later,          \* tasks that are not created yet when the system starts
  Invalid,        \* tasks whose stored schedule no longer parses
  MaxRows,        \* bound: occurrences materialised in a behaviour
  MaxAttempts,    \* max_attempts
  MaxConcurrent,  \* max_concurrent_runs
  MaxRequests,    \* bound: enable, pause and delete requests served at a time
  Stoppable,      \* bound: processes that may be stopped gracefully
  Mortal,         \* bound: processes that may crash
  Lease,          \* claim_lease_seconds
  Grace,          \* orphan_grace_seconds of the reconciler
  RetryDelay,     \* retry delay (back-off collapsed to one value)
  Retention,      \* run_retention_days
  MaxPerTask,     \* max_runs_per_task
  Period,         \* distance of two slots of a recurring task
  Skew,           \* bound: age of the clock reading a poll uses in its transaction
  SlotSkew,       \* bound: age of the clock reading behind a slot being stored
  Horizon         \* bound: last clock value

Row == 1 .. MaxRows
Attempt == 1 .. MaxAttempts
Slot == Process \X Row \X Attempt   \* <<process, occurrence, attempt>> of a dispatch
NoTime == -1                        \* SQL NULL in a time column

ASSUME SchedulerAssumption ==
  /\ ThreadOf \in [Task -> Thread]
  /\ Once \subseteq Task /\ Later \subseteq Task /\ Invalid \subseteq Task
  /\ MaxRows \in Nat /\ MaxAttempts \in Nat \ {0} /\ MaxConcurrent \in Nat \ {0}
  /\ MaxRequests \in Nat /\ Stoppable \subseteq Process /\ Mortal \subseteq Process
  /\ Lease \in Nat \ {0} /\ Period \in Nat \ {0}
  /\ Grace \in Nat /\ RetryDelay \in Nat /\ Retention \in Nat
  /\ MaxPerTask \in Nat \ {0} /\ Skew \in Nat /\ SlotSkew \in Nat /\ Horizon \in Nat
  /\ Task # {} /\ IsFiniteSet(Process)

Waiting == {"pending", "retry"}
Leased == {"claimed", "running"}
Held == Leased \cup {"launched"}
Outstanding == Waiting \cup Held
Terminal == {"success", "error", "interrupted", "cancelled", "dead_letter"}
Status == {"none"} \cup Outstanding \cup Terminal \cup {"deleted"}

Phase == {"idle", "queued", "starting", "launching", "waiting", "reconciling",
          "settling", "requeue", "interrupted", "stopping"}
Executing == {"active", "cancelling"}
RunState == {"none", "success", "error", "transient", "cancelled"} \cup Executing

VARIABLES
  now,   \* wall clock
  task,  \* scheduled_tasks: not created, enabled, disabled, deleted; next_run_at
  row,   \* scheduled_task_runs
  host,  \* life of each scheduler process
  loop,  \* where the poll loop of a process is
  pc,    \* phase of each dispatch coroutine
  run,   \* the managed run started by a dispatch
  requests  \* the enable, pause and delete requests being served

vars == <<now, task, row, host, loop, pc, run, requests>>
proc(d) == d[1]
occ(d) == d[2]

TaskRow == [st : {"absent", "on", "off", "gone"}, next : Nat \cup {NoTime}]
RunRow == [task : Task, st : Status, att : 0 .. MaxAttempts, sched : Nat,
           avail : Nat \cup {NoTime}, lease : Nat \cup {NoTime}, upd : Nat]
Request == [step : {"cancel", "drain"}, proc : Process, task : Task, delete : BOOLEAN,
            rows : SUBSET Row, targets : SUBSET Slot]
EnableCall == [step : {"enable"}, proc : Process, task : Task, next : Nat, at : Nat]

TypeOK ==
  /\ now \in Nat
  /\ task \in [Task -> TaskRow]
  /\ row \in [Row -> RunRow]
  /\ host \in [Process -> {"up", "stopping", "draining", "down"}]
  /\ loop \in [Process -> {"reconcile", "claim"}]
  /\ pc \in [Slot -> Phase]
  /\ run \in [Slot -> RunState]
  /\ requests \subseteq Request \cup EnableCall

\* A row of the table that does not exist yet.
NoRow == [task |-> CHOOSE t \in Task : TRUE, st |-> "none", att |-> 0, sched |-> 0,
          avail |-> NoTime, lease |-> NoTime, upd |-> 0]

Init ==
  /\ now = 0
  /\ task \in [Task -> [st : {"on"}, next : 1 .. Period] \cup [st : {"absent"}, next : {NoTime}]]
  /\ \A t \in Task : task[t].st = "absent" <=> t \in Later
  /\ row = [o \in Row |-> NoRow]
  /\ host = [p \in Process |-> "up"]
  /\ loop = [p \in Process |-> "reconcile"]
  /\ pc = [d \in Slot |-> "idle"]
  /\ run = [d \in Slot |-> "none"]
  /\ requests = {}

Tick ==
  /\ now < Horizon
  /\ now' = now + 1
  /\ UNCHANGED <<task, row, host, loop, pc, run, requests>>

-----------------------------------------------------------------------------
(* The poll: reconcile, then claim.  `at' is the clock reading that the    *)
(* poll took before it waited for the write lock.                          *)

Sampled == {t \in 0 .. now : now - Skew <= t}

Dispatches(p) == {d \in Slot : proc(d) = p /\ pc[d] # "idle"}
Capacity(p) == MaxConcurrent - Cardinality(Dispatches(p))

\* Expired launch fences are closed without replaying the prompt.
Orphaned(r, at) ==
  r.st = "launched" /\ r.lease <= at /\ r.upd + Grace <= at

Reconcile(p) ==
  /\ host[p] = "up" /\ loop[p] = "reconcile"
  /\ \E at \in Sampled :
       row' = [o \in Row |->
                 IF Orphaned(row[o], at)
                 THEN [row[o] EXCEPT !.st = "interrupted", !.lease = NoTime, !.upd = at]
                 ELSE row[o]]
  /\ loop' = [loop EXCEPT ![p] = IF Capacity(p) > 0 THEN "claim" ELSE "reconcile"]
  /\ UNCHANGED <<now, task, host, pc, run, requests>>

Used == {o \in Row : row[o].st # "none"}
DueTasks(at) == {t \in Task : task[t].st = "on" /\ task[t].next # NoTime /\ task[t].next <= at}

\* `due' names, for each new row in order, the due task it materialises: the
\* `limit' earliest by next_run_at (fewer when the rows of the bound run out).
DueBatch(due, at, limit) ==
  LET new == DOMAIN due
      chosen == {due[o] : o \in new}
  IN  /\ new \cap Used = {}
      /\ \A o \in new : 1 .. o \subseteq Used \cup new
      /\ \A x, y \in new : x < y => due[x] # due[y] /\ task[due[x]].next <= task[due[y]].next
      /\ Cardinality(new) <= limit
      /\ \/ chosen = DueTasks(at)
         \/ Cardinality(new) = limit
         \/ Used \cup new = Row
      /\ \A o \in new, t \in DueTasks(at) \ chosen : task[due[o]].next <= task[t].next

NewRow(t, at) ==
  [task |-> t, st |-> IF t \in Invalid THEN "dead_letter" ELSE "pending", att |-> 0,
   sched |-> task[t].next, avail |-> IF t \in Invalid THEN NoTime ELSE at,
   lease |-> NoTime, upd |-> at]

Inserted(due, at) ==
  [o \in Row |-> IF o \in DOMAIN due THEN NewRow(due[o], at) ELSE row[o]]

\* One-time and unparsable definitions are disabled; a recurring one moves to
\* its first slot strictly after the poll.
Advanced(due, slot) ==
  [t \in Task |->
     IF \A o \in DOMAIN due : due[o] # t THEN task[t]
     ELSE IF t \in Once \cup Invalid THEN [st |-> "off", next |-> NoTime]
     ELSE [st |-> "on", next |-> slot[t]]]

\* Mutant: COALESCE(available_at, updated_at), which every heartbeat moves.
KeyUpdated(r) == IF r.avail = NoTime THEN r.upd ELSE r.avail

Key(r) == IF r.avail = NoTime THEN r.sched ELSE r.avail   \* COALESCE(available_at, scheduled_at)

Claimable(r, at) ==
  \/ r.st \in Waiting /\ Key(r) <= at
  \/ r.st \in Leased /\ r.lease <= at

DeadLettered(tbl, at) ==
  [o \in Row |->
     IF tbl[o].att >= MaxAttempts /\ Claimable(tbl[o], at)
     THEN [tbl[o] EXCEPT !.st = "dead_letter", !.lease = NoTime, !.upd = at]
     ELSE tbl[o]]

\* Mutant: one-time definitions, disabled once materialised, are not exempt.
ServiceableEnabled(tsk, t) == tsk[t].st = "on"

\* A row is claimable work only while its definition is enabled or one-time.
Serviceable(tsk, t) == tsk[t].st = "on" \/ (t \in Once /\ tsk[t].st = "off")

Candidates(tbl, tsk, at) ==
  {o \in Row : /\ Claimable(tbl[o], at)
               /\ tbl[o].att < MaxAttempts
               /\ Serviceable(tsk, tbl[o].task)}

\* ORDER BY COALESCE(available_at, scheduled_at), created_at: ticks are coarser
\* than created_at, so the row number stands for the order of creation.
Before(tbl, x, y) ==
  \/ Key(tbl[x]) < Key(tbl[y])
  \/ Key(tbl[x]) = Key(tbl[y]) /\ x < y

First(tbl, S, n) == {o \in S : Cardinality({x \in S : Before(tbl, x, o)}) < n}

thread(tbl, o) == ThreadOf[tbl[o].task]

\* Mutant: a launched occurrence keeps its conversation only as long as its lease.
BusyThreadsLeased(tbl, at) ==
  {thread(tbl, o) : o \in {x \in Row : tbl[x].st \in Held /\ tbl[x].lease > at}}

BusyThreads(tbl, at) ==
  {thread(tbl, o) : o \in {x \in Row : \/ tbl[x].st = "launched"
                                       \/ tbl[x].st \in Leased /\ tbl[x].lease > at}}

Claimed(tbl, tsk, at, limit) ==
  LET window == First(tbl, Candidates(tbl, tsk, at), 4 * limit)
      eligible == {o \in window :
                     /\ thread(tbl, o) \notin BusyThreads(tbl, at)
                     /\ \A x \in window : Before(tbl, x, o) => thread(tbl, x) # thread(tbl, o)}
  IN  First(tbl, eligible, limit)

Granted(tbl, C, at) ==
  [o \in Row |->
     IF o \in C
     THEN [tbl[o] EXCEPT !.st = "claimed", !.att = @ + 1, !.avail = NoTime,
                         !.lease = at + Lease, !.upd = at]
     ELSE tbl[o]]

\* One BEGIN IMMEDIATE transaction: materialise what is due, dead-letter what
\* is exhausted, lease what may run.  A stopping process has cancelled its poll
\* while the transaction ran in its thread: the leases are taken, but nobody
\* dispatches them.
ClaimRows(p, at, due, slot) ==
  LET limit == IF Capacity(p) < 10 THEN Capacity(p) ELSE 10
      tsk == Advanced(due, slot)
      tbl == DeadLettered(Inserted(due, at), at)
      C == Claimed(tbl, tsk, at, limit)
  IN  /\ limit > 0
      /\ DueBatch(due, at, limit)
      /\ \A o \in DOMAIN due : LET t == due[o] IN
           slot[t] > at /\ slot[t] <= at + Period /\ (slot[t] - task[t].next) % Period = 0
      /\ task' = tsk
      /\ row' = Granted(tbl, C, at)
      /\ pc' = [d \in Slot |->
                  IF host[p] = "up" /\ proc(d) = p /\ occ(d) \in C /\ d[3] = tbl[occ(d)].att + 1
                  THEN "queued" ELSE pc[d]]

Claim(p) ==
  /\ host[p] # "down" /\ loop[p] = "claim"
  /\ \E at \in Sampled : \E new \in SUBSET (Row \ Used) :
       \E due \in [new -> DueTasks(at)] :
         \E slot \in [{due[o] : o \in new} -> at + 1 .. at + Period] : ClaimRows(p, at, due, slot)
  /\ loop' = [loop EXCEPT ![p] = "reconcile"]
  /\ UNCHANGED <<now, host, run, requests>>

\* A store call of the poll raises: the loop logs it and polls again later.
PollFails(p) ==
  /\ host[p] = "up" /\ loop[p] = "claim"
  /\ loop' = [loop EXCEPT ![p] = "reconcile"]
  /\ UNCHANGED <<now, task, row, host, pc, run, requests>>

\* Hourly part of a poll: terminal history past its retention is deleted, and
\* all but the latest rows of a task.
Expired(o) == row[o].st \in Terminal /\ row[o].upd + Retention < now
History(t) == {o \in Row : row[o].task = t /\ row[o].st \in Terminal /\ ~Expired(o)}
Excess(o) ==
  /\ o \in History(row[o].task)
  /\ Cardinality({x \in History(row[o].task) : x > o}) >= MaxPerTask

CleanupHistory(p) ==
  /\ host[p] = "up" /\ loop[p] = "reconcile"
  /\ LET old == {o \in Row : Expired(o) \/ Excess(o)}
     IN  /\ old # {}
         /\ row' = [o \in Row |-> IF o \in old THEN [row[o] EXCEPT !.st = "deleted"] ELSE row[o]]
  /\ UNCHANGED <<now, task, host, loop, pc, run, requests>>

-----------------------------------------------------------------------------
(* The dispatch coroutine of one claimed attempt.                          *)

\* Mutant: the WHERE clause asks for the attempt and forgets the status.
OwnsAttempt(d, S) == row[occ(d)].att = d[3]

\* WHERE id = ? AND attempt_count = ? AND status IN (...): the caller still
\* owns the occurrence.
Owns(d, S) == row[occ(d)].att = d[3] /\ row[occ(d)].st \in S

\* UPDATE ... WHERE Owns; the row is untouched when the attempt is stale.
Update(d, S, new) == row' = IF Owns(d, S) THEN [row EXCEPT ![occ(d)] = new] ELSE row

Go(d, phase) == pc' = [pc EXCEPT ![d] = phase]

\* The coroutine returns: its finally block stops the heartbeat.  The record of
\* a run that has ended is of no further use to the scheduler.
Return(d) ==
  /\ Go(d, "idle")
  /\ run' = [run EXCEPT ![d] = IF @ \in Executing THEN @ ELSE "none"]

MarkStarted(d) ==
  /\ pc[d] = "queued"
  /\ LET r == row[occ(d)]
         owns == Owns(d, Leased) /\ Serviceable(task, r.task)
     IN  IF owns
         THEN /\ row' = [row EXCEPT ![occ(d)] = [r EXCEPT !.st = "running", !.upd = now]]
              /\ Go(d, "starting")
              /\ UNCHANGED run
         ELSE UNCHANGED row /\ Return(d)
  /\ UNCHANGED <<now, task, host, loop, requests>>

\* start_client_stream_run creates the managed run unless its process already
\* runs something on the conversation (multitask_strategy = 'reject').
Launch(d) ==
  /\ pc[d] = "starting"
  /\ \A e \in Slot : proc(e) = proc(d) /\ run[e] = "active" => thread(row, occ(e)) # thread(row, occ(d))
  /\ run' = [run EXCEPT ![d] = "active"]
  /\ Go(d, "launching")
  /\ UNCHANGED <<now, task, row, host, loop, requests>>

\* A store call or the launch raises before a managed run exists (a conflict
\* with another run of the conversation, a locked database, ...).
FailBeforeLaunch(d) ==
  /\ pc[d] \in {"queued", "starting"}
  /\ Go(d, "requeue")
  /\ UNCHANGED <<now, task, row, host, loop, run, requests>>

\* The launch fence.  Losing it is only logged.
RecordLaunch(d) ==
  /\ pc[d] \in {"launching", "reconciling"}
  /\ Update(d, Held, [row[occ(d)] EXCEPT !.st = "launched", !.upd = now])
  /\ Go(d, IF pc[d] = "launching" THEN "waiting" ELSE "settling")
  /\ UNCHANGED <<now, task, host, loop, run, requests>>

\* Bookkeeping raises after the launch: from here the occurrence is settled
\* without ever being requeued.  A second failure to record the fence is
\* swallowed.
FailAfterLaunch(d) ==
  /\ \/ pc[d] = "launching"
     \/ pc[d] = "waiting" /\ run[d] \in {"success", "error", "transient"}
     \/ pc[d] = "reconciling"
  /\ Go(d, IF pc[d] = "reconciling" THEN "settling" ELSE "reconciling")
  /\ UNCHANGED <<now, task, row, host, loop, run, requests>>

Ended(r, s) == [r EXCEPT !.st = s, !.lease = NoTime, !.upd = now]

\* The run ended and is not to be retried.  Only a run that succeeded, and whose
\* delivery did not fail, makes a successful occurrence.
Finish(d) ==
  /\ \/ pc[d] = "waiting" /\ run[d] \in {"success", "error"}
     \/ pc[d] = "settling" /\ run[d] \notin Executing
  /\ \E s \in {"success", "error"} :
       /\ s = "success" => run[d] = "success"
       /\ Update(d, Held, Ended(row[occ(d)], s))
  /\ Return(d)
  /\ UNCHANGED <<now, task, host, loop, requests>>

\* reschedule_task_run: another attempt, or the dead letter after the last.
Reschedule(d, delay) ==
  Update(d, Held,
         IF d[3] < MaxAttempts
         THEN [Ended(row[occ(d)], "retry") EXCEPT !.avail = now + delay]
         ELSE [Ended(row[occ(d)], "dead_letter") EXCEPT !.avail = NoTime])

\* The provider failed in a way classified as transient, or the attempt failed
\* before its launch: retry after the back-off.
RetryLater(d) ==
  /\ \/ pc[d] = "waiting" /\ run[d] = "transient"
     \/ pc[d] = "requeue"
  /\ Reschedule(d, RetryDelay)
  /\ Return(d)
  /\ UNCHANGED <<now, task, host, loop, requests>>

\* Mutant: the cancelled run is not awaited before the occurrence is requeued.
RetryNowUnawaited(d) ==
  /\ \/ pc[d] \in {"interrupted", "stopping"}
     \/ pc[d] = "waiting" /\ run[d] = "cancelled"
  /\ Reschedule(d, 0)
  /\ Return(d)
  /\ UNCHANGED <<now, task, host, loop, requests>>

\* The CancelledError branch, once the managed run it cancelled has ended:
\* requeue at once.  Awaiting a managed run that somebody else cancelled
\* raises the same CancelledError and comes here too.
RetryNow(d) ==
  /\ \/ pc[d] = "interrupted"
     \/ pc[d] = "stopping" /\ run[d] \notin Executing
     \/ pc[d] = "waiting" /\ run[d] = "cancelled"
  /\ Reschedule(d, 0)
  /\ Return(d)
  /\ UNCHANGED <<now, task, host, loop, requests>>

\* The last store call of the coroutine raises: it ends with the row as it is.
GiveUp(d) ==
  /\ \/ pc[d] \in {"requeue", "interrupted"}
     \/ pc[d] \in {"settling", "stopping"} /\ run[d] \notin Executing
  /\ Return(d)
  /\ UNCHANGED <<now, task, row, host, loop, requests>>

\* The managed runs of `runs' are cancelled, then the dispatches of D: each gets
\* CancelledError where it awaits.  Before its first step (`unborn') the coroutine never runs; awaiting
\* the managed run cancels that run too; a dispatch that is settling or already
\* handling a cancellation leaves through its handler.  A store call it awaited
\* may still commit in its thread, before this step or, being stale by then,
\* without effect.
CancelDispatches(D, runs) ==
  \E unborn \in SUBSET {d \in D : pc[d] = "queued"} :
    LET leaving == unborn \cup {d \in D : pc[d] \in {"reconciling", "settling", "stopping"}}
    IN  /\ pc' = [d \in Slot |->
                    IF d \in leaving THEN "idle"
                    ELSE IF d \in D /\ pc[d] \in {"queued", "starting"} THEN "interrupted"
                    ELSE IF d \in D /\ pc[d] \in {"launching", "waiting"} THEN "stopping"
                    ELSE pc[d]]
        /\ run' = [d \in Slot |->
                     IF /\ run[d] = "active"
                        /\ \/ d \in runs
                           \/ d \in D /\ pc[d] \in {"launching", "waiting", "settling"}
                     THEN "cancelling"
                     ELSE IF d \in leaving /\ run[d] \notin Executing THEN "none"
                     ELSE run[d]]

\* _renew_lease, alive from the successful start of the attempt until the
\* coroutine returns.  It does not ask whether the lease is still valid.  It
\* stops for good when the attempt is stale or the store call raises; nothing
\* else watches it, so a dead heartbeat is one that no longer takes this step.
Renew(d) ==
  /\ pc[d] \notin {"idle", "queued"}
  /\ Owns(d, {"running", "launched"})
  /\ row' = [row EXCEPT ![occ(d)].lease = now + Lease, ![occ(d)].upd = now]
  /\ UNCHANGED <<now, task, host, loop, pc, run, requests>>

-----------------------------------------------------------------------------
(* The managed runs, and the requests of the API.                          *)

RunEnds(d) ==
  /\ \/ run[d] = "active" /\ \E s \in {"success", "error", "transient"} :
          run' = [run EXCEPT ![d] = IF pc[d] = "idle" THEN "none" ELSE s]
     \/ run[d] = "cancelling" /\ run' = [run EXCEPT ![d] = IF pc[d] = "idle" THEN "none" ELSE "cancelled"]
  /\ UNCHANGED <<now, task, row, host, loop, pc, requests>>

\* Somebody cancels the run: the cancel endpoint, or an interactive run of the
\* conversation with strategy 'interrupt'.
UserCancel(d) ==
  /\ run[d] = "active"
  /\ run' = [run EXCEPT ![d] = "cancelling"]
  /\ UNCHANGED <<now, task, row, host, loop, pc, requests>>

\* create_task: an enabled definition with the first slot after a clock reading
\* taken before the INSERT waited for the write lock.  The slot may have passed.
CreateTask(t) ==
  /\ task[t].st = "absent"
  /\ \E at \in {s \in 0 .. now : now - SlotSkew <= s} : \E n \in at + 1 .. at + Period :
       task' = [task EXCEPT ![t] = [st |-> "on", next |-> n]]
  /\ UNCHANGED <<now, row, host, loop, pc, run, requests>>

\* set_enabled(TRUE) reads the task, and computes its next slot unless that is
\* still ahead, before the UPDATE opens a transaction: the task may be claimed,
\* paused or deleted in between.  A one-time task whose time has passed is
\* refused.
NextSlots(t) ==
  IF task[t].next > now THEN {task[t].next}
  ELSE IF t \in Once \cup Invalid THEN {}
  ELSE now + 1 .. now + Period

ReadSchedule(p, t) ==
  /\ Cardinality(requests) < MaxRequests
  /\ host[p] = "up" /\ task[t].st \in {"on", "off"}
  /\ \E n \in NextSlots(t) :
       requests' = requests \cup
         {[step |-> "enable", proc |-> p, task |-> t, next |-> n, at |-> now]}
  /\ UNCHANGED <<now, task, row, host, loop, pc, run>>

\* The write; it may also fail for want of the write lock.
WriteEnabled(q) ==
  /\ q.step = "enable"
  /\ \/ /\ now - q.at <= SlotSkew
        /\ task[q.task].st \in {"on", "off"}
        /\ task' = [task EXCEPT ![q.task] = [st |-> "on", next |-> q.next]]
     \/ UNCHANGED task
  /\ requests' = requests \ {q}
  /\ UNCHANGED <<now, row, host, loop, pc, run>>

\* Mutant: pausing cancels only the occurrences nobody has launched yet.
PauseTaskUnlaunched(p, t, delete) ==
  /\ Cardinality(requests) < MaxRequests
  /\ host[p] = "up" /\ task[t].st \in {"on", "off"}
  /\ LET active == {o \in Row : row[o].task = t /\ row[o].st \in Outstanding \ {"launched"}}
     IN  /\ row' = [o \in Row |->
                      IF o \in active
                      THEN [row[o] EXCEPT !.st = "cancelled", !.avail = NoTime,
                                          !.lease = NoTime, !.upd = now]
                      ELSE row[o]]
         /\ requests' = requests \cup {[step |-> "cancel", proc |-> p, task |-> t,
                                       delete |-> delete, rows |-> active, targets |-> {}]}
  /\ task' = [task EXCEPT ![t].st = "off"]
  /\ UNCHANGED <<now, host, loop, pc, run>>

\* pause_task: the first step of both pausing and deleting a task.
PauseTask(p, t, delete) ==
  /\ Cardinality(requests) < MaxRequests
  /\ host[p] = "up" /\ task[t].st \in {"on", "off"}
  /\ LET active == {o \in Row : row[o].task = t /\ row[o].st \in Outstanding}
     IN  /\ row' = [o \in Row |->
                      IF o \in active
                      THEN [row[o] EXCEPT !.st = "cancelled", !.avail = NoTime,
                                          !.lease = NoTime, !.upd = now]
                      ELSE row[o]]
         /\ requests' = requests \cup {[step |-> "cancel", proc |-> p, task |-> t,
                                       delete |-> delete, rows |-> active, targets |-> {}]}
  /\ task' = [task EXCEPT ![t].st = "off"]
  /\ UNCHANGED <<now, host, loop, pc, run>>

\* Mutant: only the runs that a dispatch still waits for are cancelled.
RunsToCancelWaiting(q) ==
  {d \in Slot : proc(d) = q.proc /\ occ(d) \in q.rows /\ pc[d] = "waiting"}

\* The managed runs of the rows a request paused, by the run id of their last
\* attempt.
RunsToCancel(q) ==
  {d \in Slot : proc(d) = q.proc /\ occ(d) \in q.rows /\ d[3] = row[occ(d)].att}

\* _cancel_active_task_work: cancel the managed runs of the rows and then the
\* dispatches of the task, as far as this process knows them.
CancelActiveWork(q) ==
  /\ q.step = "cancel"
  /\ LET mine == {d \in Dispatches(q.proc) : row[occ(d)].task = q.task}
     IN  /\ CancelDispatches(mine, RunsToCancel(q))
         /\ requests' = (requests \ {q}) \cup {[q EXCEPT !.step = "drain", !.targets = mine]}
  /\ UNCHANGED <<now, task, row, host, loop>>

\* All cancelled dispatches are gathered; a delete now removes the definition
\* and its history.
RequestDone(q) ==
  /\ q.step = "drain"
  /\ \A d \in q.targets : pc[d] = "idle"
  /\ IF q.delete
     THEN /\ task' = [task EXCEPT ![q.task] = [st |-> "gone", next |-> NoTime]]
          /\ row' = [o \in Row |->
                       IF row[o].task = q.task /\ row[o].st # "none"
                       THEN [row[o] EXCEPT !.st = "deleted"] ELSE row[o]]
     ELSE UNCHANGED <<task, row>>
  /\ requests' = requests \ {q}
  /\ UNCHANGED <<now, host, loop, pc, run>>

-----------------------------------------------------------------------------
(* Life of a process.                                                      *)

\* SchedulerService.stop: no more polls; after a grace period the dispatches
\* still at work are cancelled and gathered.
Stop(p) ==
  /\ host[p] = "up" /\ p \in Stoppable
  /\ host' = [host EXCEPT ![p] = "stopping"]
  /\ UNCHANGED <<now, task, row, loop, pc, run, requests>>

StopDispatches(p) ==
  /\ host[p] = "stopping"
  /\ host' = [host EXCEPT ![p] = "draining"]
  /\ CancelDispatches(Dispatches(p), {})
  /\ UNCHANGED <<now, task, row, loop, requests>>

\* The process ends: after a stop once its dispatches are gathered, or by
\* a crash at any time.  What lived in memory is lost.
Exit(p) ==
  /\ host' = [host EXCEPT ![p] = "down"]
  /\ loop' = [loop EXCEPT ![p] = "reconcile"]
  /\ pc' = [d \in Slot |-> IF proc(d) = p THEN "idle" ELSE pc[d]]
  /\ run' = [d \in Slot |-> IF proc(d) = p THEN "none" ELSE run[d]]
  /\ requests' = {q \in requests : q.proc # p}
  /\ UNCHANGED <<now, task, row>>

Stopped(p) == host[p] = "draining" /\ Dispatches(p) = {} /\ Exit(p)
Crash(p) == host[p] # "down" /\ p \in Mortal /\ Exit(p)

Start(p) ==
  /\ host[p] = "down"
  /\ host' = [host EXCEPT ![p] = "up"]
  /\ UNCHANGED <<now, task, row, loop, pc, run, requests>>

-----------------------------------------------------------------------------
Dispatch(d) ==
  \/ MarkStarted(d) \/ Launch(d) \/ FailBeforeLaunch(d) \/ RecordLaunch(d)
  \/ FailAfterLaunch(d) \/ Finish(d) \/ RetryLater(d) \/ RetryNow(d) \/ GiveUp(d)
  \/ Renew(d) \/ RunEnds(d) \/ UserCancel(d)

Poll(p) == Reconcile(p) \/ Claim(p) \/ PollFails(p) \/ CleanupHistory(p)

Life(p) == Stop(p) \/ StopDispatches(p) \/ Stopped(p) \/ Crash(p) \/ Start(p)

Serve ==
  \/ \E t \in Task : CreateTask(t) \/ \E p \in Process : ReadSchedule(p, t)
  \/ \E p \in Process, t \in Task, delete \in BOOLEAN : PauseTask(p, t, delete)
  \/ \E q \in requests : WriteEnabled(q) \/ CancelActiveWork(q) \/ RequestDone(q)

Next ==
  \/ Tick
  \/ Serve
  \/ \E p \in Process : Poll(p) \/ Life(p)
  \/ \E d \in Slot : Dispatch(d)

Spec == Init /\ [][Next]_vars

-----------------------------------------------------------------------------
(* Safety.                                                                 *)

\* Occurrence y was materialised after x, but for an earlier slot: its definition
\* was stored, by create_task or set_enabled, with a slot that had passed by then.
Overtakes(tbl, y, x) == x < y /\ tbl[y].sched < tbl[x].sched

\* Occurrences of one conversation are serialised across processes: two of them
\* are not leased or launched at a time, whether or not their leases have expired
\* (claim_due_tasks, "must be serialized across workers"), except that one with a
\* belated slot may overtake.
SerializedThreads ==
  \A x, y \in Row :
    x # y /\ row[x].st \in Held /\ row[y].st \in Held /\ thread(row, x) = thread(row, y) =>
      Overtakes(row, x, y) \/ Overtakes(row, y, x)

\* What the comment of the claim says, without the exception.  It does not hold:
\* a belated slot makes a new occurrence available at a stale clock reading,
\* before the slot of the occurrence whose lease expired.
StrictlySerialized ==
  \A x, y \in Row :
    x # y /\ row[x].st \in Held /\ row[y].st \in Held => thread(row, x) # thread(row, y)

\* A leased occurrence stays ahead of whatever waits for its conversation, in the
\* order claims are made: should its process die, no other one can slip past the
\* expired lease before the occurrence is claimed again or dead-lettered, unless
\* it was materialised later for an earlier slot.
LeaseholderFirst ==
  \A x, y \in Row :
    row[x].st \in Leased /\ row[y].st \in Waiting /\ thread(row, x) = thread(row, y) =>
      Before(row, x, y) \/ Overtakes(row, y, x)

\* An occurrence waits for a retry only when the managed run of the attempt it
\* just made is over: old and new attempts do not overlap (_dispatch, the
\* CancelledError branch, and "must never turn this occurrence back into a
\* retry while that run may still execute").
RetryMeansQuiet ==
  \A d \in Slot :
    row[occ(d)].st = "retry" /\ row[occ(d)].att = d[3] => run[d] \notin Executing

\* No outstanding occurrence is stranded behind a disabled or deleted
\* definition, where no poll would ever claim or close it.
NoStrandedWork ==
  \A o \in Row : row[o].st \in Outstanding => Serviceable(task, row[o].task)

\* Pausing or deleting a task reaches the managed run of the last attempt of
\* every occurrence it cancels: once no such request is under way, none of them is still running
\* undisturbed ("Fence/cancel active work before deleting the durable
\* definition").
PauseReachesRuns ==
  \A d \in Slot :
    row[occ(d)].st = "cancelled" /\ row[occ(d)].att = d[3] /\ run[d] = "active" =>
      \E q \in requests : q.step \in {"cancel", "drain"} /\ q.task = row[occ(d)].task

\* A launched occurrence is replayed only on a decision the launch fence names:
\* the scheduler was stopping, or the provider failure was classified as
\* transient (mark_task_run_launched). This is what the docstring says, and it does
\* not hold: UserCancel is taken for a shutdown (RetryNow).
ReplayNeedsDecision ==
  [][\A d \in Slot :
       row[occ(d)].st = "launched" /\ row[occ(d)].att = d[3] /\ row'[occ(d)].st = "retry"
       /\ pc[d] # "idle"
       => run[d] = "transient" \/ host[proc(d)] = "draining"]_vars

\* No two managed runs work on one conversation at a time, in whatever process.
\* A comment of the claim says so, and it does not hold: MarkStarted does not ask
\* whether the lease is still valid.
OneRunPerThread ==
  \A d, e \in Slot :
    run[d] = "active" /\ run[e] = "active" /\ d # e => thread(row, occ(d)) # thread(row, occ(e))

\* A finished occurrence is history: whatever late attempt, heartbeat or
\* reconciler runs afterwards, it is only ever deleted.
TerminalIsFinal ==
  [][\A o \in Row : row[o].st \in Terminal => row'[o].st \in {row[o].st, "deleted"}]_vars

\* The life of an occurrence as the scheduler's users see it; the tables
\* implement it (claim_due_tasks, mark_task_run_*, reschedule_task_run).
PhaseOf(st) ==
  CASE st = "none" -> "absent"
    [] st \in Waiting -> "waiting"
    [] st \in Leased -> "leased"
    [] st = "launched" -> "launched"
    [] st \in Terminal -> "closed"
    [] OTHER -> "gone"

Contract == INSTANCE Occurrences WITH
  phase <- [o \in Row |-> PhaseOf(row[o].st)],
  tries <- [o \in Row |-> row[o].att],
  conv <- [o \in Row |-> thread(row, o)],
  slot <- [o \in Row |-> row[o].sched]

ImplementsContract == Contract!Spec
=============================================================================

-------------------------- MODULE Scheduler_proofs --------------------------
(***************************************************************************)
(* Machine-checked proofs about the scheduler, for every number of         *)
(* processes, tasks, occurrences and attempts and every clock.             *)
(***************************************************************************)
EXTENDS Scheduler, TLAPS, FiniteSetTheorems

\* What the columns of an occurrence say about its status.
RowsOK ==
  \A o \in Row :
    /\ row[o].st # "none" => row[o].sched <= now
    /\ row[o].st \in Waiting =>
         row[o].avail # NoTime /\ row[o].sched <= row[o].avail /\ row[o].att < MaxAttempts
    /\ row[o].st \in Leased => row[o].avail = NoTime
    /\ row[o].task \in Invalid => row[o].st \notin Outstanding

\* Rows are created one after the other.
RowsInOrder == \A o \in Used : 1 .. o \subseteq Used

IInv ==
  /\ TypeOK
  /\ RowsOK
  /\ RowsInOrder
  /\ NoStrandedWork
  /\ LeaseholderFirst
  /\ SerializedThreads

-----------------------------------------------------------------------------
(* Type correctness.                                                       *)

LEMMA NoRowType == NoRow \in RunRow
  BY SchedulerAssumption DEF SchedulerAssumption, NoRow, RunRow, Status, NoTime

\* A conditional update of the row of a dispatch keeps the table well formed.
LEMMA UpdateType ==
  ASSUME TypeOK, NEW d \in Slot, NEW S, NEW new \in RunRow, Update(d, S, new)
  PROVE  row' \in [Row -> RunRow]
  BY DEF TypeOK, Update, Slot, occ

\* Ending an attempt gives a well-formed row.
LEMMA EndedType ==
  ASSUME TypeOK, NEW r \in RunRow, NEW s \in Status
  PROVE  Ended(r, s) \in RunRow
  BY DEF TypeOK, Ended, RunRow, NoTime

\* Changes of a few columns keep a row well formed.
LEMMA RowChangeType ==
  ASSUME NEW r \in RunRow, NEW t \in Nat, NEW l \in Nat
  PROVE  /\ [r EXCEPT !.st = "deleted"] \in RunRow
         /\ [r EXCEPT !.st = "running", !.upd = t] \in RunRow
         /\ [r EXCEPT !.st = "launched", !.upd = t] \in RunRow
         /\ [r EXCEPT !.st = "interrupted", !.lease = NoTime, !.upd = t] \in RunRow
         /\ [r EXCEPT !.st = "cancelled", !.avail = NoTime, !.lease = NoTime, !.upd = t] \in RunRow
         /\ [r EXCEPT !.lease = l, !.upd = t] \in RunRow
<1>1. {"deleted", "running", "launched", "interrupted", "cancelled"} \subseteq Status
  BY DEF Status, Outstanding, Held, Leased, Terminal
<1>2. QED
  BY <1>1 DEF RunRow, NoTime

\* The bodies of a dispatch that return leave its phase and run well formed.
LEMMA ReturnType ==
  ASSUME TypeOK, NEW d \in Slot, Return(d)
  PROVE  pc' \in [Slot -> Phase] /\ run' \in [Slot -> RunState]
  BY DEF TypeOK, Return, Go, Phase, RunState

LEMMA CancelType ==
  ASSUME TypeOK, NEW D, NEW runs, CancelDispatches(D, runs)
  PROVE  pc' \in [Slot -> Phase] /\ run' \in [Slot -> RunState]
  BY DEF TypeOK, CancelDispatches, Phase, RunState, Executing

LEMMA RescheduleType ==
  ASSUME TypeOK, NEW d \in Slot, NEW delay \in Nat, Reschedule(d, delay)
  PROVE  row' \in [Row -> RunRow]
<1> DEFINE new == IF d[3] < MaxAttempts
                  THEN [Ended(row[occ(d)], "retry") EXCEPT !.avail = now + delay]
                  ELSE [Ended(row[occ(d)], "dead_letter") EXCEPT !.avail = NoTime]
<1>1. row[occ(d)] \in RunRow
  BY DEF TypeOK, Slot, occ
<1>2. new \in RunRow
  <2>1. Ended(row[occ(d)], "retry") \in RunRow
    BY <1>1, EndedType DEF Status, Outstanding, Waiting
  <2>2. Ended(row[occ(d)], "dead_letter") \in RunRow
    BY <1>1, EndedType DEF Status, Terminal
  <2>3. now + delay \in Nat
    BY DEF TypeOK
  <2>4. QED
    BY <2>1, <2>2, <2>3 DEF RunRow, NoTime
<1>3. Update(d, Held, new)
  BY DEF Reschedule
<1>4. QED
  BY <1>2, <1>3, UpdateType

\* The tables a claim transaction passes through.
LEMMA InsertedType ==
  ASSUME TypeOK, NEW at \in Nat, NEW new \in SUBSET Row, NEW due \in [new -> DueTasks(at)]
  PROVE  Inserted(due, at) \in [Row -> RunRow]
<1>1. ASSUME NEW t \in DueTasks(at)
      PROVE  NewRow(t, at) \in RunRow
  <2>1. t \in Task /\ task[t].next \in Nat
    BY <1>1 DEF TypeOK, DueTasks, TaskRow, NoTime
  <2>2. {"dead_letter", "pending"} \subseteq Status
    BY DEF Status, Outstanding, Waiting, Terminal
  <2>3. QED
    BY <2>1, <2>2, SchedulerAssumption DEF SchedulerAssumption, NewRow, RunRow, NoTime
<1>2. QED
  BY <1>1 DEF TypeOK, Inserted

LEMMA DeadLetteredType ==
  ASSUME NEW tbl \in [Row -> RunRow], NEW at \in Nat
  PROVE  DeadLettered(tbl, at) \in [Row -> RunRow]
<1>1. "dead_letter" \in Status
  BY DEF Status, Terminal
<1>2. QED
  BY <1>1 DEF DeadLettered, RunRow, NoTime

LEMMA ClaimedInRow ==
  ASSUME NEW tbl, NEW tsk, NEW at, NEW limit
  PROVE  /\ Claimed(tbl, tsk, at, limit) \subseteq Row
         /\ \A o \in Claimed(tbl, tsk, at, limit) : tbl[o].att < MaxAttempts
  BY DEF Claimed, First, Candidates

LEMMA GrantedType ==
  ASSUME NEW tbl \in [Row -> RunRow], NEW at \in Nat, NEW C \in SUBSET Row,
         \A o \in C : tbl[o].att < MaxAttempts
  PROVE  Granted(tbl, C, at) \in [Row -> RunRow]
<1>1. "claimed" \in Status
  BY DEF Status, Outstanding, Held, Leased
<1>2. at + Lease \in Nat /\ MaxAttempts \in Nat
  BY SchedulerAssumption DEF SchedulerAssumption
<1>3. ASSUME NEW o \in C
      PROVE  [tbl[o] EXCEPT !.st = "claimed", !.att = @ + 1, !.avail = NoTime,
                            !.lease = at + Lease, !.upd = at] \in RunRow
  <2>1. tbl[o] \in RunRow /\ tbl[o].att < MaxAttempts
    OBVIOUS
  <2>2. tbl[o].att + 1 \in 0 .. MaxAttempts
    BY <2>1, <1>2 DEF RunRow
  <2>3. QED
    BY <2>1, <2>2, <1>1, <1>2 DEF RunRow, NoTime
<1>4. QED
  BY <1>3 DEF Granted

LEMMA AdvancedType ==
  ASSUME TypeOK, NEW at \in Nat, NEW new \in SUBSET Row, NEW due \in [new -> DueTasks(at)],
         NEW slot \in [{due[o] : o \in new} -> at + 1 .. at + Period]
  PROVE  Advanced(due, slot) \in [Task -> TaskRow]
<1>1. ASSUME NEW t \in Task, NEW o \in DOMAIN due, due[o] = t
      PROVE  slot[t] \in Nat
  BY <1>1, SchedulerAssumption DEF SchedulerAssumption
<1>2. QED
  BY <1>1 DEF TypeOK, Advanced, TaskRow, NoTime

LEMMA ClaimType ==
  ASSUME TypeOK, NEW p \in Process, Claim(p)
  PROVE  TypeOK'
<1>a. PICK at \in Sampled : \E new \in SUBSET (Row \ Used) : \E due \in [new -> DueTasks(at)] :
        \E slot \in [{due[o] : o \in new} -> at + 1 .. at + Period] : ClaimRows(p, at, due, slot)
  BY DEF Claim
<1>b. PICK new \in SUBSET (Row \ Used) : \E due \in [new -> DueTasks(at)] :
        \E slot \in [{due[o] : o \in new} -> at + 1 .. at + Period] : ClaimRows(p, at, due, slot)
  BY <1>a
<1>c. PICK due \in [new -> DueTasks(at)] :
        \E slot \in [{due[o] : o \in new} -> at + 1 .. at + Period] : ClaimRows(p, at, due, slot)
  BY <1>b
<1>1. PICK slot \in [{due[o] : o \in new} -> at + 1 .. at + Period] : ClaimRows(p, at, due, slot)
  BY <1>c
<1> DEFINE limit == IF Capacity(p) < 10 THEN Capacity(p) ELSE 10
           tsk == Advanced(due, slot)
           tbl == DeadLettered(Inserted(due, at), at)
           C == Claimed(tbl, tsk, at, limit)
<1>2. at \in Nat /\ new \in SUBSET Row
  BY DEF TypeOK, Sampled
<1>3. /\ task' = tsk
      /\ row' = Granted(tbl, C, at)
      /\ pc' = [d \in Slot |->
                  IF host[p] = "up" /\ proc(d) = p /\ occ(d) \in C /\ d[3] = tbl[occ(d)].att + 1
                  THEN "queued" ELSE pc[d]]
  BY <1>1 DEF ClaimRows
<1>4. tsk \in [Task -> TaskRow]
  BY <1>2, AdvancedType
<1>5. tbl \in [Row -> RunRow]
  BY <1>2, InsertedType, DeadLetteredType
<1>6. Granted(tbl, C, at) \in [Row -> RunRow]
  <2>1. C \in SUBSET Row /\ \A o \in C : tbl[o].att < MaxAttempts
    BY ClaimedInRow
  <2>2. QED
    BY <2>1, <1>2, <1>5, GrantedType
<1>7. pc' \in [Slot -> Phase]
  BY <1>3 DEF TypeOK, Phase
<1>8. loop' \in [Process -> {"reconcile", "claim"}]
  BY DEF TypeOK, Claim
<1>9. UNCHANGED <<now, host, run, requests>>
  BY DEF Claim
<1>10. QED
  BY <1>3, <1>4, <1>6, <1>7, <1>8, <1>9 DEF TypeOK

LEMMA TypeStep == TypeOK /\ [Next]_vars => TypeOK'
<1> SUFFICES ASSUME TypeOK, [Next]_vars PROVE TypeOK'
  OBVIOUS
<1> USE SchedulerAssumption DEF SchedulerAssumption
<1>1. CASE Tick
  BY <1>1 DEF TypeOK, Tick
<1>2. ASSUME NEW p \in Process, Poll(p) PROVE TypeOK'
  <2>1. CASE Reconcile(p)
    <3>1. row' \in [Row -> RunRow]
      <4>1. PICK at \in Sampled :
              row' = [o \in Row |->
                        IF Orphaned(row[o], at)
                        THEN [row[o] EXCEPT !.st = "interrupted", !.lease = NoTime, !.upd = at]
                        ELSE row[o]]
        BY <2>1 DEF Reconcile
      <4>2. at \in Nat
        BY DEF TypeOK, Sampled
      <4>3. QED
        BY <4>1, <4>2, RowChangeType DEF TypeOK
    <3>2. QED
      BY <2>1, <3>1 DEF TypeOK, Reconcile
  <2>2. CASE Claim(p)
    BY <2>2, ClaimType
  <2>3. CASE PollFails(p)
    BY <2>3 DEF TypeOK, PollFails
  <2>4. CASE CleanupHistory(p)
    <3>1. row' \in [Row -> RunRow]
      BY <2>4, RowChangeType DEF TypeOK, CleanupHistory
    <3>2. QED
      BY <2>4, <3>1 DEF TypeOK, CleanupHistory
  <2>5. QED
    BY <1>2, <2>1, <2>2, <2>3, <2>4 DEF Poll
<1>3. ASSUME NEW p \in Process, Life(p) PROVE TypeOK'
  <2>1. CASE Stop(p) \/ Start(p)
    BY <2>1 DEF TypeOK, Stop, Start
  <2>2. CASE StopDispatches(p)
    <3>1. pc' \in [Slot -> Phase] /\ run' \in [Slot -> RunState]
      BY <2>2, CancelType DEF StopDispatches
    <3>2. QED
      BY <2>2, <3>1 DEF TypeOK, StopDispatches
  <2>3. CASE Stopped(p) \/ Crash(p)
    BY <2>3 DEF TypeOK, Stopped, Crash, Exit, Phase, RunState
  <2>4. QED
    BY <1>3, <2>1, <2>2, <2>3 DEF Life
<1>4. ASSUME NEW d \in Slot, Dispatch(d) PROVE TypeOK'
  <2>1. CASE MarkStarted(d)
    <3>2. [row[occ(d)] EXCEPT !.st = "running", !.upd = now] \in RunRow
      BY RowChangeType DEF TypeOK, Slot, occ
    <3>3. row' \in [Row -> RunRow]
      BY <2>1, <3>2 DEF TypeOK, MarkStarted, Slot, occ
    <3>4. pc' \in [Slot -> Phase] /\ run' \in [Slot -> RunState]
      BY <2>1, ReturnType DEF TypeOK, MarkStarted, Go, Phase
    <3>5. QED
      BY <2>1, <3>3, <3>4 DEF TypeOK, MarkStarted
  <2>2. CASE Launch(d) \/ FailBeforeLaunch(d) \/ FailAfterLaunch(d)
    BY <2>2 DEF TypeOK, Launch, FailBeforeLaunch, FailAfterLaunch, Go, Phase, RunState, Executing
  <2>3. CASE RecordLaunch(d)
    <3>1. [row[occ(d)] EXCEPT !.st = "launched", !.upd = now] \in RunRow
      BY RowChangeType DEF TypeOK, Slot, occ
    <3>2. row' \in [Row -> RunRow]
      BY <2>3, <3>1, UpdateType DEF RecordLaunch
    <3>3. pc' \in [Slot -> Phase]
      BY <2>3 DEF TypeOK, RecordLaunch, Go, Phase
    <3>4. QED
      BY <2>3, <3>2, <3>3 DEF TypeOK, RecordLaunch
  <2>4. CASE Finish(d)
    <3>1. PICK s \in {"success", "error"} : Update(d, Held, Ended(row[occ(d)], s))
      BY <2>4 DEF Finish
    <3>2. Ended(row[occ(d)], s) \in RunRow
      BY EndedType DEF TypeOK, Status, Terminal, Slot, occ
    <3>3. row' \in [Row -> RunRow]
      BY <3>1, <3>2, UpdateType
    <3>4. QED
      BY <2>4, <3>3, ReturnType DEF TypeOK, Finish
  <2>5. CASE RetryLater(d) \/ RetryNow(d)
    <3>1. row' \in [Row -> RunRow]
      BY <2>5, RescheduleType DEF RetryLater, RetryNow
    <3>2. QED
      BY <2>5, <3>1, ReturnType DEF TypeOK, RetryLater, RetryNow
  <2>6. CASE GiveUp(d)
    BY <2>6, ReturnType DEF TypeOK, GiveUp
  <2>7. CASE Renew(d)
    <3>1. row' \in [Row -> RunRow]
      <4>1. now + Lease \in Nat
        BY DEF TypeOK
      <4>2. [row[occ(d)] EXCEPT !.lease = now + Lease, !.upd = now] \in RunRow
        BY <4>1, RowChangeType DEF TypeOK, Slot, occ
      <4>3. row' = [row EXCEPT ![occ(d)] = [row[occ(d)] EXCEPT !.lease = now + Lease, !.upd = now]]
        BY <2>7 DEF TypeOK, Renew, RunRow, Slot, occ
      <4>4. QED
        BY <4>2, <4>3 DEF TypeOK
    <3>2. QED
      BY <2>7, <3>1 DEF TypeOK, Renew
  <2>8. CASE RunEnds(d) \/ UserCancel(d)
    BY <2>8 DEF TypeOK, RunEnds, UserCancel, RunState, Executing
  <2>9. QED
    BY <1>4, <2>1, <2>2, <2>3, <2>4, <2>5, <2>6, <2>7, <2>8 DEF Dispatch
<1>5. CASE Serve
  <2>1. ASSUME NEW t \in Task, CreateTask(t) PROVE TypeOK'
    <3>1. task' \in [Task -> TaskRow]
      BY <2>1 DEF TypeOK, CreateTask, TaskRow
    <3>2. QED
      BY <2>1, <3>1 DEF TypeOK, CreateTask
  <2>a. ASSUME NEW p \in Process, NEW t \in Task, ReadSchedule(p, t) PROVE TypeOK'
    <3>1. PICK n \in NextSlots(t) :
            requests' = requests \cup
              {[step |-> "enable", proc |-> p, task |-> t, next |-> n, at |-> now]}
      BY <2>a DEF ReadSchedule
    <3>2. n \in Nat
      BY DEF NextSlots, TypeOK, TaskRow, NoTime
    <3>3. [step |-> "enable", proc |-> p, task |-> t, next |-> n, at |-> now] \in EnableCall
      BY <3>2 DEF EnableCall, TypeOK
    <3>4. QED
      BY <2>a, <3>1, <3>3 DEF TypeOK, ReadSchedule
  <2>b. ASSUME NEW q \in requests, WriteEnabled(q) PROVE TypeOK'
    <3>1. q \in EnableCall
      BY <2>b DEF TypeOK, WriteEnabled, Request
    <3>2. task' \in [Task -> TaskRow]
      BY <2>b, <3>1 DEF TypeOK, WriteEnabled, EnableCall, TaskRow
    <3>3. QED
      BY <2>b, <3>2 DEF TypeOK, WriteEnabled
  <2>2. ASSUME NEW p \in Process, NEW t \in Task, NEW delete \in BOOLEAN, PauseTask(p, t, delete)
        PROVE  TypeOK'
    <3> DEFINE active == {o \in Row : row[o].task = t /\ row[o].st \in Outstanding}
               q == [step |-> "cancel", proc |-> p, task |-> t, delete |-> delete,
                     rows |-> active, targets |-> {}]
    <3>1. row' \in [Row -> RunRow]
      BY <2>2, RowChangeType DEF TypeOK, PauseTask
    <3>2. requests' \subseteq Request \cup EnableCall
      <4>1. q \in Request
        BY DEF Request
      <4>2. requests' = requests \cup {q}
        BY <2>2 DEF PauseTask
      <4>3. QED
        BY <4>1, <4>2 DEF TypeOK
    <3>3. task' \in [Task -> TaskRow]
      BY <2>2 DEF TypeOK, PauseTask, TaskRow
    <3>4. QED
      BY <2>2, <3>1, <3>2, <3>3 DEF TypeOK, PauseTask
  <2>3. ASSUME NEW q \in requests, CancelActiveWork(q) PROVE TypeOK'
    <3> DEFINE mine == {d \in Dispatches(q.proc) : row[occ(d)].task = q.task}
    <3>1. requests' = (requests \ {q}) \cup {[q EXCEPT !.step = "drain", !.targets = mine]}
      BY <2>3 DEF CancelActiveWork
    <3>2. mine \in SUBSET Slot
      BY DEF Dispatches
    <3>3. requests' \subseteq Request \cup EnableCall
      <4>1. q \in Request
        BY <2>3 DEF TypeOK, CancelActiveWork, EnableCall
      <4>2. [q EXCEPT !.step = "drain", !.targets = mine] \in Request
        BY <3>2, <4>1 DEF Request
      <4>3. QED
        BY <3>1, <4>2 DEF TypeOK
    <3>4. pc' \in [Slot -> Phase] /\ run' \in [Slot -> RunState]
      BY <2>3, CancelType DEF CancelActiveWork
    <3>5. QED
      BY <2>3, <3>3, <3>4 DEF TypeOK, CancelActiveWork
  <2>4. ASSUME NEW q \in requests, RequestDone(q) PROVE TypeOK'
    <3>1. row' \in [Row -> RunRow]
      <4>1. CASE row' = row
        BY <4>1 DEF TypeOK
      <4>2. CASE row' = [o \in Row |->
                           IF row[o].task = q.task /\ row[o].st # "none"
                           THEN [row[o] EXCEPT !.st = "deleted"] ELSE row[o]]
        BY <4>2, RowChangeType DEF TypeOK
      <4>3. QED
        BY <2>4, <4>1, <4>2 DEF RequestDone
    <3>2. task' \in [Task -> TaskRow]
      BY <2>4 DEF TypeOK, RequestDone, TaskRow
    <3>3. QED
      BY <2>4, <3>1, <3>2 DEF TypeOK, RequestDone
  <2>5. QED
    BY <1>5, <2>1, <2>a, <2>b, <2>2, <2>3, <2>4 DEF Serve
<1>6. CASE UNCHANGED vars
  BY <1>6 DEF TypeOK, vars
<1>7. QED
  BY <1>1, <1>2, <1>3, <1>4, <1>5, <1>6 DEF Next

LEMMA TypeInit == Init => TypeOK
<1> SUFFICES ASSUME Init PROVE TypeOK
  OBVIOUS
<1>1. task \in [Task -> TaskRow]
  BY SchedulerAssumption DEF SchedulerAssumption, Init, TaskRow
<1>2. row \in [Row -> RunRow]
  BY NoRowType DEF Init
<1>3. QED
  BY <1>1, <1>2 DEF Init, TypeOK, Phase, RunState

\* The scheduler's tables and coroutines stay well formed, however many
\* processes share the database (claim_due_tasks, mark_task_run_*).
THEOREM TypeCorrect == Spec => []TypeOK
  BY TypeInit, TypeStep, PTL DEF Spec
-----------------------------------------------------------------------------
(* Serialisation of conversations.  Every action but a claim moves single  *)
(* occurrences along the edges of RowMoves, and tasks as TaskMoves says:   *)
(* that is enough for the invariant.  The claim is treated apart.          *)

RowMoves(o) ==
  /\ row'[o].task = row[o].task /\ row'[o].sched = row[o].sched
  /\ \/ row'[o].st = row[o].st /\ row'[o].avail = row[o].avail /\ row'[o].att = row[o].att
     \/ row[o].st \in Leased /\ row'[o].st = "running" /\ row'[o].avail = row[o].avail
     \/ row[o].st \in Held /\ row'[o].st = "launched"
     \/ /\ row[o].st \in Held /\ row'[o].st = "retry"
        /\ row'[o].avail # NoTime /\ now <= row'[o].avail /\ row'[o].att < MaxAttempts
     \/ row[o].st # "none" /\ row'[o].st \in Terminal \cup {"deleted"}

TaskMoves(t) ==
  Serviceable(task, t) =>
    \/ Serviceable(task', t)
    \/ \A o \in Row : row'[o].task = t => row'[o].st \notin Outstanding

LEMMA StatusFacts ==
  /\ Waiting \cap Held = {} /\ Leased \subseteq Held
  /\ Outstanding = Waiting \cup Held
  /\ Outstanding \cap (Terminal \cup {"deleted", "none"}) = {}
  /\ "none" \notin Terminal /\ "retry" \in Waiting /\ "running" \in Leased
  /\ "pending" \in Waiting /\ "claimed" \in Leased /\ "dead_letter" \in Terminal
  /\ "launched" \in Held /\ "launched" \notin Leased /\ "retry" \notin Held
  BY DEF Waiting, Leased, Held, Outstanding, Terminal

LEMMA QuietStep ==
  ASSUME IInv, TypeOK', now <= now', \A o \in Row : RowMoves(o), \A t \in Task : TaskMoves(t)
  PROVE  IInv'
<1> USE StatusFacts
<1>1. ASSUME NEW o \in Row
      PROVE  /\ row[o].sched \in Nat /\ row[o].avail \in Int /\ row[o].task \in Task
             /\ now \in Nat /\ now' \in Nat
  BY DEF IInv, TypeOK, RunRow, NoTime
<1>2. Used' = Used
  BY DEF RowMoves, Used
<1>3. RowsOK'
  <2> SUFFICES ASSUME NEW o \in Row
               PROVE  /\ row'[o].st # "none" => row'[o].sched <= now'
                      /\ row'[o].st \in Waiting =>
                           /\ row'[o].avail # NoTime /\ row'[o].sched <= row'[o].avail
                           /\ row'[o].att < MaxAttempts
                      /\ row'[o].st \in Leased => row'[o].avail = NoTime
                      /\ row'[o].task \in Invalid => row'[o].st \notin Outstanding
    BY DEF RowsOK
  <2>1. /\ row[o].sched \in Nat /\ row'[o].avail \in Int
        /\ row'[o].sched = row[o].sched /\ row'[o].task = row[o].task
    BY <1>1 DEF RowMoves, TypeOK, RunRow, NoTime
  <2>2. /\ row[o].st # "none" => row[o].sched <= now
        /\ row[o].st \in Waiting =>
             row[o].avail # NoTime /\ row[o].sched <= row[o].avail /\ row[o].att < MaxAttempts
        /\ row[o].st \in Leased => row[o].avail = NoTime
        /\ row[o].task \in Invalid => row[o].st \notin Outstanding
    BY DEF IInv, RowsOK
  <2>3. CASE /\ row[o].st \in Held /\ row'[o].st = "retry"
             /\ row'[o].avail # NoTime /\ now <= row'[o].avail /\ row'[o].att < MaxAttempts
    BY <1>1, <2>1, <2>2, <2>3
  <2>4. CASE row'[o].st = row[o].st /\ row'[o].avail = row[o].avail /\ row'[o].att = row[o].att
    BY <1>1, <2>1, <2>2, <2>4
  <2>5. CASE row[o].st # "none" /\ row'[o].st \in Terminal \cup {"deleted"}
    BY <1>1, <2>1, <2>2, <2>5
  <2>6. CASE \/ row[o].st \in Leased /\ row'[o].st = "running" /\ row'[o].avail = row[o].avail
             \/ row[o].st \in Held /\ row'[o].st = "launched"
    <3>1. "running" \notin Waiting /\ "launched" \notin Waiting
      BY DEF Waiting
    <3>2. QED
      BY <1>1, <2>1, <2>2, <2>6, <3>1
  <2>7. QED
    BY <2>3, <2>4, <2>5, <2>6 DEF RowMoves
<1>4. RowsInOrder'
  BY <1>2 DEF IInv, RowsInOrder
<1>6. NoStrandedWork'
  <2> SUFFICES ASSUME NEW o \in Row, row'[o].st \in Outstanding
               PROVE  Serviceable(task', row'[o].task)
    BY DEF NoStrandedWork
  <2>1. row[o].st \in Outstanding /\ row'[o].task = row[o].task
    BY DEF RowMoves
  <2>2. Serviceable(task, row[o].task) /\ row[o].task \in Task
    BY <2>1, <1>1 DEF IInv, NoStrandedWork
  <2>3. QED
    BY <2>1, <2>2 DEF TaskMoves
<1>7. LeaseholderFirst'
  <2> SUFFICES ASSUME NEW x \in Row, NEW y \in Row, row'[x].st \in Leased, row'[y].st \in Waiting,
                      thread(row', x) = thread(row', y)
               PROVE  Before(row', x, y) \/ Overtakes(row', y, x)
    BY DEF LeaseholderFirst
  <2>1. row[x].st \in Leased /\ row'[x].avail = row[x].avail
    BY DEF RowMoves
  <2>2. thread(row, x) = thread(row, y) /\ x # y
    BY DEF thread, RowMoves
  <2>3. row'[x].sched = row[x].sched /\ row'[y].sched = row[y].sched
    BY DEF RowMoves
  <2>4. CASE row'[y].st = row[y].st /\ row'[y].avail = row[y].avail
    <3>1. Before(row, x, y) \/ Overtakes(row, y, x)
      BY <2>1, <2>2, <2>4 DEF IInv, LeaseholderFirst
    <3>2. QED
      BY <2>1, <2>3, <2>4, <3>1 DEF Before, Key, Overtakes
  \* y is put back for a retry: it was held beside x, so one of them overtook.
  <2>5. CASE row[y].st \in Held /\ row'[y].avail # NoTime /\ now <= row'[y].avail
    <3>1. Overtakes(row, x, y) \/ Overtakes(row, y, x)
      BY <2>1, <2>2, <2>5 DEF IInv, SerializedThreads
    <3>2. /\ row[x].sched <= now /\ row[y].sched <= now /\ row[x].avail = NoTime
          /\ now \in Nat /\ row'[y].avail \in Int
          /\ row[x].sched \in Nat /\ row[y].sched \in Nat /\ x \in Int /\ y \in Int
      <4>1. row[x].sched <= now /\ row[y].sched <= now /\ row[x].avail = NoTime
        BY <2>1, <2>5 DEF IInv, RowsOK
      <4>2. row'[y].avail \in Int /\ x \in Int /\ y \in Int
        BY DEF TypeOK, RunRow, NoTime, Row
      <4>3. QED
        BY <1>1, <4>1, <4>2
    <3>3. Key(row'[x]) = row[x].sched /\ Key(row'[y]) = row'[y].avail
      BY <2>1, <2>3, <2>5, <3>2 DEF Key
    <3>4. row[x].sched < row'[y].avail \/ (row[x].sched = row'[y].avail /\ x < y)
      BY <2>5, <3>1, <3>2 DEF Overtakes
    <3>5. QED
      BY <3>3, <3>4 DEF Before
  <2>6. QED
    BY <2>4, <2>5 DEF RowMoves
<1>8. SerializedThreads'
  BY DEF IInv, SerializedThreads, RowMoves, thread, Overtakes
<1>9. QED
  BY <1>3, <1>4, <1>6, <1>7, <1>8 DEF IInv

\* A conditional update by a dispatch moves its occurrence only.
LEMMA UpdateMoves ==
  ASSUME TypeOK, NEW d \in Slot, NEW new, Update(d, Held, new),
         new.task = row[occ(d)].task, new.sched = row[occ(d)].sched,
         \/ new.st = "launched"
         \/ /\ new.st = "retry" /\ new.avail # NoTime /\ now <= new.avail
            /\ new.att < MaxAttempts
         \/ new.st \in Terminal
  PROVE  \A o \in Row : RowMoves(o)
<1>1. occ(d) \in Row
  BY DEF Slot, occ
<1>2. CASE Owns(d, Held)
  <2>1. row' = [row EXCEPT ![occ(d)] = new] /\ row[occ(d)].st \in Held
    BY <1>2 DEF Update, Owns
  <2>2. RowMoves(occ(d))
    BY <1>1, <2>1, StatusFacts DEF TypeOK, RowMoves
  <2>3. QED
    BY <1>1, <2>1, <2>2 DEF TypeOK, RowMoves
<1>3. CASE ~Owns(d, Held)
  BY <1>3 DEF Update, RowMoves
<1>4. QED
  BY <1>2, <1>3

LEMMA RescheduleMoves ==
  ASSUME IInv, NEW d \in Slot, NEW delay \in Nat, Reschedule(d, delay)
  PROVE  \A o \in Row : RowMoves(o)
<1> DEFINE r == row[occ(d)]
           again == [Ended(r, "retry") EXCEPT !.avail = now + delay]
           dead == [Ended(r, "dead_letter") EXCEPT !.avail = NoTime]
<1>1. TypeOK /\ r \in RunRow /\ occ(d) \in Row
  BY DEF IInv, TypeOK, Slot, occ
<1>2. CASE ~Owns(d, Held)
  BY <1>2 DEF Reschedule, Update, RowMoves
<1>3. CASE Owns(d, Held) /\ d[3] < MaxAttempts
  <2>1. Update(d, Held, again)
    BY <1>3 DEF Reschedule
  <2>2. /\ again.task = r.task /\ again.sched = r.sched /\ again.att = r.att
        /\ again.st = "retry" /\ again.avail = now + delay
    BY <1>1 DEF RunRow, Ended
  <2>3. now \in Nat
    BY <1>1 DEF TypeOK
  <2>4. now <= again.avail /\ again.avail # NoTime
    BY <2>2, <2>3 DEF NoTime
  <2>5. again.att < MaxAttempts
    BY <1>3, <2>2 DEF Owns
  <2>6. QED
    BY <1>1, <2>1, <2>2, <2>4, <2>5, UpdateMoves
<1>4. CASE Owns(d, Held) /\ ~(d[3] < MaxAttempts)
  <2>1. Update(d, Held, dead)
    BY <1>4 DEF Reschedule
  <2>2. dead.task = r.task /\ dead.sched = r.sched /\ dead.st \in Terminal
    BY <1>1, StatusFacts DEF RunRow, Ended
  <2>3. QED
    BY <1>1, <2>1, <2>2, UpdateMoves
<1>5. QED
  BY <1>2, <1>3, <1>4

LEMMA SameTasks ==
  ASSUME UNCHANGED task
  PROVE  \A t \in Task : TaskMoves(t)
  BY DEF TaskMoves, Serviceable

LEMMA SameRows ==
  ASSUME UNCHANGED row
  PROVE  \A o \in Row : RowMoves(o)
  BY DEF RowMoves

\* Actions that leave both tables alone.
LEMMA MemoryStep ==
  ASSUME IInv, TypeOK', UNCHANGED <<task, row>>, now <= now'
  PROVE  IInv'
  BY SameTasks, SameRows, QuietStep

LEMMA DispatchStep ==
  ASSUME IInv, TypeOK', NEW d \in Slot, Dispatch(d)
  PROVE  IInv'
<1>1. UNCHANGED <<now, task>>
  BY DEF Dispatch, MarkStarted, Launch, FailBeforeLaunch, RecordLaunch, FailAfterLaunch, Finish,
         RetryLater, RetryNow, GiveUp, Renew, RunEnds, UserCancel
<1>2. now <= now'
  BY <1>1 DEF IInv, TypeOK
<1>3. TypeOK /\ row[occ(d)] \in RunRow /\ occ(d) \in Row
  BY DEF IInv, TypeOK, Slot, occ
<1>4. SUFFICES \A o \in Row : RowMoves(o)
  BY <1>1, <1>2, SameTasks, QuietStep
<1>5. CASE MarkStarted(d)
  <2>1. CASE UNCHANGED row
    BY <2>1, SameRows
  <2>2. CASE /\ Owns(d, Leased)
             /\ row' = [row EXCEPT ![occ(d)] = [row[occ(d)] EXCEPT !.st = "running", !.upd = now]]
    <3>1. /\ row'[occ(d)] = [row[occ(d)] EXCEPT !.st = "running", !.upd = now]
          /\ row[occ(d)].st \in Leased
      BY <1>3, <2>2 DEF TypeOK, Owns
    <3>2. RowMoves(occ(d))
      BY <1>3, <3>1 DEF RowMoves, RunRow
    <3>3. QED
      BY <1>3, <2>2, <3>2 DEF TypeOK, RowMoves
  <2>3. QED
    BY <1>5, <2>1, <2>2 DEF MarkStarted
<1>6. CASE RecordLaunch(d)
  <2> DEFINE new == [row[occ(d)] EXCEPT !.st = "launched", !.upd = now]
  <2>1. Update(d, Held, new)
    BY <1>6 DEF RecordLaunch
  <2>2. new.task = row[occ(d)].task /\ new.sched = row[occ(d)].sched /\ new.st = "launched"
    BY <1>3 DEF RunRow
  <2>3. QED
    BY <1>3, <2>1, <2>2, UpdateMoves
<1>7. CASE Finish(d)
  <2>1. PICK s \in {"success", "error"} : Update(d, Held, Ended(row[occ(d)], s))
    BY <1>7 DEF Finish
  <2> DEFINE new == Ended(row[occ(d)], s)
  <2>2. new.task = row[occ(d)].task /\ new.sched = row[occ(d)].sched /\ new.st \in Terminal
    BY <1>3 DEF RunRow, Ended, Terminal
  <2>3. QED
    BY <1>3, <2>1, <2>2, UpdateMoves
<1>8. CASE RetryLater(d) \/ RetryNow(d)
  BY <1>8, RescheduleMoves, SchedulerAssumption DEF SchedulerAssumption, RetryLater, RetryNow
<1>9. CASE Renew(d)
  <2>1. row' = [row EXCEPT ![occ(d)].lease = now + Lease, ![occ(d)].upd = now]
    BY <1>9 DEF Renew
  <2>2. QED
    BY <1>3, <2>1 DEF TypeOK, RowMoves, RunRow
<1>10. CASE \/ Launch(d) \/ FailBeforeLaunch(d) \/ FailAfterLaunch(d) \/ GiveUp(d)
            \/ RunEnds(d) \/ UserCancel(d)
  BY <1>10, SameRows DEF Launch, FailBeforeLaunch, FailAfterLaunch, GiveUp, RunEnds, UserCancel
<1>11. QED
  BY <1>5, <1>6, <1>7, <1>8, <1>9, <1>10 DEF Dispatch

LEMMA ServeStep ==
  ASSUME IInv, TypeOK', Serve
  PROVE  IInv'
<1>1. TypeOK /\ now \in Nat
  BY DEF IInv, TypeOK
<1>2. ASSUME NEW t \in Task, CreateTask(t) PROVE IInv'
  <2>1. UNCHANGED <<now, row>>
    BY <1>2 DEF CreateTask
  <2>2. \A s \in Task : TaskMoves(s)
    <3>1. TaskMoves(t)
      BY <1>1, <1>2, SchedulerAssumption
         DEF SchedulerAssumption, CreateTask, TaskMoves, Serviceable, TypeOK, TaskRow
    <3>2. ASSUME NEW s \in Task, s # t PROVE TaskMoves(s)
      BY <1>1, <1>2, <3>2 DEF CreateTask, TaskMoves, Serviceable, TypeOK, TaskRow
    <3>3. QED
      BY <3>1, <3>2
  <2>3. QED
    BY <1>1, <2>1, <2>2, SameRows, QuietStep
<1>a. ASSUME NEW p \in Process, NEW t \in Task, ReadSchedule(p, t) PROVE IInv'
  BY <1>1, <1>a, MemoryStep DEF ReadSchedule
<1>b. ASSUME NEW q \in requests, WriteEnabled(q) PROVE IInv'
  <2>1. UNCHANGED <<now, row>>
    BY <1>b DEF WriteEnabled
  <2>2. CASE UNCHANGED task
    BY <1>1, <2>1, <2>2, MemoryStep
  <2>3. CASE /\ now - q.at <= SlotSkew
             /\ task[q.task].st \in {"on", "off"}
             /\ task' = [task EXCEPT ![q.task] = [st |-> "on", next |-> q.next]]
    <3>1. q \in EnableCall /\ q.step = "enable"
      BY <1>1, <1>b DEF TypeOK, WriteEnabled, Request
    <3>2. q.task \in Task /\ q.next \in Nat /\ q.at \in Nat
      BY <3>1 DEF EnableCall
    <3>4. ASSUME NEW s \in Task PROVE TaskMoves(s)
      BY <1>1, <2>3, <3>2 DEF TaskMoves, Serviceable, TypeOK, TaskRow
    <3>5. QED
      BY <1>1, <2>1, <3>4, SameRows, QuietStep
  <2>4. QED
    BY <1>b, <2>2, <2>3 DEF WriteEnabled
<1>3. ASSUME NEW p \in Process, NEW t \in Task, NEW delete \in BOOLEAN, PauseTask(p, t, delete)
      PROVE  IInv'
  <2> DEFINE hit == {o \in Row : row[o].task = t /\ row[o].st \in Outstanding}
  <2>1. /\ row' = [o \in Row |-> IF o \in hit
                                 THEN [row[o] EXCEPT !.st = "cancelled", !.avail = NoTime,
                                                     !.lease = NoTime, !.upd = now]
                                 ELSE row[o]]
        /\ task' = [task EXCEPT ![t].st = "off"]
        /\ UNCHANGED now
    BY <1>3 DEF PauseTask
  <2>2. ASSUME NEW o \in Row PROVE RowMoves(o)
    <3>1. row[o] \in RunRow
      BY <1>1 DEF TypeOK
    <3>2. CASE o \in hit
      <4>1. row'[o] = [row[o] EXCEPT !.st = "cancelled", !.avail = NoTime,
                                     !.lease = NoTime, !.upd = now]
        BY <2>1, <3>2
      <4>2. row[o].st # "none" /\ "cancelled" \in Terminal
        BY <3>2, StatusFacts DEF Terminal
      <4>3. QED
        BY <3>1, <4>1, <4>2 DEF RowMoves, RunRow
    <3>3. CASE o \notin hit
      BY <2>1, <3>3 DEF RowMoves
    <3>4. QED
      BY <3>2, <3>3
  <2>3. ASSUME NEW o \in Row, row'[o].task = t PROVE row'[o].st \notin Outstanding
    <3>1. row[o] \in RunRow
      BY <1>1 DEF TypeOK
    <3>2. CASE o \in hit
      <4>1. row'[o].st = "cancelled" /\ "cancelled" \in Terminal
        BY <2>1, <3>1, <3>2 DEF RunRow, Terminal
      <4>2. QED
        BY <4>1, StatusFacts
    <3>3. CASE o \notin hit
      BY <2>1, <2>3, <3>3
    <3>4. QED
      BY <3>2, <3>3
  <2>4. ASSUME NEW s \in Task PROVE TaskMoves(s)
    <3>1. task[s] \in TaskRow
      BY <1>1 DEF TypeOK
    <3>2. CASE s # t
      <4>1. task'[s] = task[s]
        BY <1>1, <2>1, <3>2 DEF TypeOK
      <4>2. QED
        BY <3>1, <4>1 DEF TaskMoves, Serviceable
    <3>3. CASE s = t
      <4>1. task'[s].st = "off"
        BY <1>1, <2>1, <3>1, <3>3 DEF TypeOK, TaskRow
      <4>2. QED
        BY <2>3, <3>3, <4>1 DEF TaskMoves
    <3>4. QED
      BY <3>2, <3>3
  <2>5. now <= now'
    <3>1. UNCHANGED now
      BY <1>3 DEF PauseTask
    <3>2. QED
      BY <1>1, <3>1
  <2>6. QED
    BY <2>2, <2>4, <2>5, QuietStep
<1>4. ASSUME NEW q \in requests, CancelActiveWork(q) PROVE IInv'
  <2>1. UNCHANGED <<now, task, row>>
    BY <1>4 DEF CancelActiveWork
  <2>2. now <= now'
    BY <1>1, <2>1
  <2>3. QED
    BY <2>1, <2>2, MemoryStep
<1>5. ASSUME NEW q \in requests, RequestDone(q) PROVE IInv'
  <2>1. CASE UNCHANGED <<task, row>>
    BY <1>1, <1>5, <2>1, MemoryStep DEF RequestDone
  <2>2. CASE /\ task' = [task EXCEPT ![q.task] = [st |-> "gone", next |-> NoTime]]
             /\ row' = [o \in Row |->
                          IF row[o].task = q.task /\ row[o].st # "none"
                          THEN [row[o] EXCEPT !.st = "deleted"] ELSE row[o]]
    <3>1. ASSUME NEW o \in Row PROVE RowMoves(o)
      <4>1. row[o] \in RunRow
        BY <1>1 DEF TypeOK
      <4>2. CASE row[o].task = q.task /\ row[o].st # "none"
        <5>1. row'[o] = [row[o] EXCEPT !.st = "deleted"]
          BY <2>2, <4>2
        <5>2. QED
          BY <4>1, <4>2, <5>1 DEF RowMoves, RunRow
      <4>3. CASE ~(row[o].task = q.task /\ row[o].st # "none")
        BY <2>2, <4>3 DEF RowMoves
      <4>4. QED
        BY <4>2, <4>3
    <3>2. q.task \in Task
      BY <1>1 DEF TypeOK, Request, EnableCall
    <3>3. ASSUME NEW o \in Row, row'[o].task = q.task PROVE row'[o].st \notin Outstanding
      BY <1>1, <2>2, <3>3, StatusFacts DEF TypeOK, RunRow
    <3>4. ASSUME NEW s \in Task PROVE TaskMoves(s)
      BY <1>1, <2>2, <3>2, <3>3 DEF TaskMoves, Serviceable, TypeOK, TaskRow
    <3>5. now <= now'
      BY <1>1, <1>5 DEF RequestDone
    <3>6. QED
      BY <3>1, <3>4, <3>5, QuietStep
  <2>3. QED
    BY <1>5, <2>1, <2>2 DEF RequestDone
<1>6. QED
  BY <1>2, <1>a, <1>b, <1>3, <1>4, <1>5 DEF Serve

\* The actions of a process outside its poll.
LEMMA LifeStep ==
  ASSUME IInv, TypeOK', NEW p \in Process, Life(p)
  PROVE  IInv'
<1>1. UNCHANGED <<now, task, row>>
  BY DEF Life, Stop, StopDispatches, Stopped, Crash, Exit, Start
<1>2. now <= now'
  BY <1>1 DEF IInv, TypeOK
<1>3. QED
  BY <1>1, <1>2, MemoryStep

\* The polls that do not claim.
LEMMA PollStep ==
  ASSUME IInv, TypeOK', NEW p \in Process, Reconcile(p) \/ PollFails(p) \/ CleanupHistory(p)
  PROVE  IInv'
<1>1. UNCHANGED <<now, task>>
  BY DEF Reconcile, PollFails, CleanupHistory
<1>2. now <= now' /\ row \in [Row -> RunRow]
  BY <1>1 DEF IInv, TypeOK
<1>3. SUFFICES \A o \in Row : RowMoves(o)
  BY <1>1, <1>2, SameTasks, QuietStep
<1>4. CASE Reconcile(p)
  <2>1. PICK at \in Sampled :
          row' = [o \in Row |->
                    IF Orphaned(row[o], at)
                    THEN [row[o] EXCEPT !.st = "interrupted", !.lease = NoTime, !.upd = at]
                    ELSE row[o]]
    BY <1>4 DEF Reconcile
  <2>2. ASSUME NEW o \in Row PROVE RowMoves(o)
    <3>1. row[o] \in RunRow
      BY <1>2
    <3>2. CASE Orphaned(row[o], at)
      <4>1. row'[o] = [row[o] EXCEPT !.st = "interrupted", !.lease = NoTime, !.upd = at]
        BY <2>1, <3>2
      <4>2. row[o].st # "none" /\ "interrupted" \in Terminal
        BY <3>2 DEF Orphaned, Terminal
      <4>3. QED
        BY <3>1, <4>1, <4>2 DEF RowMoves, RunRow
    <3>3. CASE ~Orphaned(row[o], at)
      BY <2>1, <3>3 DEF RowMoves
    <3>4. QED
      BY <3>2, <3>3
  <2>3. QED
    BY <2>2
<1>5. CASE CleanupHistory(p)
  <2> DEFINE old == {o \in Row : Expired(o) \/ Excess(o)}
  <2>1. row' = [o \in Row |-> IF o \in old THEN [row[o] EXCEPT !.st = "deleted"] ELSE row[o]]
    BY <1>5 DEF CleanupHistory
  <2>2. ASSUME NEW o \in Row PROVE RowMoves(o)
    <3>1. row[o] \in RunRow
      BY <1>2
    <3>2. CASE o \in old
      <4>1. row'[o] = [row[o] EXCEPT !.st = "deleted"] /\ row[o].st # "none"
        BY <2>1, <3>2, StatusFacts DEF Expired, Excess, History
      <4>2. QED
        BY <3>1, <4>1 DEF RowMoves, RunRow
    <3>3. CASE o \notin old
      BY <2>1, <3>3 DEF RowMoves
    <3>4. QED
      BY <3>2, <3>3
  <2>3. QED
    BY <2>2
<1>6. CASE PollFails(p)
  BY <1>6, SameRows DEF PollFails
<1>7. QED
  BY <1>4, <1>5, <1>6

-----------------------------------------------------------------------------
(* The claim.                                                              *)

LEMMA RowFinite == IsFiniteSet(Row)
  BY FS_Interval, SchedulerAssumption DEF SchedulerAssumption, Row

\* A poll's capacity is a number: a process has finitely many dispatches.
LEMMA CapacityType ==
  ASSUME NEW p \in Process
  PROVE  Capacity(p) \in Int
<1> DEFINE Pair == (Process \X Row) \X Attempt
           f == [d \in Slot |-> <<<<d[1], d[2]>>, d[3]>>]
<1>1. IsFiniteSet(Attempt)
  BY FS_Interval, SchedulerAssumption DEF SchedulerAssumption, Attempt
<1>2. IsFiniteSet(Process \X Row)
  BY RowFinite, FS_Product, SchedulerAssumption DEF SchedulerAssumption
<1>3. IsFiniteSet(Pair)
  BY <1>1, <1>2, FS_Product
<1>4. f \in [Slot -> Pair]
  BY DEF Slot
<1>5. \A d, e \in Slot : f[d] = f[e] => d = e
  BY DEF Slot
<1>6. f \in Injection(Slot, Pair)
  BY <1>4, <1>5 DEF Injection, IsInjective
<1>7. IsFiniteSet(Slot)
  BY <1>3, <1>6, FS_Injection
<1>8. Dispatches(p) \in SUBSET Slot
  BY DEF Dispatches
<1>9. Cardinality(Dispatches(p)) \in Nat
  BY <1>7, <1>8, FS_Subset, FS_CardinalityType
<1>10. QED
  BY <1>9, SchedulerAssumption DEF SchedulerAssumption, Capacity

\* The order of claims is a strict total order on occurrences.
LEMMA BeforeOrder ==
  ASSUME NEW tbl \in [Row -> RunRow]
  PROVE  /\ \A x, y, z \in Row : Before(tbl, x, y) /\ Before(tbl, y, z) => Before(tbl, x, z)
         /\ \A x, y \in Row : x # y => Before(tbl, x, y) \/ Before(tbl, y, x)
<1>1. ASSUME NEW x \in Row PROVE Key(tbl[x]) \in Int /\ x \in Int
  <2>1. tbl[x] \in RunRow
    OBVIOUS
  <2>2. QED
    BY <2>1 DEF Key, RunRow, NoTime, Row
<1>2. QED
  BY <1>1 DEF Before

\* What the first n rows of a set in claim order are closed under.
LEMMA FirstClosed ==
  ASSUME NEW tbl \in [Row -> RunRow], NEW S \in SUBSET Row, NEW n \in Int,
         NEW o \in First(tbl, S, n), NEW x \in S, Before(tbl, x, o)
  PROVE  x \in First(tbl, S, n)
<1> DEFINE B(z) == {w \in S : Before(tbl, w, z)}
<1>1. o \in S /\ Cardinality(B(o)) < n
  BY DEF First
<1>2. B(x) \subseteq B(o)
  BY <1>1, BeforeOrder
<1>3. IsFiniteSet(B(o))
  BY RowFinite, FS_Subset
<1>4. /\ Cardinality(B(x)) <= Cardinality(B(o))
      /\ Cardinality(B(x)) \in Nat /\ Cardinality(B(o)) \in Nat
  BY <1>2, <1>3, FS_Subset, FS_CardinalityType
<1>5. Cardinality(B(x)) < n
  BY <1>1, <1>4
<1>6. QED
  BY <1>5 DEF First

\* The part of the invariant about the tables, for each of the tables a claim
\* passes through: the rows with the new occurrences, then without the exhausted
\* ones, then with the leases granted.
RowOK(r) ==
  /\ r.st # "none" => r.sched <= now
  /\ r.st \in Waiting => r.avail # NoTime /\ r.sched <= r.avail /\ r.att < MaxAttempts
  /\ r.st \in Leased => r.avail = NoTime
  /\ r.task \in Invalid => r.st \notin Outstanding

Ahead(tbl) ==
  \A x, y \in Row :
    tbl[x].st \in Leased /\ tbl[y].st \in Waiting /\ thread(tbl, x) = thread(tbl, y) =>
      Before(tbl, x, y) \/ Overtakes(tbl, y, x)

Apart(tbl) ==
  \A x, y \in Row :
    x # y /\ tbl[x].st \in Held /\ tbl[y].st \in Held /\ thread(tbl, x) = thread(tbl, y) =>
      Overtakes(tbl, x, y) \/ Overtakes(tbl, y, x)

Served(tbl, tsk) == \A o \in Row : tbl[o].st \in Outstanding => Serviceable(tsk, tbl[o].task)

Table(tbl, tsk) ==
  /\ tbl \in [Row -> RunRow]
  /\ \A o \in Row : RowOK(tbl[o])
  /\ Served(tbl, tsk) /\ Ahead(tbl) /\ Apart(tbl)

\* No occurrence is created, and none loses its slot.
SameSlots(old, tbl) ==
  \A o \in Row : tbl[o].sched = old[o].sched /\ (tbl[o].st = "none" <=> old[o].st = "none")

LEMMA TableOfInvariant == IInv => Table(row, task)
  BY DEF IInv, TypeOK, RowsOK, NoStrandedWork, LeaseholderFirst, SerializedThreads,
         Table, RowOK, Served, Ahead, Apart

LEMMA InsertedTable ==
  ASSUME IInv, NEW at \in Sampled, NEW new \in SUBSET (Row \ Used),
         NEW due \in [new -> DueTasks(at)], NEW slot
  PROVE  Table(Inserted(due, at), Advanced(due, slot))
<1> DEFINE tbl == Inserted(due, at)
           tsk == Advanced(due, slot)
<1> USE StatusFacts
<1>1. /\ TypeOK /\ at \in Nat /\ at <= now /\ now \in Nat /\ new \in SUBSET Row
      /\ MaxAttempts \in Nat /\ 0 < MaxAttempts
  BY SchedulerAssumption DEF SchedulerAssumption, IInv, TypeOK, Sampled
<1>2. tbl \in [Row -> RunRow]
  BY <1>1, InsertedType
<1>3. ASSUME NEW o \in new
      PROVE  /\ due[o] \in Task /\ task[due[o]].st = "on"
             /\ task[due[o]].next \in Nat /\ task[due[o]].next <= at
  BY <1>1 DEF DueTasks, TypeOK, TaskRow, NoTime
<1>4. ASSUME NEW o \in new
      PROVE  /\ tbl[o].task = due[o] /\ tbl[o].sched = task[due[o]].next /\ tbl[o].att = 0
             /\ due[o] \in Invalid => tbl[o].st = "dead_letter"
             /\ due[o] \notin Invalid => tbl[o].st = "pending" /\ tbl[o].avail = at
  <2>1. tbl[o] = NewRow(due[o], at)
    BY <1>1 DEF Inserted
  <2>2. QED
    BY <2>1 DEF NewRow
<1>5. ASSUME NEW o \in Row, o \notin new PROVE tbl[o] = row[o]
  BY <1>5 DEF Inserted
<1>6. ASSUME NEW o \in Row PROVE RowOK(tbl[o])
  <2>1. CASE o \in new
    <3>1. tbl[o].sched <= now /\ tbl[o].sched <= at
      BY <2>1, <1>1, <1>3, <1>4
    <3>2. CASE due[o] \in Invalid
      BY <2>1, <3>1, <3>2, <1>4 DEF RowOK
    <3>3. CASE due[o] \notin Invalid
      BY <2>1, <3>1, <3>3, <1>1, <1>4 DEF RowOK, NoTime
    <3>4. QED
      BY <3>2, <3>3
  <2>2. CASE o \notin new
    BY <2>2, <1>5 DEF IInv, RowsOK, RowOK
  <2>3. QED
    BY <2>1, <2>2
<1>7. Served(tbl, tsk)
  <2> SUFFICES ASSUME NEW o \in Row, tbl[o].st \in Outstanding
               PROVE  Serviceable(tsk, tbl[o].task)
    BY DEF Served
  <2>1. tbl[o].task \in Task \ Invalid
    BY <1>2, <1>6 DEF RowOK, RunRow
  <2>2. CASE \E z \in new : due[z] = tbl[o].task
    <3>1. tsk[tbl[o].task].st = IF tbl[o].task \in Once THEN "off" ELSE "on"
      BY <2>1, <2>2 DEF Advanced
    <3>2. QED
      BY <3>1 DEF Serviceable
  <2>3. CASE \A z \in new : due[z] # tbl[o].task
    <3>1. o \notin new
      BY <2>3, <1>4
    <3>2. tsk[tbl[o].task] = task[tbl[o].task]
      BY <2>1, <2>3 DEF Advanced
    <3>3. Serviceable(task, tbl[o].task)
      BY <3>1, <1>5 DEF IInv, NoStrandedWork
    <3>4. QED
      BY <3>2, <3>3 DEF Serviceable
  <2>4. QED
    BY <2>2, <2>3
<1>8. ASSUME NEW x \in Row, tbl[x].st \in Held PROVE x \notin new /\ tbl[x] = row[x]
  BY <1>8, <1>4, <1>5
<1>9. Ahead(tbl)
  <2> SUFFICES ASSUME NEW x \in Row, NEW y \in Row, tbl[x].st \in Leased, tbl[y].st \in Waiting,
                      thread(tbl, x) = thread(tbl, y)
               PROVE  Before(tbl, x, y) \/ Overtakes(tbl, y, x)
    BY DEF Ahead
  <2>1. tbl[x] = row[x] /\ x \in Used /\ row[x].avail = NoTime /\ row[x].sched \in Nat
    BY <1>1, <1>8 DEF IInv, RowsOK, Used, TypeOK, RunRow
  <2>2. CASE y \in new
    <3>1. tbl[y].avail = at /\ due[y] \notin Invalid
      BY <2>2, <1>4
    <3>3. x < y
      <4>1. 1 .. x \subseteq Used /\ y \notin Used
        BY <2>1, <2>2 DEF IInv, RowsInOrder
      <4>2. QED
        BY <4>1, SchedulerAssumption DEF Row, SchedulerAssumption
    <3>4. Key(tbl[x]) = row[x].sched /\ Key(tbl[y]) = at
      BY <2>1, <3>1, <1>1 DEF Key, NoTime
    \* The slot of y is no later than the poll: y overtakes if that of x is.
    <3>5. CASE row[x].sched <= at
      BY <3>3, <3>4, <3>5, <2>1, <1>1 DEF Before
    <3>6. CASE ~(row[x].sched <= at)
      BY <3>3, <3>6, <2>1, <2>2, <1>1, <1>3, <1>4 DEF Overtakes
    <3>7. QED
      BY <3>5, <3>6
  <2>3. CASE y \notin new
    <3>1. tbl[y] = row[y]
      BY <2>3, <1>5
    <3>2. Before(row, x, y) \/ Overtakes(row, y, x)
      BY <2>1, <3>1 DEF IInv, LeaseholderFirst, thread
    <3>3. QED
      BY <2>1, <3>1, <3>2 DEF Before, Overtakes
  <2>4. QED
    BY <2>2, <2>3
<1>10. Apart(tbl)
  BY <1>8 DEF Apart, IInv, SerializedThreads, thread, Overtakes
<1>11. QED
  BY <1>2, <1>6, <1>7, <1>9, <1>10 DEF Table

LEMMA DeadLetteredTable ==
  ASSUME NEW tbl, NEW tsk, Table(tbl, tsk), NEW at \in Nat,
         NEW dead, dead = DeadLettered(tbl, at)
  PROVE  /\ Table(dead, tsk)
         /\ \A o \in Row : Claimable(dead[o], at) => dead[o].att < MaxAttempts
         /\ SameSlots(tbl, dead)
<1> DEFINE hit == {o \in Row : tbl[o].att >= MaxAttempts /\ Claimable(tbl[o], at)}
<1> USE StatusFacts
<1>1. tbl \in [Row -> RunRow] /\ MaxAttempts \in Nat
  BY SchedulerAssumption DEF SchedulerAssumption, Table
<1>2. dead \in [Row -> RunRow]
  BY <1>1, DeadLetteredType
<1>3. ASSUME NEW o \in hit
      PROVE  /\ dead[o].st = "dead_letter" /\ dead[o].task = tbl[o].task
             /\ dead[o].sched = tbl[o].sched /\ tbl[o].st # "none"
  <2>1. tbl[o] \in RunRow /\ tbl[o].st # "none"
    BY <1>1 DEF Claimable
  <2>2. dead[o] = [tbl[o] EXCEPT !.st = "dead_letter", !.lease = NoTime, !.upd = at]
    BY DEF DeadLettered
  <2>3. QED
    BY <2>1, <2>2 DEF RunRow
<1>4. ASSUME NEW o \in Row, o \notin hit PROVE dead[o] = tbl[o]
  BY <1>4 DEF DeadLettered
<1>5. ASSUME NEW o \in Row PROVE RowOK(dead[o])
  BY <1>3, <1>4 DEF Table, RowOK
<1>6. Served(dead, tsk)
  BY <1>3, <1>4 DEF Table, Served
<1>7. ASSUME NEW o \in Row, dead[o].st \in Outstanding PROVE dead[o] = tbl[o]
  BY <1>7, <1>3, <1>4
<1>8. Ahead(dead)
  BY <1>7 DEF Table, Ahead, thread, Before, Overtakes
<1>9. Apart(dead)
  BY <1>7 DEF Table, Apart, thread, Overtakes
<1>10. ASSUME NEW o \in Row, Claimable(dead[o], at) PROVE dead[o].att < MaxAttempts
  <2>1. o \notin hit
    BY <1>3, <1>10 DEF Claimable
  <2>2. dead[o] = tbl[o] /\ tbl[o].att \in Int
    BY <2>1, <1>1, <1>4 DEF RunRow
  <2>3. QED
    BY <1>1, <1>10, <2>1, <2>2
<1>11. SameSlots(tbl, dead)
  BY <1>3, <1>4 DEF SameSlots
<1>12. Table(dead, tsk)
  BY <1>2, <1>5, <1>6, <1>8, <1>9 DEF Table
<1>13. QED
  BY <1>10, <1>11, <1>12

\* The heart of the argument: the leases one transaction grants keep
\* conversations apart and leaseholders first.
LEMMA GrantedTable ==
  ASSUME NEW tbl, NEW tsk, Table(tbl, tsk), NEW at \in Sampled, NEW limit \in Int,
         TypeOK, \A o \in Row : Claimable(tbl[o], at) => tbl[o].att < MaxAttempts,
         NEW C, C = Claimed(tbl, tsk, at, limit), NEW out, out = Granted(tbl, C, at)
  PROVE  /\ Table(out, tsk)
         /\ SameSlots(tbl, out)
<1> DEFINE cand == Candidates(tbl, tsk, at)
           window == First(tbl, cand, 4 * limit)
<1> USE StatusFacts
<1>1. /\ tbl \in [Row -> RunRow] /\ at \in Nat /\ at <= now /\ now \in Nat
  BY DEF Table, TypeOK, Sampled
<1>2. out \in [Row -> RunRow]
  BY <1>1, ClaimedInRow, GrantedType
<1>3. ASSUME NEW o \in Row
      PROVE  /\ tbl[o].sched \in Nat /\ tbl[o].avail \in Int /\ tbl[o].lease \in Int
             /\ Key(tbl[o]) \in Int
  <2>1. tbl[o] \in RunRow
    BY <1>1
  <2>2. QED
    BY <2>1 DEF RunRow, NoTime, Key
<1>4. ASSUME NEW o \in C
      PROVE  /\ o \in Row /\ o \in cand /\ o \in window
             /\ thread(tbl, o) \notin BusyThreads(tbl, at)
             /\ \A x \in window : Before(tbl, x, o) => thread(tbl, x) # thread(tbl, o)
  BY DEF Claimed, First, Candidates
<1>5. ASSUME NEW o \in C
      PROVE  /\ out[o].st = "claimed" /\ out[o].avail = NoTime
             /\ out[o].task = tbl[o].task /\ out[o].sched = tbl[o].sched
  <2>1. o \in Row /\ tbl[o] \in RunRow
    BY <1>1, <1>4
  <2>2. out[o] = [tbl[o] EXCEPT !.st = "claimed", !.att = @ + 1, !.avail = NoTime,
                                !.lease = at + Lease, !.upd = at]
    BY <2>1 DEF Granted
  <2>3. QED
    BY <2>1, <2>2 DEF RunRow
<1>6. ASSUME NEW o \in Row, o \notin C PROVE out[o] = tbl[o]
  BY <1>6 DEF Granted
<1>7. ASSUME NEW o \in cand
      PROVE  /\ tbl[o].st \in Outstanding
             /\ tbl[o].st \in Waiting \/ (tbl[o].st \in Leased /\ tbl[o].lease <= at)
             /\ tbl[o].st \in Waiting => Key(tbl[o]) <= at
  BY DEF Candidates, Claimable
\* Whatever is claimable in claim order before a claimed row is in the window.
<1>8. ASSUME NEW o \in C, NEW x \in cand, Before(tbl, x, o)
      PROVE  thread(tbl, x) # thread(tbl, o)
  <2>1. cand \in SUBSET Row /\ 4 * limit \in Int
    BY DEF Candidates
  <2>2. x \in window
    BY <1>1, <1>4, <1>8, <2>1, FirstClosed
  <2>3. QED
    BY <1>4, <1>8, <2>2
<1>9. ASSUME NEW x \in Row, Claimable(tbl[x], at) PROVE x \in cand
  <2>1. tbl[x].st \in Outstanding
    BY <1>9 DEF Claimable
  <2>2. QED
    BY <1>9, <2>1 DEF Table, Served, Candidates
\* No other row of the conversation of a claimed row is leased or launched, but
\* for overtaking.
<1>10. ASSUME NEW o \in C, NEW x \in Row, x # o, tbl[x].st \in Held,
              thread(tbl, x) = thread(tbl, o)
       PROVE  Overtakes(tbl, x, o) \/ Overtakes(tbl, o, x)
  <2>1. thread(tbl, x) \notin BusyThreads(tbl, at)
    BY <1>4, <1>10
  <2>2. tbl[x].st \in Leased /\ ~(tbl[x].lease > at)
    BY <2>1, <1>10 DEF BusyThreads, Held
  <2>3. x \in cand
    BY <2>2, <1>1, <1>3, <1>9 DEF Claimable
  <2>4. CASE tbl[o].st \in Held
    BY <2>4, <1>4, <1>10 DEF Table, Apart
  <2>5. CASE tbl[o].st \in Waiting
    <3>1. Before(tbl, x, o) \/ Overtakes(tbl, o, x)
      BY <2>2, <2>5, <1>4, <1>10 DEF Table, Ahead
    <3>2. ~Before(tbl, x, o)
      BY <2>3, <1>8, <1>10
    <3>3. QED
      BY <3>1, <3>2
  <2>6. QED
    BY <2>4, <2>5, <1>4, <1>7
<1>11. ASSUME NEW o \in Row PROVE RowOK(out[o])
  <2>1. CASE o \in C
    <3>1. RowOK(tbl[o]) /\ tbl[o].st \in Outstanding
      BY <2>1, <1>4, <1>7 DEF Table
    <3>2. QED
      BY <2>1, <3>1, <1>5 DEF RowOK
  <2>2. CASE o \notin C
    BY <2>2, <1>6 DEF Table
  <2>3. QED
    BY <2>1, <2>2
<1>12. ASSUME NEW o \in Row
       PROVE  thread(out, o) = thread(tbl, o)
  BY <1>5, <1>6 DEF thread
<1>16. ASSUME NEW o \in Row
       PROVE  out[o].sched = tbl[o].sched /\ (out[o].st = "none" <=> tbl[o].st = "none")
  <2>1. CASE o \in C
    BY <2>1, <1>4, <1>5, <1>7
  <2>2. CASE o \notin C
    BY <2>2, <1>6
  <2>3. QED
    BY <2>1, <2>2
<1>13. Served(out, tsk)
  <2> SUFFICES ASSUME NEW o \in Row, out[o].st \in Outstanding
               PROVE  Serviceable(tsk, out[o].task)
    BY DEF Served
  <2>1. tbl[o].st \in Outstanding /\ out[o].task = tbl[o].task
    BY <1>4, <1>5, <1>6, <1>7
  <2>2. QED
    BY <2>1 DEF Table, Served
<1>14. Apart(out)
  <2> SUFFICES ASSUME NEW x \in Row, NEW y \in Row, x # y, out[x].st \in Held, out[y].st \in Held,
                      thread(tbl, x) = thread(tbl, y)
               PROVE  Overtakes(tbl, x, y) \/ Overtakes(tbl, y, x)
    BY <1>12, <1>16 DEF Apart, Overtakes
  <2>1. CASE x \in C /\ y \in C
    <3>1. Before(tbl, x, y) \/ Before(tbl, y, x)
      BY <1>1, BeforeOrder
    <3>2. QED
      BY <2>1, <3>1, <1>4
  <2>2. CASE x \in C /\ y \notin C
    BY <2>2, <1>6, <1>10
  <2>3. CASE x \notin C /\ y \in C
    BY <2>3, <1>6, <1>10
  <2>4. CASE x \notin C /\ y \notin C
    BY <2>4, <1>6 DEF Table, Apart
  <2>5. QED
    BY <2>1, <2>2, <2>3, <2>4
<1>15. Ahead(out)
  <2> SUFFICES ASSUME NEW x \in Row, NEW y \in Row, out[x].st \in Leased, out[y].st \in Waiting,
                      thread(tbl, x) = thread(tbl, y)
               PROVE  Before(out, x, y) \/ Overtakes(tbl, y, x)
    BY <1>12, <1>16 DEF Ahead, Overtakes
  <2>1. y \notin C /\ out[y] = tbl[y]
    BY <1>5, <1>6
  <2>2. x # y
    BY DEF Waiting, Leased
  <2>3. CASE x \notin C
    <3>1. out[x] = tbl[x]
      BY <2>3, <1>6
    <3>2. QED
      BY <2>1, <3>1 DEF Table, Ahead, Before
  <2>4. CASE x \in C /\ tbl[x].st \in Leased
    <3>1. (Before(tbl, x, y) \/ Overtakes(tbl, y, x)) /\ tbl[x].avail = NoTime
      BY <2>1, <2>4 DEF Table, Ahead, RowOK
    <3>2. Key(out[x]) = Key(tbl[x])
      BY <2>4, <3>1, <1>5 DEF Key
    <3>3. QED
      BY <2>1, <3>1, <3>2 DEF Before
  <2>5. CASE x \in C /\ tbl[x].st \in Waiting
    <3>1. Key(out[x]) = tbl[x].sched /\ tbl[x].sched <= Key(tbl[x]) /\ Key(tbl[x]) <= at
      <4>1. tbl[x].sched <= tbl[x].avail /\ tbl[x].avail # NoTime
        BY <2>5 DEF Table, RowOK
      <4>2. QED
        BY <4>1, <2>5, <1>4, <1>5, <1>7 DEF Key
    <3>2. CASE Key(tbl[y]) <= at
      <4>1. y \in cand
        BY <2>1, <3>2, <1>9 DEF Claimable
      <4>2. Before(tbl, x, y)
        BY <4>1, <2>2, <2>5, <1>1, <1>8, BeforeOrder
      <4>3. QED
        BY <4>2, <2>1, <3>1, <1>3 DEF Before
    <3>3. CASE ~(Key(tbl[y]) <= at)
      BY <2>1, <3>1, <3>3, <1>1, <1>3 DEF Before
    <3>4. QED
      BY <3>2, <3>3
  <2>6. QED
    BY <2>3, <2>4, <2>5, <1>4, <1>7
<1>17. Table(out, tsk)
  BY <1>2, <1>11, <1>13, <1>14, <1>15 DEF Table
<1>18. SameSlots(tbl, out)
  BY <1>16 DEF SameSlots
<1>19. QED
  BY <1>17, <1>18

LEMMA ClaimStep ==
  ASSUME IInv, TypeOK', NEW p \in Process, Claim(p)
  PROVE  IInv'
<1>a. PICK at \in Sampled : \E new \in SUBSET (Row \ Used) : \E due \in [new -> DueTasks(at)] :
        \E slot \in [{due[o] : o \in new} -> at + 1 .. at + Period] : ClaimRows(p, at, due, slot)
  BY DEF Claim
<1>b. PICK new \in SUBSET (Row \ Used) : \E due \in [new -> DueTasks(at)] :
        \E slot \in [{due[o] : o \in new} -> at + 1 .. at + Period] : ClaimRows(p, at, due, slot)
  BY <1>a
<1>c. PICK due \in [new -> DueTasks(at)] :
        \E slot \in [{due[o] : o \in new} -> at + 1 .. at + Period] : ClaimRows(p, at, due, slot)
  BY <1>b
<1>d. PICK slot \in [{due[o] : o \in new} -> at + 1 .. at + Period] : ClaimRows(p, at, due, slot)
  BY <1>c
<1> DEFINE limit == IF Capacity(p) < 10 THEN Capacity(p) ELSE 10
           tsk == Advanced(due, slot)
           ins == Inserted(due, at)
           tbl == DeadLettered(ins, at)
           C == Claimed(tbl, tsk, at, limit)
<1>1. /\ DueBatch(due, at, limit)
      /\ \A o \in new : slot[due[o]] > at
      /\ task' = tsk /\ row' = Granted(tbl, C, at) /\ UNCHANGED now
  BY <1>d DEF ClaimRows, Claim
<1>2. TypeOK /\ at \in Nat /\ at <= now /\ now \in Nat /\ limit \in Int
  BY CapacityType DEF IInv, TypeOK, Sampled
<1>3. Table(ins, tsk)
  BY InsertedTable
<1>e. tbl = DeadLettered(ins, at) /\ C = Claimed(tbl, tsk, at, limit)
  OBVIOUS
<1> HIDE DEF tbl, C, limit
<1>4. /\ Table(tbl, tsk)
      /\ \A o \in Row : Claimable(tbl[o], at) => tbl[o].att < MaxAttempts
      /\ SameSlots(ins, tbl)
  <2> HIDE DEF ins, tsk
  <2>1. at \in Nat
    BY <1>2
  <2>2. tbl = DeadLettered(ins, at)
    BY <1>e
  <2>3. QED
    BY <1>3, <2>1, <2>2, DeadLetteredTable
<1>5. /\ Table(row', task')
      /\ SameSlots(tbl, row')
  <2> HIDE DEF tsk
  <2>1. limit \in Int /\ TypeOK
    BY <1>2
  <2>2. C = Claimed(tbl, tsk, at, limit) /\ row' = Granted(tbl, C, at) /\ task' = tsk
    BY <1>1, <1>e
  <2>3. QED
    BY <1>4, <2>1, <2>2, GrantedTable
<1>6. ASSUME NEW o \in new
      PROVE  /\ due[o] \in DueTasks(at) /\ due[o] \in Task /\ task[due[o]].st = "on"
             /\ task[due[o]].next # NoTime /\ task[due[o]].next \in Nat
             /\ task[due[o]].next <= at
             /\ row'[o].sched = task[due[o]].next /\ row'[o].st # "none"
  <2>1. due[o] \in DueTasks(at) /\ o \in Row
    OBVIOUS
  <2>2. ins[o] = NewRow(due[o], at)
    BY <2>1 DEF Inserted
  <2>3. ins[o].sched = task[due[o]].next /\ ins[o].st # "none"
    BY <2>2 DEF NewRow
  <2>4. row'[o].sched = task[due[o]].next /\ row'[o].st # "none"
    BY <2>1, <2>3, <1>4, <1>5 DEF SameSlots
  <2>5. QED
    BY <2>1, <2>4, <1>2 DEF DueTasks, TypeOK, TaskRow, NoTime
<1>7. ASSUME NEW o \in Row, o \notin new
      PROVE  row'[o].sched = row[o].sched /\ (row'[o].st = "none" <=> row[o].st = "none")
  <2>1. ins[o] = row[o]
    BY <1>7 DEF Inserted
  <2>2. QED
    BY <2>1, <1>4, <1>5, <1>7 DEF SameSlots
<1>8. Used' = Used \cup new
  BY <1>6, <1>7 DEF Used
<1>9. RowsInOrder'
  <2> SUFFICES ASSUME NEW o \in Used' PROVE 1 .. o \subseteq Used'
    BY DEF RowsInOrder
  <2>1. CASE o \in Used
    BY <2>1, <1>8 DEF IInv, RowsInOrder
  <2>2. CASE o \in new
    BY <2>2, <1>1, <1>8 DEF DueBatch
  <2>3. QED
    BY <2>1, <2>2, <1>8
<1>11. RowsOK' /\ NoStrandedWork' /\ LeaseholderFirst' /\ SerializedThreads'
  BY <1>1, <1>5 DEF Table, RowOK, Served, Ahead, Apart, RowsOK, NoStrandedWork, LeaseholderFirst,
                    SerializedThreads
<1>12. QED
  BY <1>9, <1>11 DEF IInv

LEMMA InitInvariant == Init => IInv
<1> SUFFICES ASSUME Init PROVE IInv
  OBVIOUS
<1>1. TypeOK
  BY TypeInit
<1>2. \A o \in Row : row[o].st = "none"
  BY DEF Init, NoRow
<1>3. QED
  BY <1>1, <1>2, StatusFacts
     DEF IInv, Init, RowsOK, RowsInOrder, Used, NoStrandedWork, LeaseholderFirst,
         SerializedThreads

LEMMA StepInvariant == IInv /\ [Next]_vars => IInv'
<1> SUFFICES ASSUME IInv, [Next]_vars PROVE IInv'
  OBVIOUS
<1>1. TypeOK'
  BY TypeStep DEF IInv
<1>2. CASE Tick
  <2>1. UNCHANGED <<task, row>> /\ now <= now'
    BY <1>2 DEF Tick, IInv, TypeOK
  <2>2. QED
    BY <1>1, <2>1, MemoryStep
<1>3. ASSUME NEW p \in Process, Poll(p) \/ Life(p) PROVE IInv'
  BY <1>1, <1>3, PollStep, ClaimStep, LifeStep DEF Poll
<1>4. ASSUME NEW d \in Slot, Dispatch(d) PROVE IInv'
  BY <1>1, <1>4, DispatchStep
<1>5. CASE Serve
  BY <1>1, <1>5, ServeStep
<1>6. CASE UNCHANGED vars
  <2>1. UNCHANGED <<task, row>> /\ now <= now'
    BY <1>6 DEF vars, IInv, TypeOK
  <2>2. QED
    BY <1>1, <2>1, MemoryStep
<1>7. QED
  BY <1>2, <1>3, <1>4, <1>5, <1>6 DEF Next

\* Occurrences of one conversation are serialised across any number of processes,
\* whatever leases expire and whichever process crashes (claim_due_tasks): two are
\* held at a time only if the one materialised later has the earlier slot, however
\* late create_task and set_enabled store the slots they computed.
THEOREM Serialized == Spec => []SerializedThreads
<1>1. IInv => SerializedThreads
  BY DEF IInv
<1>2. QED
  BY <1>1, InitInvariant, StepInvariant, PTL DEF Spec

\* The occurrence a lease was granted for stays first in line for its
\* conversation, but for one materialised later with an earlier slot (the
\* candidate order of claim_due_tasks).
THEOREM FirstInLine == Spec => []LeaseholderFirst
<1>1. IInv => LeaseholderFirst
  BY DEF IInv
<1>2. QED
  BY <1>1, InitInvariant, StepInvariant, PTL DEF Spec

\* Outstanding work is never left behind a definition no poll would serve
\* (pause_task, delete_task, claim_due_tasks).
THEOREM NothingStranded == Spec => []NoStrandedWork
<1>1. IInv => NoStrandedWork
  BY DEF IInv
<1>2. QED
  BY <1>1, InitInvariant, StepInvariant, PTL DEF Spec

-----------------------------------------------------------------------------
(* The life of an occurrence.  Lives and Claims relate its row before and  *)
(* after a step, whichever process takes it.                               *)

Lives(r, s) ==
  /\ s.task = r.task /\ s.sched = r.sched /\ s.att = r.att
  /\ \/ s.st = r.st
     \/ r.st \in Leased /\ s.st = "running"
     \/ r.st \in Held /\ s.st = "launched"
     \/ r.st \in Held /\ s.st = "retry" /\ r.att < MaxAttempts
     \/ r.st \in Outstanding /\ s.st \in Terminal
     \/ r.st # "none" /\ s.st = "deleted"

\* A claim creates the row, or makes another attempt on it.
Claims(r, s) ==
  \/ r.st = "none" /\ s.st \in {"pending", "dead_letter"} /\ s.att = 0
  \/ r.st = "none" /\ s.st = "claimed" /\ s.att = 1
  \/ /\ s.task = r.task /\ s.sched = r.sched /\ r.st \in Waiting \cup Leased /\ s.st = "claimed"
     /\ r.att < MaxAttempts /\ s.att = r.att + 1

\* What the reconciler, the cleanup and requests do to a row: no new attempt.
Closes(r, s) ==
  /\ s.task = r.task /\ s.sched = r.sched /\ s.att = r.att
  /\ \/ s.st = r.st
     \/ r.st \in Outstanding /\ s.st \in Terminal
     \/ r.st # "none" /\ s.st = "deleted"

LEMMA SameLives == \A r : Lives(r, r)
  BY DEF Lives

LEMMA SameCloses == \A r : Closes(r, r)
  BY DEF Closes

LEMMA ClosesLives == \A r, s : Closes(r, s) => Lives(r, s)
  BY DEF Closes, Lives

\* What the updates of the code make of a row.
LEMMA DeletedEdge == \A r \in RunRow : r.st # "none" => Closes(r, [r EXCEPT !.st = "deleted"])
  BY DEF Closes, RunRow

LEMMA StartedEdge ==
  \A r \in RunRow : \A t : r.st \in Leased => Lives(r, [r EXCEPT !.st = "running", !.upd = t])
  BY DEF Lives, RunRow

LEMMA LaunchedEdge ==
  \A r \in RunRow : \A t : r.st \in Held => Lives(r, [r EXCEPT !.st = "launched", !.upd = t])
  BY DEF Lives, RunRow

LEMMA RenewedEdge == \A r \in RunRow : \A l, t : Lives(r, [r EXCEPT !.lease = l, !.upd = t])
  BY DEF Lives, RunRow

\* A row closed with its task, slot and attempt unchanged.
LEMMA ClosedEdge ==
  \A r, s :
    /\ r.st \in Outstanding /\ s.st \in Terminal
    /\ s.task = r.task /\ s.sched = r.sched /\ s.att = r.att
    => Closes(r, s)
  BY DEF Closes

LEMMA EndedEdges ==
  ASSUME NEW r \in RunRow, r.st \in Held
  PROVE  /\ \A s \in Terminal : Lives(r, Ended(r, s))
         /\ Lives(r, [Ended(r, "dead_letter") EXCEPT !.avail = NoTime])
         /\ r.att < MaxAttempts => \A t : Lives(r, [Ended(r, "retry") EXCEPT !.avail = t])
<1>1. r.st \in Outstanding /\ "dead_letter" \in Terminal
  BY StatusFacts
<1>2. \A s : /\ Ended(r, s).st = s /\ Ended(r, s).task = r.task
            /\ Ended(r, s).sched = r.sched /\ Ended(r, s).att = r.att
  BY DEF Ended, RunRow
<1>3. \A s, t : LET e == [Ended(r, s) EXCEPT !.avail = t]
                IN  e.st = s /\ e.task = r.task /\ e.sched = r.sched /\ e.att = r.att
  BY DEF Ended, RunRow
<1> QED
  BY <1>1, <1>2, <1>3 DEF Lives

\* A conditional update takes its row along an edge and leaves the others alone.
LEMMA UpdateLives ==
  ASSUME TypeOK, NEW d \in Slot, NEW new, Update(d, Held, new),
         Owns(d, Held) => Lives(row[occ(d)], new)
  PROVE  \A o \in Row : Lives(row[o], row'[o])
<1>1. occ(d) \in Row
  BY DEF Slot, occ
<1>2. \A o \in Row : row'[o] = row[o] \/ (o = occ(d) /\ row'[o] = new /\ Owns(d, Held))
  BY <1>1 DEF Update, TypeOK
<1> QED
  BY <1>2, SameLives

\* The steps of a dispatch.
LEMMA DispatchLives ==
  ASSUME TypeOK, NEW d \in Slot, Dispatch(d)
  PROVE  \A o \in Row : Lives(row[o], row'[o])
<1>1. PICK r \in RunRow : r = row[occ(d)]
  BY DEF TypeOK, Slot, occ
<1>2. occ(d) \in Row /\ now \in Nat /\ now + Lease \in Int
  BY SchedulerAssumption DEF SchedulerAssumption, TypeOK, Slot, occ
<1>3. Owns(d, Held) => r.st \in Held /\ r.att = d[3]
  BY <1>1 DEF Owns
<1>4. CASE row' = row
  BY <1>4, SameLives
<1>5. CASE MarkStarted(d)
  <2>1. row' = row \/ (r.st \in Leased /\ row' = [row EXCEPT ![occ(d)] = [r EXCEPT !.st = "running", !.upd = now]])
    BY <1>1, <1>5 DEF MarkStarted, Owns
  <2>2. r.st \in Leased => Lives(r, [r EXCEPT !.st = "running", !.upd = now])
    BY StartedEdge
  <2> QED
    BY <1>1, <1>2, <2>1, <2>2, SameLives DEF TypeOK
<1>6. CASE RecordLaunch(d)
  <2>1. Update(d, Held, [r EXCEPT !.st = "launched", !.upd = now])
    BY <1>1, <1>6 DEF RecordLaunch
  <2>2. r.st \in Held => Lives(r, [r EXCEPT !.st = "launched", !.upd = now])
    BY LaunchedEdge
  <2> QED
    BY <1>1, <1>3, <2>1, <2>2, UpdateLives
<1>7. CASE Finish(d)
  <2>1. PICK s \in {"success", "error"} : Update(d, Held, Ended(r, s))
    BY <1>1, <1>7 DEF Finish
  <2>2. r.st \in Held => Lives(r, Ended(r, s))
    BY EndedEdges DEF Terminal
  <2> QED
    BY <1>1, <1>3, <2>1, <2>2, UpdateLives
<1>8. CASE RetryLater(d) \/ RetryNow(d)
  <2>1. PICK delay : Reschedule(d, delay)
    BY <1>8 DEF RetryLater, RetryNow
  <2>2. PICK new : /\ Update(d, Held, new)
                   /\ new = IF d[3] < MaxAttempts THEN [Ended(r, "retry") EXCEPT !.avail = now + delay]
                                                  ELSE [Ended(r, "dead_letter") EXCEPT !.avail = NoTime]
    BY <1>1, <2>1 DEF Reschedule
  <2>3. Owns(d, Held) => Lives(r, new)
    BY <1>3, <2>2, EndedEdges
  <2> QED
    BY <1>1, <2>2, <2>3, UpdateLives
<1>9. CASE Renew(d)
  <2>1. row' = [row EXCEPT ![occ(d)].lease = now + Lease, ![occ(d)].upd = now]
    BY <1>9 DEF Renew
  <2>2. row' = [row EXCEPT ![occ(d)] = [r EXCEPT !.lease = now + Lease, !.upd = now]]
    BY <1>1, <1>2, <2>1 DEF TypeOK, RunRow
  <2>3. Lives(r, [r EXCEPT !.lease = now + Lease, !.upd = now])
    BY RenewedEdge
  <2> QED
    BY <1>1, <1>2, <2>2, <2>3, SameLives DEF TypeOK
<1> QED
  BY <1>4, <1>5, <1>6, <1>7, <1>8, <1>9 DEF Dispatch, Launch, FailBeforeLaunch, FailAfterLaunch, GiveUp, RunEnds, UserCancel

\* The steps of the reconciler, of the hourly cleanup and of requests.
LEMMA TableCloses ==
  ASSUME TypeOK,
         \/ \E p \in Process : Reconcile(p) \/ PollFails(p) \/ CleanupHistory(p) \/ Life(p)
         \/ Serve \/ Tick
  PROVE  \A o \in Row : Closes(row[o], row'[o])
<1>1. \A o \in Row : row[o] \in RunRow
  BY DEF TypeOK
<1>2. ASSUME NEW p \in Process, Reconcile(p)
      PROVE  \A o \in Row : Closes(row[o], row'[o])
  <2>1. PICK at \in Sampled :
          row' = [o \in Row |-> IF Orphaned(row[o], at)
                                THEN [row[o] EXCEPT !.st = "interrupted", !.lease = NoTime, !.upd = at]
                                ELSE row[o]]
    BY <1>2 DEF Reconcile
  <2>2. \A o \in Row :
          \/ row'[o] = row[o]
          \/ /\ row[o].st \in Outstanding
             /\ row'[o] = [row[o] EXCEPT !.st = "interrupted", !.lease = NoTime, !.upd = at]
    BY <2>1, StatusFacts DEF Orphaned
  <2>3. \A o \in Row :
          \/ row'[o] = row[o]
          \/ /\ row[o].st \in Outstanding /\ row'[o].st \in Terminal
             /\ row'[o].task = row[o].task /\ row'[o].sched = row[o].sched
             /\ row'[o].att = row[o].att
    BY <1>1, <2>2 DEF RunRow, Terminal
  <2> QED
    BY <2>3, ClosedEdge, SameCloses
<1>3. ASSUME NEW p \in Process, CleanupHistory(p)
      PROVE  \A o \in Row : Closes(row[o], row'[o])
  <2>1. \A o \in Row : \/ row'[o] = row[o]
                       \/ row'[o] = [row[o] EXCEPT !.st = "deleted"] /\ row[o].st \in Terminal
    BY <1>3 DEF CleanupHistory, Expired, Excess, History
  <2>2. \A o \in Row : row'[o] = row[o] \/ (row'[o] = [row[o] EXCEPT !.st = "deleted"] /\ row[o].st # "none")
    BY <2>1, StatusFacts
  <2> QED
    BY <1>1, <2>2, DeletedEdge, SameCloses
<1>4. ASSUME NEW p \in Process, NEW t \in Task, NEW delete, PauseTask(p, t, delete)
      PROVE  \A o \in Row : Closes(row[o], row'[o])
  <2>1. \A o \in Row :
          \/ row'[o] = row[o]
          \/ /\ row[o].st \in Outstanding
             /\ row'[o] = [row[o] EXCEPT !.st = "cancelled", !.avail = NoTime, !.lease = NoTime, !.upd = now]
    BY <1>4 DEF PauseTask
  <2>2. \A o \in Row :
          \/ row'[o] = row[o]
          \/ /\ row[o].st \in Outstanding /\ row'[o].st \in Terminal
             /\ row'[o].task = row[o].task /\ row'[o].sched = row[o].sched
             /\ row'[o].att = row[o].att
    BY <1>1, <2>1 DEF RunRow, Terminal
  <2> QED
    BY <2>2, ClosedEdge, SameCloses
<1>5. ASSUME NEW q \in requests, RequestDone(q)
      PROVE  \A o \in Row : Closes(row[o], row'[o])
  <2>1. \A o \in Row : \/ row'[o] = row[o]
                       \/ row'[o] = [row[o] EXCEPT !.st = "deleted"] /\ row[o].st # "none"
    BY <1>5 DEF RequestDone
  <2> QED
    BY <1>1, <2>1, DeletedEdge, SameCloses
<1>6. CASE row' = row
  BY <1>6, SameCloses
<1>7. ASSUME NEW p \in Process, PollFails(p) \/ Life(p)
      PROVE  row' = row
  BY <1>7 DEF PollFails, Life, Stop, StopDispatches, Stopped, Crash, Exit, Start
<1>8. CASE Serve
  <2>1. ASSUME NEW t \in Task, CreateTask(t) \/ \E p \in Process : ReadSchedule(p, t)
        PROVE  row' = row
    BY <2>1 DEF CreateTask, ReadSchedule
  <2>2. ASSUME NEW q \in requests, WriteEnabled(q) \/ CancelActiveWork(q)
        PROVE  row' = row
    BY <2>2 DEF WriteEnabled, CancelActiveWork
  <2> QED
    BY <1>4, <1>5, <1>6, <1>8, <2>1, <2>2 DEF Serve
<1> QED
  BY <1>2, <1>3, <1>6, <1>7, <1>8 DEF Tick

\* What one claim transaction of process p does to the table: the rows of C get
\* a lease and a dispatch, the others at most appear or are given up.
ClaimedBy(p, C) ==
  /\ C \subseteq Row
  /\ \A o \in Row \ C : \/ Lives(row[o], row'[o]) /\ (row'[o].st = row[o].st \/ row'[o].st = "dead_letter")
                        \/ Claims(row[o], row'[o]) /\ row'[o].st # "claimed"
  /\ \A o \in C : Claims(row[o], row'[o]) /\ row'[o].st = "claimed"
  /\ pc' = [d \in Slot |-> IF host[p] = "up" /\ proc(d) = p /\ occ(d) \in C /\ d[3] = row'[occ(d)].att
                           THEN "queued" ELSE pc[d]]
  /\ UNCHANGED run

LEMMA ClaimEffect ==
  ASSUME TypeOK, NEW p \in Process, Claim(p)
  PROVE  \E C : ClaimedBy(p, C)
<1>a. PICK at \in Sampled : \E new \in SUBSET (Row \ Used) : \E due \in [new -> DueTasks(at)] :
        \E slot \in [{due[o] : o \in new} -> at + 1 .. at + Period] : ClaimRows(p, at, due, slot)
  BY DEF Claim
<1>b. PICK new \in SUBSET (Row \ Used) : \E due \in [new -> DueTasks(at)] :
        \E slot \in [{due[o] : o \in new} -> at + 1 .. at + Period] : ClaimRows(p, at, due, slot)
  BY <1>a
<1>c. PICK due \in [new -> DueTasks(at)] :
        \E slot \in [{due[o] : o \in new} -> at + 1 .. at + Period] : ClaimRows(p, at, due, slot)
  BY <1>b
<1>d. PICK slot : ClaimRows(p, at, due, slot)
  BY <1>c
<1>e. PICK ins : ins = Inserted(due, at)
  OBVIOUS
<1>f. PICK tbl : tbl = DeadLettered(ins, at)
  OBVIOUS
<1>g. PICK C : /\ C \subseteq Row
               /\ \A o \in C : Claimable(tbl[o], at) /\ tbl[o].att < MaxAttempts
               /\ row' = Granted(tbl, C, at)
               /\ pc' = [d \in Slot |->
                           IF host[p] = "up" /\ proc(d) = p /\ occ(d) \in C /\ d[3] = tbl[occ(d)].att + 1
                           THEN "queued" ELSE pc[d]]
  <2> DEFINE limit == IF Capacity(p) < 10 THEN Capacity(p) ELSE 10
             tsk == Advanced(due, slot)
             X == Claimed(tbl, tsk, at, limit)
  <2>1. /\ row' = Granted(tbl, X, at)
        /\ pc' = [d \in Slot |->
                    IF host[p] = "up" /\ proc(d) = p /\ occ(d) \in X /\ d[3] = tbl[occ(d)].att + 1
                    THEN "queued" ELSE pc[d]]
    BY <1>d, <1>e, <1>f DEF ClaimRows
  <2>2. X \subseteq Row /\ \A o \in X : Claimable(tbl[o], at) /\ tbl[o].att < MaxAttempts
    BY DEF Claimed, First, Candidates
  <2> HIDE DEF X
  <2> QED
    BY <2>1, <2>2
<1>1. at \in Nat /\ MaxAttempts \in Nat /\ 0 < MaxAttempts
  BY SchedulerAssumption DEF SchedulerAssumption, Sampled, TypeOK
<1>2. ins \in [Row -> RunRow]
  BY <1>1, <1>e, InsertedType
<1>3. tbl \in [Row -> RunRow]
  BY <1>1, <1>2, <1>f, DeadLetteredType
<1>4. \A o \in Row : \/ o \notin new /\ ins[o] = row[o]
                     \/ row[o].st = "none" /\ ins[o].st \in {"pending", "dead_letter"} /\ ins[o].att = 0
  <2>1. \A o \in Row : ins[o] = IF o \in new THEN NewRow(due[o], at) ELSE row[o]
    BY <1>e DEF Inserted
  <2>2. \A t : NewRow(t, at).st \in {"pending", "dead_letter"} /\ NewRow(t, at).att = 0
    BY DEF NewRow
  <2> QED
    BY <2>1, <2>2 DEF Used
<1>5. \A o \in Row : \/ tbl[o] = ins[o]
                     \/ /\ ins[o].att >= MaxAttempts /\ Claimable(ins[o], at)
                        /\ tbl[o] = [ins[o] EXCEPT !.st = "dead_letter", !.lease = NoTime, !.upd = at]
  BY <1>f DEF DeadLettered
<1>6. \A o \in Row : Claimable(ins[o], at) => ins[o].st \in Waiting \cup Leased
  BY DEF Claimable
\* A new row, or the one there was, given up at most.
<1>7. ASSUME NEW o \in Row
      PROVE  \/ row[o].st = "none" /\ tbl[o].st \in {"pending", "dead_letter"} /\ tbl[o].att = 0
             \/ /\ Lives(row[o], tbl[o])
                /\ tbl[o].st = row[o].st \/ tbl[o].st = "dead_letter"
  <2>1. CASE ins[o] = row[o]
    <3>1. row[o] \in RunRow
      BY DEF TypeOK
    <3>2. CASE tbl[o] = ins[o]
      BY <2>1, <3>2, SameLives
    <3>3. CASE /\ Claimable(ins[o], at)
               /\ tbl[o] = [ins[o] EXCEPT !.st = "dead_letter", !.lease = NoTime, !.upd = at]
      <4>1. row[o].st \in Outstanding
        BY <1>6, <2>1, <3>3 DEF Outstanding, Held
      <4>2. /\ tbl[o].st = "dead_letter" /\ tbl[o].task = row[o].task
            /\ tbl[o].sched = row[o].sched /\ tbl[o].att = row[o].att
        BY <2>1, <3>1, <3>3 DEF RunRow
      <4>3. Lives(row[o], tbl[o])
        BY <4>1, <4>2, ClosedEdge, ClosesLives, StatusFacts
      <4> QED
        BY <4>2, <4>3
    <3> QED
      BY <1>5, <3>2, <3>3
  <2>2. CASE row[o].st = "none" /\ ins[o].st \in {"pending", "dead_letter"} /\ ins[o].att = 0
    <3>1. ~(ins[o].att >= MaxAttempts)
      BY <1>1, <2>2
    <3> QED
      BY <1>5, <2>2, <3>1
  <2> QED
    BY <1>4, <2>1, <2>2
<1>8. ASSUME NEW o \in C
      PROVE  Claims(row[o], row'[o]) /\ row'[o].st = "claimed" /\ row'[o].att = tbl[o].att + 1
  <2>1. tbl[o] \in RunRow /\ o \in Row
    BY <1>3, <1>g
  <2>2. row'[o] = [tbl[o] EXCEPT !.st = "claimed", !.att = @ + 1, !.avail = NoTime,
                                 !.lease = at + Lease, !.upd = at]
    BY <1>g, <2>1 DEF Granted
  <2>3. /\ row'[o].st = "claimed" /\ row'[o].att = tbl[o].att + 1
        /\ row'[o].task = tbl[o].task /\ row'[o].sched = tbl[o].sched
    BY <2>1, <2>2 DEF RunRow
  <2>4. tbl[o].st \in Waiting \cup Leased /\ tbl[o].att < MaxAttempts
    BY <1>g DEF Claimable
  <2>5. "dead_letter" \notin Waiting \cup Leased
    BY DEF Waiting, Leased
  <2>6. CASE row[o].st = "none" /\ tbl[o].att = 0
    BY <2>3, <2>6 DEF Claims
  <2>7. CASE Lives(row[o], tbl[o]) /\ tbl[o].st = row[o].st
    BY <2>3, <2>4, <2>7 DEF Claims, Lives
  <2> QED
    BY <1>7, <2>1, <2>3, <2>4, <2>5, <2>6, <2>7
<1>9. ASSUME NEW o \in Row \ C
      PROVE  \/ Lives(row[o], row'[o]) /\ (row'[o].st = row[o].st \/ row'[o].st = "dead_letter")
             \/ Claims(row[o], row'[o]) /\ row'[o].st # "claimed"
  <2>1. row'[o] = tbl[o]
    BY <1>g DEF Granted
  <2> QED
    BY <1>7, <2>1, StatusFacts DEF Claims
<1>10. pc' = [d \in Slot |-> IF host[p] = "up" /\ proc(d) = p /\ occ(d) \in C /\ d[3] = row'[occ(d)].att
                             THEN "queued" ELSE pc[d]]
  BY <1>g, <1>8
<1>11. UNCHANGED run
  BY DEF Claim
<1> QED
  BY <1>g, <1>8, <1>9, <1>10, <1>11 DEF ClaimedBy

LEMMA RowsLive ==
  ASSUME TypeOK, [Next]_vars, NEW o \in Row
  PROVE  Lives(row[o], row'[o]) \/ Claims(row[o], row'[o])
<1>1. ASSUME NEW p \in Process, Claim(p)
      PROVE  Lives(row[o], row'[o]) \/ Claims(row[o], row'[o])
  BY <1>1, ClaimEffect DEF ClaimedBy
<1>2. ASSUME NEW p \in Process, Poll(p) \/ Life(p)
      PROVE  Lives(row[o], row'[o]) \/ Claims(row[o], row'[o])
  BY <1>1, <1>2, TableCloses, ClosesLives DEF Poll
<1>3. CASE UNCHANGED vars
  BY <1>3, SameLives DEF vars
<1> QED
  BY <1>2, <1>3, DispatchLives, TableCloses, ClosesLives DEF Next

\* A finished occurrence is history: no late attempt, heartbeat, reconciler or
\* claim changes its status, it is only ever deleted (mark_task_run_*,
\* reschedule_task_run, claim_due_tasks, _cleanup_task_runs).
THEOREM FinishedIsFinal == Spec => TerminalIsFinal
<1>1. TypeOK /\ [Next]_vars => \A o \in Row : row[o].st \in Terminal => row'[o].st \in {row[o].st, "deleted"}
  <2> SUFFICES ASSUME TypeOK, [Next]_vars, NEW o \in Row, row[o].st \in Terminal
               PROVE  row'[o].st \in {row[o].st, "deleted"}
    OBVIOUS
  <2>1. row[o].st \notin Outstanding \cup {"none"} /\ Outstanding = Waiting \cup Leased \cup {"launched"}
    BY StatusFacts DEF Outstanding, Held
  <2> QED
    BY <2>1, RowsLive, StatusFacts DEF Lives, Claims
<1> QED
  BY <1>1, TypeCorrect, PTL DEF Spec, TerminalIsFinal

-----------------------------------------------------------------------------
(* The tables implement the contract of Occurrences.                       *)

LEMMA PhaseFacts ==
  \A st \in Status :
    /\ PhaseOf(st) = "absent" <=> st = "none"
    /\ PhaseOf(st) = "waiting" <=> st \in Waiting
    /\ PhaseOf(st) = "leased" <=> st \in Leased
    /\ PhaseOf(st) = "launched" <=> st = "launched"
    /\ PhaseOf(st) = "closed" <=> st \in Terminal
    /\ PhaseOf(st) = "gone" <=> st = "deleted"
  BY DEF PhaseOf, Status, Outstanding, Waiting, Held, Leased, Terminal

\* An edge of a row is a step of the contract, or none.
LEMMA LivesPhases ==
  ASSUME NEW r \in RunRow, NEW s \in RunRow, Lives(r, s)
  PROVE  /\ s.task = r.task /\ s.sched = r.sched /\ s.att = r.att
         /\ \/ PhaseOf(s.st) = PhaseOf(r.st)
            \/ PhaseOf(r.st) = "leased" /\ PhaseOf(s.st) = "launched"
            \/ /\ PhaseOf(r.st) \in {"leased", "launched"} /\ PhaseOf(s.st) = "waiting"
               /\ r.att < MaxAttempts
            \/ PhaseOf(r.st) \in {"leased", "launched", "waiting"} /\ PhaseOf(s.st) = "closed"
            \/ PhaseOf(r.st) # "absent" /\ PhaseOf(s.st) = "gone"
<1>1. r.st \in Status /\ s.st \in Status
  BY DEF RunRow
<1>2. Held = Leased \cup {"launched"} /\ Outstanding = Waiting \cup Leased \cup {"launched"}
  BY DEF Held, Outstanding
<1> QED
  BY <1>1, <1>2, PhaseFacts, StatusFacts DEF Lives

LEMMA ClaimsPhases ==
  ASSUME NEW r \in RunRow, NEW s \in RunRow, Claims(r, s)
  PROVE  \/ /\ PhaseOf(r.st) = "absent"
            /\ \/ PhaseOf(s.st) \in {"waiting", "closed"} /\ s.att = 0
               \/ PhaseOf(s.st) = "leased" /\ s.att = 1
         \/ /\ PhaseOf(r.st) \in {"waiting", "leased"} /\ PhaseOf(s.st) = "leased"
            /\ s.task = r.task /\ s.sched = r.sched
            /\ r.att < MaxAttempts /\ s.att = r.att + 1
<1>1. r.st \in Status /\ s.st \in Status
  BY DEF RunRow
<1> QED
  BY <1>1, PhaseFacts, StatusFacts DEF Claims

LEMMA ContractInit == Init => Contract!Init
<1> SUFFICES ASSUME Init PROVE Contract!Init
  OBVIOUS
<1>1. NoRow \in RunRow /\ NoRow.st = "none" /\ NoRow.att = 0 /\ NoRow.sched \in Nat
  BY NoRowType DEF NoRow
<1>2. row = [o \in Row |-> NoRow]
  BY DEF Init
<1>3. PhaseOf("none") = "absent"
  BY PhaseFacts DEF Status
<1>4. \A o \in Row : thread(row, o) \in Thread
  BY <1>1, <1>2, SchedulerAssumption DEF SchedulerAssumption, thread, RunRow
<1> QED
  BY <1>1, <1>2, <1>3, <1>4 DEF Contract!Init

LEMMA ContractStep ==
  ASSUME IInv, [Next]_vars
  PROVE  Contract!Next
<1>1. IInv'
  BY StepInvariant
<1>2. row \in [Row -> RunRow] /\ row' \in [Row -> RunRow]
  BY <1>1 DEF IInv, TypeOK
<1>3. \A o \in Row : thread(row, o)' \in Thread /\ row'[o].sched \in Nat
  BY <1>2, SchedulerAssumption DEF SchedulerAssumption, thread, RunRow
<1>4. ASSUME NEW o \in Row
      PROVE  Contract!Stay(o) \/ Contract!Appear(o) \/ Contract!Attempt(o) \/ Contract!Progress(o)
  <2>1. row[o] \in RunRow /\ row'[o] \in RunRow
    BY <1>2
  <2>2. row'[o].task = row[o].task => thread(row, o)' = thread(row, o)
    BY DEF thread
  <2>3. CASE Lives(row[o], row'[o])
    <3>1. Contract!Stay(o) \/ Contract!Progress(o)
      BY <2>1, <2>2, <2>3, LivesPhases
         DEF Contract!Stay, Contract!Same, Contract!Progress, Contract!Running
    <3> QED
      BY <3>1
  <2>4. CASE Claims(row[o], row'[o])
    <3>1. Contract!Appear(o) \/ Contract!Attempt(o)
      BY <1>3, <2>1, <2>2, <2>4, ClaimsPhases DEF Contract!Appear, Contract!Attempt, Contract!Same
    <3> QED
      BY <3>1
  <2> QED
    BY <2>3, <2>4, RowsLive DEF IInv
<1>5. Contract!Exclusive([o \in Row |-> PhaseOf(row[o].st)]', [o \in Row |-> thread(row, o)]',
                         [o \in Row |-> row[o].sched]')
  <2>1. SerializedThreads'
    BY <1>1 DEF IInv
  <2>2. \A o \in Row : PhaseOf(row'[o].st) \in {"leased", "launched"} => row'[o].st \in Held
    BY <1>2, PhaseFacts DEF RunRow, Held
  <2>3. \A x, y \in Row :
          /\ x < y /\ row'[x].st \in Held /\ row'[y].st \in Held
          /\ thread(row, x)' = thread(row, y)'
          => row'[y].sched < row'[x].sched
    BY <2>1 DEF SerializedThreads, Overtakes, Row
  <2> QED
    BY <2>2, <2>3 DEF Contract!Exclusive, Contract!Running
<1> QED
  BY <1>4, <1>5 DEF Contract!Next

\* Whatever the processes do, an occurrence is only waiting, attempted, launched,
\* closed and deleted in the order its users rely on, its attempts are counted
\* one by one up to the limit, and two occurrences of one conversation are worked
\* on at a time only if the later one has the earlier slot (claim_due_tasks, mark_task_run_*, reschedule_task_run).
THEOREM TablesKeepContract == Spec => ImplementsContract
<1>1. IInv /\ [Next]_vars => [Contract!Next]_(Contract!contractVars)
  BY ContractStep
<1> QED
  BY <1>1, ContractInit, InitInvariant, StepInvariant, PTL DEF Spec, ImplementsContract, Contract!Spec

-----------------------------------------------------------------------------
(* Attempts on an occurrence do not overlap: who works on which one.       *)

Busy(d) == pc[d] # "idle" \/ run[d] # "none"

\* Phases of a dispatch without a managed run.
Early == {"queued", "starting", "requeue", "interrupted"}

\* A dispatch is of an attempt that was made, and of one nobody else works on.
Sole ==
  \A d \in Slot : Busy(d) =>
    /\ d[3] <= row[occ(d)].att
    /\ \A e \in Slot : Busy(e) /\ occ(e) = occ(d) /\ e[3] = d[3] => e = d

BeforeRun == \A d \in Slot : pc[d] \in Early => run[d] \notin Executing

Quiet(d) == pc[d] = "idle" /\ run[d] \notin Executing

\* Whoever puts an occurrence back has left it, and its run is over.
Retired == \A d \in Slot : row[occ(d)].st = "retry" /\ row[occ(d)].att = d[3] => Quiet(d)

Untried == \A o \in Row : row[o].st = "none" => row[o].att = 0

AttemptsApart == TypeOK /\ Untried /\ Sole /\ BeforeRun /\ Retired

\* What a step does to the dispatches and runs when it starts no attempt.
Calm(d) ==
  /\ Busy(d)' => Busy(d)
  /\ pc'[d] \in Early /\ run'[d] \in Executing => pc[d] \in Early /\ run[d] \in Executing
  /\ Quiet(d) => Quiet(d)'

LEMMA SameMemory ==
  ASSUME UNCHANGED <<pc, run>>
  PROVE  \A d \in Slot : Calm(d)
  BY DEF Calm, Busy, Quiet

LEMMA CancelCalm ==
  ASSUME TypeOK, NEW D, NEW runs, CancelDispatches(D, runs)
  PROVE  \A d \in Slot : Calm(d)
<1>1. PICK unborn \in SUBSET {d \in D : pc[d] = "queued"}, leaving \in SUBSET D :
        /\ leaving = unborn \cup {d \in D : pc[d] \in {"reconciling", "settling", "stopping"}}
        /\ pc' = [d \in Slot |->
                    IF d \in leaving THEN "idle"
                    ELSE IF d \in D /\ pc[d] \in {"queued", "starting"} THEN "interrupted"
                    ELSE IF d \in D /\ pc[d] \in {"launching", "waiting"} THEN "stopping"
                    ELSE pc[d]]
        /\ run' = [d \in Slot |->
                     IF /\ run[d] = "active"
                        /\ \/ d \in runs
                           \/ d \in D /\ pc[d] \in {"launching", "waiting", "settling"}
                     THEN "cancelling"
                     ELSE IF d \in leaving /\ run[d] \notin Executing THEN "none"
                     ELSE run[d]]
  BY DEF CancelDispatches
<1>2. ASSUME NEW d \in Slot
      PROVE  /\ pc'[d] \in {"idle", pc[d]} \/ (pc[d] \in {"queued", "starting"} /\ pc'[d] = "interrupted")
                \/ (pc[d] \in {"launching", "waiting"} /\ pc'[d] = "stopping")
             /\ run'[d] \in {"none", run[d]} \/ (run[d] = "active" /\ run'[d] = "cancelling")
  BY <1>1
<1> QED
  BY <1>2 DEF Calm, Busy, Quiet, Early, Executing

LEMMA DispatchCalm ==
  ASSUME TypeOK, NEW d \in Slot, Dispatch(d)
  PROVE  \A e \in Slot : Calm(e)
<1>1. ASSUME NEW e \in Slot, e # d
      PROVE  pc'[e] = pc[e] /\ run'[e] = run[e]
  BY <1>1 DEF TypeOK, Dispatch, MarkStarted, Launch, FailBeforeLaunch, RecordLaunch, FailAfterLaunch, Finish,
         RetryLater, RetryNow, GiveUp, Renew, RunEnds, UserCancel, Go, Return
<1>2. ASSUME Return(d), pc[d] # "idle"
      PROVE  Calm(d)
  <2>1. pc'[d] = "idle" /\ run'[d] \in {run[d], "none"} /\ (run'[d] \in Executing => run[d] \in Executing)
    BY <1>2 DEF Return, Go, TypeOK, Executing
  <2> QED
    BY <1>2, <2>1 DEF Calm, Busy, Quiet, Early
<1>3. ASSUME MarkStarted(d) PROVE Calm(d)
  <2>1. pc[d] = "queued" /\ (Return(d) \/ (Go(d, "starting") /\ UNCHANGED run))
    BY <1>3 DEF MarkStarted
  <2>2. ASSUME Go(d, "starting") /\ UNCHANGED run PROVE Calm(d)
    <3>1. pc'[d] = "starting" /\ run'[d] = run[d]
      BY <2>2 DEF Go, TypeOK
    <3> QED
      BY <2>1, <3>1 DEF Calm, Busy, Quiet, Early
  <2> QED
    BY <1>2, <2>1, <2>2
<1>4. ASSUME Launch(d) \/ FailBeforeLaunch(d) \/ RecordLaunch(d) \/ FailAfterLaunch(d) PROVE Calm(d)
  <2>1. ASSUME Launch(d) PROVE Calm(d)
    <3>1. pc[d] = "starting" /\ pc'[d] = "launching"
      BY <2>1 DEF Launch, Go, TypeOK
    <3> QED
      BY <3>1 DEF Calm, Busy, Quiet, Early
  <2>2. ASSUME FailBeforeLaunch(d) PROVE Calm(d)
    <3>1. pc[d] \in {"queued", "starting"} /\ pc'[d] = "requeue" /\ run' = run
      BY <2>2 DEF FailBeforeLaunch, Go, TypeOK
    <3> QED
      BY <3>1 DEF Calm, Busy, Quiet, Early
  <2>3. ASSUME RecordLaunch(d) \/ FailAfterLaunch(d) PROVE Calm(d)
    <3>1. /\ pc[d] \in {"launching", "waiting", "reconciling"} /\ run' = run
          /\ pc'[d] \in {"waiting", "settling", "reconciling"}
      BY <2>3 DEF RecordLaunch, FailAfterLaunch, Go, TypeOK
    <3> QED
      BY <3>1 DEF Calm, Busy, Quiet, Early
  <2> QED
    BY <1>4, <2>1, <2>2, <2>3
<1>5. ASSUME Finish(d) \/ RetryLater(d) \/ RetryNow(d) \/ GiveUp(d) PROVE Calm(d)
  BY <1>2, <1>5 DEF Finish, RetryLater, RetryNow, GiveUp
<1>6. ASSUME Renew(d) PROVE Calm(d)
  BY <1>6, SameMemory DEF Renew
<1>7. ASSUME RunEnds(d) \/ UserCancel(d) PROVE Calm(d)
  BY <1>7 DEF RunEnds, UserCancel, Calm, Busy, Quiet, Early, Executing, TypeOK
<1>8. Calm(d)
  BY <1>3, <1>4, <1>5, <1>6, <1>7 DEF Dispatch
<1> QED
  BY <1>1, <1>8 DEF Calm, Busy, Quiet

LEMMA TableCalm ==
  ASSUME TypeOK,
         \/ \E p \in Process : Reconcile(p) \/ PollFails(p) \/ CleanupHistory(p) \/ Life(p)
         \/ Serve \/ Tick \/ UNCHANGED vars
  PROVE  \A d \in Slot : Calm(d)
<1>1. ASSUME NEW p \in Process, Exit(p)
      PROVE  \A d \in Slot : Calm(d)
  <2>1. \A d \in Slot : pc'[d] \in {"idle", pc[d]} /\ run'[d] \in {"none", run[d]}
    BY <1>1 DEF Exit
  <2> QED
    BY <2>1 DEF Calm, Busy, Quiet, Early, Executing
<1>2. ASSUME NEW p \in Process, Life(p)
      PROVE  \A d \in Slot : Calm(d)
  BY <1>1, <1>2, CancelCalm, SameMemory DEF Life, Stop, StopDispatches, Stopped, Crash, Start
<1>3. ASSUME NEW p \in Process, Reconcile(p) \/ PollFails(p) \/ CleanupHistory(p)
      PROVE  UNCHANGED <<pc, run>>
  BY <1>3 DEF Reconcile, PollFails, CleanupHistory
<1>4. CASE Serve
  <2>1. ASSUME NEW q \in requests, CancelActiveWork(q)
        PROVE  \A d \in Slot : Calm(d)
    BY <2>1, CancelCalm DEF CancelActiveWork
  <2>2. ASSUME NEW q \in requests, WriteEnabled(q) \/ RequestDone(q)
        PROVE  UNCHANGED <<pc, run>>
    BY <2>2 DEF WriteEnabled, RequestDone
  <2>3. ASSUME NEW t \in Task, \/ CreateTask(t)
                               \/ \E p \in Process : \/ ReadSchedule(p, t)
                                                     \/ \E delete \in BOOLEAN : PauseTask(p, t, delete)
        PROVE  UNCHANGED <<pc, run>>
    BY <2>3 DEF CreateTask, ReadSchedule, PauseTask
  <2> QED
    BY <1>4, <2>1, <2>2, <2>3, SameMemory DEF Serve
<1>5. CASE Tick \/ UNCHANGED vars
  BY <1>5, SameMemory DEF Tick, vars
<1> QED
  BY <1>2, <1>3, <1>4, <1>5, SameMemory

\* Steps that start no attempt and put none back.
LEMMA ApartCalm ==
  ASSUME AttemptsApart, TypeOK', \A d \in Slot : Calm(d), \A o \in Row : Lives(row[o], row'[o]),
         \A d \in Slot : row'[occ(d)].st = "retry" /\ row[occ(d)].st # "retry" /\ row'[occ(d)].att = d[3] =>
                           Quiet(d)'
  PROVE  AttemptsApart'
<1>1. \A d \in Slot : occ(d) \in Row
  BY DEF Slot, occ
<1>2. \A o \in Row : row'[o].att = row[o].att /\ (row'[o].st = "none" => row[o].st = "none")
  BY StatusFacts DEF Lives, Outstanding
<1>3. Untried'
  BY <1>2 DEF AttemptsApart, Untried
<1>4. Sole'
  BY <1>1, <1>2 DEF AttemptsApart, Sole, Calm
<1>5. BeforeRun'
  BY DEF AttemptsApart, BeforeRun, Calm
<1>6. Retired'
  BY <1>1, <1>2 DEF AttemptsApart, Retired, Calm
<1> QED
  BY <1>3, <1>4, <1>5, <1>6 DEF AttemptsApart

\* The row of a dispatch that is not rescheduling starts no wait.
LEMMA NoNewRetry ==
  ASSUME TypeOK, NEW d \in Slot, Dispatch(d), ~(RetryLater(d) \/ RetryNow(d)), NEW o \in Row, row'[o].st = "retry"
  PROVE  row[o].st = "retry"
<1>1. PICK r \in RunRow : r = row[occ(d)]
  BY DEF TypeOK, Slot, occ
<1>2. ASSUME NEW S, NEW new, Update(d, S, new), new.st # "retry"
      PROVE  row[o].st = "retry"
  BY <1>2 DEF Update, TypeOK
<1>3. CASE MarkStarted(d)
  <2>1. row' = row \/ row' = [row EXCEPT ![occ(d)] = [r EXCEPT !.st = "running", !.upd = now]]
    BY <1>1, <1>3 DEF MarkStarted
  <2>2. [r EXCEPT !.st = "running", !.upd = now].st # "retry"
    BY DEF RunRow
  <2> QED
    BY <2>1, <2>2 DEF TypeOK
<1>4. CASE RecordLaunch(d)
  <2>1. Update(d, Held, [r EXCEPT !.st = "launched", !.upd = now])
    BY <1>1, <1>4 DEF RecordLaunch
  <2>2. [r EXCEPT !.st = "launched", !.upd = now].st # "retry"
    BY DEF RunRow
  <2> QED
    BY <1>2, <2>1, <2>2
<1>5. CASE Finish(d)
  <2>1. PICK s \in {"success", "error"} : Update(d, Held, Ended(r, s))
    BY <1>1, <1>5 DEF Finish
  <2>2. Ended(r, s).st # "retry"
    BY DEF Ended, RunRow
  <2> QED
    BY <1>2, <2>1, <2>2
<1>6. CASE Renew(d)
  <2>1. row' = [row EXCEPT ![occ(d)].lease = now + Lease, ![occ(d)].upd = now]
    BY <1>6 DEF Renew
  <2>2. \A x \in Row : row'[x].st = row[x].st
    BY <2>1 DEF TypeOK, RunRow
  <2> QED
    BY <2>2
<1>7. CASE row' = row
  BY <1>7
<1> QED
  BY <1>3, <1>4, <1>5, <1>6, <1>7 DEF Dispatch, Launch, FailBeforeLaunch, FailAfterLaunch, GiveUp, RunEnds, UserCancel

\* Putting an occurrence back: the dispatch is gone and its run over, and nobody
\* else works on the same attempt.
LEMMA ApartRetry ==
  ASSUME AttemptsApart, NEW d \in Slot, RetryLater(d) \/ RetryNow(d)
  PROVE  \A e \in Slot : row'[occ(e)].st = "retry" /\ row[occ(e)].st # "retry" /\ row'[occ(e)].att = e[3] =>
                           Quiet(e)'
<1>1. TypeOK /\ Dispatch(d)
  BY DEF AttemptsApart, Dispatch
<1>2. pc[d] # "idle" /\ run[d] \notin Executing
  <2>1. \/ pc[d] \in {"requeue", "interrupted"}
        \/ pc[d] = "stopping" /\ run[d] \notin Executing
        \/ pc[d] = "waiting" /\ run[d] \in {"transient", "cancelled"}
    BY DEF RetryLater, RetryNow
  <2> QED
    BY <2>1 DEF AttemptsApart, BeforeRun, Early, Executing
<1>3. Quiet(d)'
  <2>1. Return(d)
    BY DEF RetryLater, RetryNow
  <2>2. pc'[d] = "idle" /\ run'[d] = "none"
    BY <1>1, <1>2, <2>1 DEF Return, Go, TypeOK
  <2> QED
    BY <2>2 DEF Quiet, Executing
<1>4. ASSUME NEW e \in Slot, e # d, row'[occ(e)].st = "retry", row[occ(e)].st # "retry", row'[occ(e)].att = e[3]
      PROVE  Quiet(e)'
  <2>1. occ(e) \in Row /\ occ(d) \in Row
    BY DEF Slot, occ
  <2>2. row'[occ(e)] # row[occ(e)]
    BY <1>4
  <2>3. occ(e) = occ(d) /\ Owns(d, Held)
    BY <1>1, <2>1, <2>2 DEF RetryLater, RetryNow, Reschedule, Update, TypeOK
  <2>4. row'[occ(e)].att = row[occ(e)].att
    BY <1>1, <2>1, <2>3, DispatchLives DEF Lives
  <2>5. e[3] = d[3]
    BY <1>4, <2>3, <2>4 DEF Owns
  <2>6. ~Busy(e)
    BY <1>2, <1>4, <2>3, <2>5 DEF AttemptsApart, Sole, Busy
  <2>7. Quiet(e)
    BY <2>6 DEF Busy, Quiet, Executing
  <2> QED
    BY <1>1, <2>7, DispatchCalm DEF Calm
<1> QED
  BY <1>3, <1>4

\* A claim starts attempts that nobody made before.
LEMMA ApartClaim ==
  ASSUME AttemptsApart, TypeOK', NEW p \in Process, Claim(p)
  PROVE  AttemptsApart'
<1>1. PICK C : ClaimedBy(p, C)
  BY ClaimEffect DEF AttemptsApart
<1>2. \A o \in Row : row[o].att \in Nat /\ row'[o].att \in Nat
  BY SchedulerAssumption DEF SchedulerAssumption, AttemptsApart, TypeOK, RunRow
<1>3. \A d \in Slot : occ(d) \in Row /\ d[3] \in Nat /\ d = <<proc(d), occ(d), d[3]>>
  BY SchedulerAssumption DEF SchedulerAssumption, Slot, occ, proc, Attempt
<1>4. \A o \in Row : Claims(row[o], row'[o]) => row[o].att <= row'[o].att /\ row'[o].st \notin {"none", "retry"}
  BY <1>2 DEF AttemptsApart, Untried, Claims
<1>5. \A o \in Row : Lives(row[o], row'[o]) => row[o].att = row'[o].att /\ (row'[o].st = "none" => row[o].st = "none")
  BY StatusFacts DEF Lives
<1>6. \A o \in C : row[o].att < row'[o].att
  BY <1>1, <1>2 DEF ClaimedBy, AttemptsApart, Untried, Claims
<1>7. \A o \in Row : row[o].att <= row'[o].att
  BY <1>1, <1>2, <1>4, <1>5 DEF ClaimedBy
<1>8. Untried'
  BY <1>1, <1>4, <1>5 DEF ClaimedBy, AttemptsApart, Untried
\* The slots this claim starts were free.
<1>9. ASSUME NEW d \in Slot
      PROVE  /\ run'[d] = run[d]
             /\ \/ pc'[d] = pc[d]
                \/ pc'[d] = "queued" /\ proc(d) = p /\ occ(d) \in C /\ d[3] = row'[occ(d)].att /\ ~Busy(d)
  <2>1. /\ run' = run
        /\ \/ pc'[d] = pc[d]
           \/ pc'[d] = "queued" /\ proc(d) = p /\ occ(d) \in C /\ d[3] = row'[occ(d)].att
    BY <1>1 DEF ClaimedBy
  <2>2. occ(d) \in C /\ d[3] = row'[occ(d)].att => ~(d[3] <= row[occ(d)].att)
    BY <1>2, <1>3, <1>6
  <2>3. ~(d[3] <= row[occ(d)].att) => ~Busy(d)
    BY DEF AttemptsApart, Sole
  <2> QED
    BY <2>1, <2>2, <2>3
<1>10. Sole'
  <2>1. ASSUME NEW d \in Slot, Busy(d)'
        PROVE  d[3] <= row'[occ(d)].att
    <3>1. CASE Busy(d)
      <4>1. d[3] <= row[occ(d)].att
        BY <3>1 DEF AttemptsApart, Sole
      <4> QED
        BY <1>2, <1>3, <1>7, <4>1
    <3>2. CASE ~Busy(d)
      BY <1>2, <1>3, <1>9, <2>1, <3>2 DEF Busy
    <3> QED
      BY <3>1, <3>2
  <2>2. ASSUME NEW d \in Slot, NEW e \in Slot, Busy(d)', Busy(e)', occ(e) = occ(d), e[3] = d[3]
        PROVE  e = d
    <3>1. CASE Busy(d) /\ Busy(e)
      BY <2>2, <3>1 DEF AttemptsApart, Sole
    <3>2. CASE ~Busy(d) /\ ~Busy(e)
      <4>1. proc(d) = p /\ proc(e) = p
        BY <1>9, <2>2, <3>2 DEF Busy
      <4> QED
        BY <1>3, <2>2, <4>1
    <3>3. ASSUME NEW x \in Slot, NEW y \in Slot, Busy(x), ~Busy(y), Busy(y)', occ(x) = occ(y), x[3] = y[3]
          PROVE  FALSE
      <4>1. occ(y) \in C /\ y[3] = row'[occ(y)].att
        BY <1>9, <3>3 DEF Busy
      <4>2. x[3] <= row[occ(x)].att
        BY <3>3 DEF AttemptsApart, Sole
      <4> QED
        BY <1>2, <1>3, <1>6, <3>3, <4>1, <4>2
    <3> QED
      BY <2>2, <3>1, <3>2, <3>3
  <2> QED
    BY <2>1, <2>2 DEF Sole
<1>11. BeforeRun'
  BY <1>9 DEF AttemptsApart, BeforeRun, Busy, Executing
<1>12. Retired'
  <2> SUFFICES ASSUME NEW d \in Slot, row'[occ(d)].st = "retry", row'[occ(d)].att = d[3]
               PROVE  Quiet(d)'
    BY DEF Retired
  <2>1. occ(d) \notin C
    BY <1>1 DEF ClaimedBy
  <2>2. Lives(row[occ(d)], row'[occ(d)]) /\ row'[occ(d)].st = row[occ(d)].st
    BY <1>1, <1>3, <1>4, <2>1, StatusFacts DEF ClaimedBy, Terminal
  <2>3. Quiet(d)
    BY <1>3, <1>5, <2>2 DEF AttemptsApart, Retired
  <2> QED
    BY <1>9, <2>1, <2>3 DEF Quiet
<1> QED
  BY <1>8, <1>10, <1>11, <1>12 DEF AttemptsApart

LEMMA ApartInit == Init => AttemptsApart
  BY TypeInit DEF Init, AttemptsApart, Untried, Sole, BeforeRun, Retired, Busy, Quiet, Early, Executing, NoRow,
                  Slot, occ, NoRow

LEMMA ApartStep == AttemptsApart /\ [Next]_vars => AttemptsApart'
<1> SUFFICES ASSUME AttemptsApart, [Next]_vars PROVE AttemptsApart'
  OBVIOUS
<1>1. TypeOK /\ TypeOK'
  BY TypeStep DEF AttemptsApart
<1>2. \A d \in Slot : occ(d) \in Row
  BY DEF Slot, occ
<1>3. ASSUME NEW p \in Process, Claim(p)
      PROVE  AttemptsApart'
  BY <1>1, <1>3, ApartClaim
<1>4. ASSUME NEW d \in Slot, Dispatch(d)
      PROVE  AttemptsApart'
  <2>1. \A e \in Slot : row'[occ(e)].st = "retry" /\ row[occ(e)].st # "retry" /\ row'[occ(e)].att = e[3] =>
                          Quiet(e)'
    BY <1>1, <1>2, <1>4, ApartRetry, NoNewRetry
  <2> QED
    BY <1>1, <1>4, <2>1, ApartCalm, DispatchLives, DispatchCalm
<1>5. ASSUME \/ \E p \in Process : Reconcile(p) \/ PollFails(p) \/ CleanupHistory(p) \/ Life(p)
             \/ Serve \/ Tick \/ UNCHANGED vars
      PROVE  AttemptsApart'
  <2>1. \A o \in Row : Closes(row[o], row'[o])
    <3>1. CASE UNCHANGED vars
      BY <3>1, SameCloses DEF vars
    <3> QED
      BY <1>1, <1>5, <3>1, TableCloses
  <2>2. \A o \in Row : row'[o].st = "retry" => row[o].st = "retry"
    BY <2>1 DEF Closes, Terminal
  <2> QED
    BY <1>1, <1>2, <1>5, <2>1, <2>2, ApartCalm, TableCalm, ClosesLives
<1> QED
  BY <1>3, <1>4, <1>5 DEF Next, Poll

\* An occurrence waits for another attempt only once the managed run of the
\* last one is over, in whatever process that run was, so attempts on one
\* occurrence do not overlap (_dispatch and its CancelledError branch,
\* reschedule_task_run).
THEOREM RetriesAreQuiet == Spec => []RetryMeansQuiet
<1>1. AttemptsApart => RetryMeansQuiet
  BY DEF AttemptsApart, Retired, Quiet, RetryMeansQuiet
<1> QED
  BY <1>1, ApartInit, ApartStep, PTL DEF Spec

-----------------------------------------------------------------------------
(* Pausing a task where one process runs the scheduler.                    *)

Pausing == {q \in requests : q.step = "cancel"}

\* The managed run of the attempt works undisturbed, or is about to be started.
Exposed(d) == run[d] = "active" \/ pc[d] = "starting"

RowsOfTask == \A q \in Pausing : \A o \in q.rows : row[o].st # "none" /\ row[o].task = q.task

Covered ==
  \A d \in Slot :
    row[occ(d)].st = "cancelled" /\ row[occ(d)].att = d[3] /\ Exposed(d) => \E q \in Pausing : occ(d) \in q.rows

Pursued == TypeOK /\ RowsOfTask /\ Covered

LEMMA PausingType == TypeOK => \A q \in Pausing : q.rows \subseteq Row /\ q.proc \in Process /\ q.task \in Task
<1> SUFFICES ASSUME TypeOK, NEW q \in Pausing
             PROVE  q.rows \subseteq Row /\ q.proc \in Process /\ q.task \in Task
  OBVIOUS
<1>1. q \in Request
  BY DEF Pausing, TypeOK, EnableCall
<1> QED
  BY <1>1 DEF Request

\* Rows keep their task once they exist, and a cancelled one its attempt.
LEMMA RowKeeps ==
  ASSUME TypeOK, [Next]_vars, NEW o \in Row
  PROVE  /\ row[o].st # "none" => row'[o].st # "none" /\ row'[o].task = row[o].task
         /\ row[o].st = "cancelled" => row'[o].att = row[o].att
<1>1. "cancelled" \notin Waiting \cup Leased \cup {"none"} /\ "none" \notin Terminal
  BY DEF Waiting, Leased, Terminal
<1> QED
  BY <1>1, RowsLive DEF Lives, Claims

LEMMA KeepRows ==
  ASSUME Pursued, [Next]_vars, Pausing' \subseteq Pausing
  PROVE  RowsOfTask'
<1>1. ASSUME NEW q \in Pausing', NEW o \in q.rows
      PROVE  row'[o].st # "none" /\ row'[o].task = q.task
  <2>1. q \in Pausing /\ o \in Row
    BY PausingType DEF Pursued
  <2>2. row[o].st # "none" /\ row[o].task = q.task
    BY <2>1 DEF Pursued, RowsOfTask
  <2> QED
    BY <2>1, <2>2, RowKeeps DEF Pursued
<1> QED
  BY <1>1 DEF RowsOfTask

\* Steps that pause nothing and drop no request.
LEMMA KeepPursued ==
  ASSUME Pursued, TypeOK', [Next]_vars, Pausing' = Pausing,
         \A o \in Row : row'[o].st = "cancelled" => row[o].st = "cancelled",
         \A d \in Slot : Exposed(d)' => Exposed(d) \/ row'[occ(d)].st # "cancelled"
  PROVE  Pursued'
<1>1. Covered'
  <2> SUFFICES ASSUME NEW d \in Slot, row'[occ(d)].st = "cancelled", row'[occ(d)].att = d[3], Exposed(d)'
               PROVE  \E q \in Pausing : occ(d) \in q.rows
    BY DEF Covered
  <2>1. occ(d) \in Row
    BY DEF Slot, occ
  <2>2. row[occ(d)].st = "cancelled" /\ row[occ(d)].att = d[3] /\ Exposed(d)
    BY <2>1, RowKeeps DEF Pursued
  <2> QED
    BY <2>2 DEF Pursued, Covered
<1> QED
  BY <1>1, KeepRows DEF Pursued

\* A dispatch writes other statuses, and starts a run only of a row it owns.
LEMMA PursuedDispatch ==
  ASSUME Pursued, TypeOK', [Next]_vars, NEW d \in Slot, Dispatch(d)
  PROVE  Pursued'
<1>1. PICK r \in RunRow : r = row[occ(d)]
  BY DEF Pursued, TypeOK, Slot, occ
<1>2. TypeOK /\ occ(d) \in Row
  BY DEF Pursued, Slot, occ
<1>3. Pausing' = Pausing
  BY DEF Pausing, Dispatch, MarkStarted, Launch, FailBeforeLaunch, RecordLaunch, FailAfterLaunch, Finish,
         RetryLater, RetryNow, GiveUp, Renew, RunEnds, UserCancel
<1>4. \A o \in Row : row'[o].st = "cancelled" => row[o].st = "cancelled"
  <2> SUFFICES ASSUME NEW o \in Row, row'[o].st = "cancelled" PROVE row[o].st = "cancelled"
    OBVIOUS
  <2>1. ASSUME NEW S, NEW new, Update(d, S, new), new.st # "cancelled"
        PROVE  row[o].st = "cancelled"
    BY <1>2, <2>1 DEF Update, TypeOK
  <2>2. \A s, t : Ended(r, s).st = s /\ [Ended(r, s) EXCEPT !.avail = t].st = s
    BY DEF Ended, RunRow
  <2>3. CASE MarkStarted(d)
    <3>1. row' = row \/ row' = [row EXCEPT ![occ(d)] = [r EXCEPT !.st = "running", !.upd = now]]
      BY <1>1, <2>3 DEF MarkStarted
    <3>2. [r EXCEPT !.st = "running", !.upd = now].st # "cancelled"
      BY DEF RunRow
    <3> QED
      BY <1>2, <3>1, <3>2 DEF TypeOK
  <2>4. CASE RecordLaunch(d)
    <3>1. Update(d, Held, [r EXCEPT !.st = "launched", !.upd = now])
      BY <1>1, <2>4 DEF RecordLaunch
    <3>2. [r EXCEPT !.st = "launched", !.upd = now].st # "cancelled"
      BY DEF RunRow
    <3> QED
      BY <2>1, <3>1, <3>2
  <2>5. CASE Finish(d)
    <3>1. PICK s \in {"success", "error"} : Update(d, Held, Ended(r, s))
      BY <1>1, <2>5 DEF Finish
    <3> QED
      BY <2>1, <2>2, <3>1
  <2>6. CASE RetryLater(d) \/ RetryNow(d)
    <3>1. PICK delay : Reschedule(d, delay)
      BY <2>6 DEF RetryLater, RetryNow
    <3>2. PICK new : /\ Update(d, Held, new)
                     /\ new = IF d[3] < MaxAttempts THEN [Ended(r, "retry") EXCEPT !.avail = now + delay]
                                                    ELSE [Ended(r, "dead_letter") EXCEPT !.avail = NoTime]
      BY <1>1, <3>1 DEF Reschedule
    <3>3. new.st # "cancelled"
      BY <2>2, <3>2
    <3> QED
      BY <2>1, <3>2, <3>3
  <2>7. CASE Renew(d)
    <3>1. row' = [row EXCEPT ![occ(d)].lease = now + Lease, ![occ(d)].upd = now]
      BY <2>7 DEF Renew
    <3>2. \A x \in Row : row'[x].st = row[x].st
      BY <1>2, <3>1 DEF TypeOK, RunRow
    <3> QED
      BY <3>2
  <2>8. CASE row' = row
    BY <2>8
  <2> QED
    BY <2>3, <2>4, <2>5, <2>6, <2>7, <2>8
       DEF Dispatch, Launch, FailBeforeLaunch, FailAfterLaunch, GiveUp, RunEnds, UserCancel
<1>5. \A e \in Slot : Exposed(e)' => Exposed(e) \/ row'[occ(e)].st # "cancelled"
  <2>1. ASSUME NEW e \in Slot, e # d
        PROVE  pc'[e] = pc[e] /\ run'[e] = run[e]
    BY <1>2, <2>1 DEF TypeOK, Dispatch, MarkStarted, Launch, FailBeforeLaunch, RecordLaunch, FailAfterLaunch, Finish,
           RetryLater, RetryNow, GiveUp, Renew, RunEnds, UserCancel, Go, Return
  <2>2. ASSUME Return(d)
        PROVE  Exposed(d)' => Exposed(d)
    BY <1>2, <2>2 DEF Return, Go, Exposed, TypeOK
  <2>3. ASSUME MarkStarted(d), Exposed(d)'
        PROVE  Exposed(d) \/ row'[occ(d)].st # "cancelled"
    <3>1. \/ Return(d)
          \/ /\ row' = [row EXCEPT ![occ(d)] = [r EXCEPT !.st = "running", !.upd = now]]
      BY <1>1, <2>3 DEF MarkStarted
    <3>2. [r EXCEPT !.st = "running", !.upd = now].st # "cancelled"
      BY DEF RunRow
    <3> QED
      BY <1>2, <2>2, <2>3, <3>1, <3>2 DEF TypeOK
  <2>4. ASSUME Launch(d)
        PROVE  Exposed(d)
    BY <2>4 DEF Launch, Exposed
  <2>5. ASSUME FailBeforeLaunch(d) \/ RecordLaunch(d) \/ FailAfterLaunch(d) \/ Renew(d)
        PROVE  Exposed(d)' => Exposed(d)
    <3>1. run' = run /\ (pc' = pc \/ pc'[d] # "starting")
      BY <1>2, <2>5 DEF FailBeforeLaunch, RecordLaunch, FailAfterLaunch, Renew, Go, TypeOK
    <3> QED
      BY <3>1 DEF Exposed
  <2>6. ASSUME RunEnds(d) \/ UserCancel(d)
        PROVE  Exposed(d)' => Exposed(d)
    <3>1. pc' = pc /\ run'[d] # "active"
      BY <1>2, <2>6 DEF RunEnds, UserCancel, TypeOK
    <3> QED
      BY <3>1 DEF Exposed
  <2>7. Exposed(d)' => Exposed(d) \/ row'[occ(d)].st # "cancelled"
    BY <2>2, <2>3, <2>4, <2>5, <2>6 DEF Dispatch, Finish, RetryLater, RetryNow, GiveUp
  <2> QED
    BY <2>1, <2>7 DEF Exposed
<1> QED
  BY <1>3, <1>4, <1>5, KeepPursued

LEMMA PursuedPoll ==
  ASSUME Pursued, TypeOK', [Next]_vars, NEW p \in Process, Poll(p)
  PROVE  Pursued'
<1>1. Pausing' = Pausing
  BY DEF Pausing, Poll, Reconcile, Claim, PollFails, CleanupHistory
<1>2. \A o \in Row : row[o] \in RunRow
  BY DEF Pursued, TypeOK
<1>3. CASE Claim(p)
  <2>1. PICK C : ClaimedBy(p, C)
    BY <1>3, ClaimEffect DEF Pursued
  <2>2. \A o \in Row : row'[o].st = "cancelled" => row[o].st = "cancelled"
    BY <2>1 DEF ClaimedBy, Claims
  <2>3. \A d \in Slot : Exposed(d)' => Exposed(d)
    BY <2>1 DEF ClaimedBy, Exposed
  <2> QED
    BY <1>1, <2>2, <2>3, KeepPursued
<1>4. CASE Reconcile(p) \/ PollFails(p) \/ CleanupHistory(p)
  <2>1. UNCHANGED <<pc, run>>
    BY <1>4 DEF Reconcile, PollFails, CleanupHistory
  <2>2. \A o \in Row : \/ row'[o] = row[o]
                       \/ \E at : row'[o] = [row[o] EXCEPT !.st = "interrupted", !.lease = NoTime, !.upd = at]
                       \/ row'[o] = [row[o] EXCEPT !.st = "deleted"]
    <3>1. CASE Reconcile(p)
      BY <3>1 DEF Reconcile
    <3>2. CASE PollFails(p) \/ CleanupHistory(p)
      BY <3>2 DEF PollFails, CleanupHistory
    <3> QED
      BY <1>4, <3>1, <3>2
  <2>3. \A o \in Row : row'[o].st = "cancelled" => row[o].st = "cancelled"
    BY <1>2, <2>2 DEF RunRow
  <2> QED
    BY <1>1, <2>1, <2>3, KeepPursued DEF Exposed
<1> QED
  BY <1>3, <1>4 DEF Poll

LEMMA CancelExposes ==
  ASSUME TypeOK, NEW D, NEW runs, CancelDispatches(D, runs), NEW d \in Slot, Exposed(d)'
  PROVE  /\ run'[d] = "active" => run[d] = "active" /\ d \notin runs
         /\ pc'[d] = "starting" => pc[d] = "starting" /\ d \notin D
<1>1. PICK unborn \in SUBSET {x \in D : pc[x] = "queued"}, leaving \in SUBSET D :
        /\ leaving = unborn \cup {x \in D : pc[x] \in {"reconciling", "settling", "stopping"}}
        /\ pc' = [x \in Slot |->
                    IF x \in leaving THEN "idle"
                    ELSE IF x \in D /\ pc[x] \in {"queued", "starting"} THEN "interrupted"
                    ELSE IF x \in D /\ pc[x] \in {"launching", "waiting"} THEN "stopping"
                    ELSE pc[x]]
        /\ run' = [x \in Slot |->
                     IF /\ run[x] = "active"
                        /\ \/ x \in runs
                           \/ x \in D /\ pc[x] \in {"launching", "waiting", "settling"}
                     THEN "cancelling"
                     ELSE IF x \in leaving /\ run[x] \notin Executing THEN "none"
                     ELSE run[x]]
  BY DEF CancelDispatches
<1> QED
  BY <1>1

LEMMA PursuedLife ==
  ASSUME Pursued, TypeOK', [Next]_vars, \A p, q \in Process : p = q, NEW p \in Process, Life(p)
  PROVE  Pursued'
<1>1. CASE Exit(p)
  <2>1. \A d \in Slot : ~Exposed(d)'
    BY <1>1 DEF Exit, Exposed, Slot, proc
  <2>2. Pausing' \subseteq Pausing
    BY <1>1 DEF Exit, Pausing
  <2> QED
    BY <2>1, <2>2, KeepRows DEF Pursued, Covered
<1>2. CASE StopDispatches(p)
  <2>1. Pausing' = Pausing /\ row' = row
    BY <1>2 DEF StopDispatches, Pausing
  <2>2. \A d \in Slot : Exposed(d)' => Exposed(d)
    BY <1>2, CancelExposes DEF StopDispatches, Pursued, Exposed
  <2> QED
    BY <2>1, <2>2, KeepPursued
<1>3. CASE Stop(p) \/ Start(p)
  <2>1. Pausing' = Pausing /\ row' = row /\ UNCHANGED <<pc, run>>
    BY <1>3 DEF Stop, Start, Pausing
  <2> QED
    BY <2>1, KeepPursued DEF Exposed
<1> QED
  BY <1>1, <1>2, <1>3 DEF Life, Stopped, Crash

\* The request that pauses a task names every row it cancels.
LEMMA PursuedPause ==
  ASSUME Pursued, TypeOK', [Next]_vars, NEW p \in Process, NEW t \in Task, NEW delete \in BOOLEAN,
         PauseTask(p, t, delete)
  PROVE  Pursued'
<1>1. PICK active, new :
        /\ active = {o \in Row : row[o].task = t /\ row[o].st \in Outstanding}
        /\ new = [step |-> "cancel", proc |-> p, task |-> t, delete |-> delete, rows |-> active, targets |-> {}]
        /\ row' = [o \in Row |->
                     IF o \in active
                     THEN [row[o] EXCEPT !.st = "cancelled", !.avail = NoTime, !.lease = NoTime, !.upd = now]
                     ELSE row[o]]
        /\ requests' = requests \cup {new}
        /\ UNCHANGED <<pc, run>>
  BY DEF PauseTask
<1>2. new.step = "cancel" /\ new.rows = active /\ new.task = t
  BY <1>1
<1>3. Pausing' = Pausing \cup {new}
  BY <1>1, <1>2 DEF Pausing
<1>4. \A o \in active : row'[o].st # "none" /\ row'[o].task = t
  <2> SUFFICES ASSUME NEW o \in active PROVE row'[o].st # "none" /\ row'[o].task = t
    OBVIOUS
  <2>1. row[o] \in RunRow /\ row[o].task = t
    BY <1>1 DEF Pursued, TypeOK
  <2>2. row'[o] = [row[o] EXCEPT !.st = "cancelled", !.avail = NoTime, !.lease = NoTime, !.upd = now]
    BY <1>1
  <2> QED
    BY <2>1, <2>2 DEF RunRow
<1>5. RowsOfTask'
  <2>1. ASSUME NEW q \in Pausing, NEW o \in q.rows
        PROVE  row'[o].st # "none" /\ row'[o].task = q.task
    <3>1. o \in Row
      BY PausingType DEF Pursued
    <3>2. row[o].st # "none" /\ row[o].task = q.task
      BY DEF Pursued, RowsOfTask
    <3> QED
      BY <3>1, <3>2, RowKeeps DEF Pursued
  <2> QED
    BY <1>2, <1>3, <1>4, <2>1 DEF RowsOfTask
<1>6. Covered'
  <2> SUFFICES ASSUME NEW d \in Slot, row'[occ(d)].st = "cancelled", row'[occ(d)].att = d[3], Exposed(d)'
               PROVE  \E q \in Pausing' : occ(d) \in q.rows
    BY DEF Covered
  <2>1. CASE occ(d) \in active
    BY <1>2, <1>3, <2>1
  <2>2. CASE occ(d) \notin active
    <3>1. row'[occ(d)] = row[occ(d)] /\ Exposed(d)
      BY <1>1, <2>2 DEF Slot, occ, Exposed
    <3> QED
      BY <1>3, <3>1 DEF Pursued, Covered
  <2> QED
    BY <2>1, <2>2
<1> QED
  BY <1>5, <1>6 DEF Pursued

\* The request reaches the runs and the dispatches of all the rows it names.
LEMMA PursuedCancel ==
  ASSUME Pursued, TypeOK', [Next]_vars, \A p, q \in Process : p = q, NEW q \in requests, CancelActiveWork(q)
  PROVE  Pursued'
<1>1. PICK mine, new :
        /\ mine = {d \in Dispatches(q.proc) : row[occ(d)].task = q.task}
        /\ new = [q EXCEPT !.step = "drain", !.targets = mine]
        /\ CancelDispatches(mine, RunsToCancel(q))
        /\ requests' = (requests \ {q}) \cup {new}
        /\ row' = row
  BY DEF CancelActiveWork
<1>2. q \in Pausing /\ q \in Request
  BY DEF CancelActiveWork, Pausing, Pursued, TypeOK, EnableCall
<1>3. new.step = "drain"
  BY <1>1, <1>2 DEF Request
<1>4. Pausing' = Pausing \ {q}
  BY <1>1, <1>3 DEF Pausing
<1>5. Covered'
  <2> SUFFICES ASSUME NEW d \in Slot, row[occ(d)].st = "cancelled", row[occ(d)].att = d[3], Exposed(d)'
               PROVE  \E x \in Pausing' : occ(d) \in x.rows
    BY <1>1 DEF Covered
  <2>1. /\ run'[d] = "active" => run[d] = "active" /\ d \notin RunsToCancel(q)
        /\ pc'[d] = "starting" => pc[d] = "starting" /\ d \notin mine
    BY <1>1, CancelExposes DEF Pursued
  <2>2. PICK x \in Pausing : occ(d) \in x.rows
    BY <2>1 DEF Pursued, Covered, Exposed
  <2>3. ASSUME x = q PROVE FALSE
    <3>1. proc(d) = q.proc /\ occ(d) \in q.rows /\ row[occ(d)].task = q.task
      BY <1>2, <2>2, <2>3, PausingType DEF Pursued, RowsOfTask, Slot, proc
    <3>2. d \in RunsToCancel(q)
      BY <3>1 DEF RunsToCancel
    <3>3. pc[d] # "idle" => d \in mine
      BY <1>1, <3>1 DEF Dispatches
    <3> QED
      BY <2>1, <3>2, <3>3 DEF Exposed
  <2> QED
    BY <1>4, <2>2, <2>3
<1> QED
  BY <1>4, <1>5, KeepRows DEF Pursued

LEMMA PursuedServe ==
  ASSUME Pursued, TypeOK', [Next]_vars, \A p, q \in Process : p = q, Serve
  PROVE  Pursued'
<1>1. ASSUME NEW q \in requests, WriteEnabled(q) \/ RequestDone(q)
      PROVE  Pursued'
  <2>1. UNCHANGED <<pc, run>> /\ Pausing' = Pausing
    BY <1>1 DEF WriteEnabled, RequestDone, Pausing
  <2>2. \A o \in Row : row'[o] = row[o] \/ row'[o] = [row[o] EXCEPT !.st = "deleted"]
    BY <1>1 DEF WriteEnabled, RequestDone, Pursued, TypeOK
  <2>3. \A o \in Row : row'[o].st = "cancelled" => row[o].st = "cancelled"
    BY <2>2 DEF Pursued, TypeOK, RunRow
  <2> QED
    BY <2>1, <2>3, KeepPursued DEF Exposed
<1>2. ASSUME NEW t \in Task, CreateTask(t) \/ \E p \in Process : ReadSchedule(p, t)
      PROVE  Pursued'
  <2>1. UNCHANGED <<row, pc, run>> /\ Pausing' = Pausing
    BY <1>2 DEF CreateTask, ReadSchedule, Pausing
  <2> QED
    BY <2>1, KeepPursued DEF Exposed
<1> QED
  BY <1>1, <1>2, PursuedPause, PursuedCancel DEF Serve

LEMMA PursuedInit == Init => Pursued
<1> SUFFICES ASSUME Init PROVE Pursued
  OBVIOUS
<1>1. TypeOK /\ Pausing = {} /\ \A d \in Slot : row[occ(d)].st = "none"
  BY TypeInit DEF Init, Pausing, NoRow, Slot, occ
<1> QED
  BY <1>1 DEF Pursued, RowsOfTask, Covered

LEMMA PursuedStep ==
  ASSUME \A p, q \in Process : p = q
  PROVE  Pursued /\ [Next]_vars => Pursued'
<1> SUFFICES ASSUME Pursued, [Next]_vars PROVE Pursued'
  OBVIOUS
<1>1. TypeOK'
  BY TypeStep DEF Pursued
<1>2. CASE Tick \/ UNCHANGED vars
  <2>1. UNCHANGED <<row, pc, run>> /\ Pausing' = Pausing
    BY <1>2 DEF Tick, vars, Pausing
  <2> QED
    BY <1>1, <2>1, KeepPursued DEF Exposed
<1>3. ASSUME NEW p \in Process, Poll(p) \/ Life(p) PROVE Pursued'
  BY <1>1, <1>3, PursuedPoll, PursuedLife
<1>4. ASSUME NEW d \in Slot, Dispatch(d) PROVE Pursued'
  BY <1>1, <1>4, PursuedDispatch
<1>5. CASE Serve
  BY <1>1, <1>5, PursuedServe
<1> QED
  BY <1>2, <1>3, <1>4, <1>5 DEF Next

\* Where one process runs the scheduler, pausing or deleting a task reaches the
\* managed run of every occurrence it cancels, whenever that run was about to be
\* launched, was running or was being retried (pause_task, delete_task,
\* _cancel_active_task_work).  The runs of another process are out of its reach.
THEOREM PausesReachRuns ==
  ASSUME \A p, q \in Process : p = q
  PROVE  Spec => []PauseReachesRuns
<1>1. Pursued => PauseReachesRuns
  <2> SUFFICES ASSUME Pursued, NEW d \in Slot, row[occ(d)].st = "cancelled", row[occ(d)].att = d[3], run[d] = "active"
               PROVE  \E q \in requests : q.step \in {"cancel", "drain"} /\ q.task = row[occ(d)].task
    BY DEF PauseReachesRuns
  <2>1. PICK q \in Pausing : occ(d) \in q.rows
    BY DEF Pursued, Covered, Exposed
  <2> QED
    BY <2>1 DEF Pursued, RowsOfTask, Pausing
<1> QED
  BY <1>1, PursuedInit, PursuedStep, PTL DEF Spec

=============================================================================

---------------------------- MODULE SchedulerLive ----------------------------
(***************************************************************************)
(* Progress of the scheduler.  For an endless clock in a finite model the  *)
(* time line is a window: once `now' reaches the horizon, time passes by   *)
(* moving every stored time one tick into the past.                        *)
(***************************************************************************)
EXTENDS Scheduler

Past(t) == IF t > 0 THEN t - 1 ELSE t

Rebase ==
  /\ now = Horizon
  /\ task' = [t \in Task |-> [task[t] EXCEPT !.next = Past(@)]]
  /\ row' = [o \in Row |-> [row[o] EXCEPT !.sched = Past(@), !.avail = Past(@),
                                          !.lease = Past(@), !.upd = Past(@)]]
  /\ requests' = {IF q.step = "enable" THEN [q EXCEPT !.next = Past(@), !.at = Past(@)] ELSE q :
                    q \in requests}
  /\ UNCHANGED <<now, host, loop, pc, run>>

LiveNext == Next \/ Rebase

\* The event loop resumes every coroutine whose await is over.
Resume(d) ==
  \/ MarkStarted(d) \/ Launch(d) \/ FailBeforeLaunch(d) \/ RecordLaunch(d)
  \/ FailAfterLaunch(d) \/ Finish(d) \/ RetryLater(d) \/ RetryNow(d) \/ GiveUp(d)

\* The clock runs; a process that is down is started again; runs end (they
\* carry a timeout); requests are served to the end.  A poll may fail, by an
\* error or a crash, again and again, but not every time.
Fairness ==
  /\ WF_vars(Tick \/ Rebase)
  /\ \A d \in Slot : WF_vars(Resume(d)) /\ WF_vars(RunEnds(d))
  /\ \A p \in Process :
       /\ WF_vars(Start(p)) /\ WF_vars(StopDispatches(p)) /\ WF_vars(Stopped(p))
       /\ SF_vars(Reconcile(p)) /\ SF_vars(Claim(p) /\ host[p] = "up")

LiveSpec == Init /\ [][LiveNext]_vars /\ Fairness

\* No occurrence is left pending, leased or launched for ever: crashes, dead
\* heartbeats, cancelled dispatches, conflicts and failing store calls
\* notwithstanding, it is eventually closed or deleted.
EventuallyClosed ==
  \A o \in Row : row[o].st \in Outstanding ~> row[o].st \in Terminal \cup {"deleted"}
=============================================================================

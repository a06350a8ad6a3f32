---------------------------- MODULE ThreadCleanup ----------------------------
(***************************************************************************)
(* The cleanup of inactive conversations (app/thread_cleanup.py), with the *)
(* part of the client manager it relies on (app/dependencies.py).          *)
(*                                                                         *)
(* Several processes ("hosts") share one SQLite file: a row of activity    *)
(* per conversation, which a cleanup job claims before it deletes the      *)
(* conversation; one lease, which makes one job at a time the cleaner; and *)
(* a row per job.  Marks of running and of dying conversations are local   *)
(* to a host.  One action is one transaction, or what the event loop does  *)
(* between two of them.                                                    *)
(*                                                                         *)
(* Time is what the code compares it to.  A conversation was last active   *)
(* before the job's cutoff ("old") or after it ("recent"); a lease or a    *)
(* claim is valid ("fresh") or has expired.  A lease lasts ten minutes and *)
(* its heartbeat renews it every 200 seconds, so it expires only when its  *)
(* owner is "late": dead, suspended, or without a working heartbeat.       *)
(***************************************************************************)
EXTENDS Naturals

CONSTANTS Hosts,    \* processes that share the database
          Threads,  \* conversations
          Jobs,     \* identities of cleanup jobs
          None

ASSUME NoneIsNoJob == None \notin Jobs \cup Threads

VARIABLES
    activity,  \* thread_activity: when a conversation was last active, and the claim on it
    lease,     \* thread_cleanup_lease: the one row of it
    row,       \* thread_cleanup_runs: the status of each job's row
    job,       \* per host: the job it runs and how far it has come
    beat,      \* per host: is the job's heartbeat on time?
    deletion,  \* per host: delete_thread_completely, for the job and for a user
    call       \* per host: a request that uses a conversation

vars == <<activity, lease, row, job, beat, deletion, call>>

Deleters == {"job", "user"}
Unclaimed(a) == [a EXCEPT !.by = None, !.fresh = FALSE]
NoRow == [seen |-> "none", by |-> None, fresh |-> FALSE]
NoJob == [id |-> None, at |-> "idle", thread |-> None, page |-> {}, passed |-> {}, lost |-> FALSE,
          torn |-> FALSE]
NoDeletion == [thread |-> None, at |-> "none"]
NoCall == [thread |-> None, at |-> "none"]

(***************************************************************************)
(* Any conversation may be unknown to the index, as the ones written       *)
(* before it existed are, or have been inactive for long.                  *)
(***************************************************************************)
Init ==
    /\ activity \in [Threads -> {NoRow, [NoRow EXCEPT !.seen = "old"]}]
    /\ lease = [owner |-> None, fresh |-> FALSE]
    /\ row = [j \in Jobs |-> "none"]
    /\ job = [h \in Hosts |-> NoJob]
    /\ beat = [h \in Hosts |-> "off"]
    /\ deletion = [h \in Hosts |-> [u \in Deleters |-> NoDeletion]]
    /\ call = [h \in Hosts |-> NoCall]

-----------------------------------------------------------------------------
(* What the transactions test.                                             *)

Claimable(a) == a.by = None \/ ~a.fresh

\* touch_thread_sync refuses a conversation whose claim is still valid.
Refused(t) == activity[t].by # None /\ activity[t].fresh

\* The condition of the candidates' query and, again, of the claim.
Eligible(t) == activity[t].seen = "old" /\ Claimable(activity[t])

LeaseFree == lease.owner = None \/ ~lease.fresh
Owns(j) == lease.owner = j

Running(h, t) == call[h] = [thread |-> t, at |-> "running"]
Deleting(h, t) == \E u \in Deleters : deletion[h][u].thread = t
InUse(t) == \E h \in Hosts : call[h].thread = t

Unused(j) == row[j] = "none" /\ ~Owns(j) /\ \A h \in Hosts : job[h].id # j

\* Cleared(j): the activity after the claims of job j and all expired claims
\* are dropped.
Cleared(j) == [t \in Threads |->
    IF Claimable(activity[t]) \/ activity[t].by = j THEN Unclaimed(activity[t])
                                                     ELSE activity[t]]

At(h, places) == job[h].at \in places
Goto(h, place) == job' = [job EXCEPT ![h].at = place]
GoIdle(h) == /\ job' = [job EXCEPT ![h] = NoJob]
             /\ beat' = [beat EXCEPT ![h] = "off"]
\* What is left to do is in the finally block.
Finish(h) == job' = [job EXCEPT ![h] = [NoJob EXCEPT !.id = job[h].id, !.at = "closing"]]
Local == <<deletion, call>>

\* Torn(t): the jobs, those at conversation t noting that its row is forgotten
\* since their claim (a history of the model, which no guard reads).
Torn(t) == [g \in Hosts |-> IF job[g].thread = t THEN [job[g] EXCEPT !.torn = TRUE] ELSE job[g]]

\* Mutant: an abandoned row is written to.
WrittenAlways(j, status) == [row EXCEPT ![j] = status]
\* A row that was abandoned is not written to again.
Written(j, status) == [row EXCEPT ![j] = IF @ = "abandoned" THEN @ ELSE status]

-----------------------------------------------------------------------------
(* start_run.                                                              *)

\* A takeover abandons the row of the job it displaces and frees its claims.
Abandoned == [j \in Jobs |->
    IF Owns(j) /\ row[j] \in {"pending", "running"} THEN "abandoned" ELSE row[j]]

Acquire(h, j) ==
    /\ At(h, {"idle"}) /\ Unused(j) /\ LeaseFree
    /\ row' = Abandoned
    /\ activity' = Cleared(lease.owner)
    /\ lease' = [owner |-> j, fresh |-> TRUE]
    /\ job' = [job EXCEPT ![h].id = j, ![h].at = "acquired"]
    /\ beat' = [beat EXCEPT ![h] = "on"]
    /\ UNCHANGED Local

\* DELETE ... WHERE owner = job_id, the end of every orderly job.
Released(h) == IF Owns(job[h].id) THEN [owner |-> None, fresh |-> FALSE] ELSE lease

\* A scheduled job gives way to recent activity; it leaves no row behind.
Defer(h) ==
    /\ At(h, {"acquired"})
    /\ \E t \in Threads : activity[t].seen = "recent"
    /\ lease' = Released(h)
    /\ GoIdle(h)
    /\ UNCHANGED <<activity, row, Local>>

InsertRun(h) ==
    /\ At(h, {"acquired"})
    /\ row' = [row EXCEPT ![job[h].id] = "pending"]
    /\ Goto(h, "created")
    /\ UNCHANGED <<activity, lease, beat, Local>>

\* The insert fails: no row, and the lease is given back.
InsertFails(h) ==
    /\ At(h, {"acquired"})
    /\ lease' = Released(h)
    /\ GoIdle(h)
    /\ UNCHANGED <<activity, row, Local>>

\* The start is cancelled before its try block, or the task of the job before
\* its own: nobody gives the lease back.
StartDropped(h) ==
    /\ At(h, {"acquired", "created"})
    /\ GoIdle(h)
    /\ UNCHANGED <<activity, lease, row, Local>>

Begin(h) ==
    /\ At(h, {"created"})
    /\ row' = Written(job[h].id, "running")
    /\ Goto(h, "scan")
    /\ UNCHANGED <<activity, lease, beat, Local>>

-----------------------------------------------------------------------------
(* _execute_run.                                                           *)

\* The checks before every page and before every candidate.
StopEarly(h) ==
    /\ At(h, {"scan", "page"})
    /\ job[h].lost \/ \E t \in Threads : activity[t].seen = "recent"
    /\ Finish(h)
    /\ UNCHANGED <<activity, lease, row, beat, Local>>

Candidates(h) == {t \in Threads \ job[h].passed : Eligible(t)}

\* The cursor moves past everything the query returned.
Page(h) ==
    /\ At(h, {"scan"}) /\ ~job[h].lost
    /\ \E S \in SUBSET Candidates(h) :
         /\ S # {}
         /\ job' = [job EXCEPT ![h].at = "page", ![h].page = S, ![h].passed = @ \cup S]
    /\ UNCHANGED <<activity, lease, row, beat, Local>>

Exhausted(h) ==
    /\ At(h, {"scan"}) /\ Candidates(h) = {}
    /\ Finish(h)
    /\ UNCHANGED <<activity, lease, row, beat, Local>>

PageDone(h) ==
    /\ At(h, {"page"}) /\ job[h].page = {}
    /\ Goto(h, "scan")
    /\ UNCHANGED <<activity, lease, row, beat, Local>>

\* A candidate with a run on this host, or with a schedule, is skipped.  The
\* schedules are the scheduler's, so any candidate may have one.
Skip(h) ==
    /\ At(h, {"page"}) /\ ~job[h].lost
    /\ \E t \in job[h].page : job' = [job EXCEPT ![h].page = @ \ {t}]
    /\ UNCHANGED <<activity, lease, row, beat, Local>>

Choose(h) ==
    /\ At(h, {"page"}) /\ ~job[h].lost
    /\ \E t \in job[h].page :
         /\ ~Running(h, t)
         /\ job' = [job EXCEPT ![h].at = "claiming", ![h].thread = t, ![h].page = @ \ {t}]
    /\ UNCHANGED <<activity, lease, row, beat, Local>>

\* The claim tests again what the query found: a conversation that was touched
\* or claimed since is skipped.
Claim(h) ==
    LET t == job[h].thread IN
    /\ At(h, {"claiming"})
    /\ IF Eligible(t)
       THEN /\ activity' = [activity EXCEPT ![t].by = job[h].id, ![t].fresh = TRUE]
            /\ job' = [job EXCEPT ![h].at = "claimed", ![h].torn = FALSE]
       ELSE /\ Goto(h, "page")
            /\ UNCHANGED activity
    /\ UNCHANGED <<lease, row, beat, Local>>

\* delete_thread_completely refuses a conversation that runs or dies here.
Deletable(h, t) == ~Running(h, t) /\ ~Deleting(h, t)

StartDelete(h) ==
    LET t == job[h].thread IN
    /\ At(h, {"claimed"})
    /\ IF Deletable(h, t)
       THEN /\ deletion' = [deletion EXCEPT ![h]["job"] = [thread |-> t, at |-> "marked"]]
            /\ Goto(h, "deleting")
       ELSE /\ Goto(h, "failed")
            /\ UNCHANGED deletion
    /\ UNCHANGED <<activity, lease, row, beat, call>>

\* After a success the row is forgotten once more, after a failure the claim
\* is given back.
ForgetAgain(h) ==
    LET t == job[h].thread IN
    /\ At(h, {"deleted"})
    /\ activity' = [activity EXCEPT ![t] = NoRow]
    /\ job' = [Torn(t) EXCEPT ![h].at = "settled"]
    /\ UNCHANGED <<lease, row, beat, Local>>

\* Mutant: the claim is withdrawn whosever it is.
ReleaseClaimUnowned(h) ==
    /\ At(h, {"failed"})
    /\ activity' = [activity EXCEPT ![job[h].thread] = Unclaimed(@)]
    /\ Goto(h, "settled")
    /\ UNCHANGED <<lease, row, beat, Local>>

ReleaseClaim(h) ==
    LET t == job[h].thread IN
    /\ At(h, {"failed"})
    /\ activity' = IF activity[t].by = job[h].id
                   THEN [activity EXCEPT ![t] = Unclaimed(@)] ELSE activity
    /\ Goto(h, "settled")
    /\ UNCHANGED <<lease, row, beat, Local>>

\* A full batch renews the lease; one that is no longer owned is lost.
Settle(h) ==
    /\ At(h, {"settled"})
    /\ \E full \in BOOLEAN :
         /\ job' = [job EXCEPT ![h].at = "page", ![h].thread = None, ![h].torn = FALSE,
                               ![h].lost = @ \/ (full /\ ~Owns(job[h].id))]
         /\ lease' = IF full /\ Owns(job[h].id) THEN [lease EXCEPT !.fresh = TRUE] ELSE lease
    /\ UNCHANGED <<activity, row, beat, Local>>

LimitReached(h) ==
    /\ At(h, {"settled"})
    /\ Finish(h)
    /\ UNCHANGED <<activity, lease, row, beat, Local>>

\* The job is cancelled, or a statement of its fails.  A deletion in progress
\* is awaited first, so nothing of it is lost.
Abort(h) ==
    /\ At(h, {"scan", "page", "claiming", "claimed", "deleted", "failed", "settled"})
    /\ Finish(h)
    /\ UNCHANGED <<activity, lease, row, beat, Local>>

\* The finally block writes the outcome, or fails to, and frees the lease.
CloseRow(h) ==
    /\ At(h, {"closing"})
    /\ row' \in {row, Written(job[h].id, "closed")}
    /\ Goto(h, "closed")
    /\ UNCHANGED <<activity, lease, beat, Local>>

ReleaseLease(h) ==
    /\ At(h, {"closed"})
    /\ lease' = Released(h)
    /\ GoIdle(h)
    /\ UNCHANGED <<activity, row, Local>>

-----------------------------------------------------------------------------
(* delete_thread_completely, on a worker thread.                           *)

DeleteRequest(h, t) ==
    /\ deletion[h]["user"].at = "none"
    /\ Deletable(h, t)
    /\ deletion' = [deletion EXCEPT ![h]["user"] = [thread |-> t, at |-> "marked"]]
    /\ UNCHANGED <<activity, lease, row, job, beat, call>>

\* The job that waits for its deletion learns the result with the mark's end.
Reported(h, u, place) ==
    IF u = "job" THEN [job EXCEPT ![h].at = place] ELSE job

\* Some of the sessions, schedules, checkpoints and files may be gone.
PurgeFails(h, u) ==
    /\ deletion[h][u].at = "marked"
    /\ deletion' = [deletion EXCEPT ![h][u] = NoDeletion]
    /\ job' = Reported(h, u, "failed")
    /\ UNCHANGED <<activity, lease, row, beat, call>>

\* Everything is gone; forget_thread_sync removes the row at last, with whatever
\* claim is on it.
Forget(h, u) ==
    LET t == deletion[h][u].thread IN
    /\ deletion[h][u].at = "marked"
    /\ activity' = [activity EXCEPT ![t] = NoRow]
    /\ deletion' = [deletion EXCEPT ![h][u].at = "forgotten"]
    /\ job' = Torn(t)
    /\ UNCHANGED <<lease, row, beat, call>>

\* Its failure is logged and otherwise ignored.
ForgetFails(h, u) ==
    /\ deletion[h][u].at = "marked"
    /\ deletion' = [deletion EXCEPT ![h][u].at = "forgotten"]
    /\ UNCHANGED <<activity, lease, row, job, beat, call>>

Unmark(h, u) ==
    /\ deletion[h][u].at = "forgotten"
    /\ deletion' = [deletion EXCEPT ![h][u] = NoDeletion]
    /\ job' = Reported(h, u, "deleted")
    /\ UNCHANGED <<activity, lease, row, beat, call>>

-----------------------------------------------------------------------------
(* Requests that use a conversation.                                       *)

\* Mutant: an expired claim stays on the row.
TouchedStillClaimed(a) == [a EXCEPT !.seen = "recent"]
\* Touched(a): an expired claim is withdrawn with the touch.
Touched(a) == [Unclaimed(a) EXCEPT !.seen = "recent"]

Touch(h, t) ==
    /\ call[h].at = "none" /\ ~Refused(t)
    /\ activity' = [activity EXCEPT ![t] = Touched(@)]
    /\ call' = [call EXCEPT ![h] = [thread |-> t, at |-> "touched"]]
    /\ UNCHANGED <<lease, row, job, beat, deletion>>

MarkRunning(h) ==
    /\ call[h].at = "touched" /\ ~Deleting(h, call[h].thread)
    /\ call' = [call EXCEPT ![h].at = "running"]
    /\ UNCHANGED <<activity, lease, row, job, beat, deletion>>

\* The run ends; or the request, refused or an upload, never became one.
CallEnds(h) ==
    /\ call[h].at # "none"
    /\ call' = [call EXCEPT ![h] = NoCall]
    /\ UNCHANGED <<activity, lease, row, job, beat, deletion>>

-----------------------------------------------------------------------------
(* Time and failures.                                                      *)

\* A request is over long before the shortest retention, a day, has passed.
Age(t) ==
    /\ activity[t].seen = "recent" /\ ~InUse(t)
    /\ activity' = [activity EXCEPT ![t].seen = "old"]
    /\ UNCHANGED <<lease, row, job, beat, deletion, call>>

\* A legacy conversation enters the index with the age of its last checkpoint;
\* one in use has a recent checkpoint or none.
Backfill(t) ==
    /\ activity[t].seen = "none" /\ ~InUse(t)
    /\ activity' = [activity EXCEPT ![t].seen = "old"]
    /\ UNCHANGED <<lease, row, job, beat, deletion, call>>

Punctual(j) == \E h \in Hosts : job[h].id = j /\ beat[h] = "on"

LeaseExpires ==
    /\ lease.owner # None /\ lease.fresh /\ ~Punctual(lease.owner)
    /\ lease' = [lease EXCEPT !.fresh = FALSE]
    /\ UNCHANGED <<activity, row, job, beat, deletion, call>>

ClaimExpires(t) ==
    /\ Refused(t) /\ ~Punctual(activity[t].by)
    /\ activity' = [activity EXCEPT ![t].fresh = FALSE]
    /\ UNCHANGED <<lease, row, job, beat, deletion, call>>

\* The heartbeat stops or misses its deadline: the task died of an exception
\* nobody sees, or the machine was suspended.
FallLate(h) ==
    /\ beat[h] = "on"
    /\ beat' = [beat EXCEPT ![h] = "late"]
    /\ UNCHANGED <<activity, lease, row, job, deletion, call>>

\* _lease_heartbeat: the lease, then the claim on the current conversation,
\* whatever became of the latter.
Renewable(h, t) == activity[t].by = job[h].id

Renew(h) ==
    LET t == job[h].thread IN
    /\ beat[h] = "late"
    /\ At(h, {"scan", "page", "claiming", "claimed", "deleting", "deleted", "failed", "settled"})
    /\ ~job[h].lost
    /\ IF Owns(job[h].id)
       THEN /\ lease' = [lease EXCEPT !.fresh = TRUE]
            /\ activity' = IF At(h, {"claimed", "deleting", "deleted", "failed"}) /\ Renewable(h, t)
                           THEN [activity EXCEPT ![t].fresh = TRUE] ELSE activity
            /\ UNCHANGED job
       ELSE /\ job' = [job EXCEPT ![h].lost = TRUE]
            /\ UNCHANGED <<lease, activity>>
    /\ UNCHANGED <<row, beat, deletion, call>>

\* A process dies and starts again: what was local to it is gone.
Crash(h) ==
    /\ job[h] # NoJob \/ call[h] # NoCall \/ \E u \in Deleters : deletion[h][u] # NoDeletion
    /\ GoIdle(h)
    /\ deletion' = [deletion EXCEPT ![h] = [u \in Deleters |-> NoDeletion]]
    /\ call' = [call EXCEPT ![h] = NoCall]
    /\ UNCHANGED <<activity, lease, row>>

-----------------------------------------------------------------------------
Start(h) == \/ \E j \in Jobs : Acquire(h, j)
            \/ Defer(h) \/ InsertRun(h) \/ InsertFails(h) \/ StartDropped(h) \/ Begin(h)

Work(h) == \/ StopEarly(h) \/ Page(h) \/ Exhausted(h) \/ PageDone(h) \/ Skip(h)
           \/ Choose(h) \/ Claim(h) \/ StartDelete(h) \/ ForgetAgain(h) \/ ReleaseClaim(h)
           \/ Settle(h) \/ LimitReached(h) \/ Abort(h) \/ CloseRow(h) \/ ReleaseLease(h)

Delete(h, u) == PurgeFails(h, u) \/ Forget(h, u) \/ ForgetFails(h, u) \/ Unmark(h, u)

Request(h) == (\E t \in Threads : Touch(h, t)) \/ MarkRunning(h) \/ CallEnds(h)

Next ==
    \/ \E h \in Hosts : Start(h) \/ Work(h) \/ Request(h) \/ FallLate(h) \/ Renew(h) \/ Crash(h)
    \/ \E h \in Hosts, u \in Deleters : Delete(h, u)
    \/ \E h \in Hosts, t \in Threads : DeleteRequest(h, t)
    \/ \E t \in Threads : Age(t) \/ Backfill(t) \/ ClaimExpires(t)
    \/ LeaseExpires

Spec == Init /\ [][Next]_vars

-----------------------------------------------------------------------------
TypeOK ==
    /\ activity \in [Threads -> [seen : {"none", "old", "recent"}, by : Jobs \cup {None}, fresh : BOOLEAN]]
    /\ lease \in [owner : Jobs \cup {None}, fresh : BOOLEAN]
    /\ row \in [Jobs -> {"none", "pending", "running", "closed", "abandoned"}]
    /\ job \in [Hosts -> [id : Jobs \cup {None},
                          at : {"idle", "acquired", "created", "scan", "page", "claiming", "claimed",
                                "deleting", "deleted", "failed", "settled", "closing", "closed"},
                          thread : Threads \cup {None}, page : SUBSET Threads,
                          passed : SUBSET Threads, lost : BOOLEAN, torn : BOOLEAN]]
    /\ beat \in [Hosts -> {"off", "on", "late"}]
    /\ deletion \in [Hosts -> [Deleters -> [thread : Threads \cup {None},
                                            at : {"none", "marked", "forgotten"}]]]
    /\ call \in [Hosts -> [thread : Threads \cup {None}, at : {"none", "touched", "running"}]]

\* A valid claim keeps every request away from the conversation, on every host:
\* the claim tests the last activity again, a touch withdraws an expired claim
\* and a heartbeat revives only a claim that nobody has withdrawn.
ClaimShields == \A t \in Threads : Refused(t) => ~InUse(t)

\* While a job with a timely heartbeat deletes a conversation, its claim stands:
\* no takeover, no other job and no request removes it.  ("torn": another
\* deletion of the same conversation has removed the row since, claim and all.)
DeletesUnderClaim ==
    \A h \in Hosts :
        LET d == deletion[h]["job"] IN
        (d.at = "marked" /\ beat[h] = "on" /\ ~job[h].torn)
            => Refused(d.thread) /\ activity[d.thread].by = job[h].id

\* The report of a job is final: a job that was declared abandoned cannot
\* overwrite that when it wakes up, nor is a finished one abandoned later.
ReportsAreFinal ==
    [][\A j \in Jobs : row[j] \in {"abandoned", "closed"} => row'[j] = row[j]]_vars
=============================================================================

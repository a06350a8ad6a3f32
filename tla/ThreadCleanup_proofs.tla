------------------------- MODULE ThreadCleanup_proofs -------------------------
(***************************************************************************)
(* Machine-checked proofs about the cleanup of conversations, for any       *)
(* number of hosts, conversations and jobs.                                 *)
(***************************************************************************)
EXTENDS ThreadCleanup, TLAPS

USE NoneIsNoJob

-----------------------------------------------------------------------------
(* The invariant.                                                          *)

\* A job at work has an identity, and no other host has it.
Ids ==
    /\ \A h \in Hosts : job[h].at # "idle" => job[h].id # None
    /\ \A g, h \in Hosts : job[g].id = job[h].id /\ job[h].id # None => g = h

\* A conversation in use is neither old nor claimed, be it by an expired claim.
Untouched == \A t \in Threads : InUse(t) => activity[t].seen # "old" /\ activity[t].by = None

\* The job that waits for a deletion is the one that started it.
Awaited ==
    \A h \in Hosts :
        /\ deletion[h]["job"].at # "none" => job[h].at = "deleting" /\ deletion[h]["job"].thread = job[h].thread
        /\ job[h].at \in {"claiming", "claimed", "deleting", "deleted", "failed"} => job[h].thread \in Threads
        /\ \A u \in Deleters : deletion[h][u].at # "none" => deletion[h][u].thread \in Threads

\* While its heartbeat is on time, neither the lease of a job nor its claim expires.
Holding(h) == job[h].at \in {"claimed", "deleting"} /\ beat[h] = "on" /\ ~job[h].torn

Punctuality ==
    \A h \in Hosts :
        /\ beat[h] = "on" /\ lease.owner = job[h].id => lease.fresh
        /\ beat[h] # "off" => job[h].id # None
        /\ Holding(h) => activity[job[h].thread].by = job[h].id /\ activity[job[h].thread].fresh

\* The row of a job that has not begun was not written by anybody else but to abandon it.
Fresh ==
    \A h \in Hosts :
        /\ job[h].at = "acquired" => row[job[h].id] = "none"
        /\ job[h].at = "created" => row[job[h].id] \in {"pending", "abandoned"}

Safe == Ids /\ Untouched /\ Awaited /\ Punctuality /\ Fresh

IInv == TypeOK /\ Safe

-----------------------------------------------------------------------------
(* The records.                                                            *)

Places == {"idle", "acquired", "created", "scan", "page", "claiming", "claimed", "deleting", "deleted",
           "failed", "settled", "closing", "closed"}
Row == [seen : {"none", "old", "recent"}, by : Jobs \cup {None}, fresh : BOOLEAN]
JobState == [id : Jobs \cup {None}, at : Places, thread : Threads \cup {None}, page : SUBSET Threads,
             passed : SUBSET Threads, lost : BOOLEAN, torn : BOOLEAN]
Lease == [owner : Jobs \cup {None}, fresh : BOOLEAN]
Deletion == [thread : Threads \cup {None}, at : {"none", "marked", "forgotten"}]
Call == [thread : Threads \cup {None}, at : {"none", "touched", "running"}]

Typed ==
    /\ activity \in [Threads -> Row]
    /\ lease \in Lease
    /\ row \in [Jobs -> {"none", "pending", "running", "closed", "abandoned"}]
    /\ job \in [Hosts -> JobState]
    /\ beat \in [Hosts -> {"off", "on", "late"}]
    /\ deletion \in [Hosts -> [Deleters -> Deletion]]
    /\ call \in [Hosts -> Call]

LEMMA TypedIsTypeOK == Typed <=> TypeOK
  BY DEF Typed, TypeOK, Row, JobState, Places, Lease, Deletion, Call

\* What the updates of the code do to the fields of a record.
LEMMA UnclaimedFields ==
  \A a \in Row : /\ Unclaimed(a) \in Row /\ Unclaimed(a).seen = a.seen
                 /\ Unclaimed(a).by = None /\ Unclaimed(a).fresh = FALSE
  BY DEF Row, Unclaimed

LEMMA TouchedFields ==
  \A a \in Row : /\ Touched(a) \in Row /\ Touched(a).seen = "recent"
                 /\ Touched(a).by = None /\ Touched(a).fresh = FALSE
  BY DEF Row, Unclaimed, Touched

LEMMA FreshFields ==
  \A a \in Row, b \in BOOLEAN : /\ [a EXCEPT !.fresh = b] \in Row
                                /\ [a EXCEPT !.fresh = b].fresh = b
                                /\ [a EXCEPT !.fresh = b].by = a.by
                                /\ [a EXCEPT !.fresh = b].seen = a.seen
  BY DEF Row

LEMMA OldFields ==
  \A a \in Row : /\ [a EXCEPT !.seen = "old"] \in Row
                 /\ [a EXCEPT !.seen = "old"].seen = "old"
                 /\ [a EXCEPT !.seen = "old"].by = a.by
                 /\ [a EXCEPT !.seen = "old"].fresh = a.fresh
  BY DEF Row

LEMMA NoRowFields == NoRow \in Row /\ NoRow.seen = "none" /\ NoRow.by = None /\ NoRow.fresh = FALSE
  BY DEF NoRow, Row

LEMMA NoJobFields ==
  /\ NoJob \in JobState /\ NoJob.at = "idle" /\ NoJob.id = None /\ NoJob.thread = None /\ NoJob.torn = FALSE
  BY DEF NoJob, JobState, Places

\* Job h is at place p of its work, with the same identity; no other host moves.
Moves(h, p) ==
    /\ job' \in [Hosts -> JobState]
    /\ job'[h].at = p /\ job'[h].id = job[h].id
    /\ \A g \in Hosts \ {h} : job'[g] = job[g]

\* ... and does nothing else.
Goes(h, p) ==
    /\ Moves(h, p)
    /\ job'[h].thread = job[h].thread /\ job'[h].torn = job[h].torn

LEMMA GotoGoes ==
  ASSUME Typed, NEW h \in Hosts, NEW p \in Places, Goto(h, p)
  PROVE  Goes(h, p)
<1>1. job[h] \in JobState /\ job'[h] = [job[h] EXCEPT !.at = p] /\ \A g \in Hosts \ {h} : job'[g] = job[g]
  BY DEF Goto, Typed
<1>2. \A b \in JobState : /\ [b EXCEPT !.at = p] \in JobState
                          /\ [b EXCEPT !.at = p].at = p /\ [b EXCEPT !.at = p].id = b.id
                          /\ [b EXCEPT !.at = p].thread = b.thread /\ [b EXCEPT !.at = p].torn = b.torn
  BY DEF JobState
<1>3. job' \in [Hosts -> JobState]
  BY <1>1, <1>2 DEF Goto, Typed
<1> QED
  BY <1>1, <1>2, <1>3 DEF Goes, Moves

LEMMA FinishMoves ==
  ASSUME Typed, NEW h \in Hosts, Finish(h)
  PROVE  Moves(h, "closing")
<1> DEFINE b == [NoJob EXCEPT !.id = job[h].id, !.at = "closing"]
<1>1. b \in JobState /\ b.id = job[h].id /\ b.at = "closing"
  BY DEF Typed, JobState, NoJob, Places
<1> HIDE DEF b
<1>2. job' = [job EXCEPT ![h] = b]
  BY DEF Finish, b
<1> QED
  BY <1>1, <1>2 DEF Moves, Typed

\* The row of conversation t is forgotten under every job.
Tears(t) ==
    \A g \in Hosts : /\ Torn(t)[g] \in JobState
                     /\ Torn(t)[g].id = job[g].id /\ Torn(t)[g].at = job[g].at
                     /\ Torn(t)[g].thread = job[g].thread
                     /\ job[g].thread = t => Torn(t)[g].torn
                     /\ job[g].thread # t => Torn(t)[g].torn = job[g].torn

LEMMA TornTears == ASSUME Typed, NEW t PROVE Tears(t) /\ Torn(t) \in [Hosts -> JobState]
<1>1. \A b \in JobState : /\ [b EXCEPT !.torn = TRUE] \in JobState
                          /\ [b EXCEPT !.torn = TRUE].at = b.at /\ [b EXCEPT !.torn = TRUE].id = b.id
                          /\ [b EXCEPT !.torn = TRUE].thread = b.thread /\ [b EXCEPT !.torn = TRUE].torn
  BY DEF JobState
<1>2. \A g \in Hosts : Torn(t)[g] = IF job[g].thread = t THEN [job[g] EXCEPT !.torn = TRUE] ELSE job[g]
  BY DEF Torn
<1>3. \A g \in Hosts : job[g] \in JobState
  BY DEF Typed
<1>4. Tears(t)
  BY <1>1, <1>2, <1>3 DEF Tears
<1>5. Torn(t) \in [Hosts -> JobState]
  BY <1>1, <1>3 DEF Torn
<1> QED
  BY <1>4, <1>5

-----------------------------------------------------------------------------
(* Every step preserves the invariant.                                     *)

\* The task of a job is over, with or without its lease.
Idles(h) ==
    /\ job'[h] = NoJob /\ beat'[h] = "off"
    /\ \A g \in Hosts \ {h} : job'[g] = job[g] /\ beat'[g] = beat[g] /\ deletion'[g] = deletion[g] /\ call'[g] = call[g]
    /\ lease' = lease \/ lease'.owner = None
    /\ \A u \in Deleters : deletion'[h][u].at # "none" => deletion'[h] = deletion[h] /\ deletion[h]["job"].at = "none"
    /\ call'[h].thread \in {None, call[h].thread}
    /\ UNCHANGED <<activity, row>>

LEMMA IdlesSafe ==
  ASSUME Typed, Safe, NEW h \in Hosts, Idles(h)
  PROVE  Safe'
<1>1. job'[h].at = "idle" /\ job'[h].id = None /\ job'[h].torn = FALSE
  BY NoJobFields DEF Idles
<1>2. Ids'
  BY <1>1 DEF Idles, Safe, Ids
<1>3. Untouched'
  BY DEF Idles, Safe, Untouched, InUse
<1>4. Awaited'
  BY <1>1 DEF Idles, Safe, Awaited, Deleters
<1>5. Punctuality'
  BY <1>1 DEF Idles, Safe, Punctuality, Holding
<1>6. Fresh'
  BY <1>1 DEF Idles, Safe, Fresh
<1> QED
  BY <1>2, <1>3, <1>4, <1>5, <1>6 DEF Safe

LEMMA OverSafe ==
  ASSUME Typed, Safe, NEW h \in Hosts,
         Defer(h) \/ InsertFails(h) \/ StartDropped(h) \/ ReleaseLease(h) \/ Crash(h)
  PROVE  Safe'
<1>1. job'[h] = NoJob /\ beat'[h] = "off" /\ \A g \in Hosts \ {h} : job'[g] = job[g] /\ beat'[g] = beat[g]
  BY DEF Defer, InsertFails, StartDropped, ReleaseLease, Crash, GoIdle, Typed
<1>2. lease' = lease \/ lease'.owner = None
  BY DEF Defer, InsertFails, StartDropped, ReleaseLease, Crash, Released
<1>3. UNCHANGED <<activity, row>>
  BY DEF Defer, InsertFails, StartDropped, ReleaseLease, Crash
<1>4. CASE ~Crash(h)
  <2>1. UNCHANGED <<deletion, call>> /\ job[h].at # "deleting"
    BY <1>4 DEF Defer, InsertFails, StartDropped, ReleaseLease, Local, At
  <2>2. deletion[h]["job"].at = "none"
    BY <2>1 DEF Safe, Awaited
  <2> QED
    BY <1>1, <1>2, <1>3, <2>1, <2>2, IdlesSafe DEF Idles
<1>5. CASE Crash(h)
  <2>1. /\ \A g \in Hosts \ {h} : deletion'[g] = deletion[g] /\ call'[g] = call[g]
        /\ \A u \in Deleters : deletion'[h][u].at = "none"
        /\ call'[h].thread = None
    BY <1>5 DEF Crash, NoDeletion, NoCall, Typed
  <2>2. \A g \in Hosts \ {h} : job'[g] = job[g] /\ beat'[g] = beat[g] /\ deletion'[g] = deletion[g] /\ call'[g] = call[g]
    BY <1>1, <2>1
  <2>3. \A u \in Deleters : deletion'[h][u].at # "none" => deletion'[h] = deletion[h] /\ deletion[h]["job"].at = "none"
    BY <2>1
  <2>4. call'[h].thread \in {None, call[h].thread}
    BY <2>1
  <2>5. Idles(h)
    BY <1>1, <1>2, <1>3, <2>2, <2>3, <2>4, Zenon DEF Idles
  <2> QED
    BY <2>5, IdlesSafe
<1> QED
  BY <1>4, <1>5

\* A job goes on without touching a conversation; its lease may be renewed.
Proceeds(h, p) ==
    /\ Moves(h, p)
    /\ job[h].at \notin {"idle", "deleting"} /\ p \in Places \ {"idle", "acquired", "created", "claimed", "deleting"}
    /\ p \in {"claiming", "claimed", "deleting", "deleted", "failed"} => job'[h].thread \in Threads
    /\ lease' = lease \/ lease'.fresh = TRUE
    /\ \A j \in Jobs : row'[j] = row[j] \/ j = job[h].id
    /\ UNCHANGED <<beat, deletion, call>>
    /\ \A t \in Threads : \/ activity'[t] = activity[t]
                          \/ activity'[t].by = None /\ activity'[t].seen = activity[t].seen /\ activity[t].by = job[h].id

LEMMA ProceedsSafe ==
  ASSUME Typed, Safe, NEW h \in Hosts, NEW p, Proceeds(h, p)
  PROVE  Safe'
<1>1. Ids'
  BY DEF Proceeds, Moves, Safe, Ids
<1>2. Untouched'
  BY DEF Proceeds, Safe, Untouched, InUse
<1>3. Awaited'
  BY DEF Proceeds, Moves, Safe, Awaited
<1>4. Punctuality'
  <2>1. \A g \in Hosts : Holding(g)' => g # h /\ Holding(g)
    BY DEF Proceeds, Moves, Holding
  <2>2. \A g \in Hosts \ {h} : Holding(g) => job[g].thread \in Threads /\ activity[job[g].thread].by # job[h].id
    BY DEF Proceeds, Safe, Holding, Awaited, Punctuality, Ids
  <2>3. \A g \in Hosts : Holding(g)' => activity'[job'[g].thread].by = job'[g].id /\ activity'[job'[g].thread].fresh
    BY <2>1, <2>2 DEF Proceeds, Moves, Safe, Punctuality
  <2> QED
    BY <2>3 DEF Proceeds, Moves, Safe, Punctuality
<1>5. Fresh'
  <2>1. \A g \in Hosts : job'[g].at \in {"acquired", "created"} => g # h /\ job[g].id \in Jobs /\ job[g].id # job[h].id
    BY DEF Proceeds, Moves, Safe, Ids, Typed, JobState
  <2> QED
    BY <2>1 DEF Proceeds, Moves, Safe, Fresh
<1> QED
  BY <1>1, <1>2, <1>3, <1>4, <1>5 DEF Safe

\* Pages, candidates, outcomes and the end of a job.
LEMMA WorkSafe ==
  ASSUME Typed, Safe, NEW h \in Hosts,
         \/ StopEarly(h) \/ Page(h) \/ Exhausted(h) \/ PageDone(h) \/ Skip(h) \/ Choose(h)
         \/ Settle(h) \/ LimitReached(h) \/ Abort(h) \/ CloseRow(h) \/ ReleaseClaim(h)
  PROVE  Safe'
<1>1. CASE StopEarly(h) \/ Exhausted(h) \/ LimitReached(h) \/ Abort(h)
  <2>1. Moves(h, "closing")
    BY <1>1, FinishMoves DEF StopEarly, Exhausted, LimitReached, Abort
  <2>2. job[h].at \notin {"idle", "deleting"} /\ UNCHANGED <<activity, lease, row, beat, deletion, call>>
    BY <1>1 DEF StopEarly, Exhausted, LimitReached, Abort, At, Local
  <2>3. Proceeds(h, "closing")
    BY <2>1, <2>2 DEF Proceeds, Places
  <2> QED
    BY <2>3, ProceedsSafe
<1>2. CASE Page(h) \/ Skip(h) \/ Choose(h)
  <2>1. UNCHANGED <<activity, lease, row, beat, deletion, call>> /\ job[h].at \in {"scan", "page"}
    BY <1>2 DEF Page, Skip, Choose, At, Local
  <2>2. job[h] \in JobState /\ job \in [Hosts -> JobState]
    BY DEF Typed
  <2>3. CASE Page(h)
    <3>1. PICK S \in SUBSET Candidates(h) :
            job' = [job EXCEPT ![h].at = "page", ![h].page = S, ![h].passed = @ \cup S]
      BY <2>3 DEF Page
    <3>2. S \in SUBSET Threads
      BY DEF Candidates
    <3>3. \A b \in JobState : /\ [b EXCEPT !.at = "page", !.page = S, !.passed = @ \cup S] \in JobState
                              /\ [b EXCEPT !.at = "page", !.page = S, !.passed = @ \cup S].at = "page"
                              /\ [b EXCEPT !.at = "page", !.page = S, !.passed = @ \cup S].id = b.id
      BY <3>2 DEF JobState, Places
    <3>4. Moves(h, "page")
      BY <2>2, <3>1, <3>3 DEF Moves
    <3>5. Proceeds(h, "page")
      BY <2>1, <3>4 DEF Proceeds, Places
    <3> QED
      BY <3>5, ProceedsSafe
  <2>4. CASE Skip(h)
    <3>1. PICK t : job' = [job EXCEPT ![h].page = @ \ {t}]
      BY <2>4 DEF Skip
    <3>2. \A b \in JobState : /\ [b EXCEPT !.page = @ \ {t}] \in JobState
                              /\ [b EXCEPT !.page = @ \ {t}].at = b.at
                              /\ [b EXCEPT !.page = @ \ {t}].id = b.id
      BY DEF JobState
    <3>3. Moves(h, "page")
      BY <2>2, <2>4, <3>1, <3>2 DEF Moves, Skip, At
    <3>4. Proceeds(h, "page")
      BY <2>1, <3>3 DEF Proceeds, Places
    <3> QED
      BY <3>4, ProceedsSafe
  <2>5. CASE Choose(h)
    <3>1. PICK t \in Threads :
            job' = [job EXCEPT ![h].at = "claiming", ![h].thread = t, ![h].page = @ \ {t}]
      BY <2>2, <2>5 DEF Choose, JobState
    <3>2. \A b \in JobState : LET c == [b EXCEPT !.at = "claiming", !.thread = t, !.page = @ \ {t}] IN
            c \in JobState /\ c.at = "claiming" /\ c.id = b.id /\ c.thread = t
      BY DEF JobState, Places
    <3>3. Moves(h, "claiming") /\ job'[h].thread = t
      BY <2>2, <3>1, <3>2 DEF Moves
    <3>4. Proceeds(h, "claiming")
      BY <2>1, <3>3 DEF Proceeds, Places
    <3> QED
      BY <3>4, ProceedsSafe
  <2> QED
    BY <1>2, <2>3, <2>4, <2>5
<1>3. CASE PageDone(h)
  <2>1. Goes(h, "scan")
    BY <1>3, GotoGoes DEF PageDone, Places
  <2>2. UNCHANGED <<activity, lease, row, beat, deletion, call>> /\ job[h].at = "page"
    BY <1>3 DEF PageDone, At, Local
  <2>3. Proceeds(h, "scan")
    BY <2>1, <2>2 DEF Proceeds, Goes, Places
  <2> QED
    BY <2>3, ProceedsSafe
<1>4. CASE Settle(h)
  <2>1. PICK full \in BOOLEAN :
          /\ job' = [job EXCEPT ![h].at = "page", ![h].thread = None, ![h].torn = FALSE,
                                ![h].lost = @ \/ (full /\ ~Owns(job[h].id))]
          /\ lease' = IF full /\ Owns(job[h].id) THEN [lease EXCEPT !.fresh = TRUE] ELSE lease
    BY <1>4 DEF Settle
  <2>2. PICK v \in BOOLEAN : v = (job[h].lost \/ (full /\ ~Owns(job[h].id)))
    OBVIOUS
  <2>3. Moves(h, "page")
    <3>1. \A b \in JobState : /\ [b EXCEPT !.at = "page", !.thread = None, !.torn = FALSE, !.lost = v] \in JobState
                              /\ [b EXCEPT !.at = "page", !.thread = None, !.torn = FALSE, !.lost = v].at = "page"
                              /\ [b EXCEPT !.at = "page", !.thread = None, !.torn = FALSE, !.lost = v].id = b.id
      BY DEF JobState, Places
    <3>2. job' = [job EXCEPT ![h].at = "page", ![h].thread = None, ![h].torn = FALSE, ![h].lost = v]
      BY <2>1, <2>2
    <3>3. job[h] \in JobState /\ job \in [Hosts -> JobState]
      BY DEF Typed
    <3> QED
      BY <3>1, <3>2, <3>3 DEF Moves
  <2>4. lease' = lease \/ lease'.fresh = TRUE
    BY <2>1 DEF Typed, Lease
  <2>5. UNCHANGED <<activity, row, beat, deletion, call>> /\ job[h].at = "settled"
    BY <1>4 DEF Settle, At, Local
  <2>6. Proceeds(h, "page")
    BY <2>3, <2>4, <2>5 DEF Proceeds, Places
  <2> QED
    BY <2>6, ProceedsSafe
<1>5. CASE CloseRow(h)
  <2>1. Goes(h, "closed")
    BY <1>5, GotoGoes DEF CloseRow, Places
  <2>2. UNCHANGED <<activity, lease, beat, deletion, call>> /\ job[h].at = "closing"
    BY <1>5 DEF CloseRow, At, Local
  <2>3. \A j \in Jobs : row'[j] = row[j] \/ j = job[h].id
    BY <1>5 DEF CloseRow, Written, Typed
  <2>4. Proceeds(h, "closed")
    BY <2>1, <2>2, <2>3 DEF Proceeds, Goes, Places
  <2> QED
    BY <2>4, ProceedsSafe
<1>6. CASE ReleaseClaim(h)
  <2>1. Goes(h, "settled")
    BY <1>6, GotoGoes DEF ReleaseClaim, Places
  <2>2. UNCHANGED <<lease, row, beat, deletion, call>> /\ job[h].at = "failed"
    BY <1>6 DEF ReleaseClaim, At, Local
  <2>3. \A t \in Threads : \/ activity'[t] = activity[t]
                           \/ activity'[t] = Unclaimed(activity[t]) /\ activity[t].by = job[h].id
    BY <1>6 DEF ReleaseClaim, Typed
  <2>4. \A t \in Threads : \/ activity'[t] = activity[t]
                           \/ activity'[t].by = None /\ activity'[t].seen = activity[t].seen /\ activity[t].by = job[h].id
    BY <2>3, UnclaimedFields DEF Typed
  <2>5. Proceeds(h, "settled")
    BY <2>1, <2>2, <2>4 DEF Proceeds, Goes, Places
  <2> QED
    BY <2>5, ProceedsSafe
<1> QED
  BY <1>1, <1>2, <1>3, <1>4, <1>5, <1>6

\* A start takes the lease of a job that is late or gone, and its claims.
LEMMA AcquireSafe ==
  ASSUME Typed, Safe, NEW h \in Hosts, NEW j \in Jobs, Acquire(h, j)
  PROVE  Safe'
<1>1. /\ job'[h].at = "acquired" /\ job'[h].id = j /\ job'[h].torn = job[h].torn
      /\ \A g \in Hosts \ {h} : job'[g] = job[g] /\ job[g].id # j
      /\ beat'[h] = "on" /\ \A g \in Hosts \ {h} : beat'[g] = beat[g]
  BY DEF Acquire, Unused, Typed, JobState
<1>2. lease' = [owner |-> j, fresh |-> TRUE] /\ UNCHANGED <<deletion, call>> /\ job[h].at = "idle" /\ LeaseFree
      /\ row[j] = "none"
  BY DEF Acquire, Local, At, Unused
<1>3. \A t \in Threads : \/ activity'[t] = activity[t]
                         \/ /\ activity'[t].by = None /\ activity'[t].seen = activity[t].seen
                            /\ Claimable(activity[t]) \/ activity[t].by = lease.owner
  <2>1. \A t \in Threads :
          activity'[t] = IF Claimable(activity[t]) \/ activity[t].by = lease.owner THEN Unclaimed(activity[t])
                                                                              ELSE activity[t]
    BY DEF Acquire, Cleared
  <2> QED
    BY <2>1, UnclaimedFields DEF Typed
<1>4. \A i \in Jobs : row'[i] # row[i] => row[i] \in {"pending", "running"} /\ row'[i] = "abandoned"
  <2>1. row' = [i \in Jobs |-> IF Owns(i) /\ row[i] \in {"pending", "running"} THEN "abandoned" ELSE row[i]]
    BY DEF Acquire, Abandoned
  <2> QED
    BY <2>1
<1>5. Ids'
  BY <1>1, NoneIsNoJob DEF Safe, Ids
<1>6. Untouched'
  BY <1>2, <1>3 DEF Safe, Untouched, InUse
<1>7. Awaited'
  BY <1>1, <1>2 DEF Safe, Awaited
<1>8. Punctuality'
  <2>1. \A g \in Hosts : Holding(g)' => g # h /\ Holding(g)
    BY <1>1 DEF Holding
  <2>2. ASSUME NEW g \in Hosts \ {h}, Holding(g)
        PROVE  activity'[job[g].thread] = activity[job[g].thread]
    <3>1. job[g].thread \in Threads /\ activity[job[g].thread].by = job[g].id /\ activity[job[g].thread].fresh
      BY <2>2 DEF Safe, Awaited, Punctuality, Holding
    <3>2. job[g].id # None /\ job[g].id # lease.owner
      BY <1>2, <2>2 DEF Safe, Ids, Punctuality, Holding, LeaseFree
    <3> QED
      BY <1>3, <3>1, <3>2 DEF Claimable
  <2> QED
    BY <1>1, <1>2, <2>1, <2>2 DEF Safe, Punctuality
<1>9. Fresh'
  <2>1. row'[j] = "none"
    BY <1>2, <1>4
  <2>2. \A g \in Hosts \ {h} : /\ job'[g].at = "acquired" => row'[job'[g].id] = "none"
                               /\ job'[g].at = "created" => row'[job'[g].id] \in {"pending", "abandoned"}
    <3>1. \A g \in Hosts : job[g].at \in {"acquired", "created"} => job[g].id \in Jobs
      BY DEF Safe, Ids, Typed, JobState
    <3> QED
      BY <1>1, <1>4, <3>1 DEF Safe, Fresh
  <2> QED
    BY <1>1, <2>1, <2>2 DEF Fresh
<1> QED
  BY <1>5, <1>6, <1>7, <1>8, <1>9 DEF Safe

\* The row is inserted, and the job begins unless it was displaced.
LEMMA BeginSafe ==
  ASSUME Typed, Safe, NEW h \in Hosts, InsertRun(h) \/ Begin(h)
  PROVE  Safe'
<1>1. \E p \in {"created", "scan"} : Goes(h, p) /\ (p = "created" <=> InsertRun(h))
  BY GotoGoes DEF InsertRun, Begin, Places, At
<1>2. UNCHANGED <<activity, lease, beat, deletion, call>> /\ job[h].at \in {"acquired", "created"}
  BY DEF InsertRun, Begin, Local, At
<1>3. job[h].id \in Jobs
  BY <1>2 DEF Safe, Ids, Typed, JobState
<1>4. /\ \A j \in Jobs \ {job[h].id} : row'[j] = row[j]
      /\ InsertRun(h) => row'[job[h].id] = "pending"
  BY <1>3 DEF InsertRun, Begin, Written, Typed
<1>5. Ids'
  <2>1. job'[h].id = job[h].id /\ job[h].at # "idle" /\ \A g \in Hosts \ {h} : job'[g] = job[g]
    BY <1>1, <1>2 DEF Goes, Moves
  <2> QED
    BY <2>1 DEF Safe, Ids
<1>6. Untouched'
  BY <1>2 DEF Safe, Untouched, InUse
<1>7. Awaited'
  BY <1>1, <1>2 DEF Goes, Moves, Safe, Awaited
<1>8. Punctuality'
  BY <1>1, <1>2 DEF Goes, Moves, Safe, Punctuality, Holding
<1>9. Fresh'
  <2>1. \A g \in Hosts \ {h} : job'[g] = job[g] /\ (job[g].at \in {"acquired", "created"} => job[g].id \in Jobs \ {job[h].id})
    BY <1>1, <1>3 DEF Goes, Moves, Safe, Ids, Typed, JobState
  <2>2. \A g \in Hosts \ {h} : /\ job'[g].at = "acquired" => row'[job'[g].id] = "none"
                               /\ job'[g].at = "created" => row'[job'[g].id] \in {"pending", "abandoned"}
    BY <1>4, <2>1 DEF Safe, Fresh
  <2>3. /\ job'[h].at = "acquired" => row'[job'[h].id] = "none"
        /\ job'[h].at = "created" => row'[job'[h].id] \in {"pending", "abandoned"}
    BY <1>1, <1>4 DEF Goes, Moves
  <2> QED
    BY <2>2, <2>3 DEF Fresh
<1> QED
  BY <1>5, <1>6, <1>7, <1>8, <1>9 DEF Safe

\* A claim is set on an old conversation that nobody has claimed.
LEMMA ClaimSafe ==
  ASSUME Typed, Safe, NEW h \in Hosts, Claim(h)
  PROVE  Safe'
<1>1. PICK t \in Threads : t = job[h].thread
  BY DEF Claim, At, Safe, Awaited
<1>2. UNCHANGED <<lease, row, beat, deletion, call>> /\ job[h].at = "claiming"
  BY DEF Claim, Local, At
<1>3. CASE ~Eligible(t)
  <2>1. Goes(h, "page") /\ activity' = activity
    BY <1>1, <1>3, GotoGoes DEF Claim, Places
  <2>2. Proceeds(h, "page")
    BY <1>2, <2>1 DEF Proceeds, Goes, Places
  <2> QED
    BY <2>2, ProceedsSafe
<1>4. CASE Eligible(t)
  <2>1. /\ activity'[t].by = job[h].id /\ activity'[t].fresh /\ activity'[t].seen = activity[t].seen
        /\ \A u \in Threads \ {t} : activity'[u] = activity[u]
    <3>1. PICK j \in Jobs : j = job[h].id
      BY <1>2 DEF Safe, Ids, Typed, JobState
    <3>2. activity' = [activity EXCEPT ![t].by = j, ![t].fresh = TRUE]
      BY <1>1, <1>4, <3>1 DEF Claim
    <3>3. activity'[t] = [activity[t] EXCEPT !.by = j, !.fresh = TRUE] /\ activity[t] \in Row
      BY <3>2 DEF Typed
    <3>4. \A u \in Threads \ {t} : activity'[u] = activity[u]
      BY <3>2 DEF Typed
    <3>5. activity'[t].by = job[h].id /\ activity'[t].fresh = TRUE /\ activity'[t].seen = activity[t].seen
      BY <3>1, <3>3 DEF Row
    <3> QED
      BY <3>4, <3>5
  <2>2. /\ job'[h].at = "claimed" /\ job'[h].id = job[h].id /\ job'[h].thread = t
        /\ \A g \in Hosts \ {h} : job'[g] = job[g]
    BY <1>1, <1>4 DEF Claim, Typed, JobState
  <2>3. activity[t].seen = "old" /\ Claimable(activity[t])
    BY <1>4 DEF Eligible
  <2>4. Ids'
    BY <2>2, <1>2 DEF Safe, Ids
  <2>5. Untouched'
    BY <1>2, <2>1, <2>3 DEF Safe, Untouched, InUse
  <2>6. Awaited'
    BY <1>1, <1>2, <2>2 DEF Safe, Awaited
  <2>7. Punctuality'
    <3>1. \A g \in Hosts \ {h} : Holding(g)' => Holding(g) /\ job[g].thread # t
      BY <1>2, <2>2, <2>3 DEF Safe, Ids, Punctuality, Holding, Claimable
    <3>2. \A g \in Hosts : Holding(g)' => activity'[job'[g].thread].by = job'[g].id /\ activity'[job'[g].thread].fresh
      BY <2>1, <2>2, <3>1 DEF Safe, Punctuality, Awaited, Holding
    <3> QED
      BY <1>2, <2>2, <3>2 DEF Safe, Punctuality
  <2>8. Fresh'
    BY <1>2, <2>2 DEF Safe, Fresh
  <2> QED
    BY <2>4, <2>5, <2>6, <2>7, <2>8 DEF Safe
<1> QED
  BY <1>3, <1>4

\* The deletion of a claimed conversation starts, or is refused.
LEMMA StartDeleteSafe ==
  ASSUME Typed, Safe, NEW h \in Hosts, StartDelete(h)
  PROVE  Safe'
<1>1. PICK t \in Threads : t = job[h].thread
  BY DEF StartDelete, At, Safe, Awaited
<1>2. UNCHANGED <<activity, lease, row, beat, call>> /\ job[h].at = "claimed"
  BY DEF StartDelete, At
<1>3. CASE ~Deletable(h, t)
  <2>1. Goes(h, "failed") /\ deletion' = deletion
    BY <1>1, <1>3, GotoGoes DEF StartDelete, Places
  <2>2. Proceeds(h, "failed")
    BY <1>1, <1>2, <2>1 DEF Proceeds, Goes, Places
  <2> QED
    BY <2>2, ProceedsSafe
<1>4. CASE Deletable(h, t)
  <2>1. Goes(h, "deleting")
    BY <1>1, <1>4, GotoGoes DEF StartDelete, Places
  <2>2. /\ deletion'[h]["job"] = [thread |-> t, at |-> "marked"] /\ deletion'[h]["user"] = deletion[h]["user"]
        /\ \A g \in Hosts \ {h} : deletion'[g] = deletion[g]
    BY <1>1, <1>4 DEF StartDelete, Typed, Deleters
  <2>3. Ids' /\ Fresh'
    BY <1>2, <2>1 DEF Goes, Moves, Safe, Ids, Fresh
  <2>4. Untouched'
    BY <1>2 DEF Safe, Untouched, InUse
  <2>5. Awaited'
    BY <1>1, <1>2, <2>1, <2>2 DEF Goes, Moves, Safe, Awaited, Deleters
  <2>6. Punctuality'
    BY <1>2, <2>1 DEF Goes, Moves, Safe, Punctuality, Holding
  <2> QED
    BY <2>3, <2>4, <2>5, <2>6 DEF Safe
<1> QED
  BY <1>3, <1>4

\* The row of conversation t is forgotten, with whatever claim is on it.
Forgets(t) ==
    /\ activity' = [activity EXCEPT ![t] = NoRow]
    /\ \A g \in Hosts : /\ job'[g].id = job[g].id /\ job'[g].thread = job[g].thread
                        /\ job[g].at # "deleted" => job'[g].at = job[g].at
                        /\ job[g].at = "deleted" => job'[g].at \in {"deleted", "settled"}
                        /\ job[g].thread = t => job'[g].torn
                        /\ job[g].thread # t => job'[g].torn = job[g].torn
                        /\ \A u \in Deleters : /\ deletion'[g][u].thread = deletion[g][u].thread
                                               /\ deletion'[g][u].at # "none" => deletion[g][u].at # "none"
    /\ UNCHANGED <<lease, row, beat, call>>

LEMMA ForgetsSafe ==
  ASSUME Typed, Safe, NEW t \in Threads, Forgets(t)
  PROVE  Safe'
<1>1. /\ activity'[t].seen = "none" /\ activity'[t].by = None
      /\ \A u \in Threads \ {t} : activity'[u] = activity[u]
  BY NoRowFields DEF Forgets, Typed
<1>2. Ids'
  BY DEF Forgets, Safe, Ids
<1>3. Untouched'
  BY <1>1 DEF Forgets, Safe, Untouched, InUse
<1>4. Awaited'
  BY DEF Forgets, Safe, Awaited, Deleters
<1>5. Punctuality'
  <2>1. \A g \in Hosts : Holding(g)' => Holding(g) /\ job[g].thread \in Threads \ {t}
    BY DEF Forgets, Safe, Awaited, Holding
  <2>2. \A g \in Hosts : Holding(g)' => activity'[job'[g].thread].by = job'[g].id /\ activity'[job'[g].thread].fresh
    BY <1>1, <2>1 DEF Forgets, Safe, Punctuality
  <2> QED
    BY <2>2 DEF Forgets, Safe, Punctuality
<1>6. Fresh'
  BY DEF Forgets, Safe, Fresh
<1> QED
  BY <1>2, <1>3, <1>4, <1>5, <1>6 DEF Safe

LEMMA ForgetAgainSafe ==
  ASSUME Typed, Safe, NEW h \in Hosts, ForgetAgain(h)
  PROVE  Safe' /\ job' \in [Hosts -> JobState]
<1>1. PICK t \in Threads : t = job[h].thread
  BY DEF ForgetAgain, At, Safe, Awaited
<1>2. PICK tj : tj = Torn(t)
  OBVIOUS
<1>3. job' = [tj EXCEPT ![h].at = "settled"] /\ activity' = [activity EXCEPT ![t] = NoRow]
  BY <1>1, <1>2 DEF ForgetAgain
<1>4. tj \in [Hosts -> JobState] /\ \A g \in Hosts : Torn(t)[g] = tj[g]
  BY <1>2, TornTears, Zenon
<1>5. \A b \in JobState : /\ [b EXCEPT !.at = "settled"] \in JobState
                          /\ [b EXCEPT !.at = "settled"].at = "settled" /\ [b EXCEPT !.at = "settled"].id = b.id
                          /\ [b EXCEPT !.at = "settled"].thread = b.thread /\ [b EXCEPT !.at = "settled"].torn = b.torn
  BY DEF JobState, Places
<1>6. job' \in [Hosts -> JobState] /\ job'[h] = [tj[h] EXCEPT !.at = "settled"]
      /\ \A g \in Hosts \ {h} : job'[g] = tj[g]
  BY <1>3, <1>4, <1>5
<1>7. \A g \in Hosts : /\ tj[g].id = job[g].id /\ tj[g].at = job[g].at /\ tj[g].thread = job[g].thread
                       /\ job[g].thread = t => tj[g].torn
                       /\ job[g].thread # t => tj[g].torn = job[g].torn
  BY <1>2, TornTears, Zenon DEF Tears
<1>8. /\ job[h].at = "deleted" /\ job'[h].at = "settled"
      /\ job'[h].id = tj[h].id /\ job'[h].thread = tj[h].thread /\ job'[h].torn = tj[h].torn
  <2>1. tj[h] \in JobState
    BY <1>4
  <2>2. job[h].at = "deleted"
    BY DEF ForgetAgain, At
  <2>3. job'[h].at = "settled" /\ job'[h].id = tj[h].id /\ job'[h].thread = tj[h].thread
    BY <1>5, <1>6, <2>1
  <2>4. job'[h].torn = tj[h].torn
    BY <1>6, <2>1 DEF JobState
  <2> QED
    BY <2>2, <2>3, <2>4
<1>9. UNCHANGED <<lease, row, beat, deletion, call>>
  BY DEF ForgetAgain, Local
<1>10. Forgets(t)
  BY <1>3, <1>6, <1>7, <1>8, <1>9 DEF Forgets
<1> QED
  BY <1>6, <1>10, ForgetsSafe

LEMMA ForgetSafe ==
  ASSUME Typed, Safe, NEW h \in Hosts, NEW u \in Deleters, Forget(h, u)
  PROVE  Safe' /\ job' \in [Hosts -> JobState]
<1>1. PICK t \in Threads : t = deletion[h][u].thread
  BY DEF Forget, Safe, Awaited
<1>2. activity' = [activity EXCEPT ![t] = NoRow] /\ UNCHANGED <<lease, row, beat, call>> /\ job' = Torn(t)
  BY <1>1 DEF Forget
<1>3. deletion' = [deletion EXCEPT ![h][u].at = "forgotten"] /\ deletion[h][u].at = "marked"
  BY DEF Forget
<1>4. \A g \in Hosts, v \in Deleters : /\ deletion'[g][v].thread = deletion[g][v].thread
                                       /\ deletion'[g][v].at # "none" => deletion[g][v].at # "none"
  BY <1>3 DEF Typed, Deletion
<1>5. job' \in [Hosts -> JobState]
  BY <1>2, TornTears, Zenon
<1>6. \A g \in Hosts : /\ job'[g].id = job[g].id /\ job'[g].at = job[g].at /\ job'[g].thread = job[g].thread
                       /\ job[g].thread = t => job'[g].torn
                       /\ job[g].thread # t => job'[g].torn = job[g].torn
  BY <1>2, TornTears DEF Tears
<1>7. Forgets(t)
  BY <1>2, <1>4, <1>6 DEF Forgets
<1> QED
  BY <1>5, <1>7, ForgetsSafe

\* A deletion starts for a user, loses its row, or ends; the job that waited goes on.
LEMMA DeletionSafe ==
  ASSUME Typed, Safe, NEW h \in Hosts, NEW u \in Deleters,
         ForgetFails(h, u) \/ PurgeFails(h, u) \/ Unmark(h, u)
  PROVE  Safe' /\ job' \in [Hosts -> JobState]
<1>1. UNCHANGED <<activity, lease, row, beat, call>>
  BY DEF ForgetFails, PurgeFails, Unmark
<1>2. deletion[h][u].at # "none"
  BY DEF ForgetFails, PurgeFails, Unmark
<1>3. Untouched'
  BY <1>1 DEF Safe, Untouched, InUse
<1>4. \A g \in Hosts, v \in Deleters : deletion'[g][v].at # "none" =>
        deletion[g][v].at # "none" /\ deletion'[g][v].thread = deletion[g][v].thread
  <2>1. CASE ForgetFails(h, u)
    BY <2>1 DEF ForgetFails, Typed, Deletion
  <2>2. CASE PurgeFails(h, u) \/ Unmark(h, u)
    <3>1. deletion' = [deletion EXCEPT ![h][u] = NoDeletion]
      BY <2>2 DEF PurgeFails, Unmark
    <3>2. NoDeletion.at = "none"
      BY DEF NoDeletion
    <3> QED
      BY <3>1, <3>2 DEF Typed
  <2> QED
    BY <2>1, <2>2
<1>5. CASE job' = job
  BY <1>1, <1>3, <1>4, <1>5 DEF Safe, Ids, Awaited, Punctuality, Holding, Fresh, Deleters, Typed
<1>6. CASE job' # job
  <2>1. u = "job" /\ (PurgeFails(h, u) \/ Unmark(h, u))
    BY <1>6 DEF ForgetFails, PurgeFails, Unmark, Reported
  <2>2. PICK p \in {"failed", "deleted"} : Goto(h, p)
    BY <2>1 DEF PurgeFails, Unmark, Reported, Goto
  <2>3. Goes(h, p)
    BY <2>2, GotoGoes DEF Places
  <2>4. job[h].at = "deleting"
    BY <1>2, <2>1 DEF Safe, Awaited
  <2>5. deletion'[h]["job"].at = "none"
    BY <2>1 DEF PurgeFails, Unmark, Typed, NoDeletion
  <2>6. Ids'
    BY <2>3, <2>4 DEF Goes, Moves, Safe, Ids
  <2>7. Awaited'
    <3>1. \A g \in Hosts \ {h} : job'[g] = job[g]
      BY <2>3 DEF Goes, Moves
    <3>2. job'[h].thread \in Threads
      BY <2>3, <2>4 DEF Goes, Safe, Awaited
    <3>3. \A g \in Hosts \ {h} :
            /\ deletion'[g]["job"].at # "none" => job'[g].at = "deleting" /\ deletion'[g]["job"].thread = job'[g].thread
            /\ job'[g].at \in {"claiming", "claimed", "deleting", "deleted", "failed"} => job'[g].thread \in Threads
      BY <1>4, <3>1 DEF Safe, Awaited, Deleters
    <3>4. \A g \in Hosts, v \in Deleters : deletion'[g][v].at # "none" => deletion'[g][v].thread \in Threads
      BY <1>4 DEF Safe, Awaited
    <3> QED
      BY <2>5, <3>2, <3>3, <3>4 DEF Awaited
  <2>8. Punctuality'
    BY <1>1, <2>3 DEF Goes, Moves, Safe, Punctuality, Holding
  <2>9. Fresh'
    BY <1>1, <2>3 DEF Goes, Moves, Safe, Fresh
  <2> QED
    BY <1>3, <2>3, <2>6, <2>7, <2>8, <2>9 DEF Safe, Goes, Moves
<1> QED
  BY <1>5, <1>6

LEMMA DeleteRequestSafe ==
  ASSUME Typed, Safe, NEW h \in Hosts, NEW t \in Threads, DeleteRequest(h, t)
  PROVE  Safe'
<1>1. UNCHANGED <<activity, lease, row, job, beat, call>>
  BY DEF DeleteRequest
<1>2. \A g \in Hosts : /\ deletion'[g]["job"] = deletion[g]["job"]
                       /\ deletion'[g]["user"].at # "none" =>
                            deletion'[g]["user"].thread = t \/ deletion'[g]["user"] = deletion[g]["user"]
  BY DEF DeleteRequest, Typed, Deletion, Deleters
<1>3. Awaited'
  BY <1>1, <1>2 DEF Safe, Awaited, Deleters
<1> QED
  BY <1>1, <1>3 DEF Safe, Ids, Untouched, InUse, Punctuality, Holding, Fresh

\* A request withdraws an expired claim, never a valid one.
LEMMA TouchSafe ==
  ASSUME Typed, Safe, NEW h \in Hosts, NEW t \in Threads, Touch(h, t)
  PROVE  Safe'
<1>1. UNCHANGED <<lease, row, job, beat, deletion>> /\ ~Refused(t)
  BY DEF Touch
<1>2. /\ activity'[t].seen = "recent" /\ activity'[t].by = None
      /\ \A u \in Threads \ {t} : activity'[u] = activity[u]
  BY TouchedFields DEF Touch, Typed
<1>3. \A u \in Threads \ {t} : InUse(u)' => InUse(u)
  <2>1. call'[h].thread = t /\ \A g \in Hosts \ {h} : call'[g] = call[g]
    BY DEF Touch, Typed
  <2> QED
    BY <2>1 DEF InUse
<1>4. Untouched'
  BY <1>2, <1>3 DEF Safe, Untouched
<1>5. Punctuality'
  <2>1. \A g \in Hosts : Holding(g) => job[g].thread \in Threads \ {t}
    BY <1>1 DEF Safe, Punctuality, Awaited, Holding, Refused
  <2>2. \A g \in Hosts : Holding(g)' => Holding(g)
    BY <1>1 DEF Holding
  <2> QED
    BY <1>1, <1>2, <2>1, <2>2 DEF Safe, Punctuality
<1> QED
  BY <1>1, <1>4, <1>5 DEF Safe, Ids, Awaited, Fresh

LEMMA CallSafe ==
  ASSUME Typed, Safe, NEW h \in Hosts, MarkRunning(h) \/ CallEnds(h)
  PROVE  Safe'
<1>1. UNCHANGED <<activity, lease, row, job, beat, deletion>>
  BY DEF MarkRunning, CallEnds
<1>2. \A g \in Hosts : call'[g].thread \in {None, call[g].thread}
  BY DEF MarkRunning, CallEnds, NoCall, Typed, Call
<1>3. \A t \in Threads : InUse(t)' => InUse(t)
  BY <1>2 DEF InUse
<1> QED
  BY <1>1, <1>3 DEF Safe, Ids, Untouched, Awaited, Punctuality, Holding, Fresh

\* Only a conversation that nobody uses grows old.
LEMMA AgeSafe ==
  ASSUME Typed, Safe, NEW t \in Threads, Age(t) \/ Backfill(t)
  PROVE  Safe'
<1>1. UNCHANGED <<lease, row, job, beat, deletion, call>> /\ ~InUse(t)
  BY DEF Age, Backfill
<1>2. activity' = [activity EXCEPT ![t] = [activity[t] EXCEPT !.seen = "old"]]
  BY DEF Age, Backfill
<1>3. \A u \in Threads : activity'[u].by = activity[u].by /\ activity'[u].fresh = activity[u].fresh
  BY <1>2, OldFields DEF Typed
<1>4. \A u \in Threads \ {t} : activity'[u].seen = activity[u].seen
  BY <1>2 DEF Typed
<1>5. Untouched'
  BY <1>1, <1>3, <1>4 DEF Safe, Untouched, InUse
<1>6. Punctuality'
  <2>1. \A g \in Hosts : Holding(g) => job[g].thread \in Threads
    BY DEF Safe, Awaited, Holding
  <2> QED
    BY <1>1, <1>3, <2>1 DEF Safe, Punctuality, Holding
<1> QED
  BY <1>1, <1>5, <1>6 DEF Safe, Ids, Awaited, Fresh

\* A lease or a claim expires only when the heartbeat of its job is late.
LEMMA ExpireSafe ==
  ASSUME Typed, Safe, LeaseExpires \/ \E t \in Threads : ClaimExpires(t)
  PROVE  Safe'
<1>1. CASE LeaseExpires
  <2>1. lease'.owner = lease.owner /\ ~Punctual(lease.owner) /\ UNCHANGED <<activity, row, job, beat, deletion, call>>
    BY <1>1 DEF LeaseExpires, Typed, Lease
  <2>2. Punctuality'
    BY <2>1 DEF Safe, Punctuality, Holding, Punctual
  <2> QED
    BY <2>1, <2>2 DEF Safe, Ids, Untouched, InUse, Awaited, Fresh
<1>2. ASSUME NEW t \in Threads, ClaimExpires(t)
      PROVE  Safe'
  <2>1. UNCHANGED <<lease, row, job, beat, deletion, call>> /\ ~Punctual(activity[t].by)
    BY <1>2 DEF ClaimExpires
  <2>2. /\ activity' = [activity EXCEPT ![t] = [activity[t] EXCEPT !.fresh = FALSE]]
        /\ \A u \in Threads \ {t} : activity'[u] = activity[u]
    BY <1>2 DEF ClaimExpires, Typed
  <2>3. activity'[t].by = activity[t].by /\ activity'[t].seen = activity[t].seen
    BY <2>2, FreshFields DEF Typed
  <2>4. Untouched'
    BY <2>1, <2>2, <2>3 DEF Safe, Untouched, InUse
  <2>5. Punctuality'
    <3>1. \A g \in Hosts : Holding(g) => job[g].thread \in Threads \ {t}
      BY <2>1 DEF Safe, Punctuality, Awaited, Holding, Punctual
    <3> QED
      BY <2>1, <2>2, <3>1 DEF Safe, Punctuality, Holding
  <2> QED
    BY <2>1, <2>4, <2>5 DEF Safe, Ids, Awaited, Fresh
<1> QED
  BY <1>1, <1>2

\* A late heartbeat revives what nobody has taken.
LEMMA BeatSafe ==
  ASSUME Typed, Safe, NEW h \in Hosts, FallLate(h) \/ Renew(h)
  PROVE  Safe' /\ job' \in [Hosts -> JobState]
<1>1. CASE FallLate(h)
  <2>1. UNCHANGED <<activity, lease, row, job, deletion, call>> /\ beat[h] = "on" /\ beat'[h] = "late"
        /\ \A g \in Hosts \ {h} : beat'[g] = beat[g]
    BY <1>1 DEF FallLate, Typed
  <2> QED
    BY <2>1 DEF Safe, Ids, Untouched, InUse, Awaited, Punctuality, Holding, Fresh, Typed
<1>2. CASE Renew(h)
  <2>1. UNCHANGED <<row, beat, deletion, call>> /\ beat[h] = "late"
    BY <1>2 DEF Renew
  <2>2. lease' = lease \/ (lease'.owner = lease.owner /\ lease'.fresh)
    BY <1>2 DEF Renew, Typed, Lease
  <2>3. job' \in [Hosts -> JobState]
        /\ \A g \in Hosts : /\ job'[g].id = job[g].id /\ job'[g].at = job[g].at
                            /\ job'[g].thread = job[g].thread /\ job'[g].torn = job[g].torn
    <3>1. \A b \in JobState : /\ [b EXCEPT !.lost = TRUE] \in JobState
                              /\ [b EXCEPT !.lost = TRUE].at = b.at /\ [b EXCEPT !.lost = TRUE].id = b.id
                              /\ [b EXCEPT !.lost = TRUE].thread = b.thread /\ [b EXCEPT !.lost = TRUE].torn = b.torn
      BY DEF JobState
    <3>2. job' = job \/ job' = [job EXCEPT ![h].lost = TRUE]
      BY <1>2 DEF Renew
    <3>3. CASE job' = job
      BY <3>3 DEF Typed
    <3>4. CASE job' = [job EXCEPT ![h].lost = TRUE]
      <4>1. job[h] \in JobState /\ job \in [Hosts -> JobState]
        BY DEF Typed
      <4>2. job' \in [Hosts -> JobState] /\ job'[h] = [job[h] EXCEPT !.lost = TRUE]
            /\ \A g \in Hosts \ {h} : job'[g] = job[g]
        BY <3>1, <3>4, <4>1
      <4>3. job'[h].id = job[h].id /\ job'[h].at = job[h].at /\ job'[h].thread = job[h].thread
        BY <3>1, <4>1, <4>2
      <4>4. job'[h].torn = job[h].torn
        BY <4>1, <4>2 DEF JobState
      <4> QED
        BY <4>2, <4>3, <4>4
    <3> QED
      BY <3>2, <3>3, <3>4
  <2>4. \A t \in Threads : /\ activity'[t].by = activity[t].by /\ activity'[t].seen = activity[t].seen
                           /\ activity[t].fresh => activity'[t].fresh
    <3>1. activity' = activity \/ activity' = [activity EXCEPT ![job[h].thread] = [activity[job[h].thread] EXCEPT !.fresh = TRUE]]
      BY <1>2 DEF Renew
    <3>2. \A t \in Threads : activity'[t] \in {activity[t], [activity[t] EXCEPT !.fresh = TRUE]}
      BY <3>1 DEF Typed
    <3>3. \A t \in Threads : activity[t] \in Row
      BY DEF Typed
    <3>4. \A a \in Row : /\ [a EXCEPT !.fresh = TRUE].by = a.by /\ [a EXCEPT !.fresh = TRUE].seen = a.seen
                         /\ [a EXCEPT !.fresh = TRUE].fresh
      BY DEF Row
    <3> QED
      BY <3>2, <3>3, <3>4
  <2>5. Ids' /\ Awaited' /\ Fresh'
    BY <2>1, <2>3 DEF Safe, Ids, Awaited, Fresh
  <2>6. Untouched'
    BY <2>1, <2>4 DEF Safe, Untouched, InUse
  <2>7. Punctuality'
    <3>1. \A g \in Hosts : Holding(g)' => Holding(g) /\ job[g].thread \in Threads
      BY <2>1, <2>3 DEF Safe, Awaited, Holding
    <3> QED
      BY <2>1, <2>2, <2>3, <2>4, <3>1 DEF Safe, Punctuality
  <2> QED
    BY <2>3, <2>5, <2>6, <2>7 DEF Safe
<1> QED
  BY <1>1, <1>2

-----------------------------------------------------------------------------
(* The types.                                                              *)

LEMMA StartTyped ==
  ASSUME Typed, Safe, NEW h \in Hosts, Start(h)
  PROVE  Typed'
<1>1. UNCHANGED <<deletion, call>> /\ job[h].id \in Jobs \cup {None}
  BY DEF Start, Acquire, Defer, InsertRun, InsertFails, StartDropped, Begin, Local, Typed, JobState
<1>2. ASSUME NEW j \in Jobs, Acquire(h, j)
      PROVE  Typed'
  <2>1. activity' \in [Threads -> Row]
    <3>1. activity' = Cleared(lease.owner)
      BY <1>2 DEF Acquire
    <3> QED
      BY <3>1, UnclaimedFields DEF Cleared, Typed
  <2>2. row' \in [Jobs -> {"none", "pending", "running", "closed", "abandoned"}]
    BY <1>2 DEF Acquire, Abandoned, Typed
  <2>3. lease' \in Lease
    BY <1>2 DEF Acquire, Lease
  <2>4. job' \in [Hosts -> JobState]
    <3>1. \A b \in JobState : [b EXCEPT !.id = j, !.at = "acquired"] \in JobState
      BY DEF JobState, Places
    <3> QED
      BY <1>2, <3>1 DEF Acquire, Typed
  <2>5. beat' \in [Hosts -> {"off", "on", "late"}]
    BY <1>2 DEF Acquire, Typed
  <2> QED
    BY <1>1, <2>1, <2>2, <2>3, <2>4, <2>5 DEF Typed
<1>3. CASE Defer(h) \/ InsertFails(h) \/ StartDropped(h)
  <2>1. UNCHANGED <<activity, row>> /\ GoIdle(h) /\ lease' \in {lease, Released(h)}
    BY <1>3 DEF Defer, InsertFails, StartDropped
  <2>2. lease' \in Lease
    <3>1. [owner |-> None, fresh |-> FALSE] \in Lease
      BY DEF Lease
    <3> QED
      BY <2>1, <3>1 DEF Released, Typed
  <2>3. job' \in [Hosts -> JobState] /\ beat' \in [Hosts -> {"off", "on", "late"}]
    BY <2>1, NoJobFields DEF GoIdle, Typed
  <2> QED
    BY <1>1, <2>1, <2>2, <2>3 DEF Typed
<1>4. CASE InsertRun(h) \/ Begin(h)
  <2>1. job' \in [Hosts -> JobState]
    BY <1>4, GotoGoes DEF InsertRun, Begin, Places, Goes, Moves
  <2>2. row' \in [Jobs -> {"none", "pending", "running", "closed", "abandoned"}]
    BY <1>4 DEF InsertRun, Begin, Written, Typed
  <2> QED
    BY <1>1, <1>4, <2>1, <2>2 DEF InsertRun, Begin, Typed
<1> QED
  BY <1>2, <1>3, <1>4 DEF Start

LEMMA WorkTyped ==
  ASSUME Typed, Safe, NEW h \in Hosts, Work(h)
  PROVE  Typed'
<1>1. CASE StopEarly(h) \/ Exhausted(h) \/ LimitReached(h) \/ Abort(h)
  <2>1. job' \in [Hosts -> JobState]
    BY <1>1, FinishMoves DEF StopEarly, Exhausted, LimitReached, Abort, Moves
  <2> QED
    BY <1>1, <2>1 DEF StopEarly, Exhausted, LimitReached, Abort, Local, Typed
<1>2. CASE Page(h) \/ Skip(h) \/ Choose(h)
  <2>1. UNCHANGED <<activity, lease, row, beat, deletion, call>>
    BY <1>2 DEF Page, Skip, Choose, Local
  <2>2. CASE Page(h)
    <3>1. PICK S \in SUBSET Candidates(h) :
            job' = [job EXCEPT ![h].at = "page", ![h].page = S, ![h].passed = @ \cup S]
      BY <2>2 DEF Page
    <3>2. \A b \in JobState : [b EXCEPT !.at = "page", !.page = S, !.passed = @ \cup S] \in JobState
      BY DEF JobState, Places, Candidates
    <3> QED
      BY <2>1, <3>1, <3>2 DEF Typed
  <2>3. CASE Skip(h)
    <3>1. PICK t : job' = [job EXCEPT ![h].page = @ \ {t}]
      BY <2>3 DEF Skip
    <3>2. \A b \in JobState : [b EXCEPT !.page = @ \ {t}] \in JobState
      BY DEF JobState
    <3> QED
      BY <2>1, <3>1, <3>2 DEF Typed
  <2>4. CASE Choose(h)
    <3>1. PICK t \in Threads : job' = [job EXCEPT ![h].at = "claiming", ![h].thread = t, ![h].page = @ \ {t}]
      BY <2>4 DEF Choose, Typed, JobState
    <3>2. \A b \in JobState : [b EXCEPT !.at = "claiming", !.thread = t, !.page = @ \ {t}] \in JobState
      BY DEF JobState, Places
    <3> QED
      BY <2>1, <3>1, <3>2 DEF Typed
  <2> QED
    BY <1>2, <2>2, <2>3, <2>4
<1>3. CASE PageDone(h) \/ CloseRow(h) \/ ReleaseClaim(h)
  <2>1. job' \in [Hosts -> JobState]
    BY <1>3, GotoGoes DEF PageDone, CloseRow, ReleaseClaim, Places, Goes, Moves
  <2>2. row' \in [Jobs -> {"none", "pending", "running", "closed", "abandoned"}]
    BY <1>3 DEF PageDone, CloseRow, ReleaseClaim, Written, Typed
  <2>3. activity' \in [Threads -> Row]
    BY <1>3, UnclaimedFields DEF PageDone, CloseRow, ReleaseClaim, Typed
  <2> QED
    BY <1>3, <2>1, <2>2, <2>3 DEF PageDone, CloseRow, ReleaseClaim, Local, Typed
<1>4. CASE Claim(h)
  <2>1. PICK t \in Threads : t = job[h].thread
    BY <1>4 DEF Claim, At, Safe, Awaited
  <2>2. PICK j \in Jobs : j = job[h].id
    BY <1>4 DEF Claim, At, Safe, Ids, Typed, JobState
  <2>3. activity' \in [Threads -> Row]
    <3>1. \A a \in Row : [a EXCEPT !.by = j, !.fresh = TRUE] \in Row
      BY DEF Row
    <3>2. activity' = activity \/ activity' = [activity EXCEPT ![t].by = j, ![t].fresh = TRUE]
      BY <1>4, <2>1, <2>2 DEF Claim
    <3>3. [activity[t] EXCEPT !.by = j, !.fresh = TRUE] \in Row
      BY <3>1 DEF Typed
    <3> QED
      BY <3>2, <3>3 DEF Typed
  <2>4. job' \in [Hosts -> JobState]
    <3>1. \A b \in JobState : [b EXCEPT !.at = "claimed", !.torn = FALSE] \in JobState
      BY DEF JobState, Places
    <3>2. CASE Eligible(t)
      <4>1. job' = [job EXCEPT ![h].at = "claimed", ![h].torn = FALSE]
        BY <1>4, <2>1, <3>2 DEF Claim
      <4>2. [job[h] EXCEPT !.at = "claimed", !.torn = FALSE] \in JobState
        BY <3>1 DEF Typed
      <4> QED
        BY <4>1, <4>2 DEF Typed
    <3>3. CASE ~Eligible(t)
      BY <1>4, <2>1, <3>3, GotoGoes DEF Claim, Places, Goes, Moves
    <3> QED
      BY <3>2, <3>3
  <2> QED
    BY <1>4, <2>3, <2>4 DEF Claim, Local, Typed
<1>5. CASE StartDelete(h)
  <2>1. PICK t \in Threads : t = job[h].thread
    BY <1>5 DEF StartDelete, At, Safe, Awaited
  <2>2. job' \in [Hosts -> JobState]
    BY <1>5, GotoGoes DEF StartDelete, Places, Goes, Moves
  <2>3. deletion' \in [Hosts -> [Deleters -> Deletion]]
    <3>1. [thread |-> t, at |-> "marked"] \in Deletion
      BY DEF Deletion
    <3>2. PICK d \in Deletion : deletion' = deletion \/ deletion' = [deletion EXCEPT ![h]["job"] = d]
      BY <1>5, <2>1, <3>1 DEF StartDelete
    <3>3. [deletion[h] EXCEPT !["job"] = d] \in [Deleters -> Deletion]
      BY DEF Typed, Deleters
    <3> QED
      BY <3>2, <3>3 DEF Typed
  <2> QED
    BY <1>5, <2>2, <2>3 DEF StartDelete, Typed
<1>6. CASE ForgetAgain(h)
  <2>1. activity' \in [Threads -> Row]
    BY <1>6, NoRowFields DEF ForgetAgain, Typed
  <2> QED
    BY <1>6, <2>1, ForgetAgainSafe DEF ForgetAgain, Local, Typed
<1>7. CASE Settle(h)
  <2>1. PICK full \in BOOLEAN :
          /\ job' = [job EXCEPT ![h].at = "page", ![h].thread = None, ![h].torn = FALSE,
                                ![h].lost = @ \/ (full /\ ~Owns(job[h].id))]
          /\ lease' = IF full /\ Owns(job[h].id) THEN [lease EXCEPT !.fresh = TRUE] ELSE lease
    BY <1>7 DEF Settle
  <2>2. PICK v \in BOOLEAN : v = (job[h].lost \/ (full /\ ~Owns(job[h].id)))
    OBVIOUS
  <2>3. \A b \in JobState : [b EXCEPT !.at = "page", !.thread = None, !.torn = FALSE, !.lost = v] \in JobState
    BY DEF JobState, Places
  <2>4. job' = [job EXCEPT ![h].at = "page", ![h].thread = None, ![h].torn = FALSE, ![h].lost = v]
    BY <2>1, <2>2
  <2>5. job' \in [Hosts -> JobState]
    BY <2>3, <2>4 DEF Typed
  <2>6. lease' \in Lease
    BY <2>1 DEF Typed, Lease
  <2> QED
    BY <1>7, <2>5, <2>6 DEF Settle, Local, Typed
<1>8. CASE ReleaseLease(h)
  <2>1. lease' \in Lease
    BY <1>8 DEF ReleaseLease, Released, Lease, Typed
  <2>2. job' \in [Hosts -> JobState] /\ beat' \in [Hosts -> {"off", "on", "late"}]
    BY <1>8, NoJobFields DEF ReleaseLease, GoIdle, Typed
  <2> QED
    BY <1>8, <2>1, <2>2 DEF ReleaseLease, Local, Typed
<1> QED
  BY <1>1, <1>2, <1>3, <1>4, <1>5, <1>6, <1>7, <1>8 DEF Work

LEMMA RequestTyped ==
  ASSUME Typed, Safe, NEW h \in Hosts, Request(h)
  PROVE  Typed'
<1>1. ASSUME NEW t \in Threads, Touch(h, t)
      PROVE  Typed'
  <2>1. activity' \in [Threads -> Row]
    BY <1>1, TouchedFields DEF Touch, Typed
  <2>2. [thread |-> t, at |-> "touched"] \in Call
    BY DEF Call
  <2>3. call' \in [Hosts -> Call]
    BY <1>1, <2>2 DEF Touch, Typed
  <2> QED
    BY <1>1, <2>1, <2>3 DEF Touch, Typed
<1>2. CASE MarkRunning(h) \/ CallEnds(h)
  <2>1. NoCall \in Call /\ \A c \in Call : [c EXCEPT !.at = "running"] \in Call
    BY DEF NoCall, Call
  <2>2. call' \in [Hosts -> Call]
    BY <1>2, <2>1 DEF MarkRunning, CallEnds, Typed
  <2> QED
    BY <1>2, <2>2 DEF MarkRunning, CallEnds, Typed
<1> QED
  BY <1>1, <1>2 DEF Request

LEMMA DeleteTyped ==
  ASSUME Typed, Safe, NEW h \in Hosts, NEW u \in Deleters, Delete(h, u)
  PROVE  Typed'
<1>1. NoDeletion \in Deletion /\ \A d \in Deletion : [d EXCEPT !.at = "forgotten"] \in Deletion
  BY DEF NoDeletion, Deletion
<1>2. deletion' \in [Hosts -> [Deleters -> Deletion]]
  <2>1. \/ deletion' = [deletion EXCEPT ![h][u] = NoDeletion]
        \/ deletion' = [deletion EXCEPT ![h][u] = [deletion[h][u] EXCEPT !.at = "forgotten"]]
    BY DEF Delete, PurgeFails, Forget, ForgetFails, Unmark
  <2>2. deletion[h][u] \in Deletion /\ deletion[h] \in [Deleters -> Deletion]
    BY DEF Typed
  <2>3. [deletion[h][u] EXCEPT !.at = "forgotten"] \in Deletion
    BY <1>1, <2>2
  <2>4. PICK d \in Deletion : deletion' = [deletion EXCEPT ![h][u] = d]
    BY <1>1, <2>1, <2>3
  <2> QED
    BY <2>2, <2>4 DEF Typed
<1>3. job' \in [Hosts -> JobState]
  BY ForgetSafe, DeletionSafe DEF Delete
<1>4. activity' \in [Threads -> Row]
  BY NoRowFields DEF Delete, PurgeFails, Forget, ForgetFails, Unmark, Typed
<1> QED
  BY <1>2, <1>3, <1>4 DEF Delete, PurgeFails, Forget, ForgetFails, Unmark, Typed

LEMMA TimeTyped ==
  ASSUME Typed, Safe,
         \/ LeaseExpires
         \/ \E t \in Threads : Age(t) \/ Backfill(t) \/ ClaimExpires(t)
         \/ \E h \in Hosts, t \in Threads : DeleteRequest(h, t)
         \/ \E h \in Hosts : FallLate(h) \/ Renew(h) \/ Crash(h)
  PROVE  Typed'
<1>1. CASE LeaseExpires
  <2>1. lease' \in Lease
    BY <1>1 DEF LeaseExpires, Lease, Typed
  <2> QED
    BY <1>1, <2>1 DEF LeaseExpires, Typed
<1>2. ASSUME NEW t \in Threads, Age(t) \/ Backfill(t) \/ ClaimExpires(t)
      PROVE  Typed'
  <2>1. \A a \in Row : [a EXCEPT !.seen = "old"] \in Row /\ [a EXCEPT !.fresh = FALSE] \in Row
    BY DEF Row
  <2>2. activity' \in [Threads -> Row]
    <3>1. \/ activity' = [activity EXCEPT ![t] = [activity[t] EXCEPT !.seen = "old"]]
          \/ activity' = [activity EXCEPT ![t] = [activity[t] EXCEPT !.fresh = FALSE]]
      BY <1>2 DEF Age, Backfill, ClaimExpires
    <3>2. PICK a \in Row : activity' = [activity EXCEPT ![t] = a]
      BY <2>1, <3>1 DEF Typed
    <3> QED
      BY <3>2 DEF Typed
  <2> QED
    BY <1>2, <2>2 DEF Age, Backfill, ClaimExpires, Typed
<1>3. ASSUME NEW h \in Hosts, NEW t \in Threads, DeleteRequest(h, t)
      PROVE  Typed'
  <2>1. [thread |-> t, at |-> "marked"] \in Deletion
    BY DEF Deletion
  <2>2. deletion' \in [Hosts -> [Deleters -> Deletion]]
    BY <1>3, <2>1 DEF DeleteRequest, Typed
  <2> QED
    BY <1>3, <2>2 DEF DeleteRequest, Typed
<1>4. ASSUME NEW h \in Hosts, FallLate(h)
      PROVE  Typed'
  BY <1>4 DEF FallLate, Typed
<1>5. ASSUME NEW h \in Hosts, Renew(h)
      PROVE  Typed'
  <2>1. lease' \in Lease
    BY <1>5 DEF Renew, Lease, Typed
  <2>2. activity' \in [Threads -> Row]
    <3>1. \A a \in Row : [a EXCEPT !.fresh = TRUE] \in Row
      BY DEF Row
    <3>2. activity' \in {activity, [activity EXCEPT ![job[h].thread].fresh = TRUE]}
      BY <1>5 DEF Renew
    <3> QED
      BY <3>1, <3>2 DEF Typed
  <2> QED
    BY <1>5, <2>1, <2>2, BeatSafe DEF Renew, Typed
<1>6. ASSUME NEW h \in Hosts, Crash(h)
      PROVE  Typed'
  <2>1. NoDeletion \in Deletion /\ NoCall \in Call
    BY DEF NoDeletion, Deletion, NoCall, Call
  <2>2. deletion' \in [Hosts -> [Deleters -> Deletion]] /\ call' \in [Hosts -> Call]
    BY <1>6, <2>1 DEF Crash, Typed
  <2>3. job' \in [Hosts -> JobState] /\ beat' \in [Hosts -> {"off", "on", "late"}]
    BY <1>6, NoJobFields DEF Crash, GoIdle, Typed
  <2> QED
    BY <1>6, <2>2, <2>3 DEF Crash, Typed
<1> QED
  BY <1>1, <1>2, <1>3, <1>4, <1>5, <1>6

-----------------------------------------------------------------------------
(* The theorems.                                                           *)

LEMMA InitIInv == Init => Typed /\ Safe
<1> SUFFICES ASSUME Init PROVE Typed /\ Safe
  OBVIOUS
<1>1. Typed
  <2>1. \A t \in Threads : activity[t] \in {NoRow, [NoRow EXCEPT !.seen = "old"]}
    BY DEF Init
  <2>2. NoRow \in Row /\ [NoRow EXCEPT !.seen = "old"] \in Row
    BY DEF NoRow, Row
  <2>3. activity \in [Threads -> Row]
    BY <2>1, <2>2 DEF Init
  <2>4. NoDeletion \in Deletion /\ NoCall \in Call
    BY DEF NoDeletion, Deletion, NoCall, Call
  <2> QED
    BY <2>3, <2>4, NoJobFields DEF Init, Typed, Lease
<1>2. /\ \A h \in Hosts : /\ job[h].at = "idle" /\ job[h].id = None /\ beat[h] = "off" /\ call[h].thread = None
                          /\ \A u \in Deleters : deletion[h][u].at = "none"
      /\ lease.owner = None
  BY NoJobFields DEF Init, NoDeletion, NoCall
<1> QED
  BY <1>1, <1>2 DEF Safe, Ids, Untouched, InUse, Awaited, Punctuality, Holding, Fresh, Deleters

LEMMA StepSafe ==
  ASSUME Typed, Safe, Next
  PROVE  Typed' /\ Safe'
<1>1. ASSUME NEW h \in Hosts, Start(h)
      PROVE  Typed' /\ Safe'
  BY <1>1, StartTyped, AcquireSafe, BeginSafe, OverSafe DEF Start
<1>2. ASSUME NEW h \in Hosts, Work(h)
      PROVE  Typed' /\ Safe'
  BY <1>2, WorkTyped, WorkSafe, ClaimSafe, StartDeleteSafe, ForgetAgainSafe, OverSafe DEF Work
<1>3. ASSUME NEW h \in Hosts, Request(h)
      PROVE  Typed' /\ Safe'
  BY <1>3, RequestTyped, TouchSafe, CallSafe DEF Request
<1>4. ASSUME NEW h \in Hosts, FallLate(h) \/ Renew(h) \/ Crash(h)
      PROVE  Typed' /\ Safe'
  BY <1>4, TimeTyped, BeatSafe, OverSafe
<1>5. ASSUME NEW h \in Hosts, NEW u \in Deleters, Delete(h, u)
      PROVE  Typed' /\ Safe'
  BY <1>5, DeleteTyped, ForgetSafe, DeletionSafe DEF Delete
<1>6. ASSUME NEW h \in Hosts, NEW t \in Threads, DeleteRequest(h, t)
      PROVE  Typed' /\ Safe'
  BY <1>6, TimeTyped, DeleteRequestSafe
<1>7. ASSUME NEW t \in Threads, Age(t) \/ Backfill(t) \/ ClaimExpires(t)
      PROVE  Typed' /\ Safe'
  BY <1>7, TimeTyped, AgeSafe, ExpireSafe
<1>8. CASE LeaseExpires
  BY <1>8, TimeTyped, ExpireSafe
<1> QED
  BY <1>1, <1>2, <1>3, <1>4, <1>5, <1>6, <1>7, <1>8 DEF Next

\* The inductive invariant of the cleanup.
LEMMA Inductive == ASSUME IInv, [Next]_vars PROVE IInv'
<1>1. CASE Next
  <2>1. Typed' /\ Safe'
    BY <1>1, StepSafe, TypedIsTypeOK DEF IInv
  <2>2. (Typed <=> TypeOK)'
    BY TypedIsTypeOK, PTL
  <2> QED
    BY <2>1, <2>2 DEF IInv
<1>2. CASE UNCHANGED vars
  BY <1>2 DEF vars, IInv, TypeOK, Safe, Ids, Untouched, InUse, Awaited, Punctuality, Holding, Fresh
<1> QED
  BY <1>1, <1>2

LEMMA Sound == Spec => []IInv
<1>1. Init => IInv
  BY InitIInv, TypedIsTypeOK DEF IInv
<1>2. IInv /\ [Next]_vars => IInv'
  BY Inductive
<1> QED
  BY <1>1, <1>2, PTL DEF Spec

\* The rows of the database, the jobs, the marks and the requests keep their
\* types: no step of the cleanup, on any host, leaves a record the code would
\* not recognise (app/thread_cleanup.py, app/dependencies.py).
THEOREM TypeCorrect == Spec => []TypeOK
<1>1. IInv => TypeOK
  BY DEF IInv
<1> QED
  BY <1>1, Sound, PTL

\* While a claim of a cleanup job is valid, no request uses the conversation on
\* any host, however many hosts and jobs there are: the claim tests the last
\* activity again, and a touch is refused by a valid claim and withdraws an
\* expired one (claim_thread_for_cleanup_sync and touch_thread_sync).
THEOREM ClaimsShield == Spec => []ClaimShields
<1>1. IInv => ClaimShields
  BY DEF IInv, Safe, Untouched, ClaimShields, Refused
<1> QED
  BY <1>1, Sound, PTL

\* A job whose heartbeat is on time deletes a conversation under a claim of its
\* own that stands: no takeover, no other job and no request removes it
\* (_execute_run and _lease_heartbeat).
THEOREM DeletionsAreClaimed == Spec => []DeletesUnderClaim
<1>1. IInv => DeletesUnderClaim
  <2> SUFFICES ASSUME IInv, NEW h \in Hosts, deletion[h]["job"].at = "marked", beat[h] = "on", ~job[h].torn
               PROVE  Refused(deletion[h]["job"].thread) /\ activity[deletion[h]["job"].thread].by = job[h].id
    BY DEF DeletesUnderClaim
  <2>1. job[h].at = "deleting" /\ deletion[h]["job"].thread = job[h].thread
    BY DEF IInv, Safe, Awaited
  <2>2. Holding(h)
    BY <2>1 DEF Holding
  <2> QED
    BY <2>1, <2>2 DEF IInv, Safe, Punctuality, Ids, Refused
<1> QED
  BY <1>1, Sound, PTL

\* The report of a job is final: a job that was declared abandoned cannot
\* overwrite that, and a finished one is not abandoned by a takeover
\* (_update_run_sync and the takeover in start_run).
THEOREM FinalReports == Spec => ReportsAreFinal
<1>1. IInv /\ [Next]_vars => \A j \in Jobs : row[j] \in {"abandoned", "closed"} => row'[j] = row[j]
  <2> SUFFICES ASSUME IInv, [Next]_vars, NEW j \in Jobs, row[j] \in {"abandoned", "closed"}
               PROVE  row'[j] = row[j]
    OBVIOUS
  <2>1. Typed
    BY TypedIsTypeOK DEF IInv
  <2>2. ASSUME NEW h \in Hosts, NEW i \in Jobs, Acquire(h, i)
        PROVE  row'[j] = row[j]
    BY <2>2 DEF Acquire, Abandoned
  <2>3. ASSUME NEW h \in Hosts, InsertRun(h) \/ Begin(h) \/ CloseRow(h)
        PROVE  row'[j] = row[j]
    <3>1. CASE InsertRun(h)
      BY <2>1, <3>1 DEF InsertRun, At, IInv, Safe, Fresh, Typed
    <3>2. CASE Begin(h)
      BY <2>1, <3>2 DEF Begin, Written, At, IInv, Safe, Fresh, Typed
    <3>3. CASE CloseRow(h)
      BY <2>1, <3>3 DEF CloseRow, Written, Typed
    <3> QED
      BY <2>3, <3>1, <3>2, <3>3
  <2>4. ASSUME NEW h \in Hosts, Start(h)
        PROVE  row'[j] = row[j]
    BY <2>2, <2>3, <2>4 DEF Start, Defer, InsertFails, StartDropped
  <2>5. ASSUME NEW h \in Hosts, Work(h)
        PROVE  row'[j] = row[j]
    <3>1. CASE CloseRow(h)
      BY <2>3, <3>1
    <3>2. CASE ~CloseRow(h)
      BY <2>5, <3>2 DEF Work, StopEarly, Page, Exhausted, PageDone, Skip, Choose, Claim, StartDelete, ForgetAgain,
         ReleaseClaim, Settle, LimitReached, Abort, ReleaseLease
    <3> QED
      BY <3>1, <3>2
  <2>6. CASE \/ \E h \in Hosts : Request(h) \/ FallLate(h) \/ Renew(h) \/ Crash(h)
             \/ \E h \in Hosts, u \in Deleters : Delete(h, u)
             \/ \E h \in Hosts, t \in Threads : DeleteRequest(h, t)
             \/ \E t \in Threads : Age(t) \/ Backfill(t) \/ ClaimExpires(t)
             \/ LeaseExpires
    BY <2>6 DEF Request, Touch, MarkRunning, CallEnds, FallLate, Renew, Crash, Delete, PurgeFails, Forget,
       ForgetFails, Unmark, DeleteRequest, Age, Backfill, ClaimExpires, LeaseExpires
  <2>7. CASE UNCHANGED vars
    BY <2>7 DEF vars
  <2> QED
    BY <2>4, <2>5, <2>6, <2>7 DEF Next
<1> QED
  BY <1>1, Sound, PTL DEF Spec, ReportsAreFinal
=============================================================================

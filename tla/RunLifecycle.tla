---------------------------- MODULE RunLifecycle ----------------------------
(***************************************************************************)
(* Managed runs inside one service process: the run registry               *)
(* (deerflow/runtime/runs/manager.py), the producer task of every run, the *)
(* marks that keep runs, archives and deletions of a conversation apart    *)
(* and the timers that retire a run (ClientManager in                      *)
(* app/dependencies.py).  All of it runs on one event loop, except         *)
(* delete_thread_completely, which runs on a worker thread.  One action is *)
(* what the loop runs between two suspensions; `starting' marks the one    *)
(* place where a worker thread can step into such a segment.               *)
(***************************************************************************)
EXTENDS Integers, Sequences, FiniteSets, SequencesExt

CONSTANTS
  Run,         \* run ids; an id may be used again once its record is gone
  Thread,      \* conversations
  Key,         \* idempotency keys (an actor and its key)
  Reader,      \* event-stream connections
  MaxEntries,  \* _idempotency_max_entries
  Bridges,     \* the kinds of stream bridge considered
  NoRun,       \* no record, no run
  NoKey        \* a request without an idempotency key

Inflight == {"pending", "running"}
Failure == {"error", "timeout"}
RunStatus == Inflight \cup Failure \cup {"success", "interrupted"}

\* Where the producer task of a run is suspended.  "unborn" is a task that was
\* cancelled before its first step: asyncio never enters its body.
Working == {"new", "streaming", "reporting", "cancelling", "aborting"}
Producer == Working \cup {"none", "closing", "done", "unborn"}

Record == [thread : Thread, status : RunStatus, mode : {"cancel", "continue"}, expired : BOOLEAN]
Entry == [thread : Thread, key : Key, run : Run]
Expiry == {"disconnect_timeout", "completed_retention"}
LifecycleTask == [kind : Expiry \cup {"cleanup"}, run : Run]

ASSUME RunLifecycleAssumption ==
  /\ MaxEntries \in Nat \ {0}
  /\ Bridges \subseteq {"memory", "redis"}
  /\ IsFiniteSet(Run) /\ NoRun \notin Run \cup Record /\ NoKey \notin Key

VARIABLES
  bridge,     \* the kind of bridge this process uses
  runs,       \* RunManager._runs
  idem,       \* RunManager._idempotency, oldest entry first
  producer,   \* the phase of record.task
  starting,   \* the run whose creation is between registry and thread mark
  marks,      \* _running_thread_counts
  running,    \* _running_threads
  archiving,  \* _artifact_archive_threads
  deleting,   \* _deleting_threads
  stream,     \* the stream of a run in the bridge
  subs,       \* _stream_subscribers
  reader,     \* what a connection does, and for which run
  grace,      \* runs with an entry in _disconnect_expiry_handles
  completed,  \* runs with an entry in _completed_expiry_handles
  retire,     \* runs with an entry in _metadata_cleanup_handles
  tasks       \* _lifecycle_tasks that have not taken their first step

registry == <<runs, idem>>
threads == <<marks, running, archiving, deleting>>
timers == <<grace, completed, retire, tasks>>
readers == <<subs, reader>>
vars == <<bridge, registry, producer, starting, threads, stream, readers, timers>>

-----------------------------------------------------------------------------
Registered(r) == runs[r] # NoRun
IsInflight(r) == Registered(r) /\ runs[r].status \in Inflight
InflightOn(t) == {r \in Run : IsInflight(r) /\ runs[r].thread = t}

TypeOK ==
  /\ bridge \in Bridges
  /\ runs \in [Run -> Record \cup {NoRun}]
  /\ idem \in Seq(Entry)
  /\ producer \in [Run -> Producer]
  /\ starting \in Run \cup {NoRun}
  /\ marks \in [Thread -> Nat]
  /\ running \subseteq Thread /\ archiving \subseteq Thread /\ deleting \subseteq Thread
  /\ stream \in [Run -> {"none", "open", "ended", "expired"}]
  /\ subs \in [Run -> Nat]
  /\ reader \in [Reader -> [phase : {"idle", "found", "reading", "drained"}, run : Run \cup {NoRun}]]
  /\ grace \subseteq Run /\ completed \subseteq Run /\ retire \subseteq Run
  /\ tasks \subseteq LifecycleTask

Init ==
  /\ bridge \in Bridges
  /\ runs = [r \in Run |-> NoRun]
  /\ idem = <<>>
  /\ producer = [r \in Run |-> "none"]
  /\ starting = NoRun
  /\ marks = [t \in Thread |-> 0]
  /\ running = {} /\ archiving = {} /\ deleting = {}
  /\ stream = [r \in Run |-> "none"]
  /\ subs = [r \in Run |-> 0]
  /\ reader = [c \in Reader |-> [phase |-> "idle", run |-> NoRun]]
  /\ grace = {} /\ completed = {} /\ retire = {} /\ tasks = {}

OnLoop == starting = NoRun

-----------------------------------------------------------------------------
(* The registry.                                                           *)

EntriesOf(t, k) == {i \in DOMAIN idem : idem[i].thread = t /\ idem[i].key = k}

\* The entries at the positions P, in their order.
Kept(entries, P) ==
  LET nth(n) == CHOOSE i \in P : Cardinality({j \in P : j < i}) = n - 1
  IN [n \in 1 .. Cardinality(P) |-> entries[nth(n)]]

Without(entries, S) == Kept(entries, {i \in DOMAIN entries : entries[i].run \notin S})

SettledAny(rs, e) == TRUE                              \* mutant: evict whatever is oldest

\* Entries that may be evicted: their run is gone or terminal.
Settled(rs, e) == rs[e.run] = NoRun \/ rs[e.run].status \notin Inflight

\* _prune_idempotency_locked: drop the oldest settled entries above the bound.
Prune(rs, entries) ==
  LET settled == {i \in DOMAIN entries : Settled(rs, entries[i])}
      excess == Len(entries) - MaxEntries
      doomed == {i \in settled : Cardinality({j \in settled : j < i}) < excess}
  IN Kept(entries, DOMAIN entries \ doomed)

CancelledAtOnce(phase) == IF phase \in Working THEN "done" ELSE phase  \* mutant: no unwinding

\* What task.cancel() leads to, by the phase it finds the producer in.
Cancelled(phase) ==
  CASE phase = "new" -> "unborn"
    [] phase = "streaming" -> "cancelling"
    [] phase = "reporting" -> "aborting"
    [] phase = "closing" -> "done"
    [] OTHER -> phase

\* RunManager.cancel, and the same for every run a new one displaces.
InterruptRuns(S) == [r \in Run |-> IF r \in S THEN [runs[r] EXCEPT !.status = "interrupted"] ELSE runs[r]]
CancelProducers(S) == [r \in Run |-> IF r \in S THEN Cancelled(producer[r]) ELSE producer[r]]

\* create_or_reject: the request repeats a key whose run is known.
Replay(t, k) ==
  /\ OnLoop
  /\ \E i \in EntriesOf(t, k) : idem' = Append(RemoveAt(idem, i), idem[i])
  /\ UNCHANGED <<bridge, runs, producer, starting, threads, stream, readers, timers>>

\* The runs a new run on t displaces, and whether it is admitted at all.
Displaced(t, strategy) == IF strategy = "reject" THEN {} ELSE InflightOn(t)
Admitted(t, strategy) == strategy = "reject" => InflightOn(t) = {}

\* create_or_reject: a new record, displacing or refusing according to the strategy.
Create(r, t, strategy, mode, k) ==
  /\ OnLoop
  /\ k # NoKey => EntriesOf(t, k) = {}
  /\ ~Registered(r)
  /\ Admitted(t, strategy)
  /\ LET displaced == Displaced(t, strategy)
         new == [thread |-> t, status |-> "pending", mode |-> mode, expired |-> FALSE]
     IN /\ runs' = [InterruptRuns(displaced) EXCEPT ![r] = new]
        /\ producer' = [CancelProducers(displaced) EXCEPT ![r] = "none"]
        /\ idem' = IF k = NoKey THEN idem
                   ELSE Prune(runs', Append(idem, [thread |-> t, key |-> k, run |-> r]))
  /\ starting' = r
  /\ UNCHANGED <<bridge, threads, stream, readers, timers>>

-----------------------------------------------------------------------------
(* The marks of a conversation.                                            *)

MayRunUnlessArchiving(t) == t \notin archiving         \* mutant: deletion not asked

MayRun(t) == t \notin deleting \cup archiving

\* The second half of start_client_stream_run: mark_thread_running and create_task.
Launch ==
  /\ starting # NoRun /\ MayRun(runs[starting].thread)
  /\ marks' = [marks EXCEPT ![runs[starting].thread] = @ + 1]
  /\ running' = running \cup {runs[starting].thread}
  /\ producer' = [producer EXCEPT ![starting] = "new"]
  /\ starting' = NoRun
  /\ UNCHANGED <<bridge, registry, archiving, deleting, stream, readers, timers>>

\* ... or the conversation is reserved and the record is taken back.
RefuseLaunch ==
  /\ starting # NoRun /\ ~MayRun(runs[starting].thread)
  /\ runs' = [runs EXCEPT ![starting] = NoRun]
  /\ idem' = Without(idem, {starting})
  /\ starting' = NoRun
  /\ UNCHANGED <<bridge, producer, threads, stream, readers, timers>>

UnmarkUncounted(t) ==                                  \* mutant: the mark is a flag, not a count
  /\ marks' = [marks EXCEPT ![t] = 0]
  /\ running' = running \ {t}
  /\ UNCHANGED <<archiving, deleting>>

\* mark_thread_done
Unmark(t) ==
  /\ marks' = [marks EXCEPT ![t] = IF @ > 1 THEN @ - 1 ELSE 0]
  /\ running' = IF marks[t] > 1 THEN running ELSE running \ {t}
  /\ UNCHANGED <<archiving, deleting>>

\* create_run_artifact_archive, for a terminal run of the conversation.
ReserveArchive(t) ==
  /\ OnLoop
  /\ \E r \in Run : Registered(r) /\ runs[r].thread = t /\ ~IsInflight(r)
  /\ t \notin running \cup deleting \cup archiving
  /\ archiving' = archiving \cup {t}
  /\ running' = running \cup {t}
  /\ UNCHANGED <<bridge, registry, producer, starting, marks, deleting, stream, readers, timers>>

ReleaseArchive(t) ==
  /\ OnLoop /\ t \in archiving
  /\ archiving' = archiving \ {t}
  /\ running' = IF marks[t] = 0 THEN running \ {t} ELSE running
  /\ UNCHANGED <<bridge, registry, producer, starting, marks, deleting, stream, readers, timers>>

\* delete_thread_completely, on a worker thread: it may step between Create and Launch.
DeleteThread(t) ==
  /\ t \notin running \cup deleting
  /\ deleting' = deleting \cup {t}
  /\ UNCHANGED <<bridge, registry, producer, starting, marks, running, archiving, stream, readers, timers>>

ThreadDeleted(t) ==
  /\ t \in deleting
  /\ deleting' = deleting \ {t}
  /\ UNCHANGED <<bridge, registry, producer, starting, marks, running, archiving, stream, readers, timers>>

-----------------------------------------------------------------------------
(* The producer task, _produce_client_stream.                              *)

Opened(r) == [stream EXCEPT ![r] = IF @ = "none" THEN "open" ELSE @]
SetStatus(r, s) == [runs EXCEPT ![r].status = s]

\* First step: the run is running and announces itself on the stream.
Begin(r) ==
  /\ OnLoop /\ producer[r] = "new"
  /\ runs' = SetStatus(r, "running")
  /\ stream' = Opened(r)
  /\ producer' = [producer EXCEPT ![r] = "streaming"]
  /\ UNCHANGED <<bridge, idem, starting, threads, readers, timers>>

\* The body is left with status s; the finally block drops the mark first.
LeaveBody(r, s) ==
  /\ runs' = SetStatus(r, s)
  /\ producer' = [producer EXCEPT ![r] = "closing"]
  /\ Unmark(runs[r].thread)
  /\ UNCHANGED <<bridge, idem, starting, readers, timers>>

\* The stream of the client ends, with or without a classified LLM failure.
StreamingOrCancelled(r) == producer[r] \in {"streaming", "cancelling"}  \* mutant: abort_event ignored

Streaming(r) == producer[r] = "streaming"

Complete(r, s) ==
  /\ OnLoop /\ Streaming(r) /\ s \in {"success", "error"}
  /\ LeaveBody(r, s)
  /\ UNCHANGED stream

\* An exception or the request timeout, also one raised while a cancellation unwinds:
\* the error event is published before the status is set.
Raise(r) ==
  /\ OnLoop /\ producer[r] \in {"streaming", "cancelling"}
  /\ producer' = [producer EXCEPT ![r] = "reporting"]
  /\ UNCHANGED <<bridge, registry, starting, threads, stream, readers, timers>>

Report(r, s) ==
  /\ OnLoop /\ producer[r] = "reporting" /\ s \in Failure
  /\ LeaveBody(r, s)
  /\ stream' = Opened(r)

\* The cancellation was unwound and is reported.
ReportCancel(r) ==
  /\ OnLoop /\ producer[r] = "cancelling"
  /\ LeaveBody(r, "interrupted")
  /\ stream' = Opened(r)

\* Publishing the error event fails (Redis) or is itself cancelled: no status is set.
Unwind(r) ==
  /\ OnLoop
  /\ \/ producer[r] = "aborting"
     \/ producer[r] \in {"reporting", "cancelling"} /\ bridge = "redis"
  /\ LeaveBody(r, runs[r].status)
  /\ UNCHANGED stream

EndedSilently(r) == stream                             \* mutant: no end marker

Ended(r) == [stream EXCEPT ![r] = IF @ = "expired" THEN @ ELSE "ended"]

RetainedIfBuffered(r) == IF stream[r] = "expired" THEN {} ELSE {r}  \* mutant: nothing to retain

\* The run whose retention timers are (re)armed.
Retained(r) == {r}

\* publish_end and _schedule_completed_run_retention.
Close(r) ==
  /\ OnLoop /\ producer[r] = "closing"
  /\ stream' = Ended(r)
  /\ grace' = grace \ {r}
  /\ completed' = completed \cup Retained(r)
  /\ retire' = retire \cup Retained(r)
  /\ producer' = [producer EXCEPT ![r] = "done"]
  /\ UNCHANGED <<bridge, registry, starting, threads, readers, tasks>>

\* publish_end fails: nothing is scheduled.
CloseFails(r) ==
  /\ OnLoop /\ producer[r] = "closing" /\ bridge = "redis"
  /\ producer' = [producer EXCEPT ![r] = "done"]
  /\ UNCHANGED <<bridge, registry, starting, threads, stream, readers, timers>>

\* The cancel endpoint, a disconnect or the scheduler: cancel_run.
CancelRun(r) ==
  /\ OnLoop /\ IsInflight(r)
  /\ runs' = InterruptRuns({r})
  /\ producer' = CancelProducers({r})
  /\ UNCHANGED <<bridge, idem, starting, threads, stream, readers, timers>>

-----------------------------------------------------------------------------
(* Readers: /chat/agui, which looks a run up, waits for a client object and *)
(* then attaches and subscribes.                                            *)

Find(c, r) ==
  /\ OnLoop /\ reader[c].phase = "idle"
  /\ Registered(r) /\ ~runs[r].expired
  /\ reader' = [reader EXCEPT ![c] = [phase |-> "found", run |-> r]]
  /\ UNCHANGED <<bridge, registry, producer, starting, threads, stream, subs, timers>>

\* attach_run_stream and the start of subscribe, which creates a missing stream.
Attach(c) ==
  LET r == reader[c].run IN
  /\ OnLoop /\ reader[c].phase = "found"
  /\ subs' = [subs EXCEPT ![r] = @ + 1]
  /\ grace' = grace \ {r}
  /\ stream' = IF bridge = "memory" THEN Opened(r) ELSE stream
  /\ reader' = [reader EXCEPT ![c].phase = "reading"]
  /\ UNCHANGED <<bridge, registry, producer, starting, threads, completed, retire, tasks>>

Remaining(n) == IF n > 0 THEN n - 1 ELSE 0

\* detach_run_stream; keep is the registry as it is when the reader leaves.
Detach(c, keep) ==
  LET r == reader[c].run
      last == Remaining(subs[r]) = 0
  IN /\ subs' = [subs EXCEPT ![r] = Remaining(@)]
     /\ grace' = IF last /\ keep[r] # NoRun /\ keep[r].mode = "continue" /\ keep[r].status \in Inflight
                 THEN grace \cup {r} ELSE grace
     /\ reader' = [reader EXCEPT ![c] = [phase |-> "idle", run |-> NoRun]]
     /\ UNCHANGED <<bridge, idem, starting, threads, stream, completed, retire, tasks>>

\* The reader got the end marker, or the connection closed while it was sending.
Leave(c) ==
  /\ OnLoop /\ reader[c].phase \in {"reading", "drained"}
  /\ Detach(c, runs)
  /\ UNCHANGED <<runs, producer>>

\* The connection closed while it was waiting for an event.
Disconnect(c) ==
  LET r == reader[c].run IN
  /\ OnLoop /\ reader[c].phase = "reading"
  /\ IsInflight(r) /\ runs[r].mode = "cancel"
  /\ runs' = InterruptRuns({r})
  /\ producer' = CancelProducers({r})
  /\ Detach(c, runs')

-----------------------------------------------------------------------------
(* Timers and the tasks they spawn.                                        *)

\* _on_disconnect_grace_elapsed
GraceElapsed(r) ==
  /\ OnLoop /\ r \in grace
  /\ grace' = grace \ {r}
  /\ tasks' = IF subs[r] = 0 /\ IsInflight(r)
              THEN tasks \cup {[kind |-> "disconnect_timeout", run |-> r]} ELSE tasks
  /\ UNCHANGED <<bridge, registry, producer, starting, threads, stream, readers, completed, retire>>

\* _on_completed_replay_elapsed
CompletedElapsed(r) ==
  /\ OnLoop /\ r \in completed
  /\ completed' = completed \ {r}
  /\ tasks' = tasks \cup {[kind |-> "completed_retention", run |-> r]}
  /\ UNCHANGED <<bridge, registry, producer, starting, threads, stream, readers, grace, retire>>

\* _on_run_metadata_elapsed; configuration keeps it no shorter than the replay window.
MetadataElapsed(r) ==
  /\ OnLoop /\ r \in retire /\ r \notin completed
  /\ retire' = retire \ {r}
  /\ tasks' = tasks \cup {[kind |-> "cleanup", run |-> r]}
  /\ UNCHANGED <<bridge, registry, producer, starting, threads, stream, readers, grace, completed>>

Pending(r) == {k \in tasks : k.run = r /\ k.kind \in Expiry}

\* _expire_run_replay
ExpireReplay(k) ==
  /\ OnLoop /\ k \in tasks /\ k.kind \in Expiry
  /\ runs' = IF Registered(k.run) THEN [runs EXCEPT ![k.run].expired = TRUE] ELSE runs
  /\ stream' = [stream EXCEPT ![k.run] = "expired"]
  /\ tasks' = tasks \ {k}
  /\ UNCHANGED <<bridge, idem, producer, starting, threads, readers, grace, completed, retire>>

\* _cleanup_run_lifecycle: tasks run in the order they were spawned, so after any expiry.
\* A reader of the removed stream keeps the stream object, which has ended.
CleanupRun(k) ==
  LET r == k.run IN
  /\ OnLoop /\ k \in tasks /\ k.kind = "cleanup" /\ Pending(r) = {}
  /\ stream' = [stream EXCEPT ![r] = "none"]
  /\ runs' = [runs EXCEPT ![r] = NoRun]
  /\ idem' = Without(idem, {r})
  /\ subs' = [subs EXCEPT ![r] = 0]
  /\ reader' = [c \in Reader |-> IF reader[c].run = r /\ reader[c].phase = "reading"
                                 THEN [reader[c] EXCEPT !.phase = "drained"] ELSE reader[c]]
  /\ tasks' = tasks \ {k}
  /\ UNCHANGED <<bridge, producer, starting, threads, grace, completed, retire>>

-----------------------------------------------------------------------------
Request(r) ==
  \/ \E t \in Thread, strategy \in {"reject", "interrupt"}, mode \in {"cancel", "continue"},
        k \in Key \cup {NoKey} : Create(r, t, strategy, mode, k)
  \/ CancelRun(r)

Produce(r) ==
  \/ Begin(r)
  \/ \E s \in {"success", "error"} : Complete(r, s)
  \/ Raise(r)
  \/ \E s \in Failure : Report(r, s)
  \/ ReportCancel(r) \/ Unwind(r)
  \/ Close(r) \/ CloseFails(r)

Conversation(t) ==
  \/ \E k \in Key : Replay(t, k)
  \/ ReserveArchive(t) \/ ReleaseArchive(t)
  \/ DeleteThread(t) \/ ThreadDeleted(t)

Connection(c) ==
  \/ \E r \in Run : Find(c, r)
  \/ Attach(c) \/ Leave(c) \/ Disconnect(c)

Timer(r) == GraceElapsed(r) \/ CompletedElapsed(r) \/ MetadataElapsed(r)

Next ==
  \/ Launch \/ RefuseLaunch
  \/ \E r \in Run : Request(r) \/ Produce(r) \/ Timer(r)
  \/ \E t \in Thread : Conversation(t)
  \/ \E c \in Reader : Connection(c)
  \/ \E k \in tasks : ExpireReplay(k) \/ CleanupRun(k)

Spec == Init /\ [][Next]_vars

\* The loop serves its ready queue in order, model calls end by the request timeout and
\* tool calls return, timers fire, and a reader that is sent the end marker leaves.
Progress(r) ==
  \/ Produce(r) \/ CompletedElapsed(r) \/ MetadataElapsed(r)
  \/ \E k \in tasks : k.run = r /\ (ExpireReplay(k) \/ CleanupRun(k))

ReadEnd(c) ==
  /\ reader[c].phase = "reading" => stream[reader[c].run] \in {"ended", "expired"}
  /\ Leave(c)

FairSpec ==
  /\ Spec
  /\ WF_vars(Launch \/ RefuseLaunch)
  /\ \A r \in Run : SF_vars(Progress(r))
  /\ \A c \in Reader : SF_vars(ReadEnd(c))

-----------------------------------------------------------------------------
(* What the process promises.                                              *)

Of(r, t) == Registered(r) /\ runs[r].thread = t
Marked(r) == producer[r] \in Working \cup {"unborn"}

\* A conversation has at most one run in flight (create_or_reject). While a producer
\* executes, be it only to unwind its cancellation, nobody deletes its conversation or
\* builds an archive of its files (mark_thread_running, try_reserve_artifact_archive,
\* delete_thread_completely).
Exclusion ==
  /\ \A t \in Thread : Cardinality(InflightOn(t)) <= 1
  /\ \A r \in Run : producer[r] \in Working => runs[r].thread \notin deleting \cup archiving

\* The count of a conversation is the number of producers that still have to drop their
\* mark: a displaced run that finishes late does not drop that of its successor, and
\* _running_threads never disagrees with the counts and reservations.
MarksCounted ==
  /\ \A t \in Thread : marks[t] = Cardinality({r \in Run : Marked(r) /\ Of(r, t)})
  /\ running = {t \in Thread : marks[t] > 0} \cup archiving

\* A reader that waits for events of a registered run is fed: the producer is still
\* going to end the stream, unless it was cancelled before its first step.
ReadersAreFed ==
  bridge = "memory" =>
    \A c \in Reader :
      LET r == reader[c].run IN
      reader[c].phase = "reading" /\ stream[r] = "open" /\ Registered(r) /\ r # starting
        => producer[r] \in Working \cup {"closing", "unborn"}

\* An idempotency key stays known as long as its run is in flight: repeating the request
\* cannot start a second run (_prune_idempotency_locked).
KeysOutliveRuns ==
  [][\A i \in DOMAIN idem : LET e == idem[i] IN
       runs'[e.run] # NoRun /\ runs'[e.run].status \in Inflight
         => \E j \in DOMAIN idem' : idem'[j] = e]_vars

\* A run that was cancelled or displaced never counts as completed, whatever its producer
\* still does; only a failure while unwinding may replace the status.
InterruptedStands ==
  [][\A r \in Run : Registered(r) /\ runs[r].status = "interrupted" =>
       runs'[r] = NoRun \/ runs'[r].status \in {"interrupted"} \cup Failure]_vars

\* Every run is retired in the end and its stream released, whoever cancels it and whenever
\* its replay expires, unless it was cancelled before its first step (in-memory bridge).
RunsAreRetired ==
  \A r \in Run : Registered(r) ~> (~Registered(r) \/ producer[r] = "unborn")

\* A reader of a run whose producer has begun gets its end marker and leaves.
ReadersAreReleased ==
  \A c \in Reader, r \in Run :
    (reader[c] = [phase |-> "reading", run |-> r] /\ Registered(r) /\ producer[r] \notin {"new", "none", "unborn"})
      ~> reader[c].phase = "idle"

\* threads.py:180 `Check if currently executing': a conversation reported as running is
\* being executed or archived. It does not hold: a producer that was cancelled before its
\* first step ("unborn") never drops its mark.
RunningMeansExecuting ==
  \A t \in running : t \in archiving \/ \E r \in Run : Of(r, t) /\ producer[r] \in Working
=============================================================================

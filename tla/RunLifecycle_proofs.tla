------------------------- MODULE RunLifecycle_proofs -------------------------
(***************************************************************************)
(* Machine-checked proofs about the managed runs of a process, for any      *)
(* number of runs, conversations, keys and readers.                         *)
(***************************************************************************)
EXTENDS RunLifecycle, FiniteSetTheorems, TLAPS

USE RunLifecycleAssumption

-----------------------------------------------------------------------------
(* What is kept of a sequence.                                             *)

Below(P, i) == {j \in P : j < i}

\* The positions kept are numbered without gaps, in their order.
LEMMA Ranks ==
  ASSUME NEW n \in Nat, NEW P \in SUBSET (1 .. n)
  PROVE  /\ IsFiniteSet(P) /\ Cardinality(P) \in Nat
         /\ \A i \in P : Cardinality(Below(P, i)) \in 0 .. Cardinality(P) - 1
         /\ \A i, k \in P : Cardinality(Below(P, i)) = Cardinality(Below(P, k)) => i = k
         /\ \A m \in 1 .. Cardinality(P) : \E i \in P : Cardinality(Below(P, i)) = m - 1
<1>1. IsFiniteSet(P) /\ Cardinality(P) \in Nat
  <2>1. IsFiniteSet(1 .. n)
    BY FS_Interval
  <2>2. IsFiniteSet(P)
    BY <2>1, FS_Subset
  <2> QED
    BY <2>2, FS_CardinalityType
<1>2. \A i \in P : IsFiniteSet(Below(P, i)) /\ Cardinality(Below(P, i)) \in 0 .. Cardinality(P) - 1
  <2> SUFFICES ASSUME NEW i \in P
               PROVE  IsFiniteSet(Below(P, i)) /\ Cardinality(Below(P, i)) \in 0 .. Cardinality(P) - 1
    OBVIOUS
  <2>1. Below(P, i) \in SUBSET P /\ i \notin Below(P, i)
    BY DEF Below
  <2>2. /\ IsFiniteSet(Below(P, i))
        /\ Cardinality(Below(P, i)) <= Cardinality(P)
        /\ Cardinality(Below(P, i)) # Cardinality(P)
    BY <1>1, <2>1, FS_Subset
  <2>3. Cardinality(Below(P, i)) \in Nat
    BY <2>2, FS_CardinalityType
  <2> QED
    BY <1>1, <2>2, <2>3
<1>3. \A i, k \in P : i < k => Cardinality(Below(P, i)) < Cardinality(Below(P, k))
  <2> SUFFICES ASSUME NEW i \in P, NEW k \in P, i < k
               PROVE  Cardinality(Below(P, i)) < Cardinality(Below(P, k))
    OBVIOUS
  <2>1. Below(P, i) \in SUBSET Below(P, k) /\ i \in Below(P, k) /\ i \notin Below(P, i)
    <3>1. \A j \in P : j \in Nat
      OBVIOUS
    <3>2. \A j \in P : j < i => j < k
      BY <3>1
    <3>3. i < k /\ ~(i < i)
      BY <3>1
    <3> QED
      BY Zenon, <3>2, <3>3 DEF Below
  <2>2. /\ Cardinality(Below(P, i)) <= Cardinality(Below(P, k))
        /\ Cardinality(Below(P, i)) # Cardinality(Below(P, k))
    BY <1>2, <2>1, FS_Subset
  <2> QED
    BY <1>2, <2>2, <1>1
<1>4. \A i, k \in P : Cardinality(Below(P, i)) = Cardinality(Below(P, k)) => i = k
  <2> SUFFICES ASSUME NEW i \in P, NEW k \in P, Cardinality(Below(P, i)) = Cardinality(Below(P, k))
               PROVE  i = k
    OBVIOUS
  <2>1. ~(i < k) /\ ~(k < i)
    BY <1>1, <1>2, <1>3
  <2> QED
    BY <2>1
<1> DEFINE f == [i \in P |-> Cardinality(Below(P, i)) + 1]
<1>5. f \in Injection(P, 1 .. Cardinality(P))
  <2>1. f \in [P -> 1 .. Cardinality(P)]
    BY <1>1, <1>2
  <2>2. \A i, k \in P : f[i] = f[k] => i = k
    BY <1>1, <1>2, <1>4
  <2> QED
    BY <2>1, <2>2 DEF Injection, IsInjective
<1>6. f \in Surjection(P, 1 .. Cardinality(P))
  <2>1. IsFiniteSet(1 .. Cardinality(P)) /\ Cardinality(1 .. Cardinality(P)) = Cardinality(P)
    BY <1>1, FS_Interval
  <2> QED
    BY <1>5, <2>1, FS_Injection
<1>7. \A m \in 1 .. Cardinality(P) : \E i \in P : Cardinality(Below(P, i)) = m - 1
  <2> SUFFICES ASSUME NEW m \in 1 .. Cardinality(P)
               PROVE  \E i \in P : Cardinality(Below(P, i)) = m - 1
    OBVIOUS
  <2>1. PICK i \in P : f[i] = m
    BY <1>6 DEF Surjection
  <2> QED
    BY <1>1, <1>2, <2>1
<1> QED
  BY <1>1, <1>2, <1>4, <1>7

\* Kept(s, P) is a sequence of the entries of s at P: of these, and of all of them.
LEMMA KeptEntries ==
  ASSUME NEW X, NEW s \in Seq(X), NEW P \in SUBSET DOMAIN s
  PROVE  /\ Kept(s, P) \in Seq(X)
         /\ \A i \in P : \E j \in DOMAIN Kept(s, P) : Kept(s, P)[j] = s[i]
         /\ \A j \in DOMAIN Kept(s, P) : \E i \in P : Kept(s, P)[j] = s[i]
<1> DEFINE nth(m) == CHOOSE i \in P : Cardinality(Below(P, i)) = m - 1
<1>1. Kept(s, P) = [m \in 1 .. Cardinality(P) |-> s[nth(m)]]
  BY Zenon DEF Kept, Below
<1>0. Len(s) \in Nat /\ P \in SUBSET (1 .. Len(s))
  OBVIOUS
<1>2. /\ Cardinality(P) \in Nat
      /\ \A i \in P : Cardinality(Below(P, i)) \in 0 .. Cardinality(P) - 1
      /\ \A i, k \in P : Cardinality(Below(P, i)) = Cardinality(Below(P, k)) => i = k
      /\ \A m \in 1 .. Cardinality(P) : \E i \in P : Cardinality(Below(P, i)) = m - 1
  BY <1>0, Ranks
<1>3. \A m \in 1 .. Cardinality(P) : nth(m) \in P /\ Cardinality(Below(P, nth(m))) = m - 1
  BY <1>2
<1>4. \A i \in P : Cardinality(Below(P, i)) + 1 \in 1 .. Cardinality(P) /\ nth(Cardinality(Below(P, i)) + 1) = i
  <2> SUFFICES ASSUME NEW i \in P
               PROVE  /\ Cardinality(Below(P, i)) + 1 \in 1 .. Cardinality(P)
                      /\ nth(Cardinality(Below(P, i)) + 1) = i
    OBVIOUS
  <2> DEFINE m == Cardinality(Below(P, i)) + 1
  <2>1. m \in 1 .. Cardinality(P) /\ m - 1 = Cardinality(Below(P, i))
    BY <1>2
  <2>2. nth(m) \in P /\ Cardinality(Below(P, nth(m))) = m - 1
    BY <1>3, <2>1
  <2> QED
    BY <1>2, <2>1, <2>2
<1> HIDE DEF nth
<1>5. Kept(s, P) \in Seq(X)
  <2>1. \A m \in 1 .. Cardinality(P) : s[nth(m)] \in X
    BY <1>3
  <2> QED
    BY <1>1, <1>2, <2>1
<1>6. DOMAIN Kept(s, P) = 1 .. Cardinality(P)
  BY <1>1
<1>7. \A j \in 1 .. Cardinality(P) : Kept(s, P)[j] = s[nth(j)]
  BY <1>1
<1> QED
  BY <1>3, <1>4, <1>5, <1>6, <1>7

-----------------------------------------------------------------------------
(* The invariant.                                                          *)

\* Where the producer of a run stands, and what it implies of the run.
Producers ==
  \A r \in Run :
    /\ producer[r] = "none" /\ Registered(r) => r = starting
    /\ producer[r] \in Working \cup {"closing", "unborn"} => Registered(r)
    /\ producer[r] \in {"new", "streaming"} => IsInflight(r)
    /\ producer[r] \in {"cancelling", "aborting"} => runs[r].status = "interrupted"
    /\ producer[r] = "closing" /\ bridge = "memory" => ~IsInflight(r)
    /\ producer[r] = "done" /\ Registered(r) /\ bridge = "memory" => stream[r] \in {"ended", "expired"}

\* The run between its creation and its launch is in flight and has no producer.
Starts == starting # NoRun => IsInflight(starting) /\ producer[starting] = "none"

\* Only a run whose producer has ended is retired, and once.
Cleanup(r) == [kind |-> "cleanup", run |-> r] \in tasks

Retires ==
  \A r \in Run :
    /\ r \in retire \cup completed \/ Cleanup(r) => producer[r] = "done" /\ Registered(r)
    /\ Cleanup(r) => r \notin retire \cup completed

\* Exclusion, per conversation and per producer.
OneInflight ==
  \A q, r \in Run : IsInflight(q) /\ IsInflight(r) /\ runs[q].thread = runs[r].thread => q = r

Shielded == \A r \in Run : producer[r] \in Working => runs[r].thread \notin deleting \cup archiving

\* A connection that looked a run up has one.
Attached == \A c \in Reader : reader[c].phase # "idle" => reader[c].run \in Run

\* The inductive invariant.
IInv ==
  TypeOK /\ Producers /\ Starts /\ Retires /\ OneInflight /\ Shielded /\ MarksCounted /\ Attached

USE DEF Inflight, RunStatus, Failure, Working

-----------------------------------------------------------------------------
(* What steps do to runs and producers.                                    *)

\* Run q is let alone, or cancelled.
Spared(q) == runs'[q] = runs[q] /\ producer'[q] = producer[q]

Stopped(q) ==
  /\ IsInflight(q)
  /\ Registered(q)' /\ runs'[q].thread = runs[q].thread /\ runs'[q].status = "interrupted"
  /\ producer'[q] = Cancelled(producer[q])

\* RunManager.cancel touches the runs it is asked to.
LEMMA Interrupts ==
  ASSUME TypeOK, NEW S \in SUBSET Run, \A r \in S : IsInflight(r), NEW q \in Run
  PROVE  /\ q \notin S => InterruptRuns(S)[q] = runs[q] /\ CancelProducers(S)[q] = producer[q]
         /\ q \in S => /\ InterruptRuns(S)[q] \in Record
                       /\ InterruptRuns(S)[q].thread = runs[q].thread
                       /\ InterruptRuns(S)[q].status = "interrupted"
                       /\ CancelProducers(S)[q] = Cancelled(producer[q])
<1>1. q \in S => runs[q] \in Record
  BY DEF TypeOK, IsInflight, Registered
<1>2. q \in S => InterruptRuns(S)[q] = [runs[q] EXCEPT !.status = "interrupted"]
  BY DEF InterruptRuns
<1> QED
  BY <1>1, <1>2 DEF InterruptRuns, CancelProducers, Record

\* cancel_run stops one run.
LEMMA CancelStops ==
  ASSUME TypeOK, NEW r \in Run, IsInflight(r), runs' = InterruptRuns({r}), producer' = CancelProducers({r})
  PROVE  \A q \in Run : Spared(q) \/ Stopped(q)
<1> SUFFICES ASSUME NEW q \in Run PROVE Spared(q) \/ Stopped(q)
  OBVIOUS
<1>1. q # r => Spared(q)
  BY Interrupts DEF Spared
<1>2. CASE q = r
  BY <1>2, Interrupts DEF Stopped, Registered
<1> QED
  BY <1>1, <1>2

\* A new run displaces the one in flight, or there was none.
LEMMA Creates ==
  ASSUME TypeOK, NEW r \in Run, NEW t \in Thread, NEW strategy \in {"reject", "interrupt"},
         NEW mode \in {"cancel", "continue"}, NEW k \in Key \cup {NoKey}, Create(r, t, strategy, mode, k)
  PROVE  /\ starting = NoRun /\ starting' = r
         /\ ~Registered(r) /\ Registered(r)' /\ IsInflight(r)' /\ runs'[r].thread = t /\ producer'[r] = "none"
         /\ \A q \in Run \ {r} : Spared(q) \/ Stopped(q)
         /\ \A q \in Run \ {r} : Registered(q) /\ runs[q].thread = t => ~IsInflight(q)'
         /\ UNCHANGED <<bridge, threads, stream, readers, timers>>
<1> DEFINE d == Displaced(t, strategy)
           new == [thread |-> t, status |-> "pending", mode |-> mode, expired |-> FALSE]
<1>1. /\ d \in SUBSET Run /\ r \notin d
      /\ \A q \in d : IsInflight(q)
      /\ \A q \in Run \ d : IsInflight(q) => runs[q].thread # t
  BY DEF Create, Displaced, Admitted, InflightOn, IsInflight
<1>2. /\ runs' = [InterruptRuns(d) EXCEPT ![r] = new]
      /\ producer' = [CancelProducers(d) EXCEPT ![r] = "none"]
  BY DEF Create
<1>3. runs'[r] = new /\ producer'[r] = "none" /\ new \in Record /\ new # NoRun
  <2>1. new \in Record
    BY DEF Record
  <2> QED
    BY <1>2, <2>1 DEF InterruptRuns, CancelProducers
<1>4. \A q \in Run \ {r} : runs'[q] = InterruptRuns(d)[q] /\ producer'[q] = CancelProducers(d)[q]
  BY <1>2 DEF InterruptRuns, CancelProducers
<1> HIDE DEF d, new
<1>5. \A q \in Run \ {r} : q \notin d => Spared(q)
  BY <1>1, <1>4, Interrupts DEF Spared
<1>6. \A q \in Run \ {r} : q \in d => Stopped(q)
  BY <1>1, <1>4, Interrupts DEF Stopped, Registered
<1>7. \A q \in Run \ {r} : Registered(q) /\ runs[q].thread = t => ~IsInflight(q)'
  BY <1>1, <1>5, <1>6 DEF Spared, Stopped, IsInflight, Registered
<1>8. IsInflight(r)' /\ runs'[r].thread = t
  BY <1>3 DEF IsInflight, Registered, new
<1> QED
  BY <1>1, <1>3, <1>5, <1>6, <1>7, <1>8 DEF Create, OnLoop, IsInflight

\* A status is set and nothing else of the run.
LEMMA Sets ==
  ASSUME TypeOK, NEW r \in Run, Registered(r), NEW s \in RunStatus, runs' = SetStatus(r, s)
  PROVE  /\ Registered(r)' /\ runs'[r].thread = runs[r].thread /\ runs'[r].status = s
         /\ \A q \in Run \ {r} : runs'[q] = runs[q]
<1>1. runs[r] \in Record
  BY DEF TypeOK, Registered
<1>2. runs'[r] \in Record /\ runs'[r].thread = runs[r].thread /\ runs'[r].status = s
  BY <1>1 DEF SetStatus, TypeOK, Record
<1> QED
  BY <1>2 DEF SetStatus, TypeOK, Registered

\* The body of a producer is left: this run is closing, no other is concerned.
Leaves(r, s) ==
  /\ Registered(r)' /\ runs'[r].thread = runs[r].thread /\ runs'[r].status = s
  /\ producer'[r] = "closing"
  /\ \A q \in Run \ {r} : Spared(q)
  /\ Unmark(runs[r].thread)
  /\ UNCHANGED <<bridge, idem, starting, readers, timers>>

\* However a body is left, the run is closing, with a status of its own if it fails.
LEMMA BodyLeft ==
  ASSUME TypeOK, Producers, NEW r \in Run, NEW u \in RunStatus,
         Complete(r, u) \/ Report(r, u) \/ ReportCancel(r) \/ Unwind(r)
  PROVE  /\ producer[r] \in Working /\ Registered(r)
         /\ \E s \in RunStatus :
              /\ Leaves(r, s)
              /\ s \in Inflight => s = runs[r].status /\ (bridge = "redis" \/ producer[r] = "aborting")
         /\ stream' = stream \/ stream' = Opened(r)
<1>1. producer[r] \in Working /\ Registered(r)
  BY DEF Complete, Streaming, Report, ReportCancel, Unwind, Producers
<1>2. runs[r].status \in RunStatus
  BY <1>1 DEF TypeOK, Registered, Record
<1>3. \A s \in RunStatus : LeaveBody(r, s) => Leaves(r, s)
  BY <1>1, Sets DEF LeaveBody, Leaves, Spared, TypeOK
<1> QED
  BY <1>1, <1>2, <1>3 DEF Complete, Report, ReportCancel, Unwind

\* What a cancellation makes of a producer.
LEMMA Cancels ==
  ASSUME NEW p \in Producer
  PROVE  /\ Cancelled(p) \in Producer \ {"new", "streaming", "reporting", "closing"}
         /\ Cancelled(p) = "none" <=> p = "none"
         /\ p = "done" => Cancelled(p) = "done"
         /\ Cancelled(p) = "done" => p \in {"done", "closing"}
         /\ Cancelled(p) \in Working => p \in Working
         /\ Cancelled(p) \in Working \cup {"unborn"} <=> p \in Working \cup {"unborn"}
  BY DEF Cancelled, Producer

\* A cleanup task is known by its run.
LEMMA TaskOf ==
  ASSUME TypeOK, NEW x \in tasks
  PROVE  x.run \in Run /\ (x.kind = "cleanup" => x = [kind |-> "cleanup", run |-> x.run])
  BY DEF TypeOK, LifecycleTask

\* The conversation of a marked run counts as running.
LEMMA MarkedRuns ==
  ASSUME MarksCounted, NEW r \in Run, NEW t \in Thread, Marked(r), Of(r, t)
  PROVE  marks[t] > 0 /\ t \in running
<1> DEFINE M == {q \in Run : Marked(q) /\ Of(q, t)}
<1>1. IsFiniteSet(M) /\ M # {}
  BY FS_Subset
<1>2. Cardinality(M) \in Nat /\ Cardinality(M) # 0
  BY <1>1, FS_CardinalityType, FS_EmptySet
<1> QED
  BY <1>2 DEF MarksCounted

\* What is in flight was so before, on the same conversation.
Shrinks == \A q \in Run : IsInflight(q)' => IsInflight(q) /\ runs'[q].thread = runs[q].thread

\* What a cancelled run and one that was let alone have in common.
LEMMA Mild ==
  ASSUME TypeOK, NEW q \in Run, Spared(q) \/ Stopped(q)
  PROVE  /\ Registered(q) => Registered(q)' /\ runs'[q].thread = runs[q].thread
         /\ Registered(q)' => Registered(q)
         /\ IsInflight(q)' => IsInflight(q)
         /\ producer[q] = "done" => producer'[q] = "done"
         /\ producer'[q] \in Working => producer[q] \in Working
         /\ Marked(q)' <=> Marked(q)
<1>1. producer[q] \in Producer
  BY DEF TypeOK
<1>2. CASE Spared(q)
  BY <1>2 DEF Spared, Registered, IsInflight, Marked
<1>3. CASE Stopped(q)
  <2>1. Registered(q) /\ Registered(q)' /\ runs'[q].thread = runs[q].thread /\ ~IsInflight(q)'
    BY <1>3 DEF Stopped, Registered, IsInflight
  <2>2. producer'[q] = Cancelled(producer[q])
    BY <1>3 DEF Stopped
  <2> QED
    BY <1>1, <2>1, <2>2, Cancels DEF Marked
<1> QED
  BY <1>2, <1>3

\* The expiry of a run's replay leaves its conversation and its status.
LEMMA Expires ==
  ASSUME TypeOK, NEW x \in tasks, ExpireReplay(x), NEW q \in Run
  PROVE  /\ Registered(q)' = Registered(q)
         /\ runs'[q].thread = runs[q].thread /\ runs'[q].status = runs[q].status
<1>1. x.run \in Run
  BY DEF TypeOK, LifecycleTask
<1>2. CASE ~(Registered(q) /\ q = x.run)
  BY <1>1, <1>2 DEF ExpireReplay, Registered, TypeOK
<1>3. CASE Registered(q) /\ q = x.run
  <2>1. runs[q] \in Record
    BY <1>3 DEF TypeOK, Registered
  <2>2. runs'[q] = [runs[q] EXCEPT !.expired = TRUE] /\ runs'[q] \in Record
    BY <1>3, <2>1 DEF ExpireReplay, TypeOK, Record
  <2> QED
    BY <2>1, <2>2 DEF Registered, Record
<1> QED
  BY <1>2, <1>3

-----------------------------------------------------------------------------
(* Every step preserves every part of the invariant.                       *)

\* Where producers stand still tells what their runs are.
LEMMA NextProducers == TypeOK /\ Producers /\ Starts /\ Retires /\ Attached /\ [Next]_vars => Producers'
<1> SUFFICES ASSUME TypeOK, Producers, Starts, Retires, Attached, [Next]_vars PROVE Producers'
  OBVIOUS
<1>1. CASE Launch
  BY <1>1 DEF Launch, MayRun, registry, threads, timers, readers, Producers, Starts, Retires, Cleanup,
     TypeOK, Registered, IsInflight, Record
<1>2. CASE RefuseLaunch
  BY <1>2 DEF RefuseLaunch, MayRun, Without, registry, threads, timers, readers, Producers, Starts, Retires,
     Cleanup, TypeOK, Registered, IsInflight, Record
<1>3. ASSUME NEW r \in Run, NEW t \in Thread, NEW strategy \in {"reject", "interrupt"},
             NEW mode \in {"cancel", "continue"}, NEW k \in Key \cup {NoKey},
             Create(r, t, strategy, mode, k)
      PROVE  Producers'
  BY <1>3, Creates, Cancels DEF Producers, Spared, Stopped, IsInflight, Registered, TypeOK, threads,
     readers, timers
<1>4. ASSUME NEW r \in Run, CancelRun(r)
      PROVE  Producers'
  <2>1. \A q \in Run : Spared(q) \/ Stopped(q)
    BY <1>4, CancelStops DEF CancelRun
  <2>2. UNCHANGED <<bridge, starting, threads, stream, readers, timers>>
    BY <1>4 DEF CancelRun
  <2> QED
    BY <2>1, <2>2, Cancels DEF Producers, Spared, Stopped, IsInflight, Registered, TypeOK, threads, readers,
       timers
<1>5. ASSUME NEW r \in Run, Begin(r)
      PROVE  Producers'
  <2>1. /\ Registered(r)' /\ runs'[r].thread = runs[r].thread /\ runs'[r].status = "running"
        /\ \A q \in Run \ {r} : runs'[q] = runs[q]
    BY <1>5, Sets DEF Begin, Producers
  <2> QED
    BY <1>5, <2>1 DEF Begin, Opened, Producers, IsInflight, Registered, TypeOK, threads, timers, readers
<1>6. ASSUME NEW r \in Run, NEW u \in RunStatus, Complete(r, u)
      PROVE  Producers'
  <2>1. PICK s \in RunStatus :
          /\ Leaves(r, s)
          /\ s \in Inflight => s = runs[r].status /\ (bridge = "redis" \/ producer[r] = "aborting")
    BY <1>6, BodyLeft
  <2>2. producer[r] \in Working /\ Registered(r)
    BY <1>6, BodyLeft
  <2>3. stream' = stream \/ stream' = Opened(r)
    BY <1>6, BodyLeft
  <2> QED
    BY <2>1, <2>2, <2>3 DEF Leaves, Unmark, Opened, Spared, Producers, IsInflight, Registered, TypeOK,
       timers, readers
<1>7. ASSUME NEW r \in Run, Raise(r)
      PROVE  Producers'
  BY <1>7 DEF Raise, registry, threads, timers, readers, Producers, Starts, Retires, Cleanup, TypeOK,
     Registered, IsInflight, Record
<1>8. ASSUME NEW r \in Run, NEW u \in RunStatus, Report(r, u)
      PROVE  Producers'
  <2>1. PICK s \in RunStatus :
          /\ Leaves(r, s)
          /\ s \in Inflight => s = runs[r].status /\ (bridge = "redis" \/ producer[r] = "aborting")
    BY <1>8, BodyLeft
  <2>2. producer[r] \in Working /\ Registered(r)
    BY <1>8, BodyLeft
  <2>3. stream' = stream \/ stream' = Opened(r)
    BY <1>8, BodyLeft
  <2> QED
    BY <2>1, <2>2, <2>3 DEF Leaves, Unmark, Opened, Spared, Producers, IsInflight, Registered, TypeOK,
       timers, readers
<1>9. ASSUME NEW r \in Run, ReportCancel(r)
      PROVE  Producers'
  <2>1. PICK s \in RunStatus :
          /\ Leaves(r, s)
          /\ s \in Inflight => s = runs[r].status /\ (bridge = "redis" \/ producer[r] = "aborting")
    BY <1>9, BodyLeft
  <2>2. producer[r] \in Working /\ Registered(r)
    BY <1>9, BodyLeft
  <2>3. stream' = stream \/ stream' = Opened(r)
    BY <1>9, BodyLeft
  <2> QED
    BY <2>1, <2>2, <2>3 DEF Leaves, Unmark, Opened, Spared, Producers, IsInflight, Registered, TypeOK,
       timers, readers
<1>10. ASSUME NEW r \in Run, Unwind(r)
      PROVE  Producers'
  <2>1. PICK s \in RunStatus :
          /\ Leaves(r, s)
          /\ s \in Inflight => s = runs[r].status /\ (bridge = "redis" \/ producer[r] = "aborting")
    BY <1>10, BodyLeft
  <2>2. producer[r] \in Working /\ Registered(r)
    BY <1>10, BodyLeft
  <2>3. stream' = stream \/ stream' = Opened(r)
    BY <1>10, BodyLeft
  <2> QED
    BY <2>1, <2>2, <2>3 DEF Leaves, Unmark, Opened, Spared, Producers, IsInflight, Registered, TypeOK,
       timers, readers
<1>11. ASSUME NEW r \in Run, Close(r)
      PROVE  Producers'
  BY <1>11 DEF Close, Ended, Retained, registry, threads, timers, readers, Producers, Starts, Retires,
     Cleanup, TypeOK, Registered, IsInflight, Record
<1>12. ASSUME NEW r \in Run, CloseFails(r)
      PROVE  Producers'
  BY <1>12 DEF CloseFails, registry, threads, timers, readers, Producers, Starts, Retires, Cleanup, TypeOK,
     Registered, IsInflight, Record
<1>13. ASSUME NEW r \in Run, GraceElapsed(r)
      PROVE  Producers'
  BY <1>13 DEF GraceElapsed, registry, threads, timers, readers, Producers, Starts, Retires, Cleanup,
     TypeOK, Registered, IsInflight, Record
<1>14. ASSUME NEW r \in Run, CompletedElapsed(r)
      PROVE  Producers'
  BY <1>14 DEF CompletedElapsed, registry, threads, timers, readers, Producers, Starts, Retires, Cleanup,
     TypeOK, Registered, IsInflight, Record
<1>15. ASSUME NEW r \in Run, MetadataElapsed(r)
      PROVE  Producers'
  BY <1>15 DEF MetadataElapsed, registry, threads, timers, readers, Producers, Starts, Retires, Cleanup,
     TypeOK, Registered, IsInflight, Record
<1>16. ASSUME NEW t \in Thread, NEW k \in Key \cup {NoKey}, Replay(t, k)
      PROVE  Producers'
  BY <1>16 DEF Replay, registry, threads, timers, readers, Producers, Starts, Retires, Cleanup, TypeOK,
     Registered, IsInflight, Record
<1>17. ASSUME NEW t \in Thread, ReserveArchive(t)
      PROVE  Producers'
  BY <1>17 DEF ReserveArchive, registry, threads, timers, readers, Producers, Starts, Retires, Cleanup,
     TypeOK, Registered, IsInflight, Record
<1>18. ASSUME NEW t \in Thread, ReleaseArchive(t)
      PROVE  Producers'
  BY <1>18 DEF ReleaseArchive, registry, threads, timers, readers, Producers, Starts, Retires, Cleanup,
     TypeOK, Registered, IsInflight, Record
<1>19. ASSUME NEW t \in Thread, DeleteThread(t)
      PROVE  Producers'
  BY <1>19 DEF DeleteThread, registry, threads, timers, readers, Producers, Starts, Retires, Cleanup,
     TypeOK, Registered, IsInflight, Record
<1>20. ASSUME NEW t \in Thread, ThreadDeleted(t)
      PROVE  Producers'
  BY <1>20 DEF ThreadDeleted, registry, threads, timers, readers, Producers, Starts, Retires, Cleanup,
     TypeOK, Registered, IsInflight, Record
<1>21. ASSUME NEW c \in Reader, NEW r \in Run, Find(c, r)
      PROVE  Producers'
  BY <1>21 DEF Find, registry, threads, timers, readers, Producers, Starts, Retires, Cleanup, TypeOK,
     Registered, IsInflight, Record
<1>22. ASSUME NEW c \in Reader, Attach(c)
      PROVE  Producers'
  BY <1>22 DEF Attach, Opened, OnLoop, registry, threads, timers, readers, Producers, Starts, Retires,
     Cleanup, TypeOK, Registered, IsInflight, Record
<1>23. ASSUME NEW c \in Reader, Leave(c)
      PROVE  Producers'
  BY <1>23 DEF Leave, Detach, registry, threads, timers, readers, Producers, Starts, Retires, Cleanup,
     TypeOK, Registered, IsInflight, Record
<1>24. ASSUME NEW c \in Reader, Disconnect(c)
      PROVE  Producers'
  <2>1. \A q \in Run : Spared(q) \/ Stopped(q)
    BY <1>24, CancelStops DEF Disconnect, Attached
  <2>2. UNCHANGED <<bridge, starting, threads, stream, completed, retire, tasks>>
    BY <1>24 DEF Disconnect, Detach
  <2> QED
    BY <2>1, <2>2, Cancels DEF Producers, Spared, Stopped, IsInflight, Registered, TypeOK, threads, readers,
       timers
<1>25. ASSUME NEW x \in tasks, ExpireReplay(x)
      PROVE  Producers'
  <2>1. x.run \in Run
    BY DEF TypeOK, LifecycleTask
  <2>2. \A q \in Run : Registered(q)' = Registered(q) /\ runs'[q].thread = runs[q].thread /\ runs'[q].status = runs[q].status
    BY <1>25, Expires
  <2> QED
    BY <1>25, <2>1, <2>2 DEF ExpireReplay, Producers, IsInflight, TypeOK
<1>26. ASSUME NEW x \in tasks, CleanupRun(x)
      PROVE  Producers'
  <2>1. PICK r \in Run : r = x.run /\ producer[r] = "done" /\ Registered(r)
    BY <1>26, TaskOf DEF CleanupRun, Retires, Cleanup
  <2>2. /\ runs'[r] = NoRun /\ \A q \in Run \ {r} : runs'[q] = runs[q] /\ stream'[q] = stream[q]
        /\ UNCHANGED <<bridge, producer, starting>>
    BY <1>26, <2>1 DEF CleanupRun, TypeOK
  <2> QED
    BY <2>1, <2>2 DEF Producers, IsInflight, Registered
<1>27. CASE UNCHANGED vars
  BY <1>27 DEF vars, registry, threads, timers, readers, Producers, Starts, Retires, Cleanup, TypeOK,
     Registered, IsInflight, Record
<1>28. QED
  BY <1>1, <1>2, <1>3, <1>4, <1>5, <1>6, <1>7, <1>8, <1>9, <1>10, <1>11, <1>12, <1>13, <1>14, <1>15, <1>16,
     <1>17, <1>18, <1>19, <1>20, <1>21, <1>22, <1>23, <1>24, <1>25, <1>26, <1>27 DEF Next, Request, Produce,
     Timer, Conversation, Connection

\* A run that is being created stays in flight until it is launched or refused: no
\* step of the loop comes between, and the worker thread touches no run.
LEMMA NextStarts == TypeOK /\ Producers /\ Starts /\ Attached /\ [Next]_vars => Starts'
<1> SUFFICES ASSUME TypeOK, Producers, Starts, Attached, [Next]_vars PROVE Starts'
  OBVIOUS
<1>1. CASE Launch
  BY <1>1 DEF Launch, MayRun, registry, threads, timers, readers, Starts, Producers, OnLoop, TypeOK,
     Registered, IsInflight, Record
<1>2. CASE RefuseLaunch
  BY <1>2 DEF RefuseLaunch, MayRun, Without, registry, threads, timers, readers, Starts, Producers, OnLoop,
     TypeOK, Registered, IsInflight, Record
<1>3. ASSUME NEW r \in Run, NEW t \in Thread, NEW strategy \in {"reject", "interrupt"},
             NEW mode \in {"cancel", "continue"}, NEW k \in Key \cup {NoKey},
             Create(r, t, strategy, mode, k)
      PROVE  Starts'
  BY <1>3, Creates, Cancels DEF Starts, Producers, Spared, Stopped, IsInflight, Registered, TypeOK, threads,
     readers, timers
<1>4. ASSUME NEW r \in Run, CancelRun(r)
      PROVE  Starts'
  <2>1. \A q \in Run : Spared(q) \/ Stopped(q)
    BY <1>4, CancelStops DEF CancelRun
  <2>2. UNCHANGED <<bridge, starting, threads, stream, readers, timers>>
    BY <1>4 DEF CancelRun
  <2> QED
    BY <1>4, <2>1, <2>2, Cancels DEF CancelRun, OnLoop, Starts, Producers, Spared, Stopped, IsInflight,
       Registered, TypeOK, threads, readers, timers
<1>5. ASSUME NEW r \in Run, Begin(r)
      PROVE  Starts'
  <2>1. /\ Registered(r)' /\ runs'[r].thread = runs[r].thread /\ runs'[r].status = "running"
        /\ \A q \in Run \ {r} : runs'[q] = runs[q]
    BY <1>5, Sets DEF Begin, Producers
  <2> QED
    BY <1>5, <2>1 DEF Begin, Opened, Starts, Producers, IsInflight, Registered, TypeOK, threads, timers, readers
<1>6. ASSUME NEW r \in Run, NEW u \in RunStatus, Complete(r, u)
      PROVE  Starts'
  <2>1. PICK s \in RunStatus :
          /\ Leaves(r, s)
          /\ s \in Inflight => s = runs[r].status /\ (bridge = "redis" \/ producer[r] = "aborting")
    BY <1>6, BodyLeft
  <2>2. producer[r] \in Working /\ Registered(r)
    BY <1>6, BodyLeft
  <2>3. stream' = stream \/ stream' = Opened(r)
    BY <1>6, BodyLeft
  <2> QED
    BY <2>1, <2>2, <2>3 DEF Leaves, Unmark, Opened, Spared, Starts, Producers, IsInflight, Registered,
       TypeOK, timers, readers
<1>7. ASSUME NEW r \in Run, Raise(r)
      PROVE  Starts'
  BY <1>7 DEF Raise, registry, threads, timers, readers, Starts, Producers, OnLoop, TypeOK, Registered,
     IsInflight, Record
<1>8. ASSUME NEW r \in Run, NEW u \in RunStatus, Report(r, u)
      PROVE  Starts'
  <2>1. PICK s \in RunStatus :
          /\ Leaves(r, s)
          /\ s \in Inflight => s = runs[r].status /\ (bridge = "redis" \/ producer[r] = "aborting")
    BY <1>8, BodyLeft
  <2>2. producer[r] \in Working /\ Registered(r)
    BY <1>8, BodyLeft
  <2>3. stream' = stream \/ stream' = Opened(r)
    BY <1>8, BodyLeft
  <2> QED
    BY <2>1, <2>2, <2>3 DEF Leaves, Unmark, Opened, Spared, Starts, Producers, IsInflight, Registered,
       TypeOK, timers, readers
<1>9. ASSUME NEW r \in Run, ReportCancel(r)
      PROVE  Starts'
  <2>1. PICK s \in RunStatus :
          /\ Leaves(r, s)
          /\ s \in Inflight => s = runs[r].status /\ (bridge = "redis" \/ producer[r] = "aborting")
    BY <1>9, BodyLeft
  <2>2. producer[r] \in Working /\ Registered(r)
    BY <1>9, BodyLeft
  <2>3. stream' = stream \/ stream' = Opened(r)
    BY <1>9, BodyLeft
  <2> QED
    BY <2>1, <2>2, <2>3 DEF Leaves, Unmark, Opened, Spared, Starts, Producers, IsInflight, Registered,
       TypeOK, timers, readers
<1>10. ASSUME NEW r \in Run, Unwind(r)
      PROVE  Starts'
  <2>1. PICK s \in RunStatus :
          /\ Leaves(r, s)
          /\ s \in Inflight => s = runs[r].status /\ (bridge = "redis" \/ producer[r] = "aborting")
    BY <1>10, BodyLeft
  <2>2. producer[r] \in Working /\ Registered(r)
    BY <1>10, BodyLeft
  <2>3. stream' = stream \/ stream' = Opened(r)
    BY <1>10, BodyLeft
  <2> QED
    BY <2>1, <2>2, <2>3 DEF Leaves, Unmark, Opened, Spared, Starts, Producers, IsInflight, Registered,
       TypeOK, timers, readers
<1>11. ASSUME NEW r \in Run, Close(r)
      PROVE  Starts'
  BY <1>11 DEF Close, Ended, Retained, registry, threads, timers, readers, Starts, Producers, OnLoop,
     TypeOK, Registered, IsInflight, Record
<1>12. ASSUME NEW r \in Run, CloseFails(r)
      PROVE  Starts'
  BY <1>12 DEF CloseFails, registry, threads, timers, readers, Starts, Producers, OnLoop, TypeOK,
     Registered, IsInflight, Record
<1>13. ASSUME NEW r \in Run, GraceElapsed(r)
      PROVE  Starts'
  BY <1>13 DEF GraceElapsed, registry, threads, timers, readers, Starts, Producers, OnLoop, TypeOK,
     Registered, IsInflight, Record
<1>14. ASSUME NEW r \in Run, CompletedElapsed(r)
      PROVE  Starts'
  BY <1>14 DEF CompletedElapsed, registry, threads, timers, readers, Starts, Producers, OnLoop, TypeOK,
     Registered, IsInflight, Record
<1>15. ASSUME NEW r \in Run, MetadataElapsed(r)
      PROVE  Starts'
  BY <1>15 DEF MetadataElapsed, registry, threads, timers, readers, Starts, Producers, OnLoop, TypeOK,
     Registered, IsInflight, Record
<1>16. ASSUME NEW t \in Thread, NEW k \in Key \cup {NoKey}, Replay(t, k)
      PROVE  Starts'
  BY <1>16 DEF Replay, registry, threads, timers, readers, Starts, Producers, OnLoop, TypeOK, Registered,
     IsInflight, Record
<1>17. ASSUME NEW t \in Thread, ReserveArchive(t)
      PROVE  Starts'
  BY <1>17 DEF ReserveArchive, registry, threads, timers, readers, Starts, Producers, OnLoop, TypeOK,
     Registered, IsInflight, Record
<1>18. ASSUME NEW t \in Thread, ReleaseArchive(t)
      PROVE  Starts'
  BY <1>18 DEF ReleaseArchive, registry, threads, timers, readers, Starts, Producers, OnLoop, TypeOK,
     Registered, IsInflight, Record
<1>19. ASSUME NEW t \in Thread, DeleteThread(t)
      PROVE  Starts'
  BY <1>19 DEF DeleteThread, registry, threads, timers, readers, Starts, Producers, OnLoop, TypeOK,
     Registered, IsInflight, Record
<1>20. ASSUME NEW t \in Thread, ThreadDeleted(t)
      PROVE  Starts'
  BY <1>20 DEF ThreadDeleted, registry, threads, timers, readers, Starts, Producers, OnLoop, TypeOK,
     Registered, IsInflight, Record
<1>21. ASSUME NEW c \in Reader, NEW r \in Run, Find(c, r)
      PROVE  Starts'
  BY <1>21 DEF Find, registry, threads, timers, readers, Starts, Producers, OnLoop, TypeOK, Registered,
     IsInflight, Record
<1>22. ASSUME NEW c \in Reader, Attach(c)
      PROVE  Starts'
  BY <1>22 DEF Attach, Opened, OnLoop, registry, threads, timers, readers, Starts, Producers, TypeOK,
     Registered, IsInflight, Record
<1>23. ASSUME NEW c \in Reader, Leave(c)
      PROVE  Starts'
  BY <1>23 DEF Leave, Detach, registry, threads, timers, readers, Starts, Producers, OnLoop, TypeOK,
     Registered, IsInflight, Record
<1>24. ASSUME NEW c \in Reader, Disconnect(c)
      PROVE  Starts'
  <2>1. \A q \in Run : Spared(q) \/ Stopped(q)
    BY <1>24, CancelStops DEF Disconnect, Attached
  <2>2. UNCHANGED <<bridge, starting, threads, stream, completed, retire, tasks>>
    BY <1>24 DEF Disconnect, Detach
  <2> QED
    BY <1>24, <2>1, <2>2, Cancels DEF Disconnect, OnLoop, Starts, Producers, Spared, Stopped, IsInflight,
       Registered, TypeOK, threads, readers, timers
<1>25. ASSUME NEW x \in tasks, ExpireReplay(x)
      PROVE  Starts'
  BY <1>25 DEF ExpireReplay, registry, threads, timers, readers, Starts, Producers, OnLoop, TypeOK,
     Registered, IsInflight, Record
<1>26. ASSUME NEW x \in tasks, CleanupRun(x)
      PROVE  Starts'
  BY <1>26 DEF CleanupRun, Pending, Expiry, registry, threads, timers, readers, Starts, Producers, OnLoop,
     TypeOK, Registered, IsInflight, Record
<1>27. CASE UNCHANGED vars
  BY <1>27 DEF vars, registry, threads, timers, readers, Starts, Producers, OnLoop, TypeOK, Registered,
     IsInflight, Record
<1>28. QED
  BY <1>1, <1>2, <1>3, <1>4, <1>5, <1>6, <1>7, <1>8, <1>9, <1>10, <1>11, <1>12, <1>13, <1>14, <1>15, <1>16,
     <1>17, <1>18, <1>19, <1>20, <1>21, <1>22, <1>23, <1>24, <1>25, <1>26, <1>27 DEF Next, Request, Produce,
     Timer, Conversation, Connection

\* Timers and cleanups belong to runs whose producer has ended.
LEMMA NextRetires == TypeOK /\ Producers /\ Starts /\ Retires /\ Attached /\ [Next]_vars => Retires'
<1> SUFFICES ASSUME TypeOK, Producers, Starts, Retires, Attached, [Next]_vars PROVE Retires'
  OBVIOUS
<1>1. CASE Launch
  BY <1>1 DEF Launch, MayRun, registry, threads, timers, readers, Retires, Cleanup, Producers, Starts,
     Expiry, TypeOK, Registered, IsInflight, Record
<1>2. CASE RefuseLaunch
  BY <1>2 DEF RefuseLaunch, MayRun, Without, registry, threads, timers, readers, Retires, Cleanup,
     Producers, Starts, Expiry, TypeOK, Registered, IsInflight, Record
<1>3. ASSUME NEW r \in Run, NEW t \in Thread, NEW strategy \in {"reject", "interrupt"},
             NEW mode \in {"cancel", "continue"}, NEW k \in Key \cup {NoKey},
             Create(r, t, strategy, mode, k)
      PROVE  Retires'
  <2>1. \A q \in Run : Cleanup(q)' = Cleanup(q)
    BY <1>3, Creates DEF Cleanup, timers
  <2>2. r \notin retire \cup completed /\ ~Cleanup(r)
    BY <1>3, Creates DEF Retires
  <2> QED
    BY <1>3, <2>1, <2>2, Creates, Mild DEF Retires, timers
<1>4. ASSUME NEW r \in Run, CancelRun(r)
      PROVE  Retires'
  <2>1. \A q \in Run : Spared(q) \/ Stopped(q)
    BY <1>4, CancelStops DEF CancelRun
  <2>2. UNCHANGED <<bridge, starting, threads, stream, readers, timers>>
    BY <1>4 DEF CancelRun
  <2> QED
    BY <2>1, <2>2, Mild DEF Retires, Cleanup, threads, timers
<1>5. ASSUME NEW r \in Run, Begin(r)
      PROVE  Retires'
  <2>1. /\ Registered(r)' /\ runs'[r].thread = runs[r].thread /\ runs'[r].status = "running"
        /\ \A q \in Run \ {r} : runs'[q] = runs[q]
    BY <1>5, Sets DEF Begin, Producers
  <2> QED
    BY <1>5, <2>1 DEF Begin, Opened, Retires, Cleanup, Producers, IsInflight, Registered, TypeOK, threads,
       timers, readers
<1>6. ASSUME NEW r \in Run, NEW u \in RunStatus, Complete(r, u)
      PROVE  Retires'
  <2>1. PICK s \in RunStatus :
          /\ Leaves(r, s)
          /\ s \in Inflight => s = runs[r].status /\ (bridge = "redis" \/ producer[r] = "aborting")
    BY <1>6, BodyLeft
  <2>2. producer[r] \in Working /\ Registered(r)
    BY <1>6, BodyLeft
  <2>3. stream' = stream \/ stream' = Opened(r)
    BY <1>6, BodyLeft
  <2> QED
    BY <2>1, <2>2, <2>3 DEF Leaves, Unmark, Opened, Spared, Retires, Cleanup, Producers, IsInflight,
       Registered, TypeOK, timers, readers
<1>7. ASSUME NEW r \in Run, Raise(r)
      PROVE  Retires'
  BY <1>7 DEF Raise, registry, threads, timers, readers, Retires, Cleanup, Producers, Starts, Expiry,
     TypeOK, Registered, IsInflight, Record
<1>8. ASSUME NEW r \in Run, NEW u \in RunStatus, Report(r, u)
      PROVE  Retires'
  <2>1. PICK s \in RunStatus :
          /\ Leaves(r, s)
          /\ s \in Inflight => s = runs[r].status /\ (bridge = "redis" \/ producer[r] = "aborting")
    BY <1>8, BodyLeft
  <2>2. producer[r] \in Working /\ Registered(r)
    BY <1>8, BodyLeft
  <2>3. stream' = stream \/ stream' = Opened(r)
    BY <1>8, BodyLeft
  <2> QED
    BY <2>1, <2>2, <2>3 DEF Leaves, Unmark, Opened, Spared, Retires, Cleanup, Producers, IsInflight,
       Registered, TypeOK, timers, readers
<1>9. ASSUME NEW r \in Run, ReportCancel(r)
      PROVE  Retires'
  <2>1. PICK s \in RunStatus :
          /\ Leaves(r, s)
          /\ s \in Inflight => s = runs[r].status /\ (bridge = "redis" \/ producer[r] = "aborting")
    BY <1>9, BodyLeft
  <2>2. producer[r] \in Working /\ Registered(r)
    BY <1>9, BodyLeft
  <2>3. stream' = stream \/ stream' = Opened(r)
    BY <1>9, BodyLeft
  <2> QED
    BY <2>1, <2>2, <2>3 DEF Leaves, Unmark, Opened, Spared, Retires, Cleanup, Producers, IsInflight,
       Registered, TypeOK, timers, readers
<1>10. ASSUME NEW r \in Run, Unwind(r)
      PROVE  Retires'
  <2>1. PICK s \in RunStatus :
          /\ Leaves(r, s)
          /\ s \in Inflight => s = runs[r].status /\ (bridge = "redis" \/ producer[r] = "aborting")
    BY <1>10, BodyLeft
  <2>2. producer[r] \in Working /\ Registered(r)
    BY <1>10, BodyLeft
  <2>3. stream' = stream \/ stream' = Opened(r)
    BY <1>10, BodyLeft
  <2> QED
    BY <2>1, <2>2, <2>3 DEF Leaves, Unmark, Opened, Spared, Retires, Cleanup, Producers, IsInflight,
       Registered, TypeOK, timers, readers
<1>11. ASSUME NEW r \in Run, Close(r)
      PROVE  Retires'
  BY <1>11 DEF Close, Ended, Retained, registry, threads, timers, readers, Retires, Cleanup, Producers,
     Starts, Expiry, TypeOK, Registered, IsInflight, Record
<1>12. ASSUME NEW r \in Run, CloseFails(r)
      PROVE  Retires'
  BY <1>12 DEF CloseFails, registry, threads, timers, readers, Retires, Cleanup, Producers, Starts, Expiry,
     TypeOK, Registered, IsInflight, Record
<1>13. ASSUME NEW r \in Run, GraceElapsed(r)
      PROVE  Retires'
  BY <1>13 DEF GraceElapsed, registry, threads, timers, readers, Retires, Cleanup, Producers, Starts,
     Expiry, TypeOK, Registered, IsInflight, Record
<1>14. ASSUME NEW r \in Run, CompletedElapsed(r)
      PROVE  Retires'
  BY <1>14 DEF CompletedElapsed, registry, threads, timers, readers, Retires, Cleanup, Producers, Starts,
     Expiry, TypeOK, Registered, IsInflight, Record
<1>15. ASSUME NEW r \in Run, MetadataElapsed(r)
      PROVE  Retires'
  BY <1>15 DEF MetadataElapsed, registry, threads, timers, readers, Retires, Cleanup, Producers, Starts,
     Expiry, TypeOK, Registered, IsInflight, Record
<1>16. ASSUME NEW t \in Thread, NEW k \in Key \cup {NoKey}, Replay(t, k)
      PROVE  Retires'
  BY <1>16 DEF Replay, registry, threads, timers, readers, Retires, Cleanup, Producers, Starts, Expiry,
     TypeOK, Registered, IsInflight, Record
<1>17. ASSUME NEW t \in Thread, ReserveArchive(t)
      PROVE  Retires'
  BY <1>17 DEF ReserveArchive, registry, threads, timers, readers, Retires, Cleanup, Producers, Starts,
     Expiry, TypeOK, Registered, IsInflight, Record
<1>18. ASSUME NEW t \in Thread, ReleaseArchive(t)
      PROVE  Retires'
  BY <1>18 DEF ReleaseArchive, registry, threads, timers, readers, Retires, Cleanup, Producers, Starts,
     Expiry, TypeOK, Registered, IsInflight, Record
<1>19. ASSUME NEW t \in Thread, DeleteThread(t)
      PROVE  Retires'
  BY <1>19 DEF DeleteThread, registry, threads, timers, readers, Retires, Cleanup, Producers, Starts,
     Expiry, TypeOK, Registered, IsInflight, Record
<1>20. ASSUME NEW t \in Thread, ThreadDeleted(t)
      PROVE  Retires'
  BY <1>20 DEF ThreadDeleted, registry, threads, timers, readers, Retires, Cleanup, Producers, Starts,
     Expiry, TypeOK, Registered, IsInflight, Record
<1>21. ASSUME NEW c \in Reader, NEW r \in Run, Find(c, r)
      PROVE  Retires'
  BY <1>21 DEF Find, registry, threads, timers, readers, Retires, Cleanup, Producers, Starts, Expiry,
     TypeOK, Registered, IsInflight, Record
<1>22. ASSUME NEW c \in Reader, Attach(c)
      PROVE  Retires'
  BY <1>22 DEF Attach, Opened, OnLoop, registry, threads, timers, readers, Retires, Cleanup, Producers,
     Starts, Expiry, TypeOK, Registered, IsInflight, Record
<1>23. ASSUME NEW c \in Reader, Leave(c)
      PROVE  Retires'
  BY <1>23 DEF Leave, Detach, registry, threads, timers, readers, Retires, Cleanup, Producers, Starts,
     Expiry, TypeOK, Registered, IsInflight, Record
<1>24. ASSUME NEW c \in Reader, Disconnect(c)
      PROVE  Retires'
  <2>1. \A q \in Run : Spared(q) \/ Stopped(q)
    BY <1>24, CancelStops DEF Disconnect, Attached
  <2>2. UNCHANGED <<bridge, starting, threads, stream, completed, retire, tasks>>
    BY <1>24 DEF Disconnect, Detach
  <2> QED
    BY <2>1, <2>2, Mild DEF Retires, Cleanup, threads, timers
<1>25. ASSUME NEW x \in tasks, ExpireReplay(x)
      PROVE  Retires'
  <2>1. \A q \in Run : Cleanup(q)' => Cleanup(q)
    BY <1>25 DEF ExpireReplay, Cleanup
  <2>2. \A q \in Run : Registered(q) => Registered(q)'
    <3> SUFFICES ASSUME NEW q \in Run, Registered(q) PROVE Registered(q)'
      OBVIOUS
    <3>1. runs[q] \in Record
      BY DEF TypeOK, Registered
    <3>2. runs'[q] \in Record
      BY <1>25, <3>1 DEF ExpireReplay, TypeOK, Record
    <3> QED
      BY <3>2 DEF Registered
  <2> QED
    BY <1>25, <2>1, <2>2 DEF ExpireReplay, Retires
<1>26. ASSUME NEW x \in tasks, CleanupRun(x)
      PROVE  Retires'
  <2>1. PICK r \in Run : r = x.run /\ x = [kind |-> "cleanup", run |-> r] /\ Cleanup(r)
    BY <1>26, TaskOf DEF CleanupRun, Cleanup
  <2>2. /\ \A q \in Run \ {r} : runs'[q] = runs[q]
        /\ UNCHANGED <<producer, completed, retire>>
        /\ tasks' = tasks \ {x}
    BY <1>26, <2>1 DEF CleanupRun, TypeOK
  <2>3. ~Cleanup(r)' /\ \A q \in Run \ {r} : Cleanup(q)' => Cleanup(q)
    BY <2>1, <2>2 DEF Cleanup
  <2> QED
    BY <2>1, <2>2, <2>3 DEF Retires, Registered
<1>27. CASE UNCHANGED vars
  BY <1>27 DEF vars, registry, threads, timers, readers, Retires, Cleanup, Producers, Starts, Expiry,
     TypeOK, Registered, IsInflight, Record
<1>28. QED
  BY <1>1, <1>2, <1>3, <1>4, <1>5, <1>6, <1>7, <1>8, <1>9, <1>10, <1>11, <1>12, <1>13, <1>14, <1>15, <1>16,
     <1>17, <1>18, <1>19, <1>20, <1>21, <1>22, <1>23, <1>24, <1>25, <1>26, <1>27 DEF Next, Request, Produce,
     Timer, Conversation, Connection

\* Create displaces or refuses; nobody else makes a run in flight.
LEMMA NextOneInflight ==
  TypeOK /\ Producers /\ Starts /\ Retires /\ OneInflight /\ Attached /\ [Next]_vars
    => OneInflight'
<1> SUFFICES ASSUME TypeOK, Producers, Starts, Retires, OneInflight, Attached, [Next]_vars PROVE OneInflight'
  OBVIOUS
<1>1. CASE Launch
  BY <1>1 DEF Launch, MayRun, registry, threads, timers, readers, OneInflight, Producers, Starts, TypeOK,
     Registered, IsInflight, Record
<1>2. CASE RefuseLaunch
  BY <1>2 DEF RefuseLaunch, MayRun, Without, registry, threads, timers, readers, OneInflight, Producers,
     Starts, TypeOK, Registered, IsInflight, Record
<1>3. ASSUME NEW r \in Run, NEW t \in Thread, NEW strategy \in {"reject", "interrupt"},
             NEW mode \in {"cancel", "continue"}, NEW k \in Key \cup {NoKey},
             Create(r, t, strategy, mode, k)
      PROVE  OneInflight'
  <2>1. \A q \in Run \ {r} : IsInflight(q)' => IsInflight(q) /\ runs'[q].thread = runs[q].thread /\ runs[q].thread # t
    BY <1>3, Creates, Mild DEF IsInflight
  <2>2. runs'[r].thread = t
    BY <1>3, Creates
  <2> QED
    BY <2>1, <2>2 DEF OneInflight
<1>4. ASSUME NEW r \in Run, CancelRun(r)
      PROVE  OneInflight'
  <2>1. \A q \in Run : Spared(q) \/ Stopped(q)
    BY <1>4, CancelStops DEF CancelRun
  <2>2. UNCHANGED <<bridge, starting, threads, stream, readers, timers>>
    BY <1>4 DEF CancelRun
  <2>9. Shrinks
    BY <2>1, <2>2, Cancels DEF Shrinks, Producers, Spared, Stopped, IsInflight, Registered, TypeOK, threads,
       readers, timers
  <2> QED
    BY <2>9 DEF Shrinks, OneInflight
<1>5. ASSUME NEW r \in Run, Begin(r)
      PROVE  OneInflight'
  <2>1. /\ Registered(r)' /\ runs'[r].thread = runs[r].thread /\ runs'[r].status = "running"
        /\ \A q \in Run \ {r} : runs'[q] = runs[q]
    BY <1>5, Sets DEF Begin, Producers
  <2>9. Shrinks
    BY <1>5, <2>1 DEF Begin, Opened, Shrinks, Producers, IsInflight, Registered, TypeOK, threads, timers,
       readers
  <2> QED
    BY <2>9 DEF Shrinks, OneInflight
<1>6. ASSUME NEW r \in Run, NEW u \in RunStatus, Complete(r, u)
      PROVE  OneInflight'
  <2>1. PICK s \in RunStatus :
          /\ Leaves(r, s)
          /\ s \in Inflight => s = runs[r].status /\ (bridge = "redis" \/ producer[r] = "aborting")
    BY <1>6, BodyLeft
  <2>2. producer[r] \in Working /\ Registered(r)
    BY <1>6, BodyLeft
  <2>3. stream' = stream \/ stream' = Opened(r)
    BY <1>6, BodyLeft
  <2>9. Shrinks
    BY <2>1, <2>2, <2>3 DEF Leaves, Unmark, Opened, Spared, Shrinks, Producers, IsInflight, Registered,
       TypeOK, timers, readers
  <2> QED
    BY <2>9 DEF Shrinks, OneInflight
<1>7. ASSUME NEW r \in Run, Raise(r)
      PROVE  OneInflight'
  BY <1>7 DEF Raise, registry, threads, timers, readers, OneInflight, Producers, Starts, TypeOK, Registered,
     IsInflight, Record
<1>8. ASSUME NEW r \in Run, NEW u \in RunStatus, Report(r, u)
      PROVE  OneInflight'
  <2>1. PICK s \in RunStatus :
          /\ Leaves(r, s)
          /\ s \in Inflight => s = runs[r].status /\ (bridge = "redis" \/ producer[r] = "aborting")
    BY <1>8, BodyLeft
  <2>2. producer[r] \in Working /\ Registered(r)
    BY <1>8, BodyLeft
  <2>3. stream' = stream \/ stream' = Opened(r)
    BY <1>8, BodyLeft
  <2>9. Shrinks
    BY <2>1, <2>2, <2>3 DEF Leaves, Unmark, Opened, Spared, Shrinks, Producers, IsInflight, Registered,
       TypeOK, timers, readers
  <2> QED
    BY <2>9 DEF Shrinks, OneInflight
<1>9. ASSUME NEW r \in Run, ReportCancel(r)
      PROVE  OneInflight'
  <2>1. PICK s \in RunStatus :
          /\ Leaves(r, s)
          /\ s \in Inflight => s = runs[r].status /\ (bridge = "redis" \/ producer[r] = "aborting")
    BY <1>9, BodyLeft
  <2>2. producer[r] \in Working /\ Registered(r)
    BY <1>9, BodyLeft
  <2>3. stream' = stream \/ stream' = Opened(r)
    BY <1>9, BodyLeft
  <2>9. Shrinks
    BY <2>1, <2>2, <2>3 DEF Leaves, Unmark, Opened, Spared, Shrinks, Producers, IsInflight, Registered,
       TypeOK, timers, readers
  <2> QED
    BY <2>9 DEF Shrinks, OneInflight
<1>10. ASSUME NEW r \in Run, Unwind(r)
      PROVE  OneInflight'
  <2>1. PICK s \in RunStatus :
          /\ Leaves(r, s)
          /\ s \in Inflight => s = runs[r].status /\ (bridge = "redis" \/ producer[r] = "aborting")
    BY <1>10, BodyLeft
  <2>2. producer[r] \in Working /\ Registered(r)
    BY <1>10, BodyLeft
  <2>3. stream' = stream \/ stream' = Opened(r)
    BY <1>10, BodyLeft
  <2>9. Shrinks
    BY <2>1, <2>2, <2>3 DEF Leaves, Unmark, Opened, Spared, Shrinks, Producers, IsInflight, Registered,
       TypeOK, timers, readers
  <2> QED
    BY <2>9 DEF Shrinks, OneInflight
<1>11. ASSUME NEW r \in Run, Close(r)
      PROVE  OneInflight'
  BY <1>11 DEF Close, Ended, Retained, registry, threads, timers, readers, OneInflight, Producers, Starts,
     TypeOK, Registered, IsInflight, Record
<1>12. ASSUME NEW r \in Run, CloseFails(r)
      PROVE  OneInflight'
  BY <1>12 DEF CloseFails, registry, threads, timers, readers, OneInflight, Producers, Starts, TypeOK,
     Registered, IsInflight, Record
<1>13. ASSUME NEW r \in Run, GraceElapsed(r)
      PROVE  OneInflight'
  BY <1>13 DEF GraceElapsed, registry, threads, timers, readers, OneInflight, Producers, Starts, TypeOK,
     Registered, IsInflight, Record
<1>14. ASSUME NEW r \in Run, CompletedElapsed(r)
      PROVE  OneInflight'
  BY <1>14 DEF CompletedElapsed, registry, threads, timers, readers, OneInflight, Producers, Starts, TypeOK,
     Registered, IsInflight, Record
<1>15. ASSUME NEW r \in Run, MetadataElapsed(r)
      PROVE  OneInflight'
  BY <1>15 DEF MetadataElapsed, registry, threads, timers, readers, OneInflight, Producers, Starts, TypeOK,
     Registered, IsInflight, Record
<1>16. ASSUME NEW t \in Thread, NEW k \in Key \cup {NoKey}, Replay(t, k)
      PROVE  OneInflight'
  BY <1>16 DEF Replay, registry, threads, timers, readers, OneInflight, Producers, Starts, TypeOK,
     Registered, IsInflight, Record
<1>17. ASSUME NEW t \in Thread, ReserveArchive(t)
      PROVE  OneInflight'
  BY <1>17 DEF ReserveArchive, registry, threads, timers, readers, OneInflight, Producers, Starts, TypeOK,
     Registered, IsInflight, Record
<1>18. ASSUME NEW t \in Thread, ReleaseArchive(t)
      PROVE  OneInflight'
  BY <1>18 DEF ReleaseArchive, registry, threads, timers, readers, OneInflight, Producers, Starts, TypeOK,
     Registered, IsInflight, Record
<1>19. ASSUME NEW t \in Thread, DeleteThread(t)
      PROVE  OneInflight'
  BY <1>19 DEF DeleteThread, registry, threads, timers, readers, OneInflight, Producers, Starts, TypeOK,
     Registered, IsInflight, Record
<1>20. ASSUME NEW t \in Thread, ThreadDeleted(t)
      PROVE  OneInflight'
  BY <1>20 DEF ThreadDeleted, registry, threads, timers, readers, OneInflight, Producers, Starts, TypeOK,
     Registered, IsInflight, Record
<1>21. ASSUME NEW c \in Reader, NEW r \in Run, Find(c, r)
      PROVE  OneInflight'
  BY <1>21 DEF Find, registry, threads, timers, readers, OneInflight, Producers, Starts, TypeOK, Registered,
     IsInflight, Record
<1>22. ASSUME NEW c \in Reader, Attach(c)
      PROVE  OneInflight'
  BY <1>22 DEF Attach, Opened, OnLoop, registry, threads, timers, readers, OneInflight, Producers, Starts,
     TypeOK, Registered, IsInflight, Record
<1>23. ASSUME NEW c \in Reader, Leave(c)
      PROVE  OneInflight'
  BY <1>23 DEF Leave, Detach, registry, threads, timers, readers, OneInflight, Producers, Starts, TypeOK,
     Registered, IsInflight, Record
<1>24. ASSUME NEW c \in Reader, Disconnect(c)
      PROVE  OneInflight'
  <2>1. \A q \in Run : Spared(q) \/ Stopped(q)
    BY <1>24, CancelStops DEF Disconnect, Attached
  <2>2. UNCHANGED <<bridge, starting, threads, stream, completed, retire, tasks>>
    BY <1>24 DEF Disconnect, Detach
  <2>9. Shrinks
    BY <2>1, <2>2, Cancels DEF Shrinks, Producers, Spared, Stopped, IsInflight, Registered, TypeOK, threads,
       readers, timers
  <2> QED
    BY <2>9 DEF Shrinks, OneInflight
<1>25. ASSUME NEW x \in tasks, ExpireReplay(x)
      PROVE  OneInflight'
  BY <1>25 DEF ExpireReplay, registry, threads, timers, readers, OneInflight, Producers, Starts, TypeOK,
     Registered, IsInflight, Record
<1>26. ASSUME NEW x \in tasks, CleanupRun(x)
      PROVE  OneInflight'
  BY <1>26 DEF CleanupRun, Pending, Expiry, registry, threads, timers, readers, OneInflight, Producers,
     Starts, TypeOK, Registered, IsInflight, Record
<1>27. CASE UNCHANGED vars
  BY <1>27 DEF vars, registry, threads, timers, readers, OneInflight, Producers, Starts, TypeOK, Registered,
     IsInflight, Record
<1>28. QED
  BY <1>1, <1>2, <1>3, <1>4, <1>5, <1>6, <1>7, <1>8, <1>9, <1>10, <1>11, <1>12, <1>13, <1>14, <1>15, <1>16,
     <1>17, <1>18, <1>19, <1>20, <1>21, <1>22, <1>23, <1>24, <1>25, <1>26, <1>27 DEF Next, Request, Produce,
     Timer, Conversation, Connection

\* Producers start under a mark, and reservations ask for the marks.
LEMMA NextShielded ==
  TypeOK /\ Producers /\ Starts /\ Retires /\ Shielded /\ MarksCounted /\ Attached /\ [Next]_vars
    => Shielded'
<1> SUFFICES ASSUME TypeOK, Producers, Starts, Retires, Shielded, MarksCounted, Attached, [Next]_vars
             PROVE Shielded'
  OBVIOUS
<1>1. CASE Launch
  BY <1>1 DEF Launch, MayRun, registry, threads, timers, readers, Shielded, Producers, Starts, TypeOK,
     Registered, IsInflight, Record
<1>2. CASE RefuseLaunch
  BY <1>2 DEF RefuseLaunch, MayRun, Without, registry, threads, timers, readers, Shielded, Producers,
     Starts, TypeOK, Registered, IsInflight, Record
<1>3. ASSUME NEW r \in Run, NEW t \in Thread, NEW strategy \in {"reject", "interrupt"},
             NEW mode \in {"cancel", "continue"}, NEW k \in Key \cup {NoKey},
             Create(r, t, strategy, mode, k)
      PROVE  Shielded'
  BY <1>3, Creates, Cancels DEF Shielded, Producers, Spared, Stopped, IsInflight, Registered, TypeOK,
     threads, readers, timers
<1>4. ASSUME NEW r \in Run, CancelRun(r)
      PROVE  Shielded'
  <2>1. \A q \in Run : Spared(q) \/ Stopped(q)
    BY <1>4, CancelStops DEF CancelRun
  <2>2. UNCHANGED <<bridge, starting, threads, stream, readers, timers>>
    BY <1>4 DEF CancelRun
  <2> QED
    BY <2>1, <2>2, Mild DEF Shielded, Producers, threads, timers
<1>5. ASSUME NEW r \in Run, Begin(r)
      PROVE  Shielded'
  <2>1. /\ Registered(r)' /\ runs'[r].thread = runs[r].thread /\ runs'[r].status = "running"
        /\ \A q \in Run \ {r} : runs'[q] = runs[q]
    BY <1>5, Sets DEF Begin, Producers
  <2> QED
    BY <1>5, <2>1 DEF Begin, Opened, Shielded, Producers, IsInflight, Registered, TypeOK, threads, timers,
       readers
<1>6. ASSUME NEW r \in Run, NEW u \in RunStatus, Complete(r, u)
      PROVE  Shielded'
  <2>1. PICK s \in RunStatus :
          /\ Leaves(r, s)
          /\ s \in Inflight => s = runs[r].status /\ (bridge = "redis" \/ producer[r] = "aborting")
    BY <1>6, BodyLeft
  <2>2. producer[r] \in Working /\ Registered(r)
    BY <1>6, BodyLeft
  <2>3. stream' = stream \/ stream' = Opened(r)
    BY <1>6, BodyLeft
  <2> QED
    BY <2>1, <2>2, <2>3 DEF Leaves, Unmark, Opened, Spared, Shielded, Producers, IsInflight, Registered,
       TypeOK, timers, readers
<1>7. ASSUME NEW r \in Run, Raise(r)
      PROVE  Shielded'
  BY <1>7 DEF Raise, registry, threads, timers, readers, Shielded, Producers, Starts, TypeOK, Registered,
     IsInflight, Record
<1>8. ASSUME NEW r \in Run, NEW u \in RunStatus, Report(r, u)
      PROVE  Shielded'
  <2>1. PICK s \in RunStatus :
          /\ Leaves(r, s)
          /\ s \in Inflight => s = runs[r].status /\ (bridge = "redis" \/ producer[r] = "aborting")
    BY <1>8, BodyLeft
  <2>2. producer[r] \in Working /\ Registered(r)
    BY <1>8, BodyLeft
  <2>3. stream' = stream \/ stream' = Opened(r)
    BY <1>8, BodyLeft
  <2> QED
    BY <2>1, <2>2, <2>3 DEF Leaves, Unmark, Opened, Spared, Shielded, Producers, IsInflight, Registered,
       TypeOK, timers, readers
<1>9. ASSUME NEW r \in Run, ReportCancel(r)
      PROVE  Shielded'
  <2>1. PICK s \in RunStatus :
          /\ Leaves(r, s)
          /\ s \in Inflight => s = runs[r].status /\ (bridge = "redis" \/ producer[r] = "aborting")
    BY <1>9, BodyLeft
  <2>2. producer[r] \in Working /\ Registered(r)
    BY <1>9, BodyLeft
  <2>3. stream' = stream \/ stream' = Opened(r)
    BY <1>9, BodyLeft
  <2> QED
    BY <2>1, <2>2, <2>3 DEF Leaves, Unmark, Opened, Spared, Shielded, Producers, IsInflight, Registered,
       TypeOK, timers, readers
<1>10. ASSUME NEW r \in Run, Unwind(r)
      PROVE  Shielded'
  <2>1. PICK s \in RunStatus :
          /\ Leaves(r, s)
          /\ s \in Inflight => s = runs[r].status /\ (bridge = "redis" \/ producer[r] = "aborting")
    BY <1>10, BodyLeft
  <2>2. producer[r] \in Working /\ Registered(r)
    BY <1>10, BodyLeft
  <2>3. stream' = stream \/ stream' = Opened(r)
    BY <1>10, BodyLeft
  <2> QED
    BY <2>1, <2>2, <2>3 DEF Leaves, Unmark, Opened, Spared, Shielded, Producers, IsInflight, Registered,
       TypeOK, timers, readers
<1>11. ASSUME NEW r \in Run, Close(r)
      PROVE  Shielded'
  BY <1>11 DEF Close, Ended, Retained, registry, threads, timers, readers, Shielded, Producers, Starts,
     TypeOK, Registered, IsInflight, Record
<1>12. ASSUME NEW r \in Run, CloseFails(r)
      PROVE  Shielded'
  BY <1>12 DEF CloseFails, registry, threads, timers, readers, Shielded, Producers, Starts, TypeOK,
     Registered, IsInflight, Record
<1>13. ASSUME NEW r \in Run, GraceElapsed(r)
      PROVE  Shielded'
  BY <1>13 DEF GraceElapsed, registry, threads, timers, readers, Shielded, Producers, Starts, TypeOK,
     Registered, IsInflight, Record
<1>14. ASSUME NEW r \in Run, CompletedElapsed(r)
      PROVE  Shielded'
  BY <1>14 DEF CompletedElapsed, registry, threads, timers, readers, Shielded, Producers, Starts, TypeOK,
     Registered, IsInflight, Record
<1>15. ASSUME NEW r \in Run, MetadataElapsed(r)
      PROVE  Shielded'
  BY <1>15 DEF MetadataElapsed, registry, threads, timers, readers, Shielded, Producers, Starts, TypeOK,
     Registered, IsInflight, Record
<1>16. ASSUME NEW t \in Thread, NEW k \in Key \cup {NoKey}, Replay(t, k)
      PROVE  Shielded'
  BY <1>16 DEF Replay, registry, threads, timers, readers, Shielded, Producers, Starts, TypeOK, Registered,
     IsInflight, Record
<1>17. ASSUME NEW t \in Thread, ReserveArchive(t)
      PROVE  Shielded'
  BY <1>17, MarkedRuns DEF ReserveArchive, registry, Shielded, Producers, Marked, Of, Registered, TypeOK, Record
<1>18. ASSUME NEW t \in Thread, ReleaseArchive(t)
      PROVE  Shielded'
  BY <1>18 DEF ReleaseArchive, registry, threads, timers, readers, Shielded, Producers, Starts, TypeOK,
     Registered, IsInflight, Record
<1>19. ASSUME NEW t \in Thread, DeleteThread(t)
      PROVE  Shielded'
  BY <1>19, MarkedRuns DEF DeleteThread, registry, Shielded, Producers, Marked, Of, Registered, TypeOK, Record
<1>20. ASSUME NEW t \in Thread, ThreadDeleted(t)
      PROVE  Shielded'
  BY <1>20 DEF ThreadDeleted, registry, threads, timers, readers, Shielded, Producers, Starts, TypeOK,
     Registered, IsInflight, Record
<1>21. ASSUME NEW c \in Reader, NEW r \in Run, Find(c, r)
      PROVE  Shielded'
  BY <1>21 DEF Find, registry, threads, timers, readers, Shielded, Producers, Starts, TypeOK, Registered,
     IsInflight, Record
<1>22. ASSUME NEW c \in Reader, Attach(c)
      PROVE  Shielded'
  BY <1>22 DEF Attach, Opened, OnLoop, registry, threads, timers, readers, Shielded, Producers, Starts,
     TypeOK, Registered, IsInflight, Record
<1>23. ASSUME NEW c \in Reader, Leave(c)
      PROVE  Shielded'
  BY <1>23 DEF Leave, Detach, registry, threads, timers, readers, Shielded, Producers, Starts, TypeOK,
     Registered, IsInflight, Record
<1>24. ASSUME NEW c \in Reader, Disconnect(c)
      PROVE  Shielded'
  <2>1. \A q \in Run : Spared(q) \/ Stopped(q)
    BY <1>24, CancelStops DEF Disconnect, Attached
  <2>2. UNCHANGED <<bridge, starting, threads, stream, completed, retire, tasks>>
    BY <1>24 DEF Disconnect, Detach
  <2> QED
    BY <2>1, <2>2, Mild DEF Shielded, Producers, threads, timers
<1>25. ASSUME NEW x \in tasks, ExpireReplay(x)
      PROVE  Shielded'
  BY <1>25 DEF ExpireReplay, registry, threads, timers, readers, Shielded, Producers, Starts, TypeOK,
     Registered, IsInflight, Record
<1>26. ASSUME NEW x \in tasks, CleanupRun(x)
      PROVE  Shielded'
  <2>1. PICK r \in Run : r = x.run /\ producer[r] = "done"
    BY <1>26, TaskOf DEF CleanupRun, Retires, Cleanup
  <2>2. /\ \A q \in Run \ {r} : runs'[q] = runs[q]
        /\ UNCHANGED <<producer, archiving, deleting>>
    BY <1>26, <2>1 DEF CleanupRun, TypeOK, threads
  <2> QED
    BY <2>1, <2>2 DEF Shielded
<1>27. CASE UNCHANGED vars
  BY <1>27 DEF vars, registry, threads, timers, readers, Shielded, Producers, Starts, TypeOK, Registered,
     IsInflight, Record
<1>28. QED
  BY <1>1, <1>2, <1>3, <1>4, <1>5, <1>6, <1>7, <1>8, <1>9, <1>10, <1>11, <1>12, <1>13, <1>14, <1>15, <1>16,
     <1>17, <1>18, <1>19, <1>20, <1>21, <1>22, <1>23, <1>24, <1>25, <1>26, <1>27 DEF Next, Request, Produce,
     Timer, Conversation, Connection

\* A connection that left the idle phase has a run.
LEMMA NextAttached == TypeOK /\ Attached /\ [Next]_vars => Attached'
<1> SUFFICES ASSUME TypeOK, Attached, [Next]_vars PROVE Attached'
  OBVIOUS
<1>1. CASE Launch
  BY <1>1 DEF Launch, MayRun, registry, threads, timers, readers, Attached, TypeOK
<1>2. CASE RefuseLaunch
  BY <1>2 DEF RefuseLaunch, MayRun, Without, registry, threads, timers, readers, Attached, TypeOK
<1>3. ASSUME NEW r \in Run, NEW t \in Thread, NEW strategy \in {"reject", "interrupt"},
             NEW mode \in {"cancel", "continue"}, NEW k \in Key \cup {NoKey},
             Create(r, t, strategy, mode, k)
      PROVE  Attached'
  BY <1>3 DEF Create, Admitted, Displaced, InflightOn, InterruptRuns, CancelProducers, Cancelled, OnLoop,
     registry, threads, timers, readers, Attached, TypeOK
<1>4. ASSUME NEW r \in Run, CancelRun(r)
      PROVE  Attached'
  BY <1>4 DEF CancelRun, InterruptRuns, CancelProducers, Cancelled, OnLoop, registry, threads, timers,
     readers, Attached, TypeOK
<1>5. ASSUME NEW r \in Run, Begin(r)
      PROVE  Attached'
  BY <1>5 DEF Begin, SetStatus, Opened, registry, threads, timers, readers, Attached, TypeOK
<1>6. ASSUME NEW r \in Run, NEW u \in RunStatus, Complete(r, u)
      PROVE  Attached'
  BY <1>6 DEF Complete, LeaveBody, SetStatus, Unmark, Streaming, registry, threads, timers, readers,
     Attached, TypeOK
<1>7. ASSUME NEW r \in Run, Raise(r)
      PROVE  Attached'
  BY <1>7 DEF Raise, registry, threads, timers, readers, Attached, TypeOK
<1>8. ASSUME NEW r \in Run, NEW u \in RunStatus, Report(r, u)
      PROVE  Attached'
  BY <1>8 DEF Report, LeaveBody, SetStatus, Unmark, Opened, registry, threads, timers, readers, Attached, TypeOK
<1>9. ASSUME NEW r \in Run, ReportCancel(r)
      PROVE  Attached'
  BY <1>9 DEF ReportCancel, LeaveBody, SetStatus, Unmark, Opened, registry, threads, timers, readers,
     Attached, TypeOK
<1>10. ASSUME NEW r \in Run, Unwind(r)
      PROVE  Attached'
  BY <1>10 DEF Unwind, LeaveBody, SetStatus, Unmark, registry, threads, timers, readers, Attached, TypeOK
<1>11. ASSUME NEW r \in Run, Close(r)
      PROVE  Attached'
  BY <1>11 DEF Close, Ended, Retained, registry, threads, timers, readers, Attached, TypeOK
<1>12. ASSUME NEW r \in Run, CloseFails(r)
      PROVE  Attached'
  BY <1>12 DEF CloseFails, registry, threads, timers, readers, Attached, TypeOK
<1>13. ASSUME NEW r \in Run, GraceElapsed(r)
      PROVE  Attached'
  BY <1>13 DEF GraceElapsed, registry, threads, timers, readers, Attached, TypeOK
<1>14. ASSUME NEW r \in Run, CompletedElapsed(r)
      PROVE  Attached'
  BY <1>14 DEF CompletedElapsed, registry, threads, timers, readers, Attached, TypeOK
<1>15. ASSUME NEW r \in Run, MetadataElapsed(r)
      PROVE  Attached'
  BY <1>15 DEF MetadataElapsed, registry, threads, timers, readers, Attached, TypeOK
<1>16. ASSUME NEW t \in Thread, NEW k \in Key \cup {NoKey}, Replay(t, k)
      PROVE  Attached'
  BY <1>16 DEF Replay, registry, threads, timers, readers, Attached, TypeOK
<1>17. ASSUME NEW t \in Thread, ReserveArchive(t)
      PROVE  Attached'
  BY <1>17 DEF ReserveArchive, registry, threads, timers, readers, Attached, TypeOK
<1>18. ASSUME NEW t \in Thread, ReleaseArchive(t)
      PROVE  Attached'
  BY <1>18 DEF ReleaseArchive, registry, threads, timers, readers, Attached, TypeOK
<1>19. ASSUME NEW t \in Thread, DeleteThread(t)
      PROVE  Attached'
  BY <1>19 DEF DeleteThread, registry, threads, timers, readers, Attached, TypeOK
<1>20. ASSUME NEW t \in Thread, ThreadDeleted(t)
      PROVE  Attached'
  BY <1>20 DEF ThreadDeleted, registry, threads, timers, readers, Attached, TypeOK
<1>21. ASSUME NEW c \in Reader, NEW r \in Run, Find(c, r)
      PROVE  Attached'
  BY <1>21 DEF Find, registry, threads, timers, readers, Attached, TypeOK
<1>22. ASSUME NEW c \in Reader, Attach(c)
      PROVE  Attached'
  BY <1>22 DEF Attach, Opened, OnLoop, registry, threads, timers, readers, Attached, TypeOK
<1>23. ASSUME NEW c \in Reader, Leave(c)
      PROVE  Attached'
  BY <1>23 DEF Leave, Detach, registry, threads, timers, readers, Attached, TypeOK
<1>24. ASSUME NEW c \in Reader, Disconnect(c)
      PROVE  Attached'
  BY <1>24 DEF Disconnect, Detach, InterruptRuns, CancelProducers, Cancelled, registry, threads, timers,
     readers, Attached, TypeOK
<1>25. ASSUME NEW x \in tasks, ExpireReplay(x)
      PROVE  Attached'
  BY <1>25 DEF ExpireReplay, registry, threads, timers, readers, Attached, TypeOK
<1>26. ASSUME NEW x \in tasks, CleanupRun(x)
      PROVE  Attached'
  BY <1>26 DEF CleanupRun, Pending, Expiry, registry, threads, timers, readers, Attached, TypeOK
<1>27. CASE UNCHANGED vars
  BY <1>27 DEF vars, registry, threads, timers, readers, Attached, TypeOK
<1>28. QED
  BY <1>1, <1>2, <1>3, <1>4, <1>5, <1>6, <1>7, <1>8, <1>9, <1>10, <1>11, <1>12, <1>13, <1>14, <1>15, <1>16,
     <1>17, <1>18, <1>19, <1>20, <1>21, <1>22, <1>23, <1>24, <1>25, <1>26, <1>27 DEF Next, Request, Produce,
     Timer, Conversation, Connection
-----------------------------------------------------------------------------
(* The idempotency keys.                                                   *)

\* Every entry of s is one of t.
Includes(t, s) == \A i \in DOMAIN s : \E j \in DOMAIN t : t[j] = s[i]

\* What goes with a set of runs: their entries, and no other.
LEMMA WithoutEntries ==
  ASSUME NEW s \in Seq(Entry), NEW S
  PROVE  /\ Without(s, S) \in Seq(Entry)
         /\ \A i \in DOMAIN s : s[i].run \notin S => \E j \in DOMAIN Without(s, S) : Without(s, S)[j] = s[i]
<1> DEFINE P == {i \in DOMAIN s : s[i].run \notin S}
<1>1. P \in SUBSET DOMAIN s
  OBVIOUS
<1>2. /\ Kept(s, P) \in Seq(Entry)
      /\ \A i \in P : \E j \in DOMAIN Kept(s, P) : Kept(s, P)[j] = s[i]
  BY <1>1, KeptEntries
<1>3. Without(s, S) = Kept(s, P)
  BY DEF Without
<1> QED
  BY <1>2, <1>3

\* An eviction spares every entry that is not settled.
LEMMA PruneEntries ==
  ASSUME NEW s \in Seq(Entry), NEW rs
  PROVE  /\ Prune(rs, s) \in Seq(Entry)
         /\ \A i \in DOMAIN s : ~Settled(rs, s[i]) => \E j \in DOMAIN Prune(rs, s) : Prune(rs, s)[j] = s[i]
<1> DEFINE settled == {i \in DOMAIN s : Settled(rs, s[i])}
           doomed == {i \in settled : Cardinality({j \in settled : j < i}) < Len(s) - MaxEntries}
           P == DOMAIN s \ doomed
<1>1. P \in SUBSET DOMAIN s /\ \A i \in DOMAIN s : ~Settled(rs, s[i]) => i \in P
  OBVIOUS
<1>2. Prune(rs, s) = Kept(s, P)
  BY Zenon DEF Prune
<1> HIDE DEF P
<1>3. /\ Kept(s, P) \in Seq(Entry)
      /\ \A i \in P : \E j \in DOMAIN Kept(s, P) : Kept(s, P)[j] = s[i]
  BY <1>1, KeptEntries
<1> QED
  BY <1>1, <1>2, <1>3

\* A repeated request moves its entry to the end and loses none.
LEMMA ReplayEntries ==
  ASSUME NEW s \in Seq(Entry), NEW i \in DOMAIN s
  PROVE  /\ Append(RemoveAt(s, i), s[i]) \in Seq(Entry)
         /\ Includes(Append(RemoveAt(s, i), s[i]), s)
<1> DEFINE a == SubSeq(s, 1, i - 1)  b == SubSeq(s, i + 1, Len(s))  r == a \o b  t == Append(r, s[i])
<1>1. i \in 1 .. Len(s) /\ Len(s) \in Nat /\ \A k \in 1 .. Len(s) : s[k] \in Entry
  OBVIOUS
<1>2. a \in Seq(Entry) /\ Len(a) = i - 1 /\ \A k \in 1 .. i - 1 : a[k] = s[k]
  BY <1>1
<1>3. b \in Seq(Entry) /\ Len(b) = Len(s) - i /\ \A k \in 1 .. Len(s) - i : b[k] = s[i + k]
  BY <1>1
<1> HIDE DEF a, b
<1>4. /\ r \in Seq(Entry) /\ Len(r) = Len(s) - 1
      /\ \A k \in 1 .. i - 1 : r[k] = s[k]
      /\ \A k \in i .. Len(s) - 1 : r[k] = s[k + 1]
  <2>1. r \in Seq(Entry) /\ Len(r) = Len(a) + Len(b)
    <3>1. a \in Seq(Entry) /\ b \in Seq(Entry)
      BY <1>2, <1>3
    <3> QED
      BY <3>1
  <2>2. \A k \in 1 .. Len(r) : r[k] = IF k <= Len(a) THEN a[k] ELSE b[k - Len(a)]
    <3>1. a \in Seq(Entry) /\ b \in Seq(Entry) /\ Len(r) = Len(a) + Len(b)
      BY <1>2, <1>3, <2>1
    <3>2. \A k \in 1 .. Len(a) + Len(b) : r[k] = IF k <= Len(a) THEN a[k] ELSE b[k - Len(a)]
      BY <3>1
    <3> QED
      BY <3>1, <3>2
  <2>3. Len(r) = Len(s) - 1 /\ Len(a) = i - 1
    BY <1>1, <1>2, <1>3, <2>1
  <2>4. \A k \in 1 .. i - 1 : r[k] = s[k]
    BY <1>1, <1>2, <2>2, <2>3
  <2>5. ASSUME NEW k \in i .. Len(s) - 1 PROVE r[k] = s[k + 1]
    <3>1. k \in 1 .. Len(r) /\ ~(k <= Len(a)) /\ k - Len(a) \in 1 .. Len(s) - i /\ i + (k - Len(a)) = k + 1
      BY <1>1, <2>3
    <3> QED
      BY <1>3, <2>2, <3>1
  <2> QED
    BY <2>1, <2>3, <2>4, <2>5
<1> HIDE DEF r
<1>5. /\ t \in Seq(Entry) /\ Len(t) = Len(s)
      /\ t[Len(s)] = s[i]
      /\ \A k \in 1 .. i - 1 : t[k] = s[k]
      /\ \A k \in i .. Len(s) - 1 : t[k] = s[k + 1]
  BY <1>1, <1>4
<1> HIDE DEF t
<1>6. Includes(t, s)
  <2>1. DOMAIN t = 1 .. Len(s) /\ DOMAIN s = 1 .. Len(s)
    BY <1>5
  <2>2. \A k \in 1 .. Len(s) : \E j \in 1 .. Len(s) : t[j] = s[k]
    <3> SUFFICES ASSUME NEW k \in 1 .. Len(s) PROVE \E j \in 1 .. Len(s) : t[j] = s[k]
      OBVIOUS
    <3>1. CASE k < i
      <4>1. k \in 1 .. i - 1
        BY <1>1, <3>1
      <4> QED
        BY <1>5, <4>1
    <3>2. CASE k = i
      BY <1>1, <1>5, <3>2
    <3>3. CASE k > i
      <4>1. k - 1 \in i .. Len(s) - 1 /\ k - 1 \in 1 .. Len(s) /\ (k - 1) + 1 = k
        BY <1>1, <3>3
      <4> QED
        BY <1>5, <4>1
    <3> QED
      BY <1>1, <3>1, <3>2, <3>3
  <2> QED
    BY <2>1, <2>2 DEF Includes
<1>7. t = Append(RemoveAt(s, i), s[i])
  BY DEF RemoveAt, a, b, r, t
<1> QED
  BY <1>5, <1>6, <1>7

\* The table stays a sequence of entries.
LEMMA IdemTyped == TypeOK /\ [Next]_vars => idem' \in Seq(Entry)
<1> SUFFICES ASSUME TypeOK, [Next]_vars PROVE idem' \in Seq(Entry)
  OBVIOUS
<1>0. idem \in Seq(Entry)
  BY DEF TypeOK
<1>1. CASE UNCHANGED idem
  BY <1>0, <1>1
<1>2. CASE RefuseLaunch
  BY <1>0, <1>2, WithoutEntries DEF RefuseLaunch
<1>3. ASSUME NEW k \in tasks, CleanupRun(k)
      PROVE  idem' \in Seq(Entry)
  BY <1>0, <1>3, WithoutEntries DEF CleanupRun
<1>4. ASSUME NEW t \in Thread, NEW k \in Key, Replay(t, k)
      PROVE  idem' \in Seq(Entry)
  BY <1>0, <1>4, ReplayEntries DEF Replay, EntriesOf
<1>5. ASSUME NEW r \in Run, NEW t \in Thread, NEW strategy \in {"reject", "interrupt"},
             NEW mode \in {"cancel", "continue"}, NEW k \in Key \cup {NoKey}, Create(r, t, strategy, mode, k)
      PROVE  idem' \in Seq(Entry)
  <2>1. idem' = IF k = NoKey THEN idem ELSE Prune(runs', Append(idem, [thread |-> t, key |-> k, run |-> r]))
    BY <1>5 DEF Create
  <2>2. k # NoKey => Append(idem, [thread |-> t, key |-> k, run |-> r]) \in Seq(Entry)
    BY <1>0 DEF Entry
  <2> QED
    BY <1>0, <2>1, <2>2, PruneEntries
<1>6. ASSUME NEW r \in Run, Request(r) \/ Produce(r) \/ Timer(r)
      PROVE  idem' \in Seq(Entry)
  <2>1. CASE Request(r)
    BY <1>1, <1>5, <2>1 DEF Request, CancelRun
  <2>2. CASE Produce(r)
    <3>1. UNCHANGED idem
      BY <2>2 DEF Produce, Begin, Complete, Raise, Report, ReportCancel, Unwind, LeaveBody, Close,
         CloseFails, registry
    <3> QED
      BY <1>1, <3>1
  <2>3. CASE Timer(r)
    BY <1>1, <2>3 DEF Timer, GraceElapsed, CompletedElapsed, MetadataElapsed, registry
  <2> QED
    BY <1>6, <2>1, <2>2, <2>3
<1>7. ASSUME NEW t \in Thread, Conversation(t)
      PROVE  idem' \in Seq(Entry)
  BY <1>1, <1>4, <1>7 DEF Conversation, ReserveArchive, ReleaseArchive, DeleteThread, ThreadDeleted, registry
<1>8. ASSUME NEW c \in Reader, Connection(c)
      PROVE  idem' \in Seq(Entry)
  BY <1>1, <1>8 DEF Connection, Find, Attach, Leave, Disconnect, Detach, registry
<1>9. CASE Launch
  BY <1>1, <1>9 DEF Launch, registry
<1>10. ASSUME NEW k \in tasks, ExpireReplay(k)
       PROVE  idem' \in Seq(Entry)
  BY <1>1, <1>10 DEF ExpireReplay
<1>11. CASE UNCHANGED vars
  BY <1>1, <1>11 DEF vars, registry
<1> QED
  BY <1>2, <1>3, <1>6, <1>7, <1>8, <1>9, <1>10, <1>11 DEF Next

-----------------------------------------------------------------------------
(* The marks of a conversation.                                            *)

MarkedOn(t) == {r \in Run : Marked(r) /\ Of(r, t)}

\* A conversation has finitely many marked runs: there are finitely many runs.
LEMMA MarkedFinite ==
  ASSUME NEW t
  PROVE  IsFiniteSet(MarkedOn(t)) /\ Cardinality(MarkedOn(t)) \in Nat
<1>1. MarkedOn(t) \in SUBSET Run
  BY DEF MarkedOn
<1>2. IsFiniteSet(MarkedOn(t))
  BY <1>1, FS_Subset
<1> QED
  BY <1>2, FS_CardinalityType

\* Nobody gets a mark, nobody drops one.
Unmoved ==
  /\ UNCHANGED <<marks, running, archiving>>
  /\ \A q \in Run : Marked(q)' <=> Marked(q)
  /\ \A q \in Run : Marked(q) => (Registered(q)' <=> Registered(q)) /\ runs'[q].thread = runs[q].thread

LEMMA MarksKept ==
  ASSUME MarksCounted, Unmoved
  PROVE  MarksCounted'
<1>1. \A t \in Thread : MarkedOn(t)' = MarkedOn(t)
  BY DEF MarkedOn, Of, Unmoved
<1> QED
  BY <1>1 DEF MarksCounted, MarkedOn, Unmoved

\* The launch of a run adds its mark.
LEMMA MarkAdded ==
  ASSUME TypeOK, MarksCounted, Producers, Starts, Launch
  PROVE  MarksCounted'
<1>1. PICK s \in Run, t \in Thread : s = starting /\ t = runs[s].thread /\ Registered(s) /\ producer[s] = "none"
  BY DEF Launch, Starts, IsInflight, Registered, TypeOK, Record
<1>2. /\ runs' = runs /\ archiving' = archiving
      /\ producer' = [producer EXCEPT ![s] = "new"]
      /\ marks' = [marks EXCEPT ![t] = @ + 1]
      /\ running' = running \cup {t}
  BY <1>1 DEF Launch, registry
<1>3. /\ MarkedOn(t)' = MarkedOn(t) \cup {s} /\ s \notin MarkedOn(t)
      /\ \A u \in Thread \ {t} : MarkedOn(u)' = MarkedOn(u)
  <2>1. \A q \in Run \ {s} : (Marked(q)' <=> Marked(q)) /\ \A u : Of(q, u)' <=> Of(q, u)
    BY <1>2 DEF Marked, Of, Registered, TypeOK
  <2>2. Marked(s)' /\ ~Marked(s) /\ Of(s, t)' /\ \A u \in Thread \ {t} : ~Of(s, u)'
    BY <1>1, <1>2 DEF Marked, Of, Registered, TypeOK
  <2> QED
    BY <2>1, <2>2 DEF MarkedOn
<1>4. Cardinality(MarkedOn(t)') = Cardinality(MarkedOn(t)) + 1
  BY <1>3, MarkedFinite, FS_AddElement
<1>5. \A u \in Thread : marks[u] = Cardinality(MarkedOn(u)) /\ marks[u] \in Nat
  BY DEF MarksCounted, MarkedOn, TypeOK
<1>6. /\ marks'[t] = marks[t] + 1
      /\ \A u \in Thread \ {t} : marks'[u] = marks[u]
  BY <1>1, <1>2 DEF TypeOK
<1>7. \A u \in Thread : marks'[u] = Cardinality(MarkedOn(u)')
  BY <1>3, <1>4, <1>5, <1>6
<1>8. running' = {u \in Thread : marks'[u] > 0} \cup archiving'
  <2>1. \A u \in Thread : marks'[u] > 0 <=> (marks[u] > 0 \/ u = t)
    BY <1>5, <1>6
  <2> QED
    BY <1>1, <1>2, <2>1 DEF MarksCounted
<1> QED
  BY <1>7, <1>8 DEF MarksCounted, MarkedOn

\* The producer whose body is left drops its own mark.
LEMMA MarkDropped ==
  ASSUME TypeOK, MarksCounted, Producers, Shielded, NEW r \in Run, NEW s, producer[r] \in Working, Leaves(r, s)
  PROVE  MarksCounted'
<1>1. PICK t \in Thread : t = runs[r].thread /\ Registered(r)
  BY DEF Producers, Registered, TypeOK, Record
<1>2. /\ archiving' = archiving
      /\ marks' = [marks EXCEPT ![t] = IF @ > 1 THEN @ - 1 ELSE 0]
      /\ running' = IF marks[t] > 1 THEN running ELSE running \ {t}
  BY <1>1 DEF Leaves, Unmark
<1>3. /\ MarkedOn(t)' = MarkedOn(t) \ {r} /\ r \in MarkedOn(t)
      /\ \A u \in Thread \ {t} : MarkedOn(u)' = MarkedOn(u)
  <2>1. \A q \in Run \ {r} : (Marked(q)' <=> Marked(q)) /\ \A u : Of(q, u)' <=> Of(q, u)
    BY DEF Leaves, Spared, Marked, Of, Registered
  <2>2. Marked(r) /\ ~Marked(r)' /\ Of(r, t) /\ \A u \in Thread \ {t} : ~Of(r, u)
    BY <1>1 DEF Leaves, Marked, Of
  <2> QED
    BY <2>1, <2>2 DEF MarkedOn
<1>4. Cardinality(MarkedOn(t)') = Cardinality(MarkedOn(t)) - 1 /\ Cardinality(MarkedOn(t)') \in Nat
  <2>1. IsFiniteSet(MarkedOn(t)) /\ IsFiniteSet(MarkedOn(t) \ {r})
    BY MarkedFinite, FS_RemoveElement
  <2> QED
    BY <1>3, <2>1, FS_RemoveElement, FS_CardinalityType
<1>5. \A u \in Thread : marks[u] = Cardinality(MarkedOn(u)) /\ marks[u] \in Nat
  BY DEF MarksCounted, MarkedOn, TypeOK
<1>6. marks[t] >= 1 /\ marks'[t] = marks[t] - 1 /\ \A u \in Thread \ {t} : marks'[u] = marks[u]
  <2>1. marks[t] \in Nat /\ marks[t] >= 1
    BY <1>4, <1>5, MarkedFinite
  <2>2. marks'[t] = IF marks[t] > 1 THEN marks[t] - 1 ELSE 0
    BY <1>2 DEF TypeOK
  <2>3. \A u \in Thread \ {t} : marks'[u] = marks[u]
    BY <1>2 DEF TypeOK
  <2> QED
    BY <2>1, <2>2, <2>3
<1>7. \A u \in Thread : marks'[u] = Cardinality(MarkedOn(u)')
  BY <1>3, <1>4, <1>5, <1>6
<1>8. running' = {u \in Thread : marks'[u] > 0} \cup archiving'
  <2>1. t \notin archiving /\ running = {u \in Thread : marks[u] > 0} \cup archiving
    BY <1>1 DEF Shielded, MarksCounted
  <2>2. \A u \in Thread \ {t} : marks'[u] > 0 <=> marks[u] > 0
    BY <1>6
  <2>3. CASE marks[t] > 1
    <3>1. marks[t] > 0 /\ marks'[t] > 0 /\ running' = running
      BY <1>2, <1>5, <1>6, <2>3
    <3> QED
      BY <1>2, <2>1, <2>2, <3>1
  <2>4. CASE ~(marks[t] > 1)
    <3>1. ~(marks'[t] > 0) /\ running' = running \ {t}
      BY <1>2, <1>5, <1>6, <2>4
    <3> QED
      BY <1>2, <2>1, <2>2, <3>1
  <2> QED
    BY <2>3, <2>4
<1> QED
  BY <1>7, <1>8 DEF MarksCounted, MarkedOn

\* A reservation of the conversation's files is no mark.
LEMMA MarksBeside ==
  ASSUME TypeOK, MarksCounted, NEW t \in Thread, ReserveArchive(t) \/ ReleaseArchive(t)
  PROVE  MarksCounted'
<1>1. UNCHANGED <<runs, producer, marks>>
  BY DEF ReserveArchive, ReleaseArchive, registry
<1>2. \A u \in Thread : marks'[u] = Cardinality(MarkedOn(u)')
  <2>1. \A u \in Thread : MarkedOn(u)' = MarkedOn(u)
    BY <1>1 DEF MarkedOn, Marked, Of, Registered
  <2> QED
    BY <1>1, <2>1 DEF MarksCounted, MarkedOn
<1>3. running' = {u \in Thread : marks'[u] > 0} \cup archiving'
  <2>1. CASE ReserveArchive(t)
    BY <1>1, <2>1 DEF ReserveArchive, MarksCounted
  <2>2. CASE ReleaseArchive(t)
    <3>1. running = {u \in Thread : marks[u] > 0} \cup archiving /\ marks[t] \in Nat
      BY DEF MarksCounted, TypeOK
    <3>2. archiving' = archiving \ {t} /\ running' = IF marks[t] = 0 THEN running \ {t} ELSE running
      BY <2>2 DEF ReleaseArchive
    <3>3. CASE marks[t] = 0
      BY <1>1, <3>1, <3>2, <3>3
    <3>4. CASE marks[t] # 0
      <4>1. marks[t] > 0
        BY <3>1, <3>4
      <4> QED
        BY <1>1, <3>1, <3>2, <3>4, <4>1
    <3> QED
      BY <3>3, <3>4
  <2> QED
    BY <2>1, <2>2
<1> QED
  BY <1>2, <1>3 DEF MarksCounted, MarkedOn

\* Counts, flags and reservations stay in step.
LEMMA NextMarks ==
  TypeOK /\ Producers /\ Starts /\ Retires /\ Shielded /\ MarksCounted /\ Attached /\ [Next]_vars => MarksCounted'
<1> SUFFICES ASSUME TypeOK, Producers, Starts, Retires, Shielded, MarksCounted, Attached, [Next]_vars
             PROVE  MarksCounted'
  OBVIOUS
<1>0. \A q \in Run : Marked(q) => Registered(q)
  BY DEF Producers, Marked
<1>1. CASE Launch
  BY <1>1, MarkAdded
<1>2. CASE RefuseLaunch
  <2>1. Unmoved
    BY <1>2 DEF RefuseLaunch, threads, Unmoved, Marked, Registered, Starts, TypeOK
  <2> QED
    BY <2>1, MarksKept
<1>3. ASSUME NEW r \in Run, Request(r)
      PROVE  MarksCounted'
  <2>1. CASE CancelRun(r)
    <3>1. \A q \in Run : Spared(q) \/ Stopped(q)
      BY <2>1, CancelStops DEF CancelRun
    <3>2. Unmoved
      BY <1>0, <2>1, <3>1, Mild DEF CancelRun, threads, Unmoved
    <3> QED
      BY <3>2, MarksKept
  <2>2. ASSUME NEW t \in Thread, NEW strategy \in {"reject", "interrupt"}, NEW mode \in {"cancel", "continue"},
               NEW k \in Key \cup {NoKey}, Create(r, t, strategy, mode, k)
        PROVE  MarksCounted'
    <3>1. ~Marked(r) /\ ~Marked(r)'
      BY <2>2, Creates DEF Producers, Marked
    <3>2. UNCHANGED threads /\ \A q \in Run \ {r} : Spared(q) \/ Stopped(q)
      BY <2>2, Creates
    <3>3. Unmoved
      BY <1>0, <3>1, <3>2, Mild DEF threads, Unmoved
    <3> QED
      BY <3>3, MarksKept
  <2> QED
    BY <1>3, <2>1, <2>2 DEF Request
<1>4. ASSUME NEW r \in Run, Produce(r)
      PROVE  MarksCounted'
  <2>1. CASE Begin(r)
    <3>1. /\ Registered(r)' /\ runs'[r].thread = runs[r].thread
          /\ \A q \in Run \ {r} : runs'[q] = runs[q]
      BY <2>1, Sets DEF Begin, Producers
    <3>2. producer[r] = "new" /\ producer' = [producer EXCEPT ![r] = "streaming"] /\ UNCHANGED threads
      BY <2>1 DEF Begin
    <3>3. \A q \in Run : Marked(q)' <=> Marked(q)
      BY <3>2 DEF Marked, TypeOK
    <3>4. \A q \in Run : Marked(q) => (Registered(q)' <=> Registered(q)) /\ runs'[q].thread = runs[q].thread
      BY <2>1, <3>1 DEF Begin, Producers, Registered
    <3>5. Unmoved
      BY <3>2, <3>3, <3>4 DEF threads, Unmoved
    <3> QED
      BY <3>5, MarksKept
  <2>2. CASE Raise(r) \/ Close(r) \/ CloseFails(r)
    <3>1. UNCHANGED <<runs, threads>>
      BY <2>2 DEF Raise, Close, CloseFails, registry
    <3>2. \A q \in Run : Marked(q)' <=> Marked(q)
      BY <2>2 DEF Raise, Close, CloseFails, Marked, TypeOK
    <3>3. Unmoved
      BY <3>1, <3>2 DEF threads, Unmoved, Registered
    <3> QED
      BY <3>3, MarksKept
  <2>3. ASSUME NEW u \in RunStatus, Complete(r, u) \/ Report(r, u) \/ ReportCancel(r) \/ Unwind(r)
        PROVE  MarksCounted'
    <3>1. producer[r] \in Working /\ \E s \in RunStatus : Leaves(r, s)
      BY <2>3, BodyLeft
    <3> QED
      BY <3>1, MarkDropped
  <2>4. "interrupted" \in RunStatus /\ {"success", "error"} \subseteq RunStatus /\ Failure \subseteq RunStatus
    OBVIOUS
  <2> QED
    BY <1>4, <2>1, <2>2, <2>3, <2>4 DEF Produce
<1>5. ASSUME NEW r \in Run, Timer(r)
      PROVE  MarksCounted'
  <2>1. Unmoved
    BY <1>5 DEF Timer, GraceElapsed, CompletedElapsed, MetadataElapsed, registry, threads, Unmoved, Marked,
       Registered
  <2> QED
    BY <2>1, MarksKept
<1>6. ASSUME NEW t \in Thread, Conversation(t)
      PROVE  MarksCounted'
  <2>1. CASE ReserveArchive(t) \/ ReleaseArchive(t)
    BY <2>1, MarksBeside
  <2>2. CASE DeleteThread(t) \/ ThreadDeleted(t) \/ \E k \in Key : Replay(t, k)
    <3>1. Unmoved
      BY <2>2 DEF DeleteThread, ThreadDeleted, Replay, registry, threads, Unmoved, Marked, Registered
    <3> QED
      BY <3>1, MarksKept
  <2> QED
    BY <1>6, <2>1, <2>2 DEF Conversation
<1>7. ASSUME NEW c \in Reader, Connection(c)
      PROVE  MarksCounted'
  <2>1. CASE Disconnect(c)
    <3>1. \A q \in Run : Spared(q) \/ Stopped(q)
      BY <2>1, CancelStops DEF Disconnect, Attached
    <3>2. Unmoved
      BY <1>0, <2>1, <3>1, Mild DEF Disconnect, Detach, threads, Unmoved
    <3> QED
      BY <3>2, MarksKept
  <2>2. CASE Attach(c) \/ Leave(c) \/ \E r \in Run : Find(c, r)
    <3>1. Unmoved
      BY <2>2 DEF Attach, Leave, Find, Detach, registry, threads, Unmoved, Marked, Registered
    <3> QED
      BY <3>1, MarksKept
  <2> QED
    BY <1>7, <2>1, <2>2 DEF Connection
<1>8. ASSUME NEW x \in tasks, ExpireReplay(x)
      PROVE  MarksCounted'
  <2>1. \A q \in Run : Registered(q)' = Registered(q) /\ runs'[q].thread = runs[q].thread
    BY <1>8, Expires
  <2>2. Unmoved
    BY <1>8, <2>1 DEF ExpireReplay, threads, Unmoved, Marked
  <2> QED
    BY <2>2, MarksKept
<1>9. ASSUME NEW x \in tasks, CleanupRun(x)
      PROVE  MarksCounted'
  <2>1. PICK r \in Run : r = x.run /\ producer[r] = "done"
    BY <1>9, TaskOf DEF CleanupRun, Retires, Cleanup
  <2>2. /\ \A q \in Run \ {r} : runs'[q] = runs[q]
        /\ UNCHANGED <<producer, threads>>
    BY <1>9, <2>1 DEF CleanupRun, TypeOK
  <2>3. Unmoved
    BY <2>1, <2>2 DEF threads, Unmoved, Marked, Registered
  <2> QED
    BY <2>3, MarksKept
<1>10. CASE UNCHANGED vars
  <2>1. Unmoved
    BY <1>10 DEF vars, registry, threads, Unmoved, Marked, Registered
  <2> QED
    BY <2>1, MarksKept
<1> QED
  BY <1>1, <1>2, <1>3, <1>4, <1>5, <1>6, <1>7, <1>8, <1>9, <1>10 DEF Next

-----------------------------------------------------------------------------
(* Types.                                                                  *)

Records == [Run -> Record \cup {NoRun}]
Producing == [Run -> Producer]

\* Cancellations keep the types.
LEMMA InterruptTyped ==
  ASSUME TypeOK, NEW S \in SUBSET Run, \A r \in S : IsInflight(r)
  PROVE  InterruptRuns(S) \in Records /\ CancelProducers(S) \in Producing
<1>0. \A q \in Run : runs[q] \in Record \cup {NoRun} /\ producer[q] \in Producer
  BY DEF TypeOK
<1>1. \A q \in Run : InterruptRuns(S)[q] \in Record \cup {NoRun}
  <2>1. \A q \in Run : q \notin S => InterruptRuns(S)[q] = runs[q]
    BY Interrupts
  <2>2. \A q \in Run : q \in S => InterruptRuns(S)[q] \in Record
    BY Interrupts
  <2> QED
    BY <1>0, <2>1, <2>2
<1>2. \A q \in Run : CancelProducers(S)[q] \in Producer
  <2>1. \A q \in Run : CancelProducers(S)[q] \in {producer[q], Cancelled(producer[q])}
    BY DEF CancelProducers
  <2> QED
    BY <1>0, <2>1, Cancels
<1> QED
  BY <1>1, <1>2 DEF InterruptRuns, CancelProducers, Records, Producing

\* A status is set within the type.
LEMMA SetTyped ==
  ASSUME TypeOK, NEW r \in Run, Registered(r), NEW s \in RunStatus
  PROVE  SetStatus(r, s) \in Records
<1>1. runs[r] \in Record /\ \A e \in Record : [e EXCEPT !.status = s] \in Record
  BY DEF TypeOK, Registered, Record
<1> QED
  BY <1>1 DEF SetStatus, TypeOK, Records

\* Runs, producers and the run being created keep their types.
LEMMA NextRuns ==
  TypeOK /\ Producers /\ Starts /\ Attached /\ [Next]_vars
    => runs' \in Records /\ producer' \in Producing /\ starting' \in Run \cup {NoRun}
<1> DEFINE Goal == runs' \in Records /\ producer' \in Producing /\ starting' \in Run \cup {NoRun}
<1> SUFFICES ASSUME TypeOK, Producers, Starts, Attached, [Next]_vars
             PROVE  Goal
  OBVIOUS
<1>0. runs \in Records /\ producer \in Producing /\ starting \in Run \cup {NoRun}
  BY DEF TypeOK, Records, Producing
<1>1. CASE Launch
  BY <1>0, <1>1 DEF Launch, registry, Producing, Producer
<1>2. CASE RefuseLaunch
  BY <1>0, <1>2 DEF RefuseLaunch, Records
<1>3. ASSUME NEW r \in Run, Request(r)
      PROVE  Goal
  <2>1. CASE CancelRun(r)
    BY <1>0, <2>1, InterruptTyped DEF CancelRun
  <2>2. ASSUME NEW t \in Thread, NEW strategy \in {"reject", "interrupt"}, NEW mode \in {"cancel", "continue"},
               NEW k \in Key \cup {NoKey}, Create(r, t, strategy, mode, k)
        PROVE  Goal
    <3> DEFINE d == Displaced(t, strategy)
               new == [thread |-> t, status |-> "pending", mode |-> mode, expired |-> FALSE]
    <3>1. d \in SUBSET Run /\ \A q \in d : IsInflight(q)
      BY DEF Displaced, InflightOn
    <3>2. InterruptRuns(d) \in Records /\ CancelProducers(d) \in Producing
      BY <3>1, InterruptTyped
    <3>3. new \in Record
      BY DEF Record
    <3>4. /\ runs' = [InterruptRuns(d) EXCEPT ![r] = new]
          /\ producer' = [CancelProducers(d) EXCEPT ![r] = "none"]
          /\ starting' = r
      BY <2>2 DEF Create
    <3> HIDE DEF d, new
    <3> QED
      BY <3>2, <3>3, <3>4 DEF Records, Producing, Producer
  <2> QED
    BY <1>3, <2>1, <2>2 DEF Request
<1>4. ASSUME NEW r \in Run, Produce(r)
      PROVE  Goal
  <2>1. CASE Begin(r)
    <3>1. runs' \in Records
      BY <2>1, SetTyped DEF Begin, Producers
    <3> QED
      BY <1>0, <2>1, <3>1 DEF Begin, Producing, Producer
  <2>2. CASE Raise(r) \/ Close(r) \/ CloseFails(r)
    <3>1. UNCHANGED <<runs, starting>>
      BY <2>2 DEF Raise, Close, CloseFails, registry
    <3> QED
      BY <1>0, <2>2, <3>1 DEF Raise, Close, CloseFails, Producing, Producer
  <2>3. CASE \E u \in RunStatus : Complete(r, u) \/ Report(r, u) \/ ReportCancel(r) \/ Unwind(r)
    <3>1. Registered(r) /\ runs[r].status \in RunStatus
      BY <2>3, BodyLeft DEF TypeOK, Registered, Record
    <3>2. PICK s \in RunStatus : LeaveBody(r, s)
      BY <2>3, <3>1 DEF Complete, Report, ReportCancel, Unwind
    <3>3. runs' \in Records
      BY <3>1, <3>2, SetTyped DEF LeaveBody
    <3> QED
      BY <1>0, <3>2, <3>3 DEF LeaveBody, Producing, Producer
  <2> QED
    BY <1>4, <2>1, <2>2, <2>3 DEF Produce
<1>5. ASSUME NEW r \in Run, Timer(r)
      PROVE  Goal
  BY <1>0, <1>5 DEF Timer, GraceElapsed, CompletedElapsed, MetadataElapsed, registry
<1>6. ASSUME NEW t \in Thread, Conversation(t)
      PROVE  Goal
  BY <1>0, <1>6 DEF Conversation, ReserveArchive, ReleaseArchive, DeleteThread, ThreadDeleted, Replay, registry
<1>7. ASSUME NEW c \in Reader, Connection(c)
      PROVE  Goal
  <2>1. CASE Disconnect(c)
    BY <1>0, <2>1, InterruptTyped DEF Disconnect, Detach, Attached
  <2>2. CASE Attach(c) \/ Leave(c) \/ \E r \in Run : Find(c, r)
    BY <1>0, <2>2 DEF Attach, Leave, Find, Detach, registry
  <2> QED
    BY <1>7, <2>1, <2>2 DEF Connection
<1>8. ASSUME NEW x \in tasks, ExpireReplay(x)
      PROVE  Goal
  <2>1. x.run \in Run
    BY DEF TypeOK, LifecycleTask
  <2>2. Registered(x.run) => runs[x.run] \in Record /\ [runs[x.run] EXCEPT !.expired = TRUE] \in Record
    <3>1. \A e \in Record : [e EXCEPT !.expired = TRUE] \in Record
      BY DEF Record
    <3> QED
      BY <2>1, <3>1 DEF TypeOK, Registered
  <2>3. runs' \in Records
    BY <1>0, <1>8, <2>1, <2>2 DEF ExpireReplay, Records
  <2> QED
    BY <1>0, <1>8, <2>3 DEF ExpireReplay
<1>9. ASSUME NEW x \in tasks, CleanupRun(x)
      PROVE  Goal
  BY <1>0, <1>9 DEF CleanupRun, Records
<1>10. CASE UNCHANGED vars
  BY <1>0, <1>10 DEF vars, registry
<1> QED
  BY <1>1, <1>2, <1>3, <1>4, <1>5, <1>6, <1>7, <1>8, <1>9, <1>10 DEF Next

\* The marks and reservations keep their types.
LEMMA NextThreads ==
  TypeOK /\ Producers /\ Starts /\ [Next]_vars
    => marks' \in [Thread -> Nat] /\ running' \subseteq Thread /\ archiving' \subseteq Thread /\ deleting' \subseteq Thread
<1> DEFINE Goal == marks' \in [Thread -> Nat] /\ running' \subseteq Thread /\ archiving' \subseteq Thread /\ deleting' \subseteq Thread
<1> SUFFICES ASSUME TypeOK, Producers, Starts, [Next]_vars
             PROVE  Goal
  OBVIOUS
<1>0. marks \in [Thread -> Nat] /\ running \subseteq Thread /\ archiving \subseteq Thread /\ deleting \subseteq Thread
  BY DEF TypeOK
<1>1. CASE Launch
  <2>1. PICK t \in Thread : t = runs[starting].thread
    BY <1>1 DEF Launch, Starts, IsInflight, Registered, TypeOK, Record
  <2> QED
    BY <1>0, <1>1, <2>1 DEF Launch
<1>2. CASE UNCHANGED threads
  BY <1>0, <1>2 DEF threads
<1>3. ASSUME NEW r \in Run, \E u \in RunStatus : Complete(r, u) \/ Report(r, u) \/ ReportCancel(r) \/ Unwind(r)
      PROVE  Goal
  <2>1. PICK t \in Thread : t = runs[r].thread
    BY <1>3, BodyLeft DEF TypeOK, Registered, Record
  <2>2. Unmark(t)
    BY <1>3, <2>1, BodyLeft DEF Leaves
  <2>3. marks' \in [Thread -> Nat]
    BY <1>0, <2>2 DEF Unmark
  <2> QED
    BY <1>0, <2>2, <2>3 DEF Unmark
<1>4. ASSUME NEW r \in Run, Produce(r)
      PROVE  Goal
  <2>1. CASE Begin(r) \/ Raise(r) \/ Close(r) \/ CloseFails(r)
    BY <1>2, <2>1 DEF Begin, Raise, Close, CloseFails
  <2>2. "interrupted" \in RunStatus /\ {"success", "error"} \subseteq RunStatus /\ Failure \subseteq RunStatus
    OBVIOUS
  <2> QED
    BY <1>3, <1>4, <2>1, <2>2 DEF Produce
<1>5. ASSUME NEW t \in Thread, Conversation(t)
      PROVE  Goal
  BY <1>0, <1>2, <1>5 DEF Conversation, ReserveArchive, ReleaseArchive, DeleteThread, ThreadDeleted, Replay
<1>6. ASSUME NEW c \in Reader, Connection(c)
      PROVE  Goal
  BY <1>2, <1>6 DEF Connection, Find, Attach, Leave, Disconnect, Detach
<1>7. ASSUME NEW r \in Run, Request(r) \/ Timer(r)
      PROVE  Goal
  BY <1>2, <1>7 DEF Request, Create, CancelRun, Timer, GraceElapsed, CompletedElapsed, MetadataElapsed
<1>8. CASE RefuseLaunch \/ \E k \in tasks : ExpireReplay(k) \/ CleanupRun(k)
  BY <1>2, <1>8 DEF RefuseLaunch, ExpireReplay, CleanupRun
<1>9. CASE UNCHANGED vars
  BY <1>2, <1>9 DEF vars
<1> QED
  BY <1>1, <1>4, <1>5, <1>6, <1>7, <1>8, <1>9 DEF Next

Streams == [Run -> {"none", "open", "ended", "expired"}]
ReaderState == [phase : {"idle", "found", "reading", "drained"}, run : Run \cup {NoRun}]

\* The stream, its readers and the timers of the runs.
Around ==
  /\ stream \in Streams
  /\ subs \in [Run -> Nat]
  /\ reader \in [Reader -> ReaderState]
  /\ grace \subseteq Run /\ completed \subseteq Run /\ retire \subseteq Run
  /\ tasks \subseteq LifecycleTask

\* A reader that leaves keeps the types around it.
LEMMA Detaches ==
  ASSUME Around, NEW c \in Reader, NEW keep, reader[c].run \in Run, Detach(c, keep)
  PROVE  Around'
<1>1. \A n \in Nat : Remaining(n) \in Nat
  BY DEF Remaining
<1>2. subs' \in [Run -> Nat] /\ grace' \subseteq Run
  BY <1>1 DEF Detach, Around
<1>3. reader' \in [Reader -> ReaderState]
  <2>1. [phase |-> "idle", run |-> NoRun] \in ReaderState
    BY DEF ReaderState
  <2> QED
    BY <2>1 DEF Detach, Around
<1> QED
  BY <1>2, <1>3 DEF Detach, Around

\* Streams, readers and timers keep their types.
LEMMA NextAround == TypeOK /\ Attached /\ [Next]_vars => Around'
<1> SUFFICES ASSUME TypeOK, Attached, [Next]_vars
             PROVE  Around'
  OBVIOUS
<1>0. Around
  BY DEF TypeOK, Around, Streams, ReaderState
<1>1. CASE UNCHANGED <<stream, readers, timers>>
  BY <1>0, <1>1 DEF readers, timers, Around
<1>2. ASSUME NEW r \in Run, Produce(r)
      PROVE  Around'
  <2>1. \A q \in Run : Opened(q) \in Streams /\ Ended(q) \in Streams
    BY <1>0 DEF Around, Opened, Ended, Streams
  <2>2. stream' \in Streams
    BY <1>0, <1>2, <2>1
       DEF Produce, Begin, Complete, Raise, Report, ReportCancel, Unwind, LeaveBody, Close, CloseFails, Around
  <2>3. CASE Close(r)
    BY <1>0, <2>2, <2>3 DEF Close, Retained, readers, Around
  <2>4. CASE ~Close(r)
    <3>1. UNCHANGED <<readers, timers>>
      BY <1>2, <2>4 DEF Produce, Begin, Complete, Raise, Report, ReportCancel, Unwind, LeaveBody, CloseFails
    <3> QED
      BY <1>0, <2>2, <3>1 DEF readers, timers, Around
  <2> QED
    BY <2>3, <2>4
<1>3. ASSUME NEW c \in Reader, Connection(c)
      PROVE  Around'
  <2>1. ASSUME NEW r \in Run, Find(c, r)
        PROVE  Around'
    <3>1. [phase |-> "found", run |-> r] \in ReaderState
      BY DEF ReaderState
    <3> QED
      BY <1>0, <2>1, <3>1 DEF Find, timers, Around
  <2>2. CASE Attach(c)
    <3>1. PICK r \in Run : r = reader[c].run
      BY <2>2 DEF Attach, Attached
    <3>2. Opened(r) \in Streams
      BY <1>0 DEF Around, Opened, Streams
    <3>3. subs' \in [Run -> Nat] /\ stream' \in Streams /\ grace' \subseteq Run
      BY <1>0, <2>2, <3>1, <3>2 DEF Attach, Around
    <3>4. \A e \in ReaderState : [e EXCEPT !.phase = "reading"] \in ReaderState
      BY DEF ReaderState
    <3>5. reader' \in [Reader -> ReaderState]
      BY <1>0, <2>2, <3>4 DEF Attach, Around
    <3> QED
      BY <1>0, <2>2, <3>3, <3>5 DEF Attach, Around
  <2>3. CASE Leave(c)
    BY <1>0, <2>3, Detaches DEF Leave, Attached
  <2>4. CASE Disconnect(c)
    BY <1>0, <2>4, Detaches DEF Disconnect, Attached
  <2> QED
    BY <1>3, <2>1, <2>2, <2>3, <2>4 DEF Connection
<1>4. ASSUME NEW r \in Run, Timer(r)
      PROVE  Around'
  <2>1. \A kind \in Expiry \cup {"cleanup"} : [kind |-> kind, run |-> r] \in LifecycleTask
    BY DEF LifecycleTask
  <2>2. tasks' \subseteq LifecycleTask
    BY <1>0, <1>4, <2>1 DEF Timer, GraceElapsed, CompletedElapsed, MetadataElapsed, Around, Expiry
  <2> QED
    BY <1>0, <1>4, <2>2 DEF Timer, GraceElapsed, CompletedElapsed, MetadataElapsed, readers, Around
<1>5. ASSUME NEW x \in tasks, ExpireReplay(x)
      PROVE  Around'
  BY <1>0, <1>5 DEF ExpireReplay, readers, Around, Streams
<1>6. ASSUME NEW x \in tasks, CleanupRun(x)
      PROVE  Around'
  <2>1. \A e \in ReaderState : [e EXCEPT !.phase = "drained"] \in ReaderState
    BY DEF ReaderState
  <2>2. reader' \in [Reader -> ReaderState]
    BY <1>0, <1>6, <2>1 DEF CleanupRun, Around
  <2> QED
    BY <1>0, <1>6, <2>2 DEF CleanupRun, Around, Streams
<1>7. ASSUME NEW r \in Run, Request(r)
      PROVE  Around'
  BY <1>1, <1>7 DEF Request, Create, CancelRun
<1>8. ASSUME NEW t \in Thread, Conversation(t)
      PROVE  Around'
  BY <1>1, <1>8 DEF Conversation, ReserveArchive, ReleaseArchive, DeleteThread, ThreadDeleted, Replay
<1>9. CASE Launch \/ RefuseLaunch
  BY <1>1, <1>9 DEF Launch, RefuseLaunch
<1>10. CASE UNCHANGED vars
  BY <1>1, <1>10 DEF vars
<1> QED
  BY <1>2, <1>3, <1>4, <1>5, <1>6, <1>7, <1>8, <1>9, <1>10 DEF Next

LEMMA NextTyped == TypeOK /\ Producers /\ Starts /\ Attached /\ [Next]_vars => TypeOK'
<1> SUFFICES ASSUME TypeOK, Producers, Starts, Attached, [Next]_vars
             PROVE  TypeOK'
  OBVIOUS
<1>1. bridge' = bridge
  <2>0. CASE \E r \in Run : Request(r)
    BY <2>0 DEF Request, Create, CancelRun
  <2>1. CASE \E r \in Run : Timer(r)
    BY <2>1 DEF Timer, GraceElapsed, CompletedElapsed, MetadataElapsed
  <2>2. CASE \E r \in Run : Produce(r)
    BY <2>2 DEF Produce, Begin, Complete, Raise, Report, ReportCancel, Unwind, LeaveBody, Close, CloseFails
  <2>3. CASE \E t \in Thread : Conversation(t)
    BY <2>3 DEF Conversation, Replay, ReserveArchive, ReleaseArchive, DeleteThread, ThreadDeleted
  <2>4. CASE \E c \in Reader : Connection(c)
    BY <2>4 DEF Connection, Find, Attach, Leave, Disconnect, Detach
  <2>5. CASE Launch \/ RefuseLaunch \/ (\E x \in tasks : ExpireReplay(x) \/ CleanupRun(x)) \/ UNCHANGED vars
    BY <2>5 DEF Launch, RefuseLaunch, ExpireReplay, CleanupRun, vars
  <2> QED
    BY <2>0, <2>1, <2>2, <2>3, <2>4, <2>5 DEF Next
<1>2. runs' \in Records /\ producer' \in Producing /\ starting' \in Run \cup {NoRun}
  BY NextRuns
<1>3. idem' \in Seq(Entry)
  BY IdemTyped
<1>4. marks' \in [Thread -> Nat] /\ running' \subseteq Thread /\ archiving' \subseteq Thread /\ deleting' \subseteq Thread
  BY NextThreads
<1>5. Around'
  BY NextAround
<1>6. bridge \in Bridges
  BY DEF TypeOK
<1> QED
  BY <1>1, <1>2, <1>3, <1>4, <1>5, <1>6 DEF TypeOK, Around, Records, Producing, Streams, ReaderState

-----------------------------------------------------------------------------
(* The invariant, and what follows from it.                                *)

\* It holds at first, ...
LEMMA Initially == Init => IInv
<1> SUFFICES ASSUME Init PROVE IInv
  OBVIOUS
<1>1. TypeOK
  BY DEF Init, TypeOK, Producer
<1>2. Producers /\ Starts /\ Retires /\ OneInflight /\ Shielded /\ Attached
  BY DEF Init, Producers, Starts, Retires, Cleanup, OneInflight, Shielded, Attached, Registered, IsInflight
<1>3. MarksCounted
  <2>1. \A t \in Thread : {r \in Run : Marked(r) /\ Of(r, t)} = {}
    BY DEF Init, Of, Registered
  <2>2. \A t \in Thread : marks[t] = 0
    BY DEF Init
  <2>3. running = {} /\ archiving = {}
    BY DEF Init
  <2> QED
    BY <2>1, <2>2, <2>3, FS_EmptySet DEF MarksCounted
<1> QED
  BY <1>1, <1>2, <1>3 DEF IInv

\* ... every step preserves it, ...
LEMMA Inductive == IInv /\ [Next]_vars => IInv'
  BY NextTyped, NextProducers, NextStarts, NextRetires, NextOneInflight, NextShielded, NextMarks,
     NextAttached DEF IInv

\* ... and so it always holds.
LEMMA RunsSound == Spec => []IInv
  BY Initially, Inductive, PTL DEF Spec

\* Every variable keeps its type, for any number of runs and keys; the entries of
\* the idempotency table stay entries, whatever is evicted (manager.py).
THEOREM TypeCorrect == Spec => []TypeOK
<1>1. IInv => TypeOK
  BY DEF IInv
<1> QED
  BY <1>1, RunsSound, PTL

\* A conversation has one run in flight at most, and nobody deletes or archives
\* it while a producer executes for it, be it only to unwind its cancellation.
THEOREM RunsAlone == Spec => []Exclusion
<1>1. IInv => Exclusion
  <2> SUFFICES ASSUME IInv, NEW t \in Thread
               PROVE  Cardinality(InflightOn(t)) <= 1
    BY DEF IInv, Shielded, Exclusion
  <2>1. CASE InflightOn(t) = {}
    BY <2>1, FS_EmptySet
  <2>2. CASE InflightOn(t) # {}
    <3>1. PICK r : InflightOn(t) = {r}
      BY <2>2 DEF InflightOn, IInv, OneInflight
    <3>2. Cardinality({r}) = 1
      BY FS_Singleton
    <3> QED
      BY <3>1, <3>2
  <2> QED
    BY <2>1, <2>2
<1> QED
  BY <1>1, RunsSound, PTL

\* A conversation's count is the number of producers that still have to drop their
\* mark, however runs displace one another and finish late (mark_thread_done).
THEOREM CountsAreTrue == Spec => []MarksCounted
<1>1. IInv => MarksCounted
  BY DEF IInv
<1> QED
  BY <1>1, RunsSound, PTL

\* Who waits on the open stream of a registered run waits for a producer that
\* has not ended (in-memory bridge).
THEOREM SomeoneFeeds == Spec => []ReadersAreFed
<1>1. IInv => ReadersAreFed
  <2> SUFFICES ASSUME IInv, bridge = "memory", NEW c \in Reader, NEW r, r = reader[c].run,
                      reader[c].phase = "reading", stream[r] = "open", Registered(r), r # starting
               PROVE  producer[r] \in Working \cup {"closing", "unborn"}
    BY DEF ReadersAreFed
  <2>1. r \in Run
    BY DEF IInv, Attached
  <2>2. producer[r] \in Producer
    BY <2>1 DEF IInv, TypeOK
  <2>3. producer[r] # "none" /\ producer[r] # "done"
    BY <2>1 DEF IInv, Producers
  <2> QED
    BY <2>2, <2>3 DEF Producer
<1> QED
  BY <1>1, RunsSound, PTL

\* An entry of the idempotency table outlives every eviction as long as its run is
\* in flight, so that repeating the request cannot start a second run.
THEOREM KeysStay == Spec => KeysOutliveRuns
<1> DEFINE Stay == \A i \in DOMAIN idem : LET e == idem[i] IN
                     runs'[e.run] # NoRun /\ runs'[e.run].status \in Inflight
                       => \E j \in DOMAIN idem' : idem'[j] = e
<1>1. IInv /\ [Next]_vars => Stay
  <2> SUFFICES ASSUME IInv, [Next]_vars PROVE Stay
    OBVIOUS
  <2>0. idem \in Seq(Entry)
    BY DEF IInv, TypeOK
  <2>1. CASE UNCHANGED idem
    BY <2>1
  <2>2. ASSUME NEW r \in Run, runs'[r] = NoRun, idem' = Without(idem, {r})
        PROVE  Stay
    BY <2>0, <2>2, WithoutEntries
  <2>3. CASE RefuseLaunch
    <3>1. PICK r \in Run : r = starting
      BY <2>3 DEF RefuseLaunch, IInv, TypeOK
    <3>2. runs'[r] = NoRun /\ idem' = Without(idem, {r})
      BY <2>3, <3>1 DEF RefuseLaunch, IInv, TypeOK
    <3> QED
      BY <2>2, <3>2
  <2>4. ASSUME NEW x \in tasks, CleanupRun(x)
        PROVE  Stay
    <3>1. PICK r \in Run : r = x.run
      BY TaskOf DEF IInv
    <3>2. runs'[r] = NoRun /\ idem' = Without(idem, {r})
      BY <2>4, <3>1 DEF CleanupRun, IInv, TypeOK
    <3> QED
      BY <2>2, <3>2
  <2>5. ASSUME NEW t \in Thread, NEW k \in Key, Replay(t, k)
        PROVE  Stay
    <3>1. Includes(idem', idem)
      BY <2>0, <2>5, ReplayEntries DEF Replay, EntriesOf
    <3> QED
      BY <3>1 DEF Includes
  <2>6. ASSUME NEW r \in Run, NEW t \in Thread, NEW strategy \in {"reject", "interrupt"},
               NEW mode \in {"cancel", "continue"}, NEW k \in Key \cup {NoKey}, Create(r, t, strategy, mode, k)
        PROVE  Stay
    <3>1. idem' = IF k = NoKey THEN idem ELSE Prune(runs', Append(idem, [thread |-> t, key |-> k, run |-> r]))
      BY <2>6 DEF Create
    <3>2. CASE k # NoKey
      <4>1. PICK e \in Entry : e = [thread |-> t, key |-> k, run |-> r]
        BY <3>2 DEF Entry
      <4>2. /\ Append(idem, e) \in Seq(Entry)
            /\ \A i \in DOMAIN idem : i \in DOMAIN Append(idem, e) /\ Append(idem, e)[i] = idem[i]
        BY <2>0
      <4>3. idem' = Prune(runs', Append(idem, e))
        BY <3>1, <3>2, <4>1
      <4>4. PICK s \in Seq(Entry) : s = Append(idem, e)
        BY <4>2
      <4>5. \A i \in DOMAIN s : ~Settled(runs', s[i]) => \E j \in DOMAIN Prune(runs', s) : Prune(runs', s)[j] = s[i]
        BY PruneEntries
      <4>6. \A i \in DOMAIN idem : ~Settled(runs', idem[i]) => \E j \in DOMAIN idem' : idem'[j] = idem[i]
        BY <4>2, <4>3, <4>4, <4>5
      <4> QED
        BY <4>6 DEF Settled
    <3> QED
      BY <2>1, <3>1, <3>2
  <2>7. ASSUME NEW r \in Run, Request(r) \/ Produce(r) \/ Timer(r)
        PROVE  Stay
    <3>1. CASE Request(r)
      BY <2>1, <2>6, <3>1 DEF Request, CancelRun
    <3>2. CASE Produce(r)
      <4>1. UNCHANGED idem
        BY <3>2 DEF Produce, Begin, Complete, Raise, Report, ReportCancel, Unwind, LeaveBody, Close,
           CloseFails, registry
      <4> QED
        BY <2>1, <4>1
    <3>3. CASE Timer(r)
      BY <2>1, <3>3 DEF Timer, GraceElapsed, CompletedElapsed, MetadataElapsed, registry
    <3> QED
      BY <2>7, <3>1, <3>2, <3>3
  <2>8. ASSUME NEW t \in Thread, Conversation(t)
        PROVE  Stay
    BY <2>1, <2>5, <2>8 DEF Conversation, ReserveArchive, ReleaseArchive, DeleteThread, ThreadDeleted, registry
  <2>9. ASSUME NEW c \in Reader, Connection(c)
        PROVE  Stay
    BY <2>1, <2>9 DEF Connection, Find, Attach, Leave, Disconnect, Detach, registry
  <2>10. CASE Launch \/ (\E x \in tasks : ExpireReplay(x)) \/ UNCHANGED vars
    BY <2>1, <2>10 DEF Launch, ExpireReplay, vars, registry
  <2> QED
    BY <2>3, <2>4, <2>7, <2>8, <2>9, <2>10 DEF Next
<1> HIDE DEF Stay
<1>2. Spec => [][Stay]_vars
  BY <1>1, RunsSound, PTL DEF Spec
<1> QED
  BY <1>2 DEF KeysOutliveRuns, Stay

\* What was cancelled or displaced never counts as completed: only a failure while
\* it unwinds replaces the status (manager.py, the producer's error handlers).
THEOREM CancelledStaysCancelled == Spec => InterruptedStands
<1> DEFINE Stands(r) == Registered(r) /\ runs[r].status = "interrupted" =>
                          runs'[r] = NoRun \/ runs'[r].status \in {"interrupted"} \cup Failure
           Stay == \A r \in Run : Stands(r)
<1>1. IInv /\ [Next]_vars => Stay
  <2> SUFFICES ASSUME IInv, [Next]_vars, NEW r \in Run, Registered(r), runs[r].status = "interrupted"
               PROVE  runs'[r] = NoRun \/ runs'[r].status \in {"interrupted"} \cup Failure
    BY DEF Registered
  <2> DEFINE Goal == runs'[r] = NoRun \/ runs'[r].status \in {"interrupted"} \cup Failure
  <2>1. CASE runs'[r] = runs[r]
    BY <2>1
  <2>2. CASE Spared(r) \/ Stopped(r)
    BY <2>2 DEF Spared, Stopped
  <2>3. CASE UNCHANGED runs
    BY <2>1, <2>3
  <2>4. producer[r] \notin {"new", "streaming"}
    BY DEF IInv, Producers, IsInflight
  <2>5. ASSUME NEW q \in Run, Request(q)
        PROVE  Goal
    <3>1. CASE CancelRun(q)
      BY <2>2, <3>1, CancelStops DEF CancelRun, IInv
    <3>2. ASSUME NEW t \in Thread, NEW strategy \in {"reject", "interrupt"}, NEW mode \in {"cancel", "continue"},
                 NEW k \in Key \cup {NoKey}, Create(q, t, strategy, mode, k)
          PROVE  Goal
      <4>1. ~Registered(q) /\ \A p \in Run \ {q} : Spared(p) \/ Stopped(p)
        BY <3>2, Creates DEF IInv
      <4> QED
        BY <2>2, <4>1
    <3> QED
      BY <2>5, <3>1, <3>2 DEF Request
  <2>6. ASSUME NEW q \in Run, Produce(q)
        PROVE  Goal
    <3>1. ASSUME NEW s \in RunStatus, Registered(q), runs' = SetStatus(q, s),
                 q = r => s \in {"interrupted"} \cup Failure
          PROVE  Goal
      <4>1. runs'[q].status = s /\ \A p \in Run \ {q} : runs'[p] = runs[p]
        BY <3>1, Sets DEF IInv
      <4> QED
        BY <2>1, <3>1, <4>1
    <3>2. CASE Begin(q)
      BY <2>4, <3>1, <3>2 DEF Begin, IInv, Producers
    <3>3. CASE Raise(q) \/ Close(q) \/ CloseFails(q)
      BY <2>3, <3>3 DEF Raise, Close, CloseFails, registry
    <3>4. CASE \E s \in {"success", "error"} : Complete(q, s)
      BY <2>4, <3>1, <3>4 DEF Complete, Streaming, LeaveBody, IInv, Producers
    <3>5. CASE \E s \in Failure : Report(q, s)
      BY <3>1, <3>5 DEF Report, LeaveBody, IInv, Producers
    <3>6. CASE ReportCancel(q)
      BY <3>1, <3>6 DEF ReportCancel, LeaveBody, IInv, Producers
    <3>7. CASE Unwind(q)
      <4>1. Registered(q) /\ runs[q].status \in RunStatus
        BY <3>7 DEF Unwind, IInv, Producers, TypeOK, Registered, Record
      <4> QED
        BY <3>1, <3>7, <4>1 DEF Unwind, LeaveBody
    <3> QED
      BY <2>6, <3>2, <3>3, <3>4, <3>5, <3>6, <3>7 DEF Produce
  <2>7. ASSUME NEW c \in Reader, Connection(c)
        PROVE  Goal
    <3>1. CASE Disconnect(c)
      <4>1. Spared(r) \/ Stopped(r)
        BY <3>1, CancelStops DEF Disconnect, IInv, Attached
      <4> QED
        BY <2>2, <4>1
    <3>2. CASE Attach(c) \/ Leave(c) \/ \E q \in Run : Find(c, q)
      BY <2>3, <3>2 DEF Attach, Leave, Find, registry
    <3> QED
      BY <2>7, <3>1, <3>2 DEF Connection
  <2>8. ASSUME NEW q \in Run, Timer(q)
        PROVE  Goal
    BY <2>3, <2>8 DEF Timer, GraceElapsed, CompletedElapsed, MetadataElapsed, registry
  <2>9. ASSUME NEW t \in Thread, Conversation(t)
        PROVE  Goal
    BY <2>3, <2>9 DEF Conversation, ReserveArchive, ReleaseArchive, DeleteThread, ThreadDeleted, Replay,
       registry
  <2>10. ASSUME NEW x \in tasks, ExpireReplay(x)
         PROVE  Goal
    BY <2>10, Expires DEF IInv
  <2>11. ASSUME NEW x \in tasks, CleanupRun(x)
         PROVE  Goal
    BY <2>1, <2>11 DEF CleanupRun, IInv, TypeOK
  <2>12. CASE Launch \/ RefuseLaunch \/ UNCHANGED vars
    BY <2>1, <2>12 DEF Launch, RefuseLaunch, vars, registry, IInv, TypeOK
  <2> QED
    BY <2>5, <2>6, <2>7, <2>8, <2>9, <2>10, <2>11, <2>12 DEF Next
<1> HIDE DEF Stay
<1>2. Spec => [][Stay]_vars
  BY <1>1, RunsSound, PTL DEF Spec
<1> QED
  BY <1>2 DEF InterruptedStands, Stay
=============================================================================

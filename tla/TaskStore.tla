----------------------------- MODULE TaskStore -----------------------------
(* The tasks of the desktop daemon and the database behind them             *)
(* (src/desktop-app/crates/waku-core/src/daemon.rs and persistence.rs).     *)
(*                                                                          *)
(* The daemon keeps every task in memory, some with their transcript, some  *)
(* as a skeleton that says no more than a row of the task list. Transcripts *)
(* beyond a window are released and read back when they are wanted. A save  *)
(* writes only what may differ from the database, as three records say it:  *)
(* the dirty set, the set of tasks known to have a row, and, per task, the  *)
(* messages this connection last wrote. Any save may fail and is rolled     *)
(* back; the daemon may stop at any point and start again from the rows.    *)
(*                                                                          *)
(* A message is known by its position: clients that disagree about which    *)
(* message stands at a position are outside this module.                    *)
EXTENDS Naturals, FiniteSets

CONSTANTS
  Session,     \* session_id
  Body,        \* per position: the bodies a message there can have
  MaxMessages, \* bound: messages of each task
  MaxJobs,     \* bound: captures, rewinds and forks at work together
  NoTask, NoDetail

ASSUME BoundsAssumption == MaxMessages \in [Session -> Nat]

VARIABLES
  mem,       \* PersistedState.sessions
  dirty,     \* PersistedState.dirty_sessions
  persisted, \* Storage.persisted_sessions
  written,   \* Storage.written_messages: position -> body last written
  disk,      \* per task: its list row, its detail row and its message rows
  removed,   \* removed_session_ids
  jobs,      \* captures, rewinds and forks between their two locked sections
  adopted,   \* history: what was last made of each task, with every snapshot taken
  lost,      \* history: per task, the snapshots that a save over a skeleton lost
  durable    \* history: what the task was when a save last succeeded

caches == <<dirty, persisted, written>>
history == <<adopted, lost>>
vars == <<mem, dirty, persisted, written, disk, removed, jobs, adopted, lost, durable>>

Positions(s) == 1..MaxMessages[s]

\* A transcript: the body at each position.
Text(s) ==
  {t \in UNION {[1..n -> UNION {Body[p] : p \in 1..n}] : n \in 0..MaxMessages[s]} :
     \A p \in DOMAIN t : t[p] \in Body[p]}

NoText == [p \in {} |-> 0]

\* A transcript and the turns whose ending checkpoint is known.
Content(s) == {c \in [text : Text(s), checkpoints : SUBSET Positions(s)] :
                 c.checkpoints \subseteq DOMAIN c.text}

Blank == [text |-> NoText, checkpoints |-> {}]

Loaded(c) == [loaded |-> TRUE, content |-> c]
Skeleton == [loaded |-> FALSE, content |-> Blank]
Task(s) == {Loaded(c) : c \in Content(s)} \cup {Skeleton}

ASSUME NoneAssumption ==
  \A s \in Session : NoTask \notin Task(s) /\ \A c \in SUBSET Positions(s) : NoDetail # c

NoRows == [listed |-> FALSE, detail |-> NoDetail, rows |-> NoText]

Init ==
  /\ mem = [s \in Session |-> NoTask]
  /\ dirty = {}
  /\ persisted = {}
  /\ written = [s \in Session |-> NoText]
  /\ disk = [s \in Session |-> NoRows]
  /\ removed = {}
  /\ jobs = {}
  /\ adopted = [s \in Session |-> Blank]
  /\ lost = [s \in Session |-> {}]
  /\ durable = [s \in Session |-> Blank]

\* What the database holds of a task.
Stored(s) ==
  IF disk[s].detail = NoDetail
    THEN Blank
    ELSE [text |-> disk[s].rows, checkpoints |-> disk[s].detail]

\* What the daemon should still say of a task.
Without(c, x) == [c EXCEPT !.checkpoints = @ \ x]
Kept == [s \in Session |-> Without(adopted[s], lost[s])]

\* What a client that asks for the task is shown.
View(s) ==
  IF mem[s] = NoTask THEN Blank
  ELSE IF mem[s].loaded THEN mem[s].content ELSE Stored(s)

-----------------------------------------------------------------------------
(* Reading and releasing transcripts.                                       *)

\* hydrate: a skeleton is filled in from its rows.
Hydrated(t, s) == IF t.loaded THEN t ELSE Loaded(Stored(s))

\* Mutant: a transcript may be released whether or not it was saved.
IdleUnsaved(m, d) ==
  {s \in Session : m[s] # NoTask /\ m[s].loaded /\ m[s].content # Blank}

\* trim_idle_transcripts: the ones that may be released.
Idle(m, d) ==
  {s \in Session \ d : m[s] # NoTask /\ m[s].loaded /\ m[s].content # Blank}

\* Which of them fall outside the window depends on which runtimes are live
\* and on which tasks are recent: any of them.
Trimmed(m, d) ==
  {[s \in Session |-> IF s \in released THEN Skeleton ELSE m[s]] :
     released \in SUBSET Idle(m, d)}

-----------------------------------------------------------------------------
(* StateStore::save, of the tasks m of which d are dirty.                   *)

\* has_started: a draft owns no row.
Live(m) == {s \in Session : m[s] # NoTask /\ (m[s].loaded => m[s].content # Blank)}

\* Skeletons have only their list row written.
ListOnly(m, d) == {s \in Live(m) \cap d : ~m[s].loaded}
Whole(m, d) == {s \in Live(m) : m[s].loaded /\ (s \in d \/ s \notin persisted)}
Doomed(m) == persisted \ Live(m)

\* write_messages: a body the connection already wrote is passed over, and
\* the rows after the last message are deleted.
Skipped(s, text) ==
  {p \in DOMAIN text : p \in DOMAIN written[s] /\ written[s][p] = text[p]}

Rewritten(s, text) ==
  [p \in {q \in DOMAIN text : q \in DOMAIN disk[s].rows \/ q \notin Skipped(s, text)} |->
     IF p \in Skipped(s, text) THEN disk[s].rows[p] ELSE text[p]]

SaveSucceeds(m, d) ==
  /\ disk' = [s \in Session |->
       CASE s \in Whole(m, d) ->
              [listed |-> TRUE, detail |-> m[s].content.checkpoints,
               rows |-> Rewritten(s, m[s].content.text)]
         [] s \in ListOnly(m, d) -> [disk[s] EXCEPT !.listed = TRUE]
         [] s \in Doomed(m) -> NoRows
         [] OTHER -> disk[s]]
  /\ written' = [s \in Session |->
       CASE s \in Whole(m, d) -> m[s].content.text
         [] s \in Doomed(m) -> NoText
         [] OTHER -> written[s]]
  /\ persisted' = (persisted \cup Whole(m, d) \cup ListOnly(m, d)) \ Doomed(m)
  /\ dirty' = {}
  /\ durable' = Kept'

\* Mutant: the bodies are noted as written when they are, not when they last.
SaveFailsNoted(m, d) ==
  /\ \E upserted \in SUBSET (Whole(m, d) \cup ListOnly(m, d)) :
       /\ persisted' = persisted \cup upserted
       /\ written' = [s \in Session |->
            IF s \in upserted /\ m[s].loaded THEN m[s].content.text ELSE written[s]]
  /\ dirty' = d
  /\ UNCHANGED <<disk, durable>>

\* Whatever fails, the rows are rolled back and the tasks stay dirty. The set
\* of known rows has changed by then, one task after the other: those
\* upserted first, and when all of them were, those deleted.
SaveFails(m, d) ==
  /\ \E upserted \in SUBSET (Whole(m, d) \cup ListOnly(m, d)), deleted \in SUBSET Doomed(m) :
       /\ deleted # {} => upserted = Whole(m, d) \cup ListOnly(m, d)
       /\ persisted' = (persisted \cup upserted) \ deleted
       /\ written' = [s \in Session |-> IF s \in deleted THEN NoText ELSE written[s]]
  /\ dirty' = d
  /\ UNCHANGED <<disk, durable>>

\* The handlers that trim do so after a save that succeeded.
SaveAndTrim(m, d) ==
  \/ SaveSucceeds(m, d) /\ mem' \in Trimmed(m, {})
  \/ SaveFails(m, d) /\ mem' = m

Save(m, d) == mem' = m /\ (SaveSucceeds(m, d) \/ SaveFails(m, d))

-----------------------------------------------------------------------------
(* Commands of clients.                                                     *)

\* Mutant: the projection is taken with the checkpoints it happens to have.
AsProjected(s, c) == c

\* preserve_daemon_checkpoints, from a task that is resident: a skeleton has
\* none to give.
WithCheckpoints(s, c) ==
  IF mem[s] # NoTask
    THEN [c EXCEPT !.checkpoints = @ \cup (mem[s].content.checkpoints \cap DOMAIN c.text)]
    ELSE c

\* What a client may say of a task: any text it has typed or been streamed, and
\* some of the checkpoints, which only the daemon makes.
Projection(s) == {c \in Content(s) : c.checkpoints \subseteq adopted[s].checkpoints}

\* What becomes of a task when a projection of it is taken: every snapshot of
\* a turn it still has is to stay. Saved over a skeleton, those it does not
\* name itself are lost; and what was lost before may still be.
Adopts(s, c) ==
  LET all == c.checkpoints \cup (adopted[s].checkpoints \cap DOMAIN c.text)
      unnamed == all \ c.checkpoints
  IN  /\ adopted' = [adopted EXCEPT ![s] = [text |-> c.text, checkpoints |-> all]]
      /\ lost' = [lost EXCEPT ![s] = IF mem[s] = Skeleton THEN unnamed ELSE @ \cap unnamed]

\* A task becomes c, whole.
Becomes(s, c) ==
  /\ adopted' = [adopted EXCEPT ![s] = c]
  /\ lost' = [lost EXCEPT ![s] = {}]

\* Mutant: the projection of a task that was removed is taken like any other.
TakesRemoved(s, older) == ~older

Takes(s, older) == s \notin removed /\ ~older

\* SaveTaskState: a client's projection of a task replaces the daemon's or,
\* when it is found to be older, leaves the transcript alone. What decides it
\* (cursors and clocks of the clients) is left open; what the projection says
\* does not matter then, nor when the task was removed.
SaveTaskState(s, c, older) ==
  /\ older => mem[s] # NoTask /\ s \notin removed
  /\ LET taken == Takes(s, older)
         m == IF taken THEN [mem EXCEPT ![s] = Loaded(WithCheckpoints(s, c))] ELSE mem
     IN  /\ IF taken THEN Adopts(s, c) ELSE UNCHANGED history
         /\ SaveAndTrim(m, dirty \cup ({s} \ removed))
  /\ UNCHANGED <<removed, jobs>>

RemoveSession(s) ==
  /\ removed' = removed \cup {s}
  /\ Becomes(s, Blank)
  /\ Save([mem EXCEPT ![s] = NoTask], dirty)
  /\ UNCHANGED jobs

HydrateSession(s) ==
  /\ mem' \in Trimmed(IF mem[s] = NoTask
                        THEN mem
                        ELSE [mem EXCEPT ![s] = Hydrated(@, s)], dirty)
  /\ UNCHANGED <<caches, disk, removed, jobs, history, durable>>

-----------------------------------------------------------------------------
(* Jobs that look at a task, work on git or the provider without the lock,  *)
(* and come back to store what they did.                                    *)

Job == {[kind |-> "capture", session |-> s, turn |-> p] :
          s \in Session, p \in UNION {Positions(t) : t \in Session}}
       \cup UNION {{[kind |-> "edit", session |-> s, source |-> c] : c \in Content(s)} :
                    s \in Session}


\* The first section fills the task in, if it is there.
Fill(s) ==
  mem' = IF mem[s] = NoTask THEN mem ELSE [mem EXCEPT ![s] = Hydrated(@, s)]

Held(s) == IF mem[s] = NoTask THEN Blank ELSE Hydrated(mem[s], s).content

\* capture_turn_checkpoint: a checkpoint that is there is not captured again,
\* and one turn is captured by one thread at a time.
BeginCapture(s, p) ==
  LET j == [kind |-> "capture", session |-> s, turn |-> p]
  IN  /\ Cardinality(jobs) < MaxJobs
      /\ j \notin jobs
      /\ Fill(s)
      /\ jobs' = IF p \in Held(s).checkpoints THEN jobs ELSE jobs \cup {j}
      /\ UNCHANGED <<caches, disk, removed, history, durable>>

\* A rewind or a fork of a task goes by the transcript it sees now. Which of
\* the two it is matters when it is stored.
BeginEdit(s) ==
  /\ Cardinality(jobs) < MaxJobs
  /\ mem[s] # NoTask
  /\ Fill(s)
  /\ jobs' = IF Held(s) = Blank
               THEN jobs
               ELSE jobs \cup {[kind |-> "edit", session |-> s, source |-> Held(s)]}
  /\ UNCHANGED <<caches, disk, removed, history, durable>>

\* Git or the provider fails, or the task is no longer there to be rewound.
GiveUp(j) ==
  /\ jobs' = jobs \ {j}
  /\ UNCHANGED <<mem, caches, disk, removed, history, durable>>

\* The snapshot is stored if the task has the turn by now.
StoreCheckpoint(j) ==
  LET s == j.session
      c == [Held(s) EXCEPT !.checkpoints = @ \cup {j.turn}]
  IN  /\ j.kind = "capture"
      /\ jobs' = jobs \ {j}
      /\ \/ /\ j.turn \in DOMAIN Held(s).text
            /\ adopted' = [adopted EXCEPT ![s].checkpoints = @ \cup {j.turn}]
            /\ lost' = [lost EXCEPT ![s] = @ \ {j.turn}]
            /\ Save([mem EXCEPT ![s] = Loaded(c)], dirty \cup {s})
         \/ /\ j.turn \notin DOMAIN Held(s).text
            /\ Fill(s)
            /\ UNCHANGED <<caches, disk, history, durable>>
      /\ UNCHANGED removed

\* truncate_after_turn
UpTo(c, n) ==
  [text |-> [p \in DOMAIN c.text \cap 1..n |-> c.text[p]],
   checkpoints |-> c.checkpoints \cap 1..n]

\* The rewound transcript replaces whatever the task says by now.
StoreRewind(j) ==
  LET s == j.session
  IN  /\ j.kind = "edit"
      /\ mem[s] # NoTask
      /\ \E n \in DOMAIN j.source.text :
           /\ Becomes(s, UpTo(j.source, n - 1))
           /\ SaveAndTrim([mem EXCEPT ![s] = Loaded(UpTo(j.source, n - 1))], dirty \cup {s})
      /\ jobs' = jobs \ {j}
      /\ UNCHANGED removed

\* The fork is a new task t; it is taken out again if it cannot be saved.
StoreFork(j, t) ==
  /\ j.kind = "edit"
  /\ mem[t] = NoTask /\ t \notin removed \cup dirty \cup persisted
  /\ ~disk[t].listed
  /\ \E n \in DOMAIN j.source.text \cap Positions(t) :
       LET m == [mem EXCEPT ![t] = Loaded(UpTo(j.source, n))]
       IN  \/ /\ Becomes(t, UpTo(j.source, n))
              /\ SaveSucceeds(m, dirty \cup {t})
              /\ mem' \in Trimmed(m, {})
           \/ /\ SaveFails(m, dirty \cup {t})
              /\ UNCHANGED <<mem, history>>
  /\ jobs' = jobs \ {j}
  /\ UNCHANGED removed

-----------------------------------------------------------------------------
\* The daemon stops at any point; load lists what has a row.
Restart ==
  /\ mem' = [s \in Session |-> IF disk[s].listed THEN Skeleton ELSE NoTask]
  /\ persisted' = {s \in Session : disk[s].listed}
  /\ written' = [s \in Session |-> NoText]
  /\ dirty' = {}
  /\ removed' = {}
  /\ jobs' = {}
  /\ adopted' = [s \in Session |-> Stored(s)]
  /\ lost' = [s \in Session |-> {}]
  /\ UNCHANGED <<disk, durable>>

Next ==
  \/ \E s \in Session \ removed : \E c \in Projection(s) : SaveTaskState(s, c, FALSE)
  \/ \E s \in removed : SaveTaskState(s, Blank, FALSE)
  \/ \E s \in Session : SaveTaskState(s, Blank, TRUE)
  \/ \E s \in Session : RemoveSession(s) \/ HydrateSession(s) \/ BeginEdit(s)
  \/ \E s \in Session : \E p \in Positions(s) : BeginCapture(s, p)
  \/ \E j \in jobs : GiveUp(j) \/ StoreCheckpoint(j) \/ StoreRewind(j)
  \/ \E j \in jobs, t \in Session : StoreFork(j, t)
  \/ Restart

Spec == Init /\ [][Next]_vars

-----------------------------------------------------------------------------
(* Properties.                                                              *)

\* Every variable has its type, and each task is one of those its bounds allow.
TypeOK ==
  /\ mem \in [Session -> (UNION {Task(s) : s \in Session}) \cup {NoTask}]
  /\ adopted \in [Session -> UNION {Content(s) : s \in Session}]
  /\ lost \in [Session -> UNION {SUBSET Positions(s) : s \in Session}]
  /\ \A s \in Session :
       /\ mem[s] \in Task(s) \cup {NoTask}
       /\ {adopted[s], durable[s], Stored(s)} \subseteq Content(s)
       /\ lost[s] \subseteq Positions(s)
       /\ {written[s], disk[s].rows} \subseteq Text(s)
       /\ disk[s].listed \in BOOLEAN
  /\ dirty \cup persisted \cup removed \subseteq Session
  /\ jobs \subseteq Job

\* What was last made of a task, the snapshots taken meanwhile included, is what
\* the daemon answers with, whichever transcripts were released and read back,
\* whichever saves failed, and however old the projections are that clients
\* save. A transcript is only released when its rows say the same, no save of
\* a skeleton or of another task touches those rows, and a projection takes no
\* snapshot away, unless it is saved while the transcript is released.
NothingForgotten == \A s \in Session : View(s) = Kept[s]

\* The same of the snapshots without the exception: "never let that stale
\* projection erase the canonical Git snapshot". It does not hold: a snapshot is
\* stored, the transcript is released, and a projection older than the snapshot
\* is taken for the whole task.
SnapshotsKept == \A s \in Session : adopted[s].checkpoints \subseteq View(s).checkpoints

\* A transcript that a save reported as stored is in the database as it was
\* then, until another save succeeds: rows that are passed over as already
\* written really are, whatever failed and was rolled back before, and a
\* daemon that stops and starts again finds them.
AcknowledgedIsStored ==
  \A s \in Session : durable[s] # Blank => Stored(s) = durable[s]

\* A task that was removed stays out of the list for as long as the daemon
\* runs, though other clients still save it and jobs still come back to it.
RemovedStayOut == \A s \in removed : mem[s] = NoTask
=============================================================================

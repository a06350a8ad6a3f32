-------------------------- MODULE TaskStore_proofs --------------------------
(* What TaskStore promises, for any tasks, texts and numbers of jobs.       *)
(*                                                                          *)
(* The argument: the rows a save passes over are right (WrittenIsStored)    *)
(* and every task that is not dirty says what its rows say (Consistent). A  *)
(* handler first changes a task, marks it dirty and hands the new tasks to  *)
(* save; Consistent is therefore a relation of the tasks, the dirty set and *)
(* what is kept of them, which the handler establishes for the new ones and *)
(* which both outcomes of the save preserve. What is kept of a task is what *)
(* was last made of it without the snapshots lost in a save over a skeleton *)
(* (Kept): that every handler leaves a task with that is shown first.       *)
EXTENDS TaskStore, TLAPS

\* What the rows r hold of a task.
RowsOf(r, s) ==
  IF r[s].detail = NoDetail
    THEN Blank
    ELSE [text |-> r[s].rows, checkpoints |-> r[s].detail]

\* The list row and the detail row of a task come and go together.
RowsTogether(r) == \A s \in Session : r[s].listed <=> r[s].detail # NoDetail

\* What the connection believes it wrote, w, is in the rows r.
WrittenIsStored(w, r) ==
  \A s \in Session : \A p \in DOMAIN w[s] : p \in DOMAIN r[s].rows /\ r[s].rows[p] = w[s][p]

\* The tasks m, of which d are dirty, say what is kept of them, a; the clean ones
\* and the skeletons are known to have rows, and the rows say the same.
Consistent(m, d, a, known, r) ==
  \A s \in Session :
    /\ m[s] = NoTask => a[s] = Blank
    /\ m[s] # NoTask /\ m[s].loaded => m[s].content = a[s]
    /\ s \in Live(m) /\ (s \notin d \/ ~m[s].loaded) =>
         s \in known /\ r[s].listed /\ RowsOf(r, s) = a[s]

TasksOK(m) ==
  /\ m \in [Session -> (UNION {Task(s) : s \in Session}) \cup {NoTask}]
  /\ \A s \in Session : m[s] \in Task(s) \cup {NoTask}

AdoptedOK(a) ==
  /\ a \in [Session -> UNION {Content(s) : s \in Session}]
  /\ \A s \in Session : a[s] \in Content(s)

LostOK(l) ==
  /\ l \in [Session -> UNION {SUBSET Positions(s) : s \in Session}]
  /\ \A s \in Session : l[s] \subseteq Positions(s)

RowsOK(w, r) ==
  \A s \in Session :
    /\ RowsOf(r, s) \in Content(s)
    /\ {w[s], r[s].rows} \subseteq Text(s)
    /\ r[s].listed \in BOOLEAN

DurableOK(u, r) ==
  \A s \in Session : u[s] \in Content(s) /\ (u[s] # Blank => RowsOf(r, s) = u[s])

\* The parts of the state that a save has to do with.
Sound(m, d, known, w, r, a, u) ==
  /\ TasksOK(m)
  /\ d \cup known \subseteq Session
  /\ AdoptedOK(a)
  /\ RowsOK(w, r)
  /\ RowsTogether(r)
  /\ WrittenIsStored(w, r)
  /\ Consistent(m, d, a, known, r)
  /\ DurableOK(u, r)

\* What was made of the tasks, and what was lost of it, is of their kind.
HistoryOK == AdoptedOK(adopted) /\ LostOK(lost)

\* The inductive invariant.
IInv ==
  /\ Sound(mem, dirty, persisted, written, disk, Kept, durable)
  /\ HistoryOK
  /\ removed \subseteq Session
  /\ jobs \subseteq Job
  /\ RemovedStayOut

-----------------------------------------------------------------------------
(* Texts and tasks.                                                         *)

\* The empty transcript is one of every task's.
LEMMA BlankIsContent ==
  ASSUME NEW s \in Session
  PROVE  Blank \in Content(s) /\ NoText \in Text(s)
<1>1. MaxMessages[s] \in Nat
  BY BoundsAssumption
<1>2. NoText \in [1..0 -> UNION {Body[p] : p \in 1..0}]
  BY DEF NoText
<1>3. NoText \in Text(s)
  BY <1>1, <1>2 DEF Text, NoText
<1>. QED
  BY <1>3 DEF Content, Blank

\* A transcript cut after n messages is a transcript of any task that has
\* room for as many.
LEMMA UpToIsContent ==
  ASSUME NEW s \in Session, NEW t \in Session, NEW c \in Content(s), NEW n \in Nat,
         s = t \/ n <= MaxMessages[t]
  PROVE  UpTo(c, n) \in Content(t)
<1>1. MaxMessages[s] \in Nat /\ MaxMessages[t] \in Nat
  BY BoundsAssumption
<1>2. PICK k \in 0..MaxMessages[s] : c.text \in [1..k -> UNION {Body[p] : p \in 1..k}]
  BY DEF Content, Text
<1>3. \A p \in DOMAIN c.text : c.text[p] \in Body[p]
  BY DEF Content, Text
<1>. DEFINE i == IF n < k THEN n ELSE k
<1>4. i \in 0..MaxMessages[t] /\ (DOMAIN c.text) \cap 1..n = 1..i
  <2>1. DOMAIN c.text = 1..k
    BY <1>2
  <2>2. i \in Nat /\ i <= MaxMessages[t]
    BY <1>1
  <2>3. (1..k) \cap (1..n) = 1..i
    OBVIOUS
  <2>. QED
    BY <2>1, <2>2, <2>3
<1>5. UpTo(c, n).text \in [1..i -> UNION {Body[p] : p \in 1..i}]
  BY <1>3, <1>4 DEF UpTo
<1>6. UpTo(c, n).text \in Text(t)
  BY <1>3, <1>4, <1>5 DEF Text, UpTo
<1>7. c.checkpoints \subseteq DOMAIN c.text
  BY DEF Content
<1>8. UpTo(c, n).checkpoints \subseteq 1..i
  BY <1>4, <1>7 DEF UpTo
<1>9. 1..i \subseteq Positions(t)
  BY <1>1, <1>4 DEF Positions
<1>. QED
  BY <1>4, <1>5, <1>6, <1>8, <1>9 DEF Content, UpTo

\* Checkpoints of turns a transcript has may be added to it.
LEMMA CheckpointsAreContent ==
  ASSUME NEW s \in Session, NEW c \in Content(s), NEW x \in SUBSET DOMAIN c.text
  PROVE  [c EXCEPT !.checkpoints = @ \cup x] \in Content(s)
<1>1. MaxMessages[s] \in Nat
  BY BoundsAssumption
<1>2. PICK k \in 0..MaxMessages[s] : c.text \in [1..k -> UNION {Body[p] : p \in 1..k}]
  BY DEF Content, Text
<1>3. DOMAIN c.text \subseteq Positions(s)
  BY <1>1, <1>2 DEF Positions
<1>. QED
  BY <1>3 DEF Content

\* Only the checkpoints of a content change with them.
LEMMA ContentForm ==
  ASSUME NEW s \in Session, NEW c \in Content(s), NEW y
  PROVE  [c EXCEPT !.checkpoints = y] = [text |-> c.text, checkpoints |-> y]
<1>1. c \in [text : Text(s), checkpoints : SUBSET Positions(s)]
  BY DEF Content
<1>. QED
  BY <1>1

\* A task is a skeleton or resident, and is not the absence of one.
LEMMA TaskForms ==
  ASSUME NEW s \in Session, NEW t \in Task(s)
  PROVE  /\ t # NoTask
         /\ t.loaded \in BOOLEAN
         /\ t.content \in Content(s)
         /\ t.loaded => t = Loaded(t.content)
         /\ ~t.loaded => t = Skeleton
<1>1. t # NoTask
  BY NoneAssumption
<1>2. CASE t = Skeleton
  BY <1>1, <1>2, BlankIsContent DEF Skeleton
<1>3. CASE \E c \in Content(s) : t = Loaded(c)
  BY <1>1, <1>3 DEF Loaded
<1>. QED
  BY <1>2, <1>3 DEF Task

\* A resident transcript is a task.
LEMMA LoadedIsTask ==
  ASSUME NEW s \in Session, NEW c \in Content(s)
  PROVE  /\ Loaded(c) \in Task(s)
         /\ Loaded(c).loaded
         /\ Loaded(c).content = c
BY DEF Loaded, Task

\* A skeleton is a task.
LEMMA SkeletonIsTask ==
  ASSUME NEW s \in Session
  PROVE  Skeleton \in Task(s) /\ ~Skeleton.loaded
BY DEF Skeleton, Task

\* Jobs work on a task; those that edit it hold a transcript of it.
LEMMA JobForms ==
  ASSUME NEW j \in Job
  PROVE  /\ j.session \in Session
         /\ j.kind = "edit" => j.source \in Content(j.session)
         /\ j.kind = "capture" => j.turn \in Nat
<1>1. CASE \E s \in Session, p \in UNION {Positions(t) : t \in Session} :
             j = [kind |-> "capture", session |-> s, turn |-> p]
  <2>1. \A t \in Session : Positions(t) \subseteq Nat
    BY BoundsAssumption DEF Positions
  <2>. QED
    BY <1>1, <2>1
<1>2. CASE \E s \in Session : \E c \in Content(s) :
             j = [kind |-> "edit", session |-> s, source |-> c]
  BY <1>2
<1>. QED
  BY <1>1, <1>2 DEF Job

-----------------------------------------------------------------------------
(* Saving and trimming.                                                     *)

\* A rewritten transcript is the transcript: what was passed over was there.
LEMMA RewrittenIsText ==
  ASSUME NEW s \in Session, NEW text \in Text(s), WrittenIsStored(written, disk)
  PROVE  Rewritten(s, text) = text
<1>1. PICK k \in 0..MaxMessages[s] : text \in [1..k -> UNION {Body[p] : p \in 1..k}]
  BY DEF Text
<1>2. \A p \in Skipped(s, text) : p \in DOMAIN disk[s].rows /\ disk[s].rows[p] = text[p]
  BY DEF Skipped, WrittenIsStored
<1>3. {q \in DOMAIN text : q \in DOMAIN disk[s].rows \/ q \notin Skipped(s, text)} = DOMAIN text
  BY <1>2
<1>4. Rewritten(s, text) = [p \in DOMAIN text |-> text[p]]
  BY <1>2, <1>3 DEF Rewritten
<1>. QED
  BY <1>1, <1>4

\* A save that succeeds leaves every task that is live in its rows, as kept.
LEMMA SaveSucceedsKeeps ==
  ASSUME NEW m, NEW d, NEW a, TasksOK(m), persisted \subseteq Session,
         RowsOK(written, disk), RowsTogether(disk), WrittenIsStored(written, disk),
         Consistent(m, d, a, persisted, disk), SaveSucceeds(m, d)
  PROVE  /\ RowsOK(written', disk')
         /\ RowsTogether(disk')
         /\ WrittenIsStored(written', disk')
         /\ Consistent(m, {}, a, persisted', disk')
         /\ \A s \in Session : a[s] # Blank => RowsOf(disk', s) = a[s]
         /\ persisted' \subseteq Session
<1>. SUFFICES ASSUME NEW s \in Session
     PROVE  /\ RowsOf(disk', s) \in Content(s)
            /\ {written'[s], disk'[s].rows} \subseteq Text(s)
            /\ disk'[s].listed \in BOOLEAN
            /\ disk'[s].listed <=> disk'[s].detail # NoDetail
            /\ \A p \in DOMAIN written'[s] :
                 p \in DOMAIN disk'[s].rows /\ disk'[s].rows[p] = written'[s][p]
            /\ s \in Live(m) =>
                 s \in persisted' /\ disk'[s].listed /\ RowsOf(disk', s) = a[s]
            /\ s \notin Live(m) => a[s] = Blank
  <2>1. persisted' \subseteq Session
    BY DEF SaveSucceeds, Whole, ListOnly, Live
  <2>2. \A s \in Session : (m[s] = NoTask => a[s] = Blank)
                           /\ (m[s] # NoTask /\ m[s].loaded => m[s].content = a[s])
    BY DEF Consistent
  <2>. QED
    BY <2>1, <2>2 DEF RowsOK, RowsTogether, WrittenIsStored, Consistent
<1>. DEFINE kept == disk'[s] = disk[s] /\ written'[s] = written[s]
<1>1. s \notin Live(m) => a[s] = Blank
  BY DEF Consistent, Live
<1>2. CASE s \in Whole(m, d)
  <2>1. m[s] \in Task(s) /\ m[s].loaded /\ s \in Live(m)
    BY <1>2 DEF Whole, Live, TasksOK
  <2>0. s \notin ListOnly(m, d) /\ s \notin Doomed(m)
    BY <2>1 DEF ListOnly, Doomed
  <2>2. m[s].content \in Content(s) /\ m[s].content = a[s]
    BY <2>1, TaskForms DEF Consistent
  <2>3. m[s].content.text \in Text(s) /\ m[s].content.checkpoints \in SUBSET Positions(s)
        /\ m[s].content = [text |-> m[s].content.text, checkpoints |-> m[s].content.checkpoints]
    BY <2>2 DEF Content
  <2>4. Rewritten(s, m[s].content.text) = m[s].content.text
    BY <2>3, RewrittenIsText
  <2>5. disk'[s] = [listed |-> TRUE, detail |-> m[s].content.checkpoints,
                    rows |-> m[s].content.text]
    BY <1>2, <2>0, <2>4 DEF SaveSucceeds
  <2>6. written'[s] = m[s].content.text
    BY <1>2, <2>0 DEF SaveSucceeds
  <2>7. disk'[s].detail # NoDetail
    BY <2>3, <2>5, NoneAssumption
  <2>8. RowsOf(disk', s) = m[s].content
    BY <2>3, <2>5, <2>7 DEF RowsOf
  <2>9. s \in persisted'
    BY <1>2, <2>1 DEF SaveSucceeds, Doomed
  <2>. QED
    BY <1>1, <2>1, <2>2, <2>3, <2>5, <2>6, <2>7, <2>8, <2>9
<1>3. CASE s \in ListOnly(m, d)
  <2>1. s \in Live(m) /\ ~m[s].loaded /\ s \notin Whole(m, d) /\ s \notin Doomed(m)
    BY <1>3 DEF ListOnly, Whole, Doomed
  <2>2. s \in persisted /\ disk[s].listed /\ RowsOf(disk, s) = a[s]
    BY <2>1 DEF Consistent
  <2>3. disk'[s] = [disk[s] EXCEPT !.listed = TRUE]
    BY <1>3, <2>1 DEF SaveSucceeds
  <2>4. disk'[s].detail = disk[s].detail /\ disk'[s].rows = disk[s].rows
    BY <2>3
  <2>5. disk'[s].listed /\ disk[s].detail # NoDetail
    BY <2>2, <2>3 DEF RowsTogether, RowsOK
  <2>6. written'[s] = written[s] /\ s \in persisted'
    BY <2>1, <2>2 DEF SaveSucceeds, Doomed
  <2>7. RowsOf(disk', s) = RowsOf(disk, s)
    BY <2>4 DEF RowsOf
  <2>. QED
    BY <1>1, <2>2, <2>4, <2>5, <2>6, <2>7 DEF RowsOK, WrittenIsStored
<1>4. CASE s \in Doomed(m)
  <2>1. s \notin Live(m) /\ s \notin Whole(m, d) /\ s \notin ListOnly(m, d)
    BY <1>4 DEF Doomed, Whole, ListOnly
  <2>2. disk'[s] = NoRows /\ written'[s] = NoText
    BY <1>4, <2>1 DEF SaveSucceeds
  <2>3. RowsOf(disk', s) = Blank
    BY <2>2 DEF RowsOf, NoRows
  <2>. QED
    BY <1>1, <2>1, <2>2, <2>3, BlankIsContent DEF NoRows, NoText
<1>5. CASE s \notin Whole(m, d) \cup ListOnly(m, d) \cup Doomed(m)
  <2>1. kept /\ (s \in persisted' <=> s \in persisted)
    BY <1>5 DEF SaveSucceeds
  <2>2. RowsOf(disk', s) = RowsOf(disk, s)
    BY <2>1 DEF RowsOf
  <2>3. s \in Live(m) => (s \notin d \/ ~m[s].loaded)
    BY <1>5 DEF Whole
  <2>4. s \in Live(m) => s \in persisted /\ disk[s].listed /\ RowsOf(disk, s) = a[s]
    BY <2>3 DEF Consistent
  <2>. QED
    BY <1>1, <2>1, <2>2, <2>4 DEF RowsOK, RowsTogether, WrittenIsStored
<1>. QED
  BY <1>2, <1>3, <1>4, <1>5

\* A save that fails loses track of no task that is live.
LEMMA SaveFailsKeeps ==
  ASSUME NEW m, NEW d, NEW a, persisted \subseteq Session,
         RowsOK(written, disk), WrittenIsStored(written, disk),
         Consistent(m, d, a, persisted, disk), SaveFails(m, d)
  PROVE  /\ RowsOK(written', disk)
         /\ WrittenIsStored(written', disk)
         /\ Consistent(m, d, a, persisted', disk)
         /\ persisted' \subseteq Session
<1>1. PICK upserted \in SUBSET (Whole(m, d) \cup ListOnly(m, d)), deleted \in SUBSET Doomed(m) :
        /\ persisted' = (persisted \cup upserted) \ deleted
        /\ written' = [s \in Session |-> IF s \in deleted THEN NoText ELSE written[s]]
  BY DEF SaveFails
<1>2. \A s \in Live(m) : s \in persisted => s \in persisted'
  BY <1>1 DEF Doomed
<1>3. \A s \in Session : written'[s] = NoText \/ written'[s] = written[s]
  BY <1>1
<1>4. DOMAIN NoText = {}
  BY DEF NoText
<1>5. RowsOK(written', disk)
  BY <1>3, BlankIsContent DEF RowsOK
<1>6. WrittenIsStored(written', disk)
  BY <1>3, <1>4 DEF WrittenIsStored
<1>7. Consistent(m, d, a, persisted', disk)
  BY <1>2 DEF Consistent
<1>8. persisted' \subseteq Session
  BY <1>1 DEF Whole, ListOnly, Live
<1>. QED
  BY <1>5, <1>6, <1>7, <1>8

\* Released transcripts are in their rows.
LEMMA TrimKeeps ==
  ASSUME NEW m, NEW d, NEW a, NEW known, NEW r, NEW n \in Trimmed(m, d),
         TasksOK(m), Consistent(m, d, a, known, r)
  PROVE  /\ TasksOK(n)
         /\ Consistent(n, d, a, known, r)
         /\ \A s \in Session : m[s] = NoTask <=> n[s] = NoTask
<1>1. PICK released \in SUBSET Idle(m, d) :
        n = [s \in Session |-> IF s \in released THEN Skeleton ELSE m[s]]
  BY DEF Trimmed
<1>2. ASSUME NEW s \in Session
      PROVE  /\ n[s] \in Task(s) \cup {NoTask}
             /\ m[s] = NoTask <=> n[s] = NoTask
             /\ n[s] = NoTask => a[s] = Blank
             /\ n[s] # NoTask /\ n[s].loaded => n[s].content = a[s]
             /\ s \in Live(n) /\ (s \notin d \/ ~n[s].loaded) =>
                  s \in known /\ r[s].listed /\ RowsOf(r, s) = a[s]
  <2>1. CASE s \in released
    <3>1. n[s] = Skeleton /\ s \in Idle(m, d)
      BY <1>1, <2>1
    <3>2. Skeleton \in Task(s) /\ ~Skeleton.loaded /\ Skeleton # NoTask
      BY SkeletonIsTask, TaskForms
    <3>3. s \in Live(m) /\ s \notin d /\ m[s] # NoTask
      BY <3>1 DEF Idle, Live
    <3>4. s \in known /\ r[s].listed /\ RowsOf(r, s) = a[s]
      BY <3>3 DEF Consistent
    <3>. QED
      BY <3>1, <3>2, <3>3, <3>4
  <2>2. CASE s \notin released
    <3>1. n[s] = m[s]
      BY <1>1, <2>2
    <3>2. s \in Live(n) <=> s \in Live(m)
      BY <3>1 DEF Live
    <3>. QED
      BY <3>1, <3>2 DEF Consistent, TasksOK
  <2>. QED
    BY <2>1, <2>2
<1>3. n \in [Session -> (UNION {Task(s) : s \in Session}) \cup {NoTask}]
  BY <1>1, <1>2
<1>. QED
  BY <1>2, <1>3 DEF TasksOK, Consistent

-----------------------------------------------------------------------------
(* What the handlers do to what is kept of the tasks.                       *)

\* A task of which b was made and x lost is kept as b without x.
LEMMA KeptOf ==
  ASSUME HistoryOK, NEW s \in Session, NEW b \in Content(s), NEW x \in SUBSET Positions(s),
         adopted' = [adopted EXCEPT ![s] = b], lost' = [lost EXCEPT ![s] = x]
  PROVE  HistoryOK' /\ Kept' = [Kept EXCEPT ![s] = Without(b, x)]
<1>1. /\ adopted'[s] = b /\ lost'[s] = x
      /\ \A t \in Session \ {s} : adopted'[t] = adopted[t] /\ lost'[t] = lost[t]
  BY DEF HistoryOK, AdoptedOK, LostOK
<1>2. AdoptedOK(adopted)'
  BY <1>1 DEF HistoryOK, AdoptedOK
<1>3. LostOK(lost)'
  BY <1>1 DEF HistoryOK, LostOK
<1>4. Kept' = [t \in Session |-> Without(adopted'[t], lost'[t])]
  BY DEF Kept
<1>5. [Kept EXCEPT ![s] = Without(b, x)] =
        [t \in Session |-> IF t = s THEN Without(b, x) ELSE Without(adopted[t], lost[t])]
  BY Zenon DEF Kept
<1>6. \A t \in Session : Without(adopted'[t], lost'[t]) =
                         IF t = s THEN Without(b, x) ELSE Without(adopted[t], lost[t])
  BY <1>1
<1>7. Kept' = [Kept EXCEPT ![s] = Without(b, x)]
  BY <1>4, <1>5, <1>6
<1>. QED
  BY <1>2, <1>3, <1>7 DEF HistoryOK

\* What is kept of a task is a content of it.
LEMMA KeptOK ==
  ASSUME HistoryOK
  PROVE  /\ AdoptedOK(Kept)
         /\ \A s \in Session : /\ Kept[s].text = adopted[s].text
                               /\ Kept[s].checkpoints = adopted[s].checkpoints \ lost[s]
<1>1. ASSUME NEW s \in Session
      PROVE  /\ Kept[s] \in Content(s)
             /\ Kept[s].text = adopted[s].text
             /\ Kept[s].checkpoints = adopted[s].checkpoints \ lost[s]
  <2>1. Kept[s] = [adopted[s] EXCEPT !.checkpoints = @ \ lost[s]]
    BY DEF Kept, Without
  <2>2. adopted[s] \in Content(s)
    BY DEF HistoryOK, AdoptedOK
  <2>. QED
    BY <2>1, <2>2 DEF Content
<1>2. Kept = [s \in Session |-> Kept[s]]
  BY DEF Kept
<1>. QED
  BY <1>1, <1>2 DEF AdoptedOK

\* A history that stays keeps what it keeps.
LEMMA HistoryStays ==
  ASSUME HistoryOK, UNCHANGED history
  PROVE  HistoryOK' /\ Kept' = Kept
BY DEF HistoryOK, AdoptedOK, LostOK, Kept, history

\* A task becomes what it is to become.
LEMMA BecomesKept ==
  ASSUME HistoryOK, NEW s \in Session, NEW c \in Content(s), Becomes(s, c)
  PROVE  HistoryOK' /\ Kept' = [Kept EXCEPT ![s] = c]
<1>1. Without(c, {}) = c
  BY DEF Without, Content
<1>2. adopted' = [adopted EXCEPT ![s] = c] /\ lost' = [lost EXCEPT ![s] = {}]
  BY DEF Becomes
<1>3. {} \in SUBSET Positions(s)
  OBVIOUS
<1>4. HistoryOK' /\ Kept' = [Kept EXCEPT ![s] = Without(c, {})]
  BY <1>2, <1>3, KeptOf
<1>. QED
  BY <1>1, <1>4

-----------------------------------------------------------------------------
(* What the handlers do to the tasks before they save.                      *)

\* A task takes on a content: it is dirty from then on.
LEMMA TakingKeeps ==
  ASSUME NEW s \in Session, NEW c \in Content(s),
         Sound(mem, dirty, persisted, written, disk, Kept, durable)
  PROVE  Sound([mem EXCEPT ![s] = Loaded(c)], dirty \cup {s}, persisted, written, disk,
               [Kept EXCEPT ![s] = c], durable)
<1>. DEFINE m == [mem EXCEPT ![s] = Loaded(c)]
            a == [Kept EXCEPT ![s] = c]
<1>1. /\ m[s] = Loaded(c) /\ a[s] = c
      /\ \A t \in Session \ {s} : m[t] = mem[t] /\ a[t] = Kept[t]
  BY DEF Sound, TasksOK, AdoptedOK
<1>2. Loaded(c) \in Task(s) /\ Loaded(c).loaded /\ Loaded(c).content = c /\ Loaded(c) # NoTask
  BY LoadedIsTask, TaskForms
<1>3. TasksOK(m)
  BY <1>1, <1>2 DEF Sound, TasksOK
<1>4. AdoptedOK(a)
  BY <1>1 DEF Sound, AdoptedOK
<1>5. Consistent(m, dirty \cup {s}, a, persisted, disk)
  <2>. SUFFICES ASSUME NEW t \in Session
       PROVE  /\ m[t] = NoTask => a[t] = Blank
              /\ m[t] # NoTask /\ m[t].loaded => m[t].content = a[t]
              /\ t \in Live(m) /\ (t \notin dirty \cup {s} \/ ~m[t].loaded) =>
                   t \in persisted /\ disk[t].listed /\ RowsOf(disk, t) = a[t]
    BY DEF Consistent
  <2>1. CASE t = s
    BY <1>1, <1>2, <2>1
  <2>2. CASE t # s
    <3>1. m[t] = mem[t] /\ a[t] = Kept[t] /\ (t \in Live(m) <=> t \in Live(mem))
      BY <1>1, <2>2 DEF Live
    <3>. QED
      BY <2>2, <3>1 DEF Sound, Consistent
  <2>. QED
    BY <2>1, <2>2
<1>. QED
  BY <1>3, <1>4, <1>5 DEF Sound

\* A task is taken out of the list.
LEMMA RemovingKeeps ==
  ASSUME NEW s \in Session,
         Sound(mem, dirty, persisted, written, disk, Kept, durable)
  PROVE  Sound([mem EXCEPT ![s] = NoTask], dirty, persisted, written, disk,
               [Kept EXCEPT ![s] = Blank], durable)
<1>. DEFINE m == [mem EXCEPT ![s] = NoTask]
            a == [Kept EXCEPT ![s] = Blank]
<1>1. /\ m[s] = NoTask /\ a[s] = Blank
      /\ \A t \in Session \ {s} : m[t] = mem[t] /\ a[t] = Kept[t]
  BY DEF Sound, TasksOK, AdoptedOK
<1>2. TasksOK(m)
  BY <1>1 DEF Sound, TasksOK
<1>3. AdoptedOK(a)
  BY <1>1, BlankIsContent DEF Sound, AdoptedOK
<1>4. Consistent(m, dirty, a, persisted, disk)
  <2>. SUFFICES ASSUME NEW t \in Session
       PROVE  /\ m[t] = NoTask => a[t] = Blank
              /\ m[t] # NoTask /\ m[t].loaded => m[t].content = a[t]
              /\ t \in Live(m) /\ (t \notin dirty \/ ~m[t].loaded) =>
                   t \in persisted /\ disk[t].listed /\ RowsOf(disk, t) = a[t]
    BY DEF Consistent
  <2>1. CASE t = s
    BY <1>1, <2>1 DEF Live
  <2>2. CASE t # s
    <3>1. m[t] = mem[t] /\ a[t] = Kept[t] /\ (t \in Live(m) <=> t \in Live(mem))
      BY <1>1, <2>2 DEF Live
    <3>. QED
      BY <2>2, <3>1 DEF Sound, Consistent
  <2>. QED
    BY <2>1, <2>2
<1>. QED
  BY <1>2, <1>3, <1>4 DEF Sound

\* A skeleton that is filled in says what is kept of it.
LEMMA FillingKeeps ==
  ASSUME NEW s \in Session, mem[s] # NoTask,
         Sound(mem, dirty, persisted, written, disk, Kept, durable)
  PROVE  /\ Sound([mem EXCEPT ![s] = Hydrated(@, s)], dirty, persisted, written, disk,
                  Kept, durable)
         /\ Hydrated(mem[s], s).content = Kept[s]
<1>. DEFINE m == [mem EXCEPT ![s] = Hydrated(@, s)]
<1>1. /\ m[s] = Hydrated(mem[s], s)
      /\ \A t \in Session \ {s} : m[t] = mem[t]
  BY DEF Sound, TasksOK
<1>2. mem[s] \in Task(s) /\ Kept[s] \in Content(s)
  BY DEF Sound, TasksOK, AdoptedOK
<1>3. CASE mem[s].loaded
  <2>1. Hydrated(mem[s], s) = mem[s]
    BY <1>3 DEF Hydrated
  <2>2. m = mem
    BY <2>1 DEF Sound, TasksOK
  <2>. QED
    BY <1>3, <2>1, <2>2 DEF Sound, Consistent
<1>4. CASE ~mem[s].loaded
  <2>1. s \in Live(mem)
    BY <1>4 DEF Live
  <2>2. s \in persisted /\ disk[s].listed /\ RowsOf(disk, s) = Kept[s]
    BY <1>4, <2>1 DEF Sound, Consistent
  <2>3. Hydrated(mem[s], s) = Loaded(Kept[s])
    BY <1>4, <2>2 DEF Hydrated, Stored, RowsOf
  <2>4. /\ m[s] \in Task(s) /\ m[s].loaded /\ m[s].content = Kept[s] /\ m[s] # NoTask
    BY <1>1, <1>2, <2>3, LoadedIsTask, TaskForms
  <2>5. TasksOK(m)
    BY <1>1, <2>4 DEF Sound, TasksOK
  <2>6. Consistent(m, dirty, Kept, persisted, disk)
    <3>. SUFFICES ASSUME NEW t \in Session
         PROVE  /\ m[t] = NoTask => Kept[t] = Blank
                /\ m[t] # NoTask /\ m[t].loaded => m[t].content = Kept[t]
                /\ t \in Live(m) /\ (t \notin dirty \/ ~m[t].loaded) =>
                     t \in persisted /\ disk[t].listed /\ RowsOf(disk, t) = Kept[t]
      BY DEF Consistent
    <3>1. CASE t = s
      BY <2>2, <2>4, <3>1
    <3>2. CASE t # s
      <4>1. m[t] = mem[t] /\ (t \in Live(m) <=> t \in Live(mem))
        BY <1>1, <3>2 DEF Live
      <4>. QED
        BY <4>1 DEF Sound, Consistent
    <3>. QED
      BY <3>1, <3>2
  <2>. QED
    BY <1>1, <2>3, <2>4, <2>5, <2>6 DEF Sound
<1>. QED
  BY <1>3, <1>4

\* Marking a task that did not change does no harm.
LEMMA MarkingKeeps ==
  ASSUME NEW x \in SUBSET Session,
         Sound(mem, dirty, persisted, written, disk, Kept, durable)
  PROVE  Sound(mem, dirty \cup x, persisted, written, disk, Kept, durable)
BY DEF Sound, Consistent

\* From the tasks a handler has changed to those it leaves, either way.
LEMMA SavingKeeps ==
  ASSUME NEW m, NEW d,
         Sound(m, d, persisted, written, disk, Kept', durable),
         SaveAndTrim(m, d) \/ Save(m, d)
  PROVE  /\ Sound(mem', dirty', persisted', written', disk', Kept', durable')
         /\ \A s \in Session : m[s] = NoTask => mem'[s] = NoTask
<1>1. ASSUME SaveSucceeds(m, d), mem' \in Trimmed(m, {}) \/ mem' = m
      PROVE  /\ Sound(mem', dirty', persisted', written', disk', Kept', durable')
             /\ \A s \in Session : m[s] = NoTask => mem'[s] = NoTask
  <2>1. dirty' = {} /\ durable' = Kept'
    BY <1>1 DEF SaveSucceeds
  <2>2. /\ RowsOK(written', disk')
        /\ RowsTogether(disk')
        /\ WrittenIsStored(written', disk')
        /\ Consistent(m, {}, Kept', persisted', disk')
        /\ \A s \in Session : Kept'[s] # Blank => RowsOf(disk', s) = Kept'[s]
        /\ persisted' \subseteq Session
    BY <1>1, SaveSucceedsKeeps DEF Sound
  <2>3. /\ TasksOK(mem')
        /\ Consistent(mem', {}, Kept', persisted', disk')
        /\ \A s \in Session : m[s] = NoTask => mem'[s] = NoTask
    BY <1>1, <2>2, TrimKeeps DEF Sound
  <2>4. DurableOK(durable', disk')
    BY <2>1, <2>2 DEF DurableOK, Sound, AdoptedOK
  <2>. QED
    BY <2>1, <2>2, <2>3, <2>4 DEF Sound
<1>2. ASSUME SaveFails(m, d), mem' = m
      PROVE  /\ Sound(mem', dirty', persisted', written', disk', Kept', durable')
             /\ \A s \in Session : m[s] = NoTask => mem'[s] = NoTask
  <2>1. dirty' = d /\ disk' = disk /\ durable' = durable
    BY <1>2 DEF SaveFails
  <2>2. /\ RowsOK(written', disk)
        /\ WrittenIsStored(written', disk)
        /\ Consistent(m, d, Kept', persisted', disk)
        /\ persisted' \subseteq Session
    BY <1>2, SaveFailsKeeps DEF Sound
  <2>. QED
    BY <1>2, <2>1, <2>2 DEF Sound
<1>. QED
  BY <1>1, <1>2 DEF SaveAndTrim, Save

-----------------------------------------------------------------------------
(* The invariant.                                                           *)

\* Initially there are no tasks and no rows.
LEMMA InitSound == Init => IInv
<1>. SUFFICES ASSUME Init PROVE IInv
  OBVIOUS
<1>0. HistoryOK
  BY BlankIsContent DEF Init, HistoryOK, AdoptedOK, LostOK
<1>1. TasksOK(mem) /\ AdoptedOK(Kept)
  BY <1>0, KeptOK DEF Init, TasksOK
<1>2. \A s \in Session : RowsOf(disk, s) = Blank /\ disk[s] = NoRows
  BY DEF Init, RowsOf, NoRows
<1>3. RowsOK(written, disk) /\ RowsTogether(disk)
  BY <1>2, BlankIsContent DEF Init, RowsOK, RowsTogether, NoRows
<1>4. WrittenIsStored(written, disk)
  BY DEF Init, WrittenIsStored, NoText
<1>5. Consistent(mem, dirty, Kept, persisted, disk)
  <2>1. mem = [s \in Session |-> NoTask] /\ adopted = [s \in Session |-> Blank]
        /\ lost = [s \in Session |-> {}]
    BY DEF Init
  <2>2. Without(Blank, {}) = Blank
    BY DEF Without, Blank
  <2>3. \A s \in Session : mem[s] = NoTask /\ Kept[s] = Blank
    BY <2>1, <2>2 DEF Kept
  <2>. QED
    BY <2>3 DEF Consistent, Live
<1>6. DurableOK(durable, disk)
  BY BlankIsContent DEF Init, DurableOK
<1>7. dirty \cup persisted \subseteq Session /\ removed \subseteq Session /\ jobs \subseteq Job
      /\ RemovedStayOut
  BY DEF Init, RemovedStayOut
<1>. QED
  BY <1>0, <1>1, <1>3, <1>4, <1>5, <1>6, <1>7 DEF IInv, Sound

\* Filling a task in, if it is there.
LEMMA FillKeeps ==
  ASSUME IInv, NEW s \in Session, Fill(s),
         UNCHANGED <<caches, disk, removed, history, durable>>, jobs' \subseteq Job
  PROVE  IInv'
<1>0. HistoryOK' /\ Kept' = Kept
  BY HistoryStays DEF IInv
<1>1. Sound(mem', dirty', persisted', written', disk', Kept', durable')
  BY <1>0, FillingKeeps DEF IInv, Fill, caches
<1>2. \A t \in Session : mem[t] = NoTask => mem'[t] = NoTask
  <2>1. CASE mem[s] = NoTask
    BY <2>1 DEF Fill
  <2>2. CASE mem[s] # NoTask
    BY <2>2 DEF Fill, IInv, Sound, TasksOK
  <2>. QED
    BY <2>1, <2>2
<1>. QED
  BY <1>0, <1>1, <1>2 DEF IInv, RemovedStayOut, caches

\* A task in hand says what is kept of it.
LEMMA HeldIsKept ==
  ASSUME IInv, NEW s \in Session
  PROVE  Held(s) = Kept[s] /\ Held(s) \in Content(s)
<1>1. Kept[s] \in Content(s)
  BY DEF IInv, Sound, AdoptedOK
<1>2. mem[s] = NoTask => Kept[s] = Blank
  BY DEF IInv, Sound, Consistent
<1>. QED
  BY <1>1, <1>2, FillingKeeps DEF Held, IInv

\* A task that is there takes on a content and is saved.
LEMMA TakeAndSaveKeeps ==
  ASSUME IInv, NEW s \in Session, NEW c \in Content(s), s \notin removed,
         HistoryOK', Kept' = [Kept EXCEPT ![s] = c],
         \/ SaveAndTrim([mem EXCEPT ![s] = Loaded(c)], dirty \cup {s})
         \/ Save([mem EXCEPT ![s] = Loaded(c)], dirty \cup {s}),
         removed' = removed, jobs' \subseteq Job
  PROVE  IInv'
<1>. DEFINE m == [mem EXCEPT ![s] = Loaded(c)]
<1>1. Sound(m, dirty \cup {s}, persisted, written, disk, Kept', durable)
  BY TakingKeeps DEF IInv
<1>2. /\ Sound(mem', dirty', persisted', written', disk', Kept', durable')
      /\ \A t \in Session : m[t] = NoTask => mem'[t] = NoTask
  BY <1>1, SavingKeeps
<1>3. \A t \in removed : m[t] = NoTask
  BY DEF IInv, RemovedStayOut, Sound, TasksOK
<1>. QED
  BY <1>2, <1>3 DEF IInv, RemovedStayOut

\* A projection that is taken over a task leaves of its snapshots those that
\* are kept and are not lost by it.
LEMMA AdoptsKept ==
  ASSUME IInv, NEW s \in Session, NEW c \in Projection(s), Adopts(s, c)
  PROVE  /\ WithCheckpoints(s, c) \in Content(s)
         /\ HistoryOK'
         /\ Kept' = [Kept EXCEPT ![s] = WithCheckpoints(s, c)]
<1>. DEFINE all == c.checkpoints \cup (adopted[s].checkpoints \cap DOMAIN c.text)
            unnamed == all \ c.checkpoints
            b == [text |-> c.text, checkpoints |-> all]
            x == IF mem[s] = Skeleton THEN unnamed ELSE lost[s] \cap unnamed
<1>1. c \in Content(s) /\ c = [text |-> c.text, checkpoints |-> c.checkpoints]
  BY DEF Projection, Content
<1>2. adopted[s] \in Content(s) /\ HistoryOK /\ lost[s] \subseteq Positions(s)
  BY DEF IInv, HistoryOK, AdoptedOK, LostOK
<1>3. b \in Content(s)
  <2>. DEFINE y == adopted[s].checkpoints \cap DOMAIN c.text
  <2>1. [c EXCEPT !.checkpoints = @ \cup y] \in Content(s)
    <3>1. y \in SUBSET DOMAIN c.text
      OBVIOUS
    <3>. HIDE DEF y
    <3>. QED
      BY <1>1, <3>1, CheckpointsAreContent
  <2>2. b = [c EXCEPT !.checkpoints = c.checkpoints \cup y]
    BY <1>1, ContentForm
  <2>. QED
    BY <2>1, <2>2
<1>4. x \in SUBSET Positions(s)
  BY <1>2 DEF Content
<1>5. adopted' = [adopted EXCEPT ![s] = b] /\ lost' = [lost EXCEPT ![s] = x]
  BY Zenon DEF Adopts
<1>6. HistoryOK' /\ Kept' = [Kept EXCEPT ![s] = Without(b, x)]
  <2>. HIDE DEF b, x
  <2>. QED
    BY <1>2, <1>3, <1>4, <1>5, KeptOf
<1>7. Without(b, x) = [text |-> c.text, checkpoints |-> all \ x]
  BY DEF Without
<1>8. mem[s] \in Task(s) \cup {NoTask} /\ Kept[s].checkpoints = adopted[s].checkpoints \ lost[s]
  BY <1>2, KeptOK DEF IInv, Sound, TasksOK
<1>9. Without(b, x) = WithCheckpoints(s, c)
  <2>1. CASE mem[s] = NoTask
    <3>1. Kept[s] = Blank
      BY <2>1 DEF IInv, Sound, Consistent
    <3>2. adopted[s].checkpoints \subseteq lost[s]
      BY <1>8, <3>1 DEF Blank
    <3>3. mem[s] # Skeleton
      BY <2>1, SkeletonIsTask, TaskForms
    <3>4. all \ x = c.checkpoints
      BY <3>2, <3>3
    <3>. QED
      BY <1>1, <1>7, <2>1, <3>4 DEF WithCheckpoints
  <2>2. CASE mem[s] = Skeleton
    <3>1. mem[s] # NoTask /\ mem[s].content.checkpoints = {}
      <4>1. Skeleton # NoTask
        BY SkeletonIsTask, TaskForms
      <4>. QED
        BY <2>2, <4>1 DEF Skeleton, Blank
    <3>2. all \ x = c.checkpoints
      BY <2>2
    <3>3. WithCheckpoints(s, c) = [c EXCEPT !.checkpoints = @ \cup ({} \cap DOMAIN c.text)]
      BY <3>1 DEF WithCheckpoints
    <3>. QED
      BY <1>1, <1>7, <3>2, <3>3
  <2>3. CASE mem[s] # NoTask /\ mem[s] # Skeleton
    <3>1. mem[s].loaded
      BY <1>8, <2>3, TaskForms
    <3>2. mem[s].content.checkpoints = adopted[s].checkpoints \ lost[s]
      BY <1>8, <2>3, <3>1 DEF IInv, Sound, Consistent
    <3>3. all \ x = c.checkpoints \cup (mem[s].content.checkpoints \cap DOMAIN c.text)
      BY <2>3, <3>2
    <3>4. [c EXCEPT !.checkpoints =
             c.checkpoints \cup (mem[s].content.checkpoints \cap DOMAIN c.text)] =
            [text |-> c.text, checkpoints |-> all \ x]
      <4>. HIDE DEF all, x
      <4>. QED
        BY <1>1, <3>3, ContentForm
    <3>. HIDE DEF b, x, all
    <3>. QED
      BY <1>7, <2>3, <3>4 DEF WithCheckpoints
  <2>. QED
    BY <2>1, <2>2, <2>3
<1>10. WithCheckpoints(s, c) \in Content(s)
  <2>1. all \ x \subseteq all
    OBVIOUS
  <2>. QED
    BY <1>3, <1>7, <1>9 DEF Content
<1>. QED
  BY <1>6, <1>9, <1>10

\* A snapshot of turn n is stored.
Snaps(s, n) ==
  /\ adopted' = [adopted EXCEPT ![s].checkpoints = @ \cup {n}]
  /\ lost' = [lost EXCEPT ![s] = @ \ {n}]

\* A snapshot that is stored is kept.
LEMMA SnapshotKept ==
  ASSUME IInv, NEW s \in Session, NEW n \in DOMAIN Held(s).text, Snaps(s, n)
  PROVE  HistoryOK' /\ Kept' = [Kept EXCEPT ![s] = [Held(s) EXCEPT !.checkpoints = @ \cup {n}]]
<1>. DEFINE b == [adopted[s] EXCEPT !.checkpoints = @ \cup {n}]
            x == lost[s] \ {n}
<1>1. HistoryOK /\ adopted[s] \in Content(s) /\ lost[s] \subseteq Positions(s)
  BY DEF IInv, HistoryOK, AdoptedOK, LostOK
<1>2. Held(s) \in Content(s) /\ Held(s).text = adopted[s].text
      /\ Held(s).checkpoints = adopted[s].checkpoints \ lost[s]
  BY <1>1, HeldIsKept, KeptOK
<1>3. b \in Content(s)
  BY <1>1, <1>2, CheckpointsAreContent
<1>4. adopted' = [adopted EXCEPT ![s] = b] /\ lost' = [lost EXCEPT ![s] = x]
  BY DEF Snaps
<1>5. HistoryOK' /\ Kept' = [Kept EXCEPT ![s] = Without(b, x)]
  <2>1. x \in SUBSET Positions(s)
    BY <1>1
  <2>. HIDE DEF b, x
  <2>. QED
    BY <1>1, <1>3, <1>4, <2>1, KeptOf
<1>6. Without(b, x) = [text |-> adopted[s].text,
                       checkpoints |-> (adopted[s].checkpoints \cup {n}) \ x]
  <2>1. b = [text |-> adopted[s].text, checkpoints |-> adopted[s].checkpoints \cup {n}]
    BY <1>1, ContentForm
  <2>2. [b EXCEPT !.checkpoints = b.checkpoints \ x] =
          [text |-> b.text, checkpoints |-> b.checkpoints \ x]
    BY <1>3, ContentForm
  <2>3. b.text = adopted[s].text /\ b.checkpoints = adopted[s].checkpoints \cup {n}
    BY <2>1
  <2>. HIDE DEF b, x
  <2>. QED
    BY <2>2, <2>3 DEF Without
<1>7. (adopted[s].checkpoints \cup {n}) \ x = Held(s).checkpoints \cup {n}
  BY <1>2
<1>8. [Held(s) EXCEPT !.checkpoints = @ \cup {n}] =
        [text |-> Held(s).text, checkpoints |-> Held(s).checkpoints \cup {n}]
  BY <1>2, ContentForm
<1>. QED
  BY <1>2, <1>5, <1>6, <1>7, <1>8

\* Every step preserves the invariant.
LEMMA NextSound == IInv /\ [Next]_vars => IInv'
<1>. SUFFICES ASSUME IInv, [Next]_vars PROVE IInv'
  OBVIOUS
<1>. USE DEF caches
<1>1. ASSUME NEW s \in Session, NEW c, NEW older \in BOOLEAN, SaveTaskState(s, c, older),
             Takes(s, older) => c \in Projection(s)
      PROVE  IInv'
  <2>1. removed' = removed /\ jobs' = jobs /\ jobs' \subseteq Job
    BY <1>1 DEF SaveTaskState, IInv
  <2>2. CASE Takes(s, older)
    <3>. DEFINE new == WithCheckpoints(s, c)
    <3>1. new \in Content(s) /\ HistoryOK' /\ Kept' = [Kept EXCEPT ![s] = new]
      BY <1>1, <2>2, AdoptsKept DEF SaveTaskState
    <3>2. s \notin removed
      BY <2>2 DEF Takes
    <3>3. SaveAndTrim([mem EXCEPT ![s] = Loaded(new)], dirty \cup {s})
      <4>1. {s} \ removed = {s}
        BY <3>2
      <4>. QED
        BY <1>1, <2>2, <4>1 DEF SaveTaskState
    <3>. HIDE DEF new
    <3>. QED
      BY <2>1, <3>1, <3>2, <3>3, TakeAndSaveKeeps
  <2>3. CASE ~Takes(s, older)
    <3>. DEFINE d == dirty \cup ({s} \ removed)
    <3>1. UNCHANGED history /\ SaveAndTrim(mem, d)
      BY <1>1, <2>3 DEF SaveTaskState
    <3>2. HistoryOK' /\ Sound(mem, d, persisted, written, disk, Kept', durable)
      BY <3>1, HistoryStays, MarkingKeeps DEF IInv
    <3>. HIDE DEF d
    <3>3. /\ Sound(mem', dirty', persisted', written', disk', Kept', durable')
          /\ \A t \in Session : mem[t] = NoTask => mem'[t] = NoTask
      BY <3>1, <3>2, SavingKeeps
    <3>. QED
      BY <2>1, <3>2, <3>3 DEF IInv, RemovedStayOut
  <2>. QED
    BY <2>2, <2>3
<1>2. ASSUME NEW s \in Session, RemoveSession(s)
      PROVE  IInv'
  <2>. DEFINE m == [mem EXCEPT ![s] = NoTask]
  <2>1. /\ removed' = removed \cup {s} /\ jobs' = jobs
        /\ HistoryOK' /\ Kept' = [Kept EXCEPT ![s] = Blank]
        /\ Save(m, dirty)
    BY <1>2, BecomesKept, BlankIsContent DEF RemoveSession, IInv
  <2>2. Sound(m, dirty, persisted, written, disk, Kept', durable)
    BY <2>1, RemovingKeeps DEF IInv
  <2>3. /\ Sound(mem', dirty', persisted', written', disk', Kept', durable')
        /\ \A t \in Session : m[t] = NoTask => mem'[t] = NoTask
    BY <2>1, <2>2, SavingKeeps
  <2>4. \A t \in removed' : m[t] = NoTask
    BY <2>1 DEF IInv, RemovedStayOut, Sound, TasksOK
  <2>. QED
    BY <2>1, <2>3, <2>4 DEF IInv, RemovedStayOut
<1>3. ASSUME NEW s \in Session, HydrateSession(s)
      PROVE  IInv'
  <2>. DEFINE m == IF mem[s] = NoTask THEN mem ELSE [mem EXCEPT ![s] = Hydrated(@, s)]
  <2>1. /\ mem' \in Trimmed(m, dirty)
        /\ UNCHANGED <<dirty, persisted, written, disk, removed, jobs, durable>>
        /\ HistoryOK' /\ Kept' = Kept
    BY <1>3, HistoryStays DEF HydrateSession, IInv
  <2>2. Sound(m, dirty, persisted, written, disk, Kept, durable)
    BY FillingKeeps DEF IInv
  <2>3. \A t \in Session : mem[t] = NoTask => m[t] = NoTask
    BY DEF IInv, Sound, TasksOK
  <2>. HIDE DEF m
  <2>4. /\ TasksOK(mem')
        /\ Consistent(mem', dirty, Kept, persisted, disk)
        /\ \A t \in Session : m[t] = NoTask => mem'[t] = NoTask
    BY <2>1, <2>2, TrimKeeps DEF Sound
  <2>. QED
    BY <2>1, <2>2, <2>3, <2>4 DEF IInv, Sound, RemovedStayOut
<1>4. ASSUME NEW s \in Session, NEW p \in Positions(s), BeginCapture(s, p)
      PROVE  IInv'
  <2>1. [kind |-> "capture", session |-> s, turn |-> p] \in Job
    BY DEF Job
  <2>2. jobs' \subseteq Job
    BY <1>4, <2>1 DEF BeginCapture, IInv
  <2>. QED
    BY <1>4, <2>2, FillKeeps DEF BeginCapture
<1>5. ASSUME NEW s \in Session, BeginEdit(s)
      PROVE  IInv'
  <2>1. Held(s) \in Content(s)
    BY HeldIsKept
  <2>2. [kind |-> "edit", session |-> s, source |-> Held(s)] \in Job
    BY <2>1 DEF Job
  <2>3. jobs' \subseteq Job
    BY <1>5, <2>2 DEF BeginEdit, IInv
  <2>. QED
    BY <1>5, <2>3, FillKeeps DEF BeginEdit
<1>6. ASSUME NEW j \in jobs, GiveUp(j)
      PROVE  IInv'
  BY <1>6, HistoryStays DEF GiveUp, IInv, RemovedStayOut
<1>7. ASSUME NEW j \in jobs, StoreCheckpoint(j)
      PROVE  IInv'
  <2>. DEFINE s == j.session
              c == [Held(s) EXCEPT !.checkpoints = @ \cup {j.turn}]
  <2>1. s \in Session /\ jobs' \subseteq Job /\ removed' = removed
    BY <1>7, JobForms DEF StoreCheckpoint, IInv
  <2>2. CASE /\ j.turn \in DOMAIN Held(s).text
             /\ adopted' = [adopted EXCEPT ![s].checkpoints = @ \cup {j.turn}]
             /\ lost' = [lost EXCEPT ![s] = @ \ {j.turn}]
             /\ Save([mem EXCEPT ![s] = Loaded(c)], dirty \cup {s})
    <3>1. c \in Content(s)
      BY <2>1, <2>2, HeldIsKept, CheckpointsAreContent
    <3>2. mem[s] # NoTask
      BY <2>2 DEF Held, Blank, NoText
    <3>3. s \notin removed
      BY <3>2 DEF IInv, RemovedStayOut
    <3>4. HistoryOK' /\ Kept' = [Kept EXCEPT ![s] = c]
      <4>1. Snaps(s, j.turn)
        BY <2>2 DEF Snaps
      <4>. QED
        BY <2>1, <2>2, <4>1, SnapshotKept
    <3>. HIDE DEF c, s
    <3>. QED
      BY <2>1, <2>2, <3>1, <3>3, <3>4, TakeAndSaveKeeps
  <2>3. CASE Fill(s) /\ UNCHANGED <<caches, disk, history, durable>>
    BY <2>1, <2>3, FillKeeps
  <2>. QED
    BY <1>7, <2>2, <2>3 DEF StoreCheckpoint
<1>8. ASSUME NEW j \in jobs, StoreRewind(j)
      PROVE  IInv'
  <2>. DEFINE s == j.session
  <2>1. s \in Session /\ j.source \in Content(s) /\ jobs' \subseteq Job /\ removed' = removed
    BY <1>8, JobForms DEF StoreRewind, IInv
  <2>2. PICK n \in DOMAIN j.source.text :
          /\ Becomes(s, UpTo(j.source, n - 1))
          /\ SaveAndTrim([mem EXCEPT ![s] = Loaded(UpTo(j.source, n - 1))], dirty \cup {s})
    BY <1>8 DEF StoreRewind
  <2>3. n - 1 \in Nat
    <3>1. PICK k \in 0..MaxMessages[s] : j.source.text \in [1..k -> UNION {Body[p] : p \in 1..k}]
      BY <2>1 DEF Content, Text
    <3>2. k \in Nat /\ DOMAIN j.source.text = 1..k
      BY <2>1, <3>1, BoundsAssumption
    <3>3. n \in 1..k
      BY <2>2, <3>2
    <3>. QED
      BY <3>2, <3>3
  <2>4. UpTo(j.source, n - 1) \in Content(s)
    BY <2>1, <2>3, UpToIsContent
  <2>5. s \notin removed
    BY <1>8 DEF StoreRewind, IInv, RemovedStayOut
  <2>6. HistoryOK' /\ Kept' = [Kept EXCEPT ![s] = UpTo(j.source, n - 1)]
    BY <2>1, <2>2, <2>4, BecomesKept DEF IInv
  <2>. HIDE DEF s
  <2>. QED
    BY <2>1, <2>2, <2>4, <2>5, <2>6, TakeAndSaveKeeps
<1>9. ASSUME NEW j \in jobs, NEW t \in Session, StoreFork(j, t)
      PROVE  IInv'
  <2>1. /\ j.session \in Session /\ j.source \in Content(j.session)
        /\ jobs' \subseteq Job /\ removed' = removed
        /\ mem[t] = NoTask /\ t \notin removed
    BY <1>9, JobForms DEF StoreFork, IInv
  <2>2. PICK n \in DOMAIN j.source.text \cap Positions(t) :
          \/ /\ Becomes(t, UpTo(j.source, n))
             /\ SaveSucceeds([mem EXCEPT ![t] = Loaded(UpTo(j.source, n))], dirty \cup {t})
             /\ mem' \in Trimmed([mem EXCEPT ![t] = Loaded(UpTo(j.source, n))], {})
          \/ /\ SaveFails([mem EXCEPT ![t] = Loaded(UpTo(j.source, n))], dirty \cup {t})
             /\ UNCHANGED <<mem, history>>
    BY <1>9 DEF StoreFork
  <2>. DEFINE c == UpTo(j.source, n)
              m == [mem EXCEPT ![t] = Loaded(c)]
  <2>3. c \in Content(t)
    <3>1. n \in Nat /\ n <= MaxMessages[t]
      BY BoundsAssumption DEF Positions
    <3>. QED
      BY <2>1, <3>1, UpToIsContent
  <2>. HIDE DEF c
  <2>4. CASE /\ Becomes(t, c)
             /\ SaveSucceeds(m, dirty \cup {t})
             /\ mem' \in Trimmed(m, {})
    <3>1. SaveAndTrim(m, dirty \cup {t})
      BY <2>4 DEF SaveAndTrim
    <3>2. HistoryOK' /\ Kept' = [Kept EXCEPT ![t] = c]
      BY <2>3, <2>4, BecomesKept DEF IInv
    <3>. QED
      BY <2>1, <2>3, <3>1, <3>2, TakeAndSaveKeeps
  <2>5. CASE /\ SaveFails(m, dirty \cup {t})
             /\ UNCHANGED <<mem, history>>
    <3>. DEFINE a == [Kept EXCEPT ![t] = c]
    <3>1. Sound(m, dirty \cup {t}, persisted, written, disk, a, durable)
      BY <2>3, TakingKeeps DEF IInv
    <3>. HIDE DEF a
    <3>2. /\ RowsOK(written', disk)
          /\ WrittenIsStored(written', disk)
          /\ Consistent(m, dirty \cup {t}, a, persisted', disk)
          /\ persisted' \subseteq Session
      <4>. HIDE DEF m
      <4>. QED
        BY <2>5, <3>1, SaveFailsKeeps DEF Sound
    <3>3. dirty' = dirty \cup {t} /\ disk' = disk /\ durable' = durable
      BY <2>5 DEF SaveFails
    <3>4. \A s \in Session : s # t => m[s] = mem[s] /\ a[s] = Kept[s]
      BY DEF IInv, Sound, TasksOK, AdoptedOK, a
    <3>5. Consistent(mem, dirty \cup {t}, Kept, persisted', disk)
      <4>. SUFFICES ASSUME NEW s \in Session
           PROVE  /\ mem[s] = NoTask => Kept[s] = Blank
                  /\ mem[s] # NoTask /\ mem[s].loaded => mem[s].content = Kept[s]
                  /\ s \in Live(mem) /\ (s \notin dirty \cup {t} \/ ~mem[s].loaded) =>
                       s \in persisted' /\ disk[s].listed /\ RowsOf(disk, s) = Kept[s]
        BY DEF Consistent
      <4>1. CASE s = t
        BY <2>1, <4>1 DEF IInv, Sound, Consistent, Live
      <4>2. CASE s # t
        <5>1. s \in Live(m) <=> s \in Live(mem)
          BY <3>4, <4>2 DEF Live
        <5>. QED
          BY <3>2, <3>4, <4>2, <5>1 DEF Consistent
      <4>. QED
        BY <4>1, <4>2
    <3>6. HistoryOK' /\ Kept' = Kept
      BY <2>5, HistoryStays DEF IInv
    <3>. QED
      BY <2>1, <2>5, <3>2, <3>3, <3>5, <3>6 DEF IInv, Sound, RemovedStayOut
  <2>. QED
    BY <2>2, <2>4, <2>5 DEF c
<1>10. CASE Restart
  <2>1. /\ mem' = [s \in Session |-> IF disk[s].listed THEN Skeleton ELSE NoTask]
        /\ persisted' = {s \in Session : disk[s].listed}
        /\ written' = [s \in Session |-> NoText]
        /\ dirty' = {} /\ removed' = {} /\ jobs' = {}
        /\ adopted' = [s \in Session |-> RowsOf(disk, s)]
        /\ lost' = [s \in Session |-> {}]
        /\ disk' = disk /\ durable' = durable
    BY <1>10 DEF Restart, Stored, RowsOf
  <2>2. \A s \in Session : /\ Skeleton \in Task(s) /\ ~Skeleton.loaded /\ Skeleton # NoTask
                           /\ RowsOf(disk, s) \in Content(s)
    BY SkeletonIsTask, TaskForms DEF IInv, Sound, RowsOK
  <2>3. /\ TasksOK(mem') /\ HistoryOK'
        /\ AdoptedOK(Kept)' /\ \A s \in Session : Kept'[s] = RowsOf(disk, s)
    <3>1. TasksOK(mem')
      BY <2>1, <2>2 DEF TasksOK
    <3>2. HistoryOK'
      BY <2>1, <2>2 DEF HistoryOK, AdoptedOK, LostOK
    <3>3. \A s \in Session : Without(RowsOf(disk, s), {}) = RowsOf(disk, s)
      BY <2>2 DEF Without, Content
    <3>4. Kept' = [s \in Session |-> Without(adopted'[s], lost'[s])]
      BY DEF Kept
    <3>5. \A s \in Session : Kept'[s] = RowsOf(disk, s)
      BY <2>1, <3>3, <3>4
    <3>6. AdoptedOK(Kept)'
      BY <2>2, <3>4, <3>5 DEF AdoptedOK
    <3>. QED
      BY <3>1, <3>2, <3>5, <3>6
  <2>4. RowsOK(written', disk')
    BY <2>1, BlankIsContent DEF IInv, Sound, RowsOK
  <2>5. WrittenIsStored(written', disk')
    BY <2>1 DEF WrittenIsStored, NoText
  <2>6. Consistent(mem', dirty', Kept', persisted', disk')
    <3>1. \A s \in Session : ~disk[s].listed => RowsOf(disk, s) = Blank
      BY DEF IInv, Sound, RowsTogether, RowsOf
    <3>. SUFFICES ASSUME NEW s \in Session
         PROVE  /\ mem'[s] = NoTask => Kept'[s] = Blank
                /\ mem'[s] # NoTask /\ mem'[s].loaded => mem'[s].content = Kept'[s]
                /\ s \in Live(mem') => s \in persisted' /\ disk'[s].listed
                                        /\ RowsOf(disk', s) = Kept'[s]
      BY DEF Consistent
    <3>2. Kept'[s] = RowsOf(disk, s) /\ disk' = disk
      BY <2>1, <2>3
    <3>3. CASE disk[s].listed
      <4>1. mem'[s] = Skeleton /\ s \in persisted'
        BY <2>1, <3>3
      <4>. QED
        BY <2>2, <3>2, <3>3, <4>1
    <3>4. CASE ~disk[s].listed
      <4>1. mem'[s] = NoTask /\ s \notin Live(mem')
        BY <2>1, <3>4 DEF Live
      <4>. QED
        BY <3>1, <3>2, <3>4, <4>1
    <3>. QED
      BY <3>3, <3>4
  <2>. QED
    BY <2>1, <2>3, <2>4, <2>5, <2>6 DEF IInv, Sound, RemovedStayOut
<1>11. CASE UNCHANGED vars
  BY <1>11, HistoryStays DEF vars, history, IInv, RemovedStayOut
<1>12. ASSUME NEW s \in Session,
              \/ s \notin removed /\ \E c \in Projection(s) : SaveTaskState(s, c, FALSE)
              \/ s \in removed /\ SaveTaskState(s, Blank, FALSE)
              \/ SaveTaskState(s, Blank, TRUE)
       PROVE  IInv'
  BY <1>1, <1>12 DEF Takes
<1>. QED
  <2>1. removed \subseteq Session
    BY DEF IInv
  <2>. QED
    BY <2>1, <1>2, <1>3, <1>4, <1>5, <1>6, <1>7, <1>8, <1>9, <1>10, <1>11, <1>12 DEF Next

\* The invariant holds throughout.
LEMMA AlwaysSound == Spec => []IInv
BY InitSound, NextSound, PTL DEF Spec

\* Every variable keeps its type.
THEOREM TasksTyped == Spec => []TypeOK
<1>1. IInv => TypeOK
  BY DEF IInv, HistoryOK, LostOK, Sound, TasksOK, AdoptedOK, RowsOK, DurableOK, TypeOK,
         Stored, RowsOf
<1>. QED
  BY <1>1, AlwaysSound, PTL

\* A task always reads as what was last made of it, without the snapshots that
\* a projection saved over its skeleton lost, however often its transcript was
\* released and filled in again and whichever saves failed.
THEOREM NothingIsForgotten == Spec => []NothingForgotten
<1>1. IInv => NothingForgotten
  <2>. SUFFICES ASSUME IInv, NEW s \in Session PROVE View(s) = Kept[s]
    BY DEF NothingForgotten
  <2>1. CASE mem[s] = NoTask \/ mem[s].loaded
    BY <2>1 DEF View, IInv, Sound, Consistent
  <2>2. CASE mem[s] # NoTask /\ ~mem[s].loaded
    <3>1. s \in Live(mem)
      BY <2>2 DEF Live
    <3>. QED
      BY <2>2, <3>1 DEF View, Stored, RowsOf, IInv, Sound, Consistent
  <2>. QED
    BY <2>1, <2>2
<1>. QED
  BY <1>1, AlwaysSound, PTL

\* What a save reported as stored stays stored, across failed saves and restarts.
THEOREM AcknowledgedStaysStored == Spec => []AcknowledgedIsStored
<1>1. IInv => AcknowledgedIsStored
  BY DEF IInv, Sound, DurableOK, AcknowledgedIsStored, Stored, RowsOf
<1>. QED
  BY <1>1, AlwaysSound, PTL

\* A removed task does not come back while the daemon runs.
THEOREM RemovedTasksStayOut == Spec => []RemovedStayOut
<1>1. IInv => RemovedStayOut
  BY DEF IInv
<1>. QED
  BY <1>1, AlwaysSound, PTL
=============================================================================

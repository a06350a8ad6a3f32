-------------------------- MODULE AcpSessions_proofs --------------------------
(***************************************************************************)
(* Machine-checked proofs about the sessions of the ACP daemon, for any     *)
(* number of connections, sessions, handlers and run slots.                 *)
(***************************************************************************)
EXTENDS AcpSessions, FiniteSetTheorems, TLAPS

Prompting == {"queued", "granted", "leaving", "yielding", "running", "ending"}
Loading == {"swap", "replay", "unload"}

PhaseOf(at) ==
    IF at \in Loading THEN "loading" ELSE IF at \in Prompting THEN "running" ELSE "mutating"

Own(s, c) == tools[s] \in {None, c}

\* A handler in progress works on a session that its connection holds, in the
\* phase of its operation or in that of a disconnect; and but for a load that
\* has yet to put them right, or takes itself back, the client tools are its own.
Served(r) ==
    LET q == request[r]  b == bound[q.session] IN
    /\ q.conn \in Connections /\ q.session \in Sessions /\ q.at # "none"
    /\ b.conn = q.conn
    /\ b.phase \in {PhaseOf(q.at), "disconnecting"}
    /\ b.task = IF q.at \in Prompting THEN r ELSE None
    /\ row[q.session] = IF q.at = "releasing" THEN "closed" ELSE "open"
    /\ \/ q.at \in Prompting \cup {"replay"}
       \/ q.at = "swap" /\ ~q.fresh
       => Own(q.session, q.conn)

\* A session nobody works on is free, or idle with the tools of its connection.
Settled(s) ==
    /\ bound[s].phase = "none" => bound[s] = Free
    /\ bound[s].phase = "idle" => bound[s].task = None /\ Own(s, bound[s].conn)
    /\ row[s] = "none" => tools[s] = None

Handlers == \A r \in Active : Served(r)
Bindings == \A s \in Sessions : Settled(s)

\* A cleaner holds stored sessions that are free, and no other cleaner does; the
\* checkpoints of those it has purged stay away.
Holds ==
    /\ \A w \in Cleaners :
         /\ cleaner[w].todo \subseteq cleaner[w].holds
         /\ cleaner[w].purged \subseteq cleaner[w].holds
         /\ cleaner[w].holds \subseteq reserved
         /\ \A s \in cleaner[w].holds : bound[s] = Free /\ Stored(s)
         /\ \A s \in cleaner[w].purged : ~history[s]
    /\ \A v, w \in Cleaners : v # w => cleaner[v].holds \cap cleaner[w].holds = {}

\* Slots are held, free or lost, and there are max_active_runs of them.
Slots == IsFiniteSet(Holders) /\ permits + Cardinality(Holders) <= MaxRuns

Safe == Handlers /\ OneOperation /\ Bindings /\ Holds /\ NothingLeftBehind

IInv == TypeOK /\ Slots /\ Safe

USE NoneIsNoConnection

-----------------------------------------------------------------------------
(* The steps of handlers.                                                  *)

\* Handler r works on session s, and on nothing else.
Works(r, s) ==
    /\ \A q \in Requests \ {r} : request'[q] = request[q]
    /\ request'[r] = NoRequest \/ request'[r].session = s
    /\ \A q \in Active \ {r} : request[q].session # s
    /\ \A t \in Sessions \ {s} : /\ bound'[t] = bound[t] /\ tools'[t] = tools[t]
                                 /\ row'[t] = row[t] /\ history'[t] = history[t]
    /\ \A w \in Cleaners : s \notin cleaner[w].holds
    /\ row'[s] # "deleted"
    /\ UNCHANGED <<reserved, cleaner>>

\* Such a step leaves the other handlers, sessions and cleaners as they were.
LEMMA WorkIsSafe ==
  ASSUME TypeOK, Safe, NEW r \in Requests, NEW s \in Sessions, Works(r, s),
         request'[r] = NoRequest \/ Served(r)', Settled(s)'
  PROVE  Safe'
<1>1. \A q \in Active \ {r} : Served(q)'
  BY DEF Works, Safe, Handlers, Active, Served, Own
<1>2. Active' \subseteq Active \cup {r}
  BY DEF Works, Active, NoRequest
<1>3. Handlers'
  BY <1>1, <1>2 DEF Handlers, Active, NoRequest
<1>4. OneOperation'
  <2> SUFFICES ASSUME NEW p \in Active', NEW q \in Active', request'[p].session = request'[q].session
               PROVE  p = q
    BY DEF OneOperation
  <2>1. p # r /\ q # r => p \in Active /\ q \in Active /\ request'[p] = request[p] /\ request'[q] = request[q]
    BY <1>2 DEF Works, Active, NoRequest
  <2>2. p = r /\ q # r => request'[p].session = s /\ request'[q].session # s
    BY <1>2 DEF Works, Active, NoRequest
  <2>3. p # r /\ q = r => request'[q].session = s /\ request'[p].session # s
    BY <1>2 DEF Works, Active, NoRequest
  <2> QED
    BY <2>1, <2>2, <2>3 DEF Safe, OneOperation
<1>5. Bindings'
  BY DEF Works, Safe, Bindings, Settled, Own, Free
<1>6. Holds'
  BY SMTT(60) DEF Works, Safe, Holds, Free, Stored, TypeOK
<1>7. NothingLeftBehind'
  BY DEF Works, Safe, NothingLeftBehind
<1> QED
  BY <1>3, <1>4, <1>5, <1>6, <1>7 DEF Safe

\* Whoever works on a session keeps others off it.
LEMMA Busy ==
  ASSUME TypeOK, Safe, NEW r \in Active
  PROVE  /\ request[r].session \in Sessions
         /\ \A q \in Active \ {r} : request[q].session # request[r].session
         /\ \A w \in Cleaners : request[r].session \notin cleaner[w].holds
         /\ row[request[r].session] \in {"open", "closed"}
  BY DEF Safe, Handlers, OneOperation, Served, Holds, PhaseOf, Loading, Prompting, Free, Active

LEMMA HandlerWorks ==
  ASSUME TypeOK, Safe, NEW r \in Requests, Handle(r)
  PROVE  r \in Active /\ Works(r, request[r].session)
<1> DEFINE s == request[r].session
<1>1. r \in Active
  BY DEF Handle, Swap, LoadDone, LoadFails, Unload, Grant, Run, LeaveQueue, Yield, YieldCancelled,
         RunEnds, PromptEnds, CloseDone, Active, NoRequest
<1>2. /\ \A q \in Requests \ {r} : request'[q] = request[q]
      /\ request'[r] = NoRequest \/ request'[r].session = s
  BY <1>1 DEF Handle, Swap, LoadDone, LoadFails, Unload, Grant, Run, LeaveQueue, Yield, YieldCancelled,
         RunEnds, PromptEnds, CloseDone, Now, Gone, TypeOK
<1>3. \A t \in Sessions \ {s} : /\ bound'[t] = bound[t] /\ tools'[t] = tools[t]
                                /\ row'[t] = row[t] /\ history'[t] = history[t]
  BY DEF Handle, Swap, LoadDone, LoadFails, Unload, Grant, Run, LeaveQueue, Yield, YieldCancelled,
         RunEnds, PromptEnds, CloseDone, EndedOperation, EndedPrompt, Detached, Bind, TypeOK,
         store, leases, clientTools
<1>4. row'[s] # "deleted"
  BY <1>1, Busy DEF Handle, Swap, LoadDone, LoadFails, Unload, Grant, Run, LeaveQueue, Yield, YieldCancelled,
         RunEnds, PromptEnds, CloseDone, TypeOK, store
<1>5. UNCHANGED <<reserved, cleaner>>
  BY DEF Handle, Swap, LoadDone, LoadFails, Unload, Grant, Run, LeaveQueue, Yield, YieldCancelled,
         RunEnds, PromptEnds, CloseDone, leases
<1> QED
  BY <1>1, <1>2, <1>3, <1>4, <1>5, Busy DEF Works

LEMMA HandlerServed ==
  ASSUME TypeOK, Safe, NEW r \in Requests, Handle(r),
         NEW s, s = request[r].session, NEW c, c = request[r].conn
  PROVE  (request'[r] = NoRequest \/ Served(r)') /\ Settled(s)'
<1>0. Served(r) /\ Settled(s) /\ s \in Sessions
  BY HandlerWorks, Busy DEF Safe, Handlers, Bindings
<1>1. CASE Swap(r)
  <2>1. request'[r] = [request[r] EXCEPT !.at = "replay"] /\ UNCHANGED <<bound, row>>
    BY <1>1 DEF Swap, Now, TypeOK, store, leases
  <2>2. tools'[s] \in {None, c}
    BY <1>0, <1>1 DEF Swap, Bind, TypeOK
  <2>3. request[r].at = "swap"
    BY <1>1 DEF Swap
  <2>4. request'[r].conn = c /\ request'[r].session = s /\ request'[r].at = "replay"
    BY <2>1 DEF TypeOK
  <2> QED
    BY <1>0, <2>1, <2>2, <2>3, <2>4 DEF Served, Settled, Own, PhaseOf, Loading, Prompting
<1>2. CASE LoadDone(r)
  <2>1. request'[r] = NoRequest /\ UNCHANGED <<tools, row>>
    BY <1>2 DEF LoadDone, Gone, TypeOK, store, clientTools
  <2>2. bound[s].conn = c /\ bound[s].task = None /\ Own(s, c) /\ bound[s].phase \in {"loading", "disconnecting"}
    BY <1>0, <1>2 DEF LoadDone, Served, PhaseOf, Loading, Prompting
  <2>3. bound'[s].conn = c /\ bound'[s].task = None /\ bound'[s].phase \in {"idle", "disconnecting"}
    BY <1>0, <1>2, <2>2 DEF LoadDone, EndedOperation, TypeOK
  <2> QED
    BY <1>0, <2>1, <2>2, <2>3 DEF Settled, Own
<1>3. CASE LoadFails(r)
  <2>0. UNCHANGED <<tools, row>>
    BY <1>3 DEF LoadFails, store, clientTools
  <2>1. bound[s].conn = c /\ bound[s].task = None /\ bound[s].phase \in {"loading", "disconnecting"}
    BY <1>0, <1>3 DEF LoadFails, Served, PhaseOf, Loading, Prompting
  <2>2. CASE request[r].fresh
    <3>1. /\ request'[r].conn = c /\ request'[r].session = s /\ request'[r].at = "unload"
          /\ UNCHANGED bound
      BY <1>3, <2>2 DEF LoadFails, Now, TypeOK
    <3> QED
      BY <1>0, <1>3, <2>0, <2>1, <3>1 DEF LoadFails, Served, Settled, Own, PhaseOf, Loading, Prompting
  <2>3. CASE ~request[r].fresh
    <3>1. request'[r] = NoRequest
      BY <1>3, <2>3 DEF LoadFails, Gone, TypeOK
    <3>2. bound'[s].conn = c /\ bound'[s].task = None /\ bound'[s].phase \in {"idle", "disconnecting"}
      BY <1>0, <1>3, <2>1, <2>3 DEF LoadFails, EndedOperation, TypeOK
    <3>3. Own(s, c)
      BY <1>0, <1>3, <2>3 DEF LoadFails, Served
    <3> QED
      BY <1>0, <2>0, <3>1, <3>2, <3>3 DEF Settled, Own
  <2> QED
    BY <2>2, <2>3
<1>4. CASE Unload(r)
  <2>1. request'[r] = NoRequest
    BY <1>4 DEF Unload, Gone, TypeOK
  <2>2. bound[s].conn = c /\ bound[s].task = None
    BY <1>0, <1>4 DEF Unload, Served, Loading, Prompting
  <2>3. bound'[s] = Free /\ row' = row /\ tools'[s] \in {tools[s], None}
    BY <1>0, <1>4, <2>2 DEF Unload, Detached, TypeOK, store
  <2> QED
    BY <1>0, <2>1, <2>3 DEF Settled, Free
<1>5. CASE Grant(r) \/ Run(r) \/ LeaveQueue(r) \/ Yield(r) \/ YieldCancelled(r) \/ RunEnds(r)
  <2>1. request[r].at \in Prompting /\ UNCHANGED <<bound, row, tools>>
    BY <1>5 DEF Grant, Run, LeaveQueue, Yield, YieldCancelled, RunEnds, store, leases, clientTools, Prompting
  <2>2. request'[r].conn = c /\ request'[r].session = s /\ request'[r].at \in Prompting
    BY <1>5 DEF Grant, Run, LeaveQueue, Yield, YieldCancelled, RunEnds, Now, TypeOK, Prompting
  <2> QED
    BY <1>0, <2>1, <2>2 DEF Served, Settled, Own, PhaseOf, Loading, Prompting
<1>6. CASE PromptEnds(r)
  <2>1. request'[r] = NoRequest /\ tools' = tools
    BY <1>6 DEF PromptEnds, Gone, TypeOK, clientTools
  <2>2. /\ bound[s].conn = c /\ bound[s].task = r /\ Own(s, c) /\ row[s] = "open"
        /\ bound[s].phase \in {"running", "disconnecting"}
    BY <1>0, <1>6 DEF PromptEnds, Served, PhaseOf, Loading, Prompting
  <2>3. /\ row'[s] = "open" /\ bound'[s].conn = c
        /\ \/ bound'[s].phase = "disconnecting"
           \/ bound'[s].phase = "idle" /\ bound'[s].task = None
    BY <1>0, <1>6, <2>2 DEF PromptEnds, EndedPrompt, TypeOK
  <2> QED
    BY <2>1, <2>2, <2>3 DEF Settled, Own
<1>7. CASE CloseDone(r)
  <2>1. request'[r] = NoRequest
    BY <1>7 DEF CloseDone, Gone, TypeOK
  <2>2. bound[s].conn = c /\ bound[s].task = None
    BY <1>0, <1>7 DEF CloseDone, Served, Prompting
  <2>3. bound'[s] = Free /\ row' = row /\ tools'[s] \in {tools[s], None}
    BY <1>0, <1>7, <2>2 DEF CloseDone, Detached, TypeOK, store, clientTools
  <2> QED
    BY <1>0, <2>1, <2>3 DEF Settled, Free
<1> QED
  BY <1>1, <1>2, <1>3, <1>4, <1>5, <1>6, <1>7 DEF Handle

\* A session that is begun on was idle or free: nobody worked on it.
LEMMA NobodyWorks ==
  ASSUME TypeOK, Safe, NEW s \in Sessions, bound[s].phase \in {"none", "idle"}
  PROVE  \A q \in Active : request[q].session # s
  BY DEF Safe, Handlers, Served, PhaseOf, Loading, Prompting

LEMMA LoadBeginSafe ==
  ASSUME TypeOK, Safe, NEW r \in Requests, NEW c \in Connections, NEW s \in Sessions, LoadBegin(r, c, s)
  PROVE  Safe'
<1>0. Settled(s) /\ \A q \in Active : request[q].session # s
  BY NobodyWorks DEF LoadBegin, Safe, Bindings
<1>1. Works(r, s)
  <2>1. \A w \in Cleaners : s \notin cleaner[w].holds
    BY DEF LoadBegin, Attachable, Safe, Holds
  <2>2. /\ \A q \in Requests \ {r} : request'[q] = request[q]
        /\ request'[r].session = s
    BY DEF LoadBegin, TypeOK
  <2>3. \A t \in Sessions \ {s} : /\ bound'[t] = bound[t] /\ tools'[t] = tools[t]
                                  /\ row'[t] = row[t] /\ history'[t] = history[t]
    BY DEF LoadBegin, Bind, clientTools, TypeOK
  <2> QED
    BY <1>0, <2>1, <2>2, <2>3 DEF Works, LoadBegin
<1>2. Served(r)'
  BY <1>0 DEF LoadBegin, Attachable, Bind, clientTools, TypeOK, Served, Settled, Own, Free, PhaseOf, Loading, Prompting
<1>3. Settled(s)'
  BY <1>0 DEF LoadBegin, TypeOK, Settled, Free
<1> QED
  BY <1>1, <1>2, <1>3, WorkIsSafe

LEMMA PromptBeginSafe ==
  ASSUME TypeOK, Safe, NEW r \in Requests, NEW c \in Connections, NEW s \in Sessions, PromptBegin(r, c, s)
  PROVE  Safe'
<1>0. Settled(s) /\ \A q \in Active : request[q].session # s
  BY NobodyWorks DEF PromptBegin, MayBegin, Safe, Bindings
<1>1. Works(r, s)
  BY <1>0 DEF PromptBegin, MayBegin, Works, Safe, Holds, Free, store, clientTools, TypeOK
<1>2. Served(r)'
  BY <1>0 DEF PromptBegin, MayBegin, store, clientTools, TypeOK, Served, Settled, Own, NoRequest, PhaseOf, Loading, Prompting
<1>3. Settled(s)'
  BY <1>0 DEF PromptBegin, store, clientTools, TypeOK, Settled, Free
<1> QED
  BY <1>1, <1>2, <1>3, WorkIsSafe

LEMMA CloseBeginSafe ==
  ASSUME TypeOK, Safe, NEW r \in Requests, NEW c \in Connections, NEW s \in Sessions, CloseBegin(r, c, s)
  PROVE  Safe'
<1>0. Settled(s) /\ \A q \in Active : request[q].session # s
  BY NobodyWorks DEF CloseBegin, MayBegin, Safe, Bindings
<1>1. Works(r, s)
  BY <1>0 DEF CloseBegin, MayBegin, Works, Safe, Holds, Free, store, clientTools, TypeOK
<1>2. Served(r)'
  BY <1>0 DEF CloseBegin, MayBegin, clientTools, TypeOK, Served, Settled, Own, NoRequest, PhaseOf, Loading, Prompting
<1>3. Settled(s)'
  BY <1>0 DEF CloseBegin, clientTools, TypeOK, Settled, Free
<1> QED
  BY <1>1, <1>2, <1>3, WorkIsSafe

-----------------------------------------------------------------------------
(* The steps of connections and cleaners.                                  *)

LEMMA NewSessionSafe ==
  ASSUME TypeOK, Safe, NEW c \in Connections, NEW s \in Sessions, NewSession(c, s)
  PROVE  Safe'
<1>1. \A q \in Active : request[q].session # s
  BY DEF Safe, Handlers, Served, NewSession
<1>2. \A w \in Cleaners : s \notin cleaner[w].holds
  BY DEF Safe, Holds, Stored, NewSession
<1>3. \A t \in Sessions \ {s} : /\ bound'[t] = bound[t] /\ tools'[t] = tools[t]
                                /\ row'[t] = row[t] /\ history'[t] = history[t]
  BY DEF NewSession, clientTools, TypeOK
<1>4. Handlers'
  BY <1>1, <1>3 DEF Safe, Handlers, Served, Own, Active, NewSession
<1>5. OneOperation'
  BY DEF Safe, OneOperation, Active, NewSession
<1>6. Settled(s)'
  BY DEF Safe, Bindings, Settled, Own, NewSession, clientTools, TypeOK
<1>7. Bindings'
  BY <1>3, <1>6 DEF Safe, Bindings, Settled, Own, Free
<1>8. Holds'
  BY <1>2, <1>3 DEF Safe, Holds, Free, Stored, TypeOK, NewSession
<1>9. NothingLeftBehind'
  BY DEF Safe, NothingLeftBehind, TypeOK, NewSession
<1> QED
  BY <1>4, <1>5, <1>7, <1>8, <1>9 DEF Safe

LEMMA BeginDisconnectSafe ==
  ASSUME TypeOK, Safe, NEW c \in Connections, BeginDisconnect(c)
  PROVE  Safe'
<1>1. \A s \in Sessions :
         /\ bound[s].conn # c => bound'[s] = bound[s]
         /\ bound[s].conn = c => bound'[s] = [bound[s] EXCEPT !.phase = "disconnecting"]
  BY DEF BeginDisconnect, TypeOK
<1>2. \A s \in Sessions : bound[s] = Free => bound'[s] = Free
  <2>1. Free.conn # c
    BY DEF Free
  <2> QED
    BY <1>1, <2>1
<1>3. UNCHANGED <<request, row, history, tools, reserved, cleaner>>
  BY DEF BeginDisconnect, store, clientTools
<1>4. ASSUME NEW s \in Sessions
      PROVE  /\ bound'[s].conn = bound[s].conn /\ bound'[s].task = bound[s].task
             /\ bound'[s].phase \in {bound[s].phase, "disconnecting"}
             /\ bound'[s].phase # "disconnecting" => bound'[s] = bound[s]
  <2>1. bound[s] \in [conn : Connections \cup {None},
                      phase : {"none", "idle", "loading", "mutating", "running", "disconnecting"},
                      task : Requests \cup {None}]
    BY DEF TypeOK
  <2> QED
    BY <1>1, <2>1
<1>5. Handlers'
  BY <1>3, <1>4 DEF Safe, Handlers, Served, Own, Active
<1>6. Bindings'
  BY <1>3, <1>4 DEF Safe, Bindings, Settled, Own, Free
<1>7. OneOperation' /\ NothingLeftBehind'
  BY <1>3 DEF Safe, OneOperation, NothingLeftBehind, Active
<1>8. Holds'
  BY <1>2, <1>3 DEF Safe, Holds, Stored, Free, TypeOK
<1> QED
  BY <1>5, <1>6, <1>7, <1>8 DEF Safe

LEMMA ReleaseToolsSafe ==
  ASSUME TypeOK, Safe, NEW c \in Connections, ReleaseTools(c)
  PROVE  Safe'
<1>1. UNCHANGED <<request, row, history, bound, reserved, cleaner>>
  BY DEF ReleaseTools, store, leases
<1>2. \A s \in Sessions : tools'[s] \in {tools[s], None}
  BY DEF ReleaseTools, TypeOK
<1> QED
  BY <1>1, <1>2 DEF Safe, Handlers, Served, OneOperation, Bindings, Settled, Holds, NothingLeftBehind, Own, Active, Stored, Free

LEMMA FinishDisconnectSafe ==
  ASSUME TypeOK, Safe, NEW c \in Connections, FinishDisconnect(c)
  PROVE  Safe'
<1>1. UNCHANGED <<request, row, history, tools, reserved, cleaner>>
  BY DEF FinishDisconnect, store, clientTools
<1>2. \A s \in Sessions : /\ bound[s].conn # c => bound'[s] = bound[s]
                          /\ bound[s].conn = c => bound'[s] = Free
  BY DEF FinishDisconnect
<1>3. \A r \in Active : request[r].conn # c
  BY DEF FinishDisconnect, Quiet, Of, Active
<1>4. Handlers'
  <2> SUFFICES ASSUME NEW r \in Active PROVE Served(r)'
    BY <1>1 DEF Handlers, Active
  <2>1. Served(r) /\ bound'[request[r].session] = bound[request[r].session]
    BY <1>2, <1>3 DEF Safe, Handlers, Served
  <2> QED
    BY <1>1, <2>1 DEF Served, Own
<1>5. Bindings'
  BY <1>1, <1>2 DEF Safe, Bindings, Settled, Own, Free
<1>6. OneOperation' /\ NothingLeftBehind'
  BY <1>1 DEF Safe, OneOperation, NothingLeftBehind, Active
<1>7. Holds'
  <2>1. \A s \in Sessions : bound[s] = Free => bound'[s] = Free
    BY <1>2
  <2> QED
    BY <1>1, <2>1 DEF Safe, Holds, Stored, TypeOK
<1> QED
  BY <1>4, <1>5, <1>6, <1>7 DEF Safe

\* What a cleaner chooses is stored, free and not held.
LEMMA ReserveSafe ==
  ASSUME TypeOK, Safe, NEW w \in Cleaners, Reserve(w)
  PROVE  Safe'
<1>1. PICK S \in Chosen(w) : /\ reserved' = reserved \cup S
                             /\ cleaner' = [cleaner EXCEPT ![w] = [holds |-> S, todo |-> S, purged |-> {}]]
  BY DEF Reserve
<1>2. \A s \in S : s \in Sessions /\ Stored(s) /\ bound[s] = Free /\ s \notin reserved
  BY <1>1 DEF Chosen, Reservable
<1>3. UNCHANGED <<request, row, history, tools, bound>>
  BY DEF Reserve, store, clientTools
<1>4. Handlers' /\ Bindings' /\ OneOperation' /\ NothingLeftBehind'
  BY <1>3 DEF Safe, Handlers, Served, OneOperation, Bindings, Settled, NothingLeftBehind, Own, Active, Free
<1>5. /\ cleaner'[w] = [holds |-> S, todo |-> S, purged |-> {}]
      /\ \A v \in Cleaners \ {w} : cleaner'[v] = cleaner[v] /\ S \cap cleaner[v].holds = {}
  BY <1>1, <1>2 DEF TypeOK, Safe, Holds
<1>6. Holds'
  BY <1>1, <1>2, <1>3, <1>5 DEF Safe, Holds, Stored, Free
<1> QED
  BY <1>4, <1>6 DEF Safe

LEMMA PurgeSafe ==
  ASSUME TypeOK, Safe, NEW w \in Cleaners, Purge(w)
  PROVE  Safe'
<1>1. UNCHANGED <<request, row, bound, reserved>>
  BY DEF Purge, leases
<1>2. PICK s \in cleaner[w].todo, deleted \in BOOLEAN :
        /\ tools' \in {tools, [tools EXCEPT ![s] = None]}
        /\ history' = [history EXCEPT ![s] = @ /\ ~deleted]
        /\ cleaner' = [cleaner EXCEPT ![w].todo = @ \ {s},
                                      ![w].purged = IF deleted THEN @ \cup {s} ELSE @]
  BY DEF Purge
<1>3. s \in Sessions /\ s \in cleaner[w].holds
  BY DEF Safe, Holds, TypeOK
<1>4. /\ \A t \in Sessions : tools'[t] \in {tools[t], None}
      /\ \A t \in Sessions : history'[t] => history[t]
      /\ deleted => ~history'[s]
  BY <1>2, <1>3 DEF TypeOK
<1>5. Handlers' /\ Bindings' /\ OneOperation' /\ NothingLeftBehind'
  BY <1>1, <1>4 DEF Safe, Handlers, Served, OneOperation, Bindings, Settled, NothingLeftBehind, Own, Active, Free
<1>6. /\ \A v \in Cleaners \ {w} : cleaner'[v] = cleaner[v]
      /\ cleaner'[w].holds = cleaner[w].holds
      /\ cleaner'[w].todo = cleaner[w].todo \ {s}
      /\ cleaner'[w].purged = IF deleted THEN cleaner[w].purged \cup {s} ELSE cleaner[w].purged
  BY <1>2 DEF TypeOK
<1>7. Holds'
  <2>1. ASSUME NEW v \in Cleaners
        PROVE  /\ cleaner'[v].holds = cleaner[v].holds
               /\ cleaner'[v].todo \subseteq cleaner[v].holds
               /\ cleaner'[v].purged \subseteq cleaner[v].holds
               /\ \A t \in cleaner'[v].purged : ~history'[t]
    <3>1. CASE v = w
      BY <1>3, <1>4, <1>6, <3>1 DEF Safe, Holds, TypeOK
    <3>2. CASE v # w
      BY <1>4, <1>6, <3>2 DEF Safe, Holds, TypeOK
    <3> QED
      BY <3>1, <3>2
  <2> QED
    BY <1>1, <2>1 DEF Safe, Holds, Stored
<1> QED
  BY <1>5, <1>7 DEF Safe

\* A cleaner that stops lets go of what it held and nothing else.
LEMMA Releases ==
  ASSUME TypeOK, Safe, NEW w \in Cleaners, UNCHANGED <<bound, history>>, reserved' = Released(w),
         cleaner' = [cleaner EXCEPT ![w] = NoWork],
         \A s \in Sessions : s \notin cleaner[w].holds => row'[s] = row[s]
  PROVE  Holds'
<1>1. cleaner'[w] = NoWork /\ \A v \in Cleaners \ {w} : cleaner'[v] = cleaner[v]
  BY DEF TypeOK
<1>2. \A v \in Cleaners \ {w} : cleaner[v].holds \subseteq reserved' /\ cleaner[v].holds \cap cleaner[w].holds = {}
  BY DEF Safe, Holds, Released
<1> QED
  BY <1>1, <1>2 DEF Safe, Holds, Stored, Free, NoWork, TypeOK

LEMMA CleanerDoneSafe ==
  ASSUME TypeOK, Safe, NEW w \in Cleaners, CleanerDone(w)
  PROVE  Safe'
<1>1. UNCHANGED <<request, history, tools, bound>>
  BY DEF CleanerDone, clientTools
<1>2. /\ \A s \in Sessions : s \notin cleaner[w].holds => row'[s] = row[s]
      /\ \A s \in Sessions : row'[s] # row[s] => row'[s] = "deleted" /\ ~history[s]
  BY DEF CleanerDone, Deletable, Safe, Holds
<1>3. Holds'
  BY <1>1, <1>2, Releases DEF CleanerDone
<1>4. \A r \in Active : row'[request[r].session] = row[request[r].session]
  BY <1>2, Busy
<1>5. Handlers'
  BY <1>1, <1>4 DEF Safe, Handlers, Served, Own, Active
<1>6. Bindings' /\ NothingLeftBehind' /\ OneOperation'
  BY <1>1, <1>2 DEF Safe, Bindings, Settled, NothingLeftBehind, OneOperation, Own, Active, Free
<1> QED
  BY <1>3, <1>5, <1>6 DEF Safe

LEMMA CleanerFailsSafe ==
  ASSUME TypeOK, Safe, NEW w \in Cleaners, CleanerFails(w)
  PROVE  Safe'
<1>1. UNCHANGED <<request, row, history, tools, bound>>
  BY DEF CleanerFails, store, clientTools
<1>2. Holds'
  BY <1>1, Releases DEF CleanerFails
<1> QED
  BY <1>1, <1>2 DEF Safe, Handlers, Served, OneOperation, Bindings, Settled, NothingLeftBehind, Own, Active, Free

LEMMA RestartSafe == ASSUME TypeOK, Safe, Restart PROVE Safe'
<1>1. /\ Active' = {}
      /\ \A s \in Sessions : bound'[s] = Free /\ tools'[s] = None
      /\ \A w \in Cleaners : cleaner'[w] = NoWork
      /\ UNCHANGED <<row, history>>
  BY DEF Restart, Active, store
<1> QED
  BY <1>1 DEF Safe, Handlers, OneOperation, Bindings, Settled, Holds, NothingLeftBehind, Free, NoWork

LEMMA NextSafe == TypeOK /\ Safe /\ [Next]_vars => Safe'
<1> SUFFICES ASSUME TypeOK, Safe, [Next]_vars PROVE Safe'
  OBVIOUS
<1>1. ASSUME UNCHANGED <<row, history, bound, reserved, request, tools, cleaner>> PROVE Safe'
  BY <1>1 DEF Safe, Handlers, Served, OneOperation, Bindings, Settled, Holds, NothingLeftBehind, Own, Active, Free, Stored
<1>2. CASE UNCHANGED vars
  BY <1>1, <1>2 DEF vars
<1>3. ASSUME NEW c \in Connections,
             Connect(c) \/ BeginDisconnect(c) \/ ReleaseTools(c) \/ FinishDisconnect(c)
      PROVE  Safe'
  BY <1>1, <1>3, BeginDisconnectSafe, ReleaseToolsSafe, FinishDisconnectSafe
     DEF Connect, store, leases, clientTools
<1>4. ASSUME NEW c \in Connections, NEW s \in Sessions,
             \/ NewSession(c, s)
             \/ \E r \in Requests : LoadBegin(r, c, s) \/ PromptBegin(r, c, s) \/ CloseBegin(r, c, s)
      PROVE  Safe'
  BY <1>4, NewSessionSafe, LoadBeginSafe, PromptBeginSafe, CloseBeginSafe
<1>5. ASSUME NEW r \in Requests, Handle(r)
      PROVE  Safe'
  <2>1. PICK s : s = request[r].session
    OBVIOUS
  <2>2. PICK c : c = request[r].conn
    OBVIOUS
  <2>3. Works(r, s) /\ s \in Sessions
    BY <1>5, <2>1, HandlerWorks, Busy
  <2>4. (request'[r] = NoRequest \/ Served(r)') /\ Settled(s)'
    BY <1>5, <2>1, <2>2, HandlerServed
  <2> QED
    BY <2>3, <2>4, WorkIsSafe
<1>6. ASSUME NEW w \in Cleaners, Reserve(w) \/ Purge(w) \/ CleanerDone(w) \/ CleanerFails(w)
      PROVE  Safe'
  BY <1>6, ReserveSafe, PurgeSafe, CleanerDoneSafe, CleanerFailsSafe
<1>7. ASSUME NEW s \in Sessions, Expire(s)
      PROVE  Safe'
  BY <1>1, <1>7 DEF Expire, leases, clientTools
<1>8. ASSUME NEW on \in BOOLEAN, SetDraining(on)
      PROVE  Safe'
  BY <1>1, <1>8 DEF SetDraining, store, clientTools
<1>9. CASE Restart
  BY <1>9, RestartSafe
<1> QED
  BY <1>2, <1>3, <1>4, <1>5, <1>6, <1>7, <1>8, <1>9 DEF Next

-----------------------------------------------------------------------------
(* Run slots.                                                              *)

Holding == {"granted", "yielding", "running"}

\* A step of handler r changes what it holds and nothing else.
LEMMA SlotKept ==
  ASSUME Slots, NEW r \in Requests, permits' = permits,
         \A q \in Requests \ {r} : request'[q] = request[q],
         request'[r].at \in Holding => request[r].at \in Holding,
         permits \in 0 .. MaxRuns
  PROVE  Slots'
<1>1. Holders' \subseteq Holders
  BY DEF Holders, Holding
<1>2. IsFiniteSet(Holders') /\ Cardinality(Holders') <= Cardinality(Holders)
  BY <1>1, FS_Subset DEF Slots
<1>3. Cardinality(Holders) \in Nat /\ Cardinality(Holders') \in Nat
  BY <1>2, FS_CardinalityType DEF Slots
<1> QED
  BY <1>2, <1>3, MaxRunsPositive DEF Slots

LEMMA SlotTaken ==
  ASSUME Slots, NEW r \in Requests, permits' = permits - 1,
         \A q \in Requests \ {r} : request'[q] = request[q],
         request'[r].at \in Holding, request[r].at \notin Holding,
         permits \in 0 .. MaxRuns
  PROVE  Slots'
<1>1. Holders' = Holders \cup {r} /\ r \notin Holders
  BY DEF Holders, Holding
<1>2. IsFiniteSet(Holders') /\ Cardinality(Holders') = Cardinality(Holders) + 1
  BY <1>1, FS_AddElement DEF Slots
<1>3. Cardinality(Holders) \in Nat
  BY FS_CardinalityType DEF Slots
<1> QED
  BY <1>2, <1>3, MaxRunsPositive DEF Slots

LEMMA SlotGiven ==
  ASSUME Slots, NEW r \in Requests, permits' = permits + 1,
         \A q \in Requests \ {r} : request'[q] = request[q],
         request'[r].at \notin Holding, request[r].at \in Holding,
         permits \in 0 .. MaxRuns
  PROVE  Slots' /\ permits' \in 0 .. MaxRuns
<1>1. Holders' = Holders \ {r} /\ r \in Holders
  BY DEF Holders, Holding
<1>2. IsFiniteSet(Holders') /\ Cardinality(Holders') = Cardinality(Holders) - 1
  BY <1>1, FS_RemoveElement DEF Slots
<1>3. Cardinality(Holders) \in Nat /\ Cardinality(Holders') \in Nat
  BY <1>2, FS_CardinalityType DEF Slots
<1> QED
  BY <1>2, <1>3, MaxRunsPositive DEF Slots

LEMMA NextSlots == TypeOK /\ Slots /\ [Next]_vars => Slots' /\ permits' \in 0 .. MaxRuns
<1> SUFFICES ASSUME TypeOK, Slots, [Next]_vars PROVE Slots' /\ permits' \in 0 .. MaxRuns
  OBVIOUS
<1>0. permits \in 0 .. MaxRuns
  BY DEF TypeOK
<1>1. ASSUME UNCHANGED <<request, permits>> PROVE Slots' /\ permits' \in 0 .. MaxRuns
  BY <1>0, <1>1 DEF Slots, Holders
<1>2. CASE UNCHANGED vars
  BY <1>1, <1>2 DEF vars
<1>3. ASSUME NEW c \in Connections,
             Connect(c) \/ BeginDisconnect(c) \/ ReleaseTools(c) \/ FinishDisconnect(c)
      PROVE  Slots' /\ permits' \in 0 .. MaxRuns
  BY <1>1, <1>3 DEF Connect, BeginDisconnect, ReleaseTools, FinishDisconnect
<1>4. ASSUME NEW c \in Connections, NEW s \in Sessions,
             \/ NewSession(c, s)
             \/ \E r \in Requests : LoadBegin(r, c, s) \/ PromptBegin(r, c, s) \/ CloseBegin(r, c, s)
      PROVE  Slots' /\ permits' \in 0 .. MaxRuns
  <2>1. CASE NewSession(c, s)
    BY <1>1, <2>1 DEF NewSession
  <2>2. ASSUME NEW r \in Requests, LoadBegin(r, c, s) \/ PromptBegin(r, c, s) \/ CloseBegin(r, c, s)
        PROVE  Slots' /\ permits' \in 0 .. MaxRuns
    <3>1. /\ permits' = permits
          /\ \A q \in Requests \ {r} : request'[q] = request[q]
      BY <2>2 DEF LoadBegin, PromptBegin, CloseBegin, TypeOK
    <3>2. request'[r].at \notin Holding
      <4>1. LoadBegin(r, c, s) => request'[r].at \in {"swap", "replay"}
        BY DEF LoadBegin, TypeOK
      <4>2. PromptBegin(r, c, s) => request'[r].at = "queued"
        BY DEF PromptBegin, TypeOK, NoRequest
      <4>3. CloseBegin(r, c, s) => request'[r].at = "releasing"
        BY DEF CloseBegin, TypeOK, NoRequest
      <4> QED
        BY <2>2, <4>1, <4>2, <4>3 DEF Holding
    <3> QED
      BY <1>0, <3>1, <3>2, SlotKept
  <2> QED
    BY <1>4, <2>1, <2>2
<1>5. ASSUME NEW r \in Requests, Handle(r)
      PROVE  Slots' /\ permits' \in 0 .. MaxRuns
  <2>0. \A q \in Requests \ {r} : request'[q] = request[q]
    BY <1>5 DEF Handle, Swap, LoadDone, LoadFails, Unload, Grant, Run, LeaveQueue, Yield, YieldCancelled,
       RunEnds, PromptEnds, CloseDone, Now, Gone, TypeOK
  <2>1. CASE Swap(r) \/ LoadDone(r) \/ LoadFails(r) \/ Unload(r) \/ PromptEnds(r) \/ CloseDone(r)
    <3>1. permits' = permits /\ request'[r].at \notin Holding
      BY <2>1 DEF Swap, LoadDone, LoadFails, Unload, PromptEnds, CloseDone, Now, Gone, TypeOK, Holding, NoRequest
    <3> QED
      BY <1>0, <2>0, <3>1, SlotKept
  <2>2. CASE Run(r) \/ LeaveQueue(r) \/ YieldCancelled(r)
    <3>1. permits' = permits /\ (request'[r].at \in Holding => request[r].at \in Holding)
      BY <2>2 DEF Run, LeaveQueue, YieldCancelled, Now, TypeOK, Holding
    <3> QED
      BY <1>0, <2>0, <3>1, SlotKept
  <2>3. CASE Grant(r)
    <3>1. /\ permits > 0 /\ permits' = permits - 1
          /\ request[r].at \notin Holding /\ request'[r].at \in Holding
      BY <2>3 DEF Grant, Now, TypeOK, Holding
    <3> QED
      BY <1>0, <2>0, <3>1, SlotTaken, MaxRunsPositive
  <2>4. CASE Yield(r)
    <3>1. request'[r].at \notin Holding
      BY <2>4 DEF Yield, Now, TypeOK, Holding
    <3>2. CASE request[r].at = "yielding"
      BY <1>0, <2>0, <2>4, <3>1, <3>2, SlotGiven DEF Yield, Unclaimed, Holding
    <3>3. CASE request[r].at = "leaving"
      BY <1>0, <2>0, <2>4, <3>1, <3>3, SlotKept DEF Yield, Unclaimed, Holding
    <3> QED
      BY <2>4, <3>2, <3>3 DEF Yield
  <2>5. CASE RunEnds(r)
    <3>1. permits' = permits + 1 /\ request[r].at \in Holding /\ request'[r].at \notin Holding
      BY <2>5 DEF RunEnds, Now, TypeOK, Holding
    <3> QED
      BY <1>0, <2>0, <3>1, SlotGiven
  <2> QED
    BY <1>5, <2>1, <2>2, <2>3, <2>4, <2>5 DEF Handle
<1>6. ASSUME NEW w \in Cleaners, Reserve(w) \/ Purge(w) \/ CleanerDone(w) \/ CleanerFails(w)
      PROVE  Slots' /\ permits' \in 0 .. MaxRuns
  BY <1>1, <1>6 DEF Reserve, Purge, CleanerDone, CleanerFails
<1>7. ASSUME NEW s \in Sessions, Expire(s)
      PROVE  Slots' /\ permits' \in 0 .. MaxRuns
  BY <1>1, <1>7 DEF Expire
<1>8. ASSUME NEW on \in BOOLEAN, SetDraining(on)
      PROVE  Slots' /\ permits' \in 0 .. MaxRuns
  BY <1>1, <1>8 DEF SetDraining
<1>9. CASE Restart
  <2>1. Holders' = {} /\ permits' = MaxRuns
    BY <1>9 DEF Restart, Holders, NoRequest
  <2> QED
    BY <2>1, FS_EmptySet, MaxRunsPositive DEF Slots
<1> QED
  BY <1>2, <1>3, <1>4, <1>5, <1>6, <1>7, <1>8, <1>9 DEF Next

-----------------------------------------------------------------------------
(* Types.                                                                  *)

Phase == {"none", "idle", "loading", "mutating", "running", "disconnecting"}
At == {"none", "swap", "replay", "unload", "queued", "granted",
       "leaving", "yielding", "running", "ending", "releasing"}
Binding == [conn : Connections \cup {None}, phase : Phase, task : Requests \cup {None}]
Handler == [conn : Connections \cup {None}, session : Sessions \cup {None}, at : At,
            fresh : BOOLEAN, offers : BOOLEAN]
Work == [holds : SUBSET Sessions, todo : SUBSET Sessions, purged : SUBSET Sessions]

Typed ==
  /\ row \in [Sessions -> {"none", "open", "closed", "deleted"}]
  /\ old \in [Sessions -> BOOLEAN] /\ history \in [Sessions -> BOOLEAN]
  /\ bound \in [Sessions -> Binding]
  /\ reserved \subseteq Sessions /\ draining \in BOOLEAN
  /\ conn \in [Connections -> {"none", "open", "closing"}]
  /\ request \in [Requests -> Handler]
  /\ tools \in [Sessions -> Connections \cup {None}]
  /\ tracked \in [Connections -> SUBSET Sessions]
  /\ permits \in 0 .. MaxRuns
  /\ cleaner \in [Cleaners -> Work]

LEMMA TypedIsTypeOK == TypeOK <=> Typed
  BY DEF TypeOK, Typed, Binding, Handler, Work, Phase, At

LEMMA FreeBinding == Free \in Binding
  BY DEF Free, Binding, Phase

LEMMA NoHandler == NoRequest \in Handler
  BY DEF NoRequest, Handler, At

LEMMA NoneWorks == NoWork \in Work
  BY DEF NoWork, Work

LEMMA NextTyped == IInv /\ [Next]_vars => TypeOK'
<1>0. Typed' => TypeOK'
  BY DEF TypeOK, Typed, Binding, Handler, Work, Phase, At
<1> SUFFICES ASSUME Typed, TypeOK, Slots, Safe, [Next]_vars PROVE Typed'
  BY <1>0, TypedIsTypeOK DEF IInv
<1>1. permits' \in 0 .. MaxRuns
  BY NextSlots
<1>2. CASE UNCHANGED vars
  BY <1>2 DEF vars, Typed
<1>3. ASSUME NEW c \in Connections,
             Connect(c) \/ BeginDisconnect(c) \/ ReleaseTools(c) \/ FinishDisconnect(c)
      PROVE  Typed'
  <2>1. CASE Connect(c)
    BY <1>1, <2>1 DEF Connect, store, leases, clientTools, Typed
  <2>2. CASE BeginDisconnect(c)
    <3>1. \A b \in Binding : [b EXCEPT !.phase = "disconnecting"] \in Binding
      BY DEF Binding, Phase
    <3> QED
      BY <1>1, <2>2, <3>1 DEF BeginDisconnect, store, clientTools, Typed
  <2>3. CASE ReleaseTools(c)
    BY <1>1, <2>3 DEF ReleaseTools, store, leases, Typed
  <2>4. CASE FinishDisconnect(c)
    BY <1>1, <2>4, FreeBinding DEF FinishDisconnect, store, clientTools, Typed
  <2> QED
    BY <1>3, <2>1, <2>2, <2>3, <2>4
<1>4. ASSUME NEW c \in Connections, NEW s \in Sessions,
             \/ NewSession(c, s)
             \/ \E r \in Requests : LoadBegin(r, c, s) \/ PromptBegin(r, c, s) \/ CloseBegin(r, c, s)
      PROVE  Typed'
  <2>1. CASE NewSession(c, s)
    <3>1. [conn |-> c, phase |-> "idle", task |-> None] \in Binding
      BY DEF Binding, Phase
    <3> QED
      BY <1>1, <2>1, <3>1 DEF NewSession, clientTools, Typed
  <2>2. ASSUME NEW r \in Requests, LoadBegin(r, c, s)
        PROVE  Typed'
    <3>1. [conn |-> c, phase |-> "loading", task |-> None] \in Binding
      BY DEF Binding, Phase
    <3>2. \A at \in At, fresh \in BOOLEAN, offers \in BOOLEAN :
            [conn |-> c, session |-> s, at |-> at, fresh |-> fresh, offers |-> offers] \in Handler
      BY DEF Handler
    <3>3. request' \in [Requests -> Handler]
      <4>1. PICK offers \in BOOLEAN, swap \in BOOLEAN :
              request' = [request EXCEPT ![r] =
                [conn |-> c, session |-> s, at |-> IF swap THEN "swap" ELSE "replay",
                 fresh |-> bound[s] = Free, offers |-> offers]]
        BY <2>2 DEF LoadBegin
      <4>2. (IF swap THEN "swap" ELSE "replay") \in At /\ (bound[s] = Free) \in BOOLEAN
        BY DEF At
      <4>3. [conn |-> c, session |-> s, at |-> IF swap THEN "swap" ELSE "replay",
             fresh |-> bound[s] = Free, offers |-> offers] \in Handler
        BY <3>2, <4>2
      <4> QED
        BY <4>1, <4>3 DEF Typed
    <3>4. /\ tools' \in [Sessions -> Connections \cup {None}]
          /\ tracked' \in [Connections -> SUBSET Sessions]
      BY <2>2 DEF LoadBegin, Bind, clientTools, Typed
    <3> QED
      BY <1>1, <2>2, <3>1, <3>3, <3>4 DEF LoadBegin, Typed
  <2>3. ASSUME NEW r \in Requests, PromptBegin(r, c, s)
        PROVE  Typed'
    <3>1. \A b \in Binding : [[b EXCEPT !.phase = "running"] EXCEPT !.task = r] \in Binding
      BY DEF Binding, Phase
    <3>2. [NoRequest EXCEPT !.conn = c, !.session = s, !.at = "queued"] \in Handler
      BY DEF NoRequest, Handler, At
    <3>3. bound' = [bound EXCEPT ![s] = [[bound[s] EXCEPT !.phase = "running"] EXCEPT !.task = r]]
      BY <2>3 DEF PromptBegin, Typed
    <3>4. bound' \in [Sessions -> Binding]
      BY <3>1, <3>3 DEF Typed
    <3> QED
      BY <1>1, <2>3, <3>2, <3>4 DEF PromptBegin, store, clientTools, Typed
  <2>4. ASSUME NEW r \in Requests, CloseBegin(r, c, s)
        PROVE  Typed'
    <3>1. \A b \in Binding : [b EXCEPT !.phase = "mutating"] \in Binding
      BY DEF Binding, Phase
    <3>2. [NoRequest EXCEPT !.conn = c, !.session = s, !.at = "releasing"] \in Handler
      BY DEF NoRequest, Handler, At
    <3> QED
      BY <1>1, <2>4, <3>1, <3>2 DEF CloseBegin, clientTools, Typed
  <2> QED
    BY <1>4, <2>1, <2>2, <2>3, <2>4
<1>5. ASSUME NEW r \in Requests, Handle(r)
      PROVE  Typed'
  <2>0. Served(r) /\ request[r].session \in Sessions /\ request[r].conn \in Connections
    BY <1>5, HandlerWorks DEF Safe, Handlers, Served
  <2>1. request' \in [Requests -> Handler]
    <3>1. \A at \in At : Now(r, at) => request' \in [Requests -> Handler]
      <4>1. \A q \in Handler, at \in At : [q EXCEPT !.at = at] \in Handler
        BY DEF Handler
      <4> QED
        BY <4>1 DEF Now, Typed
    <3>2. Gone(r) => request' \in [Requests -> Handler]
      BY NoHandler DEF Gone, Typed
    <3> QED
      BY <1>5, <3>1, <3>2 DEF Handle, Swap, LoadDone, LoadFails, Unload, Grant, Run, LeaveQueue, Yield,
         YieldCancelled, RunEnds, PromptEnds, CloseDone, At
  <2>2. CASE Swap(r)
    BY <1>1, <2>0, <2>1, <2>2 DEF Swap, Bind, store, leases, Typed
  <2>3. CASE LoadDone(r) \/ LoadFails(r)
    <3>1. \A b \in Binding : [b EXCEPT !.phase = "idle"] \in Binding
      BY DEF Binding, Phase
    <3> QED
      BY <1>1, <2>0, <2>1, <2>3, <3>1 DEF LoadDone, LoadFails, EndedOperation, store, clientTools, Typed
  <2>4. CASE Unload(r)
    BY <1>1, <2>0, <2>1, <2>4, FreeBinding DEF Unload, Detached, store, Typed
  <2>5. CASE CloseDone(r)
    BY <1>1, <2>0, <2>1, <2>5, FreeBinding DEF CloseDone, Detached, store, clientTools, Typed
  <2>6. CASE Grant(r) \/ Run(r) \/ LeaveQueue(r) \/ Yield(r) \/ YieldCancelled(r) \/ RunEnds(r)
    BY <1>1, <2>0, <2>1, <2>6 DEF Grant, Run, LeaveQueue, Yield, YieldCancelled, RunEnds,
       store, leases, clientTools, Typed
  <2>7. CASE PromptEnds(r)
    <3>1. [conn |-> request[r].conn, phase |-> "idle", task |-> None] \in Binding
      BY <2>0 DEF Binding, Phase
    <3>2. bound' \in [Sessions -> Binding]
      BY <2>0, <2>7, <3>1 DEF PromptEnds, EndedPrompt, Typed
    <3>3. row' \in [Sessions -> {"none", "open", "closed", "deleted"}] /\ old' \in [Sessions -> BOOLEAN]
      BY <2>0, <2>7 DEF PromptEnds, Typed
    <3> QED
      BY <1>1, <2>1, <2>7, <3>2, <3>3 DEF PromptEnds, clientTools, Typed
  <2> QED
    BY <1>5, <2>2, <2>3, <2>4, <2>5, <2>6, <2>7 DEF Handle
<1>6. ASSUME NEW w \in Cleaners, Reserve(w) \/ Purge(w) \/ CleanerDone(w) \/ CleanerFails(w)
      PROVE  Typed'
  <2>1. CASE Reserve(w)
    <3>1. \A S \in Chosen(w) : S \subseteq Sessions
      BY DEF Chosen
    <3>2. \A S \in Chosen(w) : [holds |-> S, todo |-> S, purged |-> {}] \in Work
      BY <3>1 DEF Work
    <3> QED
      BY <1>1, <2>1, <3>1, <3>2 DEF Reserve, store, clientTools, Typed
  <2>2. CASE Purge(w)
    <3>1. PICK s \in cleaner[w].todo, deleted \in BOOLEAN :
            /\ tools' \in {tools, [tools EXCEPT ![s] = None]}
            /\ history' = [history EXCEPT ![s] = @ /\ ~deleted]
            /\ cleaner' = [cleaner EXCEPT ![w].todo = @ \ {s},
                                          ![w].purged = IF deleted THEN @ \cup {s} ELSE @]
      BY <2>2 DEF Purge
    <3>2. s \in Sessions
      BY DEF TypeOK
    <3>3. tools' \in [Sessions -> Connections \cup {None}] /\ history' \in [Sessions -> BOOLEAN]
      BY <3>1, <3>2 DEF Typed
    <3>4. cleaner' \in [Cleaners -> Work]
      <4>1. cleaner[w] \in Work
        BY DEF Typed
      <4>2. [[cleaner[w] EXCEPT !.todo = @ \ {s}] EXCEPT !.purged = IF deleted THEN @ \cup {s} ELSE @] \in Work
        BY <3>2, <4>1 DEF Work
      <4>3. cleaner' = [cleaner EXCEPT ![w] =
              [[cleaner[w] EXCEPT !.todo = @ \ {s}] EXCEPT !.purged = IF deleted THEN @ \cup {s} ELSE @]]
        BY <3>1, <4>1 DEF Typed, Work
      <4> QED
        BY <4>2, <4>3 DEF Typed
    <3> QED
      BY <1>1, <2>2, <3>3, <3>4 DEF Purge, leases, Typed
  <2>3. CASE CleanerDone(w) \/ CleanerFails(w)
    BY <1>1, <2>3, NoneWorks DEF CleanerDone, CleanerFails, Released, store, clientTools, Typed
  <2> QED
    BY <1>6, <2>1, <2>2, <2>3
<1>7. ASSUME NEW s \in Sessions, Expire(s)
      PROVE  Typed'
  BY <1>1, <1>7 DEF Expire, leases, clientTools, Typed
<1>8. ASSUME NEW on \in BOOLEAN, SetDraining(on)
      PROVE  Typed'
  BY <1>1, <1>8 DEF SetDraining, store, clientTools, Typed
<1>9. CASE Restart
  BY <1>1, <1>9, FreeBinding, NoHandler, NoneWorks DEF Restart, store, Typed
<1> QED
  BY <1>2, <1>3, <1>4, <1>5, <1>6, <1>7, <1>8, <1>9 DEF Next

-----------------------------------------------------------------------------
(* The theorems.                                                           *)

LEMMA InitIInv == Init => IInv
<1> SUFFICES ASSUME Init PROVE IInv
  OBVIOUS
<1>1. TypeOK
  <2>1. permits \in 0 .. MaxRuns
    BY MaxRunsPositive DEF Init, Idle
  <2>2. row \in [Sessions -> {"none", "open", "closed", "deleted"}] /\ history \in [Sessions -> BOOLEAN]
    BY DEF Init
  <2> QED
    BY <2>1, <2>2, FreeBinding, NoHandler, NoneWorks, TypedIsTypeOK DEF Init, Idle, Typed
<1>2. Slots
  <2>1. Holders = {} /\ permits = MaxRuns
    BY DEF Init, Idle, Holders, NoRequest
  <2> QED
    BY <2>1, FS_EmptySet, MaxRunsPositive DEF Slots
<1>3. Safe
  <2>1. Active = {}
    BY DEF Init, Idle, Active
  <2> QED
    BY <2>1 DEF Init, Idle, Safe, Handlers, OneOperation, Bindings, Settled, Holds, NothingLeftBehind, Free, NoWork
<1> QED
  BY <1>1, <1>2, <1>3 DEF IInv

LEMMA SessionsSound == Spec => []IInv
<1>1. IInv /\ [Next]_vars => IInv'
  BY NextTyped, NextSlots, NextSafe DEF IInv
<1> QED
  BY InitIInv, <1>1, PTL DEF Spec

\* Every variable keeps its type; in particular the free slots are never more
\* than max_active_runs, whatever is cancelled while it waits for one (runtime.py).
THEOREM TypeCorrect == Spec => []TypeOK
<1>1. IInv => TypeOK
  BY DEF IInv
<1> QED
  BY <1>1, SessionsSound, PTL

\* Two handlers never work on the same session, whichever connections they came
\* from: the coordinator's bindings and phases keep them apart.
THEOREM OneOperationAtATime == Spec => []OneOperation
<1>1. IInv => OneOperation
  BY DEF IInv, Safe
<1> QED
  BY <1>1, SessionsSound, PTL

\* A session is purged alone: from the reservation to its end no connection holds
\* it, no handler works on it and no other cleaner purges it (reserve_cleanup).
THEOREM PurgedAlone == Spec => []PurgeAlone
<1>1. IInv => PurgeAlone
  <2> SUFFICES ASSUME IInv, NEW w \in Cleaners, NEW s \in cleaner[w].holds
               PROVE  /\ bound[s] = Free
                      /\ \A r \in Active : request[r].session # s
                      /\ \A v \in Cleaners \ {w} : s \notin cleaner[v].holds
    BY DEF PurgeAlone
  <2> QED
    BY Busy DEF IInv, Safe, Holds
<1> QED
  BY <1>1, SessionsSound, PTL

\* A prompt runs with the client tools of the connection it came from, or with
\* none, although the release of an earlier owner's may have failed.
THEOREM PromptsOwnTools == Spec => []ToolsOfOwner
<1>1. IInv => ToolsOfOwner
  BY DEF IInv, Safe, Handlers, Served, Own, Prompting, ToolsOfOwner
<1> QED
  BY <1>1, SessionsSound, PTL

\* A deleted session has no checkpoints: they went first, and no late prompt
\* writes new ones (purge of the retention loop and of the management command).
THEOREM NothingStaysBehind == Spec => []NothingLeftBehind
<1>1. IInv => NothingLeftBehind
  BY DEF IInv, Safe
<1> QED
  BY <1>1, SessionsSound, PTL

\* No more prompts hold a run slot than there are, be it one that the prompt does
\* not know of yet, or one that it is about to give back.
SlotsAreBounded == IsFiniteSet(Holders) /\ Cardinality(Holders) <= MaxRuns

\* At most max_active_runs prompts execute at once (the slots of runtime.py).
THEOREM BoundedRuns == Spec => []SlotsAreBounded
<1>1. IInv => SlotsAreBounded
  <2> SUFFICES ASSUME IInv PROVE SlotsAreBounded
    OBVIOUS
  <2>1. Cardinality(Holders) \in Nat /\ permits \in 0 .. MaxRuns
    BY FS_CardinalityType DEF IInv, Slots, TypeOK
  <2> QED
    BY <2>1, MaxRunsPositive DEF IInv, Slots, SlotsAreBounded
<1> QED
  BY <1>1, SessionsSound, PTL

\* No late save of a prompt brings a closed or a deleted session back.
THEOREM GoneForGood == Spec => NoResurrection
<1> DEFINE Stay == \A s \in Sessions : row[s] \in {"closed", "deleted"} => row'[s] \in {row[s], "deleted"}
<1>1. IInv /\ [Next]_vars => Stay
  <2> SUFFICES ASSUME IInv, [Next]_vars, NEW s \in Sessions, row[s] \in {"closed", "deleted"}
               PROVE  row'[s] \in {row[s], "deleted"}
    OBVIOUS
  <2>1. ASSUME NEW r \in Requests, PromptEnds(r)
        PROVE  row'[s] = row[s]
    <3>1. r \in Active
      BY <2>1 DEF PromptEnds, Active, NoRequest
    <3>2. row[request[r].session] = "open"
      BY <2>1, <3>1 DEF IInv, Safe, Handlers, Served, PromptEnds
    <3> QED
      BY <2>1, <3>2 DEF PromptEnds, IInv, TypeOK
  <2>2. ASSUME NEW c \in Connections, NEW t \in Sessions, NewSession(c, t)
        PROVE  row'[s] = row[s]
    BY <2>2 DEF NewSession, IInv, TypeOK
  <2>3. ASSUME NEW r \in Requests, NEW c \in Connections, NEW t \in Sessions, CloseBegin(r, c, t)
        PROVE  row'[s] = row[s]
    BY <2>3 DEF CloseBegin, IInv, TypeOK
  <2>4. ASSUME NEW w \in Cleaners, CleanerDone(w)
        PROVE  row'[s] \in {row[s], "deleted"}
    BY <2>4 DEF CleanerDone
  <2>5. ASSUME NEW r \in Requests, Handle(r)
        PROVE  row'[s] = row[s]
    BY <2>1, <2>5 DEF Handle, Swap, LoadDone, LoadFails, Unload, Grant, Run, LeaveQueue, Yield,
       YieldCancelled, RunEnds, CloseDone, store
  <2>6. ASSUME NEW c \in Connections,
               Connect(c) \/ BeginDisconnect(c) \/ ReleaseTools(c) \/ FinishDisconnect(c)
        PROVE  row'[s] = row[s]
    BY <2>6 DEF Connect, BeginDisconnect, ReleaseTools, FinishDisconnect, store
  <2>7. ASSUME NEW r \in Requests, NEW c \in Connections, NEW t \in Sessions,
               LoadBegin(r, c, t) \/ PromptBegin(r, c, t)
        PROVE  row'[s] = row[s]
    BY <2>7 DEF LoadBegin, PromptBegin, store
  <2>8. ASSUME NEW w \in Cleaners, Reserve(w) \/ Purge(w) \/ CleanerFails(w)
        PROVE  row'[s] = row[s]
    BY <2>8 DEF Reserve, Purge, CleanerFails, store
  <2>9. CASE Restart \/ (\E t \in Sessions : Expire(t)) \/ (\E on \in BOOLEAN : SetDraining(on)) \/ UNCHANGED vars
    BY <2>9 DEF Expire, SetDraining, Restart, store, vars
  <2> QED
    BY <2>2, <2>3, <2>4, <2>5, <2>6, <2>7, <2>8, <2>9 DEF Next
<1> HIDE DEF Stay
<1>2. Spec => [][Stay]_vars
  BY <1>1, SessionsSound, PTL DEF Spec
<1> QED
  BY <1>2 DEF NoResurrection, Stay

=============================================================================

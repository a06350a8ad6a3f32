--------------------------- MODULE RuntimeMailbox ---------------------------
(* Commands of one session in the desktop daemon                            *)
(* (src/desktop-app/crates/waku-core/src/server.rs and daemon.rs).          *)
(*                                                                          *)
(* Connections dispatch commands from their own threads. A command that     *)
(* targets a runtime goes to the mailbox of its session; the first one      *)
(* creates the mailbox and its worker, and a worker that has no runtime     *)
(* left and finds its queue empty retires under the registry's lock. Three  *)
(* tables, each behind a lock of its own, say which runtime a session has:  *)
(* the worker's own belief (active_runtime_id), the hub's (whose events     *)
(* are broadcast and journaled) and the backend's (the driver it holds).    *)
(* Provider processes end when they like; the thread that forwards their    *)
(* events removes them from the backend's table.                            *)
EXTENDS Naturals, Sequences, FiniteSets

CONSTANTS
  Session,    \* session_id
  Runtime,    \* runtime_id, a fresh one for every Start
  Request,    \* request_id of the commands issued
  Mailbox,    \* RuntimeMailbox.id, a fresh one for every mailbox
  MaxPanics,  \* bound: workers that panic while they serve a command
  MaxResends, \* bound: requests sent a second time
  NoSession, NoRuntime, NilRuntime, NoBox, NoCall

ASSUME NoneAssumption ==
  /\ NoSession \notin Session
  /\ NoRuntime \notin Runtime
  /\ NilRuntime \notin Runtime \cup {NoRuntime}
  /\ NoBox \notin Mailbox

\* The commands that meet the mailbox differently: "control" stands for the
\* ones the driver must answer (prompt, steer, cancel, respond, options),
\* "edit" for the ones that work on the stored transcript (fork, rewind).
\* Terminals, which clients open under session ids of their own and the
\* backend keeps in a table of their own, are left out.
Kind == {"start", "attach", "control", "close", "remove", "edit"}

\* Attach, remove and edit name no runtime.
Call == {c \in [id : Request, session : Session, kind : Kind, runtime : Runtime \cup {NilRuntime}] :
           c.runtime = NilRuntime <=> c.kind \in {"attach", "remove", "edit"}}

ASSUME CallAssumption == NoCall \notin Call

VARIABLES
  registry,  \* runtime_mailboxes: session -> its mailbox
  box,       \* the mailboxes and what their workers are doing
  hub,       \* Hub.active_runtimes
  live,      \* WakuBackend.sessions: the runtime whose driver is held
  proc,      \* life of each runtime's provider process
  home,      \* the session a runtime was named for
  cache,     \* Hub.responses: requests whose outcome is cached
  issued,    \* the call behind every request_id used so far
  resent     \* requests a client sent a second time

vars == <<registry, box, hub, live, proc, home, cache, issued, resent>>

MaybeRuntime == Runtime \cup {NoRuntime}

\* A mailbox whose worker has no command in hand and knows of no runtime.
Blank(s, queue, pc) ==
  [session |-> s, queue |-> queue, pc |-> pc, cur |-> NoCall,
   result |-> "none", found |-> NoRuntime, active |-> NoRuntime]

Serving == {"taken", "begun", "cleared", "handled", "settled"}
Alive == Serving \cup {"idle", "deciding"}

Init ==
  /\ registry = [s \in Session |-> NoBox]
  /\ box = [m \in Mailbox |-> Blank(NoSession, <<>>, "unborn")]
  /\ hub = [s \in Session |-> NoRuntime]
  /\ live = [s \in Session |-> NoRuntime]
  /\ proc = [r \in Runtime |-> "none"]
  /\ home = [r \in Runtime |-> NoSession]
  /\ cache = {}
  /\ issued = [q \in Request |-> NoCall]
  /\ resent = {}

-----------------------------------------------------------------------------
(* Dispatching, on the threads of the connections.                          *)

\* Identifiers are random and new each time; which one is taken is immaterial.
NewMailbox == CHOOSE m \in Mailbox : box[m].pc = "unborn"
NewRuntime == CHOOSE r \in Runtime : home[r] = NoSession
NewRequest == CHOOSE q \in Request : issued[q] = NoCall

\* Mutant: a command joins the registered mailbox even if its worker panicked.
EnqueueBlind(c) ==
  LET s == c.session
      m == registry[s]
  IN  \/ /\ m # NoBox
         /\ box' = [box EXCEPT ![m].queue = Append(@, c)]
         /\ UNCHANGED <<registry, cache>>
      \/ /\ m = NoBox
         /\ \E n \in Mailbox : box[n].pc = "unborn"
         /\ box' = [box EXCEPT ![NewMailbox] = Blank(s, <<c>>, "idle")]
         /\ registry' = [registry EXCEPT ![s] = NewMailbox]
         /\ UNCHANGED cache

\* dispatch_runtime, all of it under the registry's lock: the command joins
\* the registered mailbox, or, when there is none or its worker is gone,
\* a new mailbox that holds just this command.
Enqueue(c) ==
  LET s == c.session
      m == registry[s]
  IN  \/ /\ m # NoBox
         /\ box[m].pc \in Alive
         /\ box' = [box EXCEPT ![m].queue = Append(@, c)]
         /\ UNCHANGED <<registry, cache>>
      \/ /\ m # NoBox => box[m].pc \notin Alive
         /\ \E n \in Mailbox : box[n].pc = "unborn"
         /\ box' = [box EXCEPT ![NewMailbox] = Blank(s, <<c>>, "idle")]
         /\ registry' = [registry EXCEPT ![s] = NewMailbox]
         /\ UNCHANGED cache

\* Every outcome is cached except that of a notification.
Remember(c) == IF c.kind = "close" THEN cache ELSE cache \cup {c.id}

\* The worker's thread cannot be spawned: the new mailbox is taken out of the
\* registry again and the client is told, or not, if it was a notification.
SpawnFails(c) ==
  LET m == registry[c.session]
  IN  /\ m # NoBox => box[m].pc \notin Alive
      /\ registry' = [registry EXCEPT ![c.session] = NoBox]
      /\ cache' = Remember(c)
      /\ UNCHANGED box

\* What clients send: the runtime of a Start is named by its client, the
\* commands for a runtime name one that was started before.
Sendable(c) ==
  \/ /\ c.kind = "start"
     /\ \E r \in Runtime : home[r] = NoSession
     /\ c.runtime = NewRuntime
  \/ /\ c.kind \in {"control", "close"}
     /\ proc[c.runtime] # "none"
     /\ home[c.runtime] = c.session
  \/ c.kind \in {"attach", "remove", "edit"}

Dispatch(c) ==
  /\ \E q \in Request : issued[q] = NoCall
  /\ c.id = NewRequest
  /\ Sendable(c)
  /\ issued' = [issued EXCEPT ![c.id] = c]
  /\ home' = IF c.kind = "start" THEN [home EXCEPT ![c.runtime] = c.session] ELSE home
  /\ Enqueue(c) \/ SpawnFails(c)
  /\ UNCHANGED <<hub, live, proc, resent>>

\* A client that missed the reply asks again with the same request_id; a
\* notification (close) has none to ask with.
Resend(q) ==
  /\ issued[q] # NoCall
  /\ issued[q].kind # "close"
  /\ q \notin resent
  /\ Cardinality(resent) < MaxResends
  /\ resent' = resent \cup {q}
  /\ Enqueue(issued[q]) \/ SpawnFails(issued[q])
  /\ UNCHANGED <<hub, live, proc, home, issued>>

-----------------------------------------------------------------------------
(* The worker of a mailbox (run_runtime_mailbox, handle_request).           *)

Goto(m, pc) == box' = [box EXCEPT ![m].pc = pc]

Pull(m) == box' = [box EXCEPT ![m].pc = "taken", ![m].cur = Head(box[m].queue),
                               ![m].queue = Tail(@), ![m].result = "none"]

Take(m) ==
  /\ box[m].pc = "idle"
  /\ box[m].queue # <<>>
  /\ Pull(m)
  /\ UNCHANGED <<registry, hub, live, proc, home, cache, issued, resent>>

\* Mutant: the runtime of a repeated Start is announced before the cache is asked.
RepeatBegins(m) ==
  LET c == box[m].cur
  IN  /\ box[m].pc = "taken"
      /\ c.id \in cache
      /\ hub' = IF c.kind = "start" THEN [hub EXCEPT ![box[m].session] = c.runtime] ELSE hub
      /\ box' = [box EXCEPT ![m].pc = "settled", ![m].result = "skipped"]
      /\ UNCHANGED <<registry, live, proc, home, cache, issued, resent>>

\* The outcome is cached: the command is answered and not executed.
Repeat(m) ==
  /\ box[m].pc = "taken"
  /\ box[m].cur.id \in cache
  /\ box' = [box EXCEPT ![m].pc = "settled", ![m].result = "skipped"]
  /\ UNCHANGED <<registry, hub, live, proc, home, cache, issued, resent>>

Fresh(m) == box[m].pc = "taken" /\ box[m].cur.id \notin cache

\* Hub.begin_runtime, before the backend sees the Start.
Begin(m) ==
  /\ Fresh(m)
  /\ box[m].cur.kind = "start"
  /\ hub' = [hub EXCEPT ![box[m].session] = box[m].cur.runtime]
  /\ Goto(m, "begun")
  /\ UNCHANGED <<registry, live, proc, home, cache, issued, resent>>

\* The backend first lets go of the session's previous driver.
Clear(m) ==
  /\ box[m].pc = "begun"
  /\ live' = [live EXCEPT ![box[m].session] = NoRuntime]
  /\ Goto(m, "cleared")
  /\ UNCHANGED <<registry, hub, proc, home, cache, issued, resent>>

\* A driver started: it is registered before its events are forwarded.
Launch(m) ==
  LET c == box[m].cur
  IN  /\ box[m].pc = "cleared"
      /\ live' = [live EXCEPT ![box[m].session] = c.runtime]
      /\ proc' = [proc EXCEPT ![c.runtime] = "running"]
      /\ cache' = Remember(c)
      /\ box' = [box EXCEPT ![m].pc = "handled", ![m].result = "ok"]
      /\ UNCHANGED <<registry, hub, home, issued, resent>>

LaunchFails(m) ==
  /\ box[m].pc = "cleared"
  /\ cache' = Remember(box[m].cur)
  /\ box' = [box EXCEPT ![m].pc = "handled", ![m].result = "error"]
  /\ UNCHANGED <<registry, hub, live, proc, home, issued, resent>>

\* The other commands: which outcomes the backend may give, and which of
\* them leave the session without a driver.
Outcomes(c) ==
  CASE c.kind \in {"attach", "close"} -> {"ok"}
    [] c.kind = "control" -> IF live[c.session] = c.runtime THEN {"ok", "error"}
                                                            ELSE {"error"}
    [] OTHER -> {"ok", "error"}

Dismisses(c, outcome) ==
  /\ outcome = "ok"
  /\ \/ c.kind = "remove"
     \/ c.kind = "close" /\ live[c.session] = c.runtime

\* A rewind that the provider took lets the driver go, whatever it held and
\* whether or not the rewound task can then be stored.
Rewound(c) == c.kind = "edit"

Execute(m) ==
  LET c == box[m].cur
      s == box[m].session
  IN  /\ Fresh(m)
      /\ c.kind # "start"
      /\ \E outcome \in Outcomes(c) :
           /\ \/ live' = IF Dismisses(c, outcome) THEN [live EXCEPT ![s] = NoRuntime] ELSE live
              \/ Rewound(c) /\ live' = [live EXCEPT ![s] = NoRuntime]
           /\ box' = [box EXCEPT ![m].pc = "handled", ![m].result = outcome,
                                 ![m].found = IF c.kind = "attach" THEN live[s] ELSE NoRuntime]
      /\ cache' = Remember(c)
      /\ UNCHANGED <<registry, hub, proc, home, issued, resent>>

\* Hub.end_runtime: only the runtime named is ended.
Ended(s, r) == IF hub[s] = r THEN [hub EXCEPT ![s] = NoRuntime] ELSE hub

\* A Start that failed gives up its place in the hub; then the reply is sent.
Settle(m) ==
  LET c == box[m].cur
  IN  /\ box[m].pc = "handled"
      /\ hub' = IF c.kind = "start" /\ box[m].result = "error"
                THEN Ended(box[m].session, c.runtime) ELSE hub
      /\ Goto(m, "settled")
      /\ UNCHANGED <<registry, live, proc, home, cache, issued, resent>>

\* The worker ends the runtime in the hub when its close succeeded.
Closes(m) ==
  LET c == box[m].cur
  IN  /\ box[m].result = "ok"
      /\ \/ c.kind = "remove"
         \/ c.kind = "close" /\ box[m].active = c.runtime

\* What the worker believes afterwards.
Belief(m) ==
  LET c == box[m].cur
      b == box[m]
  IN  IF b.result = "skipped" THEN b.active
      ELSE CASE c.kind = "start" -> IF b.result = "ok" THEN c.runtime ELSE NoRuntime
             [] c.kind = "attach" -> IF b.found # NoRuntime THEN b.found ELSE b.active
             [] c.kind \in {"close", "remove"} -> IF Closes(m) THEN NoRuntime ELSE b.active
             [] OTHER -> IF b.active = NoRuntime /\ b.result = "ok" THEN c.runtime ELSE b.active

\* Mutant: a session that is closed keeps its place in the hub.
ConcludeSilent(m) ==
  /\ box[m].pc = "settled"
  /\ box' = [box EXCEPT ![m].active = Belief(m), ![m].cur = NoCall,
                        ![m].result = "none", ![m].found = NoRuntime,
                        ![m].pc = IF Belief(m) = NoRuntime THEN "deciding" ELSE "idle"]
  /\ UNCHANGED <<registry, hub, live, proc, home, cache, issued, resent>>

Conclude(m) ==
  LET c == box[m].cur
      s == box[m].session
  IN  /\ box[m].pc = "settled"
      /\ hub' = IF c.kind \notin {"close", "remove"} \/ ~Closes(m) THEN hub
                ELSE Ended(s, IF c.kind = "remove" THEN hub[s] ELSE c.runtime)
      /\ box' = [box EXCEPT ![m].active = Belief(m), ![m].cur = NoCall,
                            ![m].result = "none", ![m].found = NoRuntime,
                            ![m].pc = IF Belief(m) = NoRuntime THEN "deciding" ELSE "idle"]
      /\ UNCHANGED <<registry, live, proc, home, cache, issued, resent>>

\* Mutant: the worker retires without a last look at its queue.
DecideBlind(m) ==
  /\ box[m].pc = "deciding"
  /\ Goto(m, "retired")
  /\ registry' = IF registry[box[m].session] = m
                 THEN [registry EXCEPT ![box[m].session] = NoBox] ELSE registry
  /\ UNCHANGED <<hub, live, proc, home, cache, issued, resent>>

\* Mutant: the worker retires without leaving the registry.
DecideStays(m) ==
  /\ box[m].pc = "deciding"
  /\ \/ /\ box[m].queue # <<>>
        /\ Pull(m)
     \/ /\ box[m].queue = <<>>
        /\ Goto(m, "retired")
  /\ UNCHANGED <<registry, hub, live, proc, home, cache, issued, resent>>

\* take_queued_request_or_retire: under the registry's lock the worker takes
\* the next command, or leaves the registry and ends.
Decide(m) ==
  /\ box[m].pc = "deciding"
  /\ \/ /\ box[m].queue # <<>>
        /\ Pull(m)
        /\ UNCHANGED registry
     \/ /\ box[m].queue = <<>>
        /\ Goto(m, "retired")
        /\ registry' = IF registry[box[m].session] = m
                       THEN [registry EXCEPT ![box[m].session] = NoBox] ELSE registry
  /\ UNCHANGED <<hub, live, proc, home, cache, issued, resent>>

\* The worker's thread panics inside a driver. Its receiver is dropped with
\* what it held; the registry finds out at the next dispatch.
Panic(m) ==
  /\ \/ Fresh(m) /\ box[m].cur.kind \in {"control", "edit"}
     \/ box[m].pc = "cleared"
  /\ Cardinality({n \in Mailbox : box[n].pc = "dead"}) < MaxPanics
  /\ box' = [box EXCEPT ![m] = Blank(box[m].session, <<>>, "dead")]
  /\ UNCHANGED <<registry, hub, live, proc, home, cache, issued, resent>>

-----------------------------------------------------------------------------
(* Provider processes and the threads that forward their events.            *)

\* The process ends, by itself or because its driver was let go. The
\* forwarding thread takes it out of the backend's table, and only it.
Exit(r) ==
  /\ proc[r] = "running"
  /\ proc' = [proc EXCEPT ![r] = "exited"]
  /\ live' = IF live[home[r]] = r THEN [live EXCEPT ![home[r]] = NoRuntime] ELSE live
  /\ UNCHANGED <<registry, box, hub, home, cache, issued, resent>>

Worker(m) ==
  \/ Take(m) \/ Repeat(m) \/ Begin(m) \/ Clear(m)
  \/ Launch(m) \/ LaunchFails(m) \/ Execute(m)
  \/ Settle(m) \/ Conclude(m) \/ Decide(m)

Next ==
  \/ \E c \in Call : Dispatch(c)
  \/ \E q \in Request : Resend(q)
  \/ \E m \in Mailbox : Worker(m) \/ Panic(m)
  \/ \E r \in Runtime : Exit(r)

Spec == Init /\ [][Next]_vars

\* Workers are threads: one that can go on does.
FairSpec == Spec /\ \A m \in Mailbox : WF_vars(Worker(m))

-----------------------------------------------------------------------------
(* Properties.                                                              *)

PC == Alive \cup {"unborn", "retired", "dead"}

\* What a mailbox may look like: a command in hand or in the queue belongs to
\* its session, and there is one in hand just while the worker serves it.
BoxOK(b) ==
  /\ b \in [session : Session \cup {NoSession}, queue : Seq(Call), pc : PC,
            cur : Call \cup {NoCall}, result : {"none", "ok", "error", "skipped"},
            found : MaybeRuntime, active : MaybeRuntime \cup {NilRuntime}]
  /\ b.pc \in Alive => b.session \in Session
  /\ b.pc \in Serving <=> b.cur # NoCall
  /\ b.cur # NoCall => b.cur.session = b.session
  /\ \A i \in DOMAIN b.queue : b.queue[i].session = b.session

\* Types of all variables; no command strays into the mailbox of another session.
TypeOK ==
  /\ registry \in [Session -> Mailbox \cup {NoBox}]
  /\ box = [m \in Mailbox |-> box[m]]
  /\ \A m \in Mailbox : BoxOK(box[m])
  /\ hub \in [Session -> MaybeRuntime]
  /\ live \in [Session -> MaybeRuntime]
  /\ proc \in [Runtime -> {"none", "running", "exited"}]
  /\ home \in [Runtime -> Session \cup {NoSession}]
  /\ cache \subseteq Request
  /\ issued \in [Request -> Call \cup {NoCall}]
  /\ resent \subseteq Request
  /\ \A q \in Request : issued[q] # NoCall => issued[q].id = q

\* A worker that has not ended is the one the registry sends commands to, so
\* no two workers of a session run, and one that ended left nothing queued:
\* the retirement of a worker never races a dispatch.
OneWorker ==
  /\ \A m \in Mailbox : (box[m].pc \in Alive) => (registry[box[m].session] = m)
  /\ \A m \in Mailbox : (box[m].pc \notin Alive) => (box[m].queue = <<>>)
  /\ \A s \in Session : registry[s] # NoBox =>
        (box[registry[s]].session = s /\ box[registry[s]].pc \in Alive \cup {"dead"})

\* A runtime whose driver the backend holds is the one whose events the hub
\* broadcasts, unless its replacement has just been announced: no driver
\* works for a session whose clients do not hear it, whatever starts, closes,
\* exits and repeated requests come together.
LiveIsHeard ==
  \A s \in Session :
    live[s] # NoRuntime =>
      \/ hub[s] = live[s]
      \/ \E m \in Mailbox : box[m].pc = "begun" /\ box[m].session = s

\* A session whose worker retired has no driver and no journal in the hub:
\* retiring loses track of no runtime. (A worker that panicked may.)
QuietWhenRetired ==
  \A s \in Session :
    (registry[s] = NoBox /\ ~ \E m \in Mailbox : box[m].session = s /\ box[m].pc = "dead")
      => (live[s] = NoRuntime /\ hub[s] = NoRuntime)

\* Every command that reaches a mailbox is taken out of it again: none stays
\* behind in a mailbox whose worker has gone.
EveryCommandServed ==
  \A m \in Mailbox, q \in Request :
    (\E i \in DOMAIN box[m].queue : box[m].queue[i].id = q)
      ~> ~ \E i \in DOMAIN box[m].queue : box[m].queue[i].id = q

\* The line of a session, whichever mailbox stands for it.
Waiting == [s \in Session |->
  IF registry[s] = NoBox THEN <<>> ELSE box[registry[s]].queue]

InHand == [s \in Session |->
  IF registry[s] = NoBox THEN NoCall ELSE box[registry[s]].cur]

Actor == INSTANCE SessionActor WITH waiting <- Waiting, serving <- InHand

\* Whatever mailboxes come and go, a session's commands are served one at a
\* time in the order they were dispatched.
ImplementsActor == Actor!Spec
=============================================================================

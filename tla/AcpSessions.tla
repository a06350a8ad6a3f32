----------------------------- MODULE AcpSessions -----------------------------
(***************************************************************************)
(* Sessions of the local ACP daemon (deerflow/acp): which connection holds *)
(* a session, what runs on it, and when it is purged.                      *)
(*                                                                         *)
(* A daemon serves several connections on one event loop.  A connection    *)
(* loads a session, prompts it, closes it, or goes away in the middle of   *)
(* any of these; two cleaners, the retention loop and the desktop's        *)
(* management command, purge sessions nobody holds.  The coordinator's     *)
(* bindings and reservations keep them apart.                              *)
(*                                                                         *)
(* One action is what the loop runs between two suspensions.  The session  *)
(* store never suspends (its lock is never held across an await), so a     *)
(* look at the store and the attachment that follows are one step.         *)
(***************************************************************************)
EXTENDS Naturals, FiniteSets

CONSTANTS Connections,
          Sessions,
          Requests,  \* handlers in progress: a bound on how many there are at once
          MaxRuns,   \* config.max_active_runs
          None

ASSUME MaxRunsPositive == MaxRuns \in Nat \ {0}
ASSUME NoneIsNoConnection == None \notin Connections

VARIABLES
    row,       \* acp_sessions: what the store says of a session
    old,       \* its updated_at lies before the retention's cutoff
    history,   \* it has checkpoints
    bound,     \* the coordinator's binding: connection, phase and prompt task
    reserved,  \* the coordinator's reservations for cleanup
    draining,  \* operations are refused because the daemon is to be restarted
    conn,      \* per connection: is it served, or shutting down?
    request,   \* the handlers in progress
    tools,     \* client MCP servers bound to a session: whose they are
    tracked,   \* per connection: the sessions whose client MCP it has to release
    permits,   \* free run slots
    cleaner    \* the cleaners: what they reserved, have yet to purge, have purged

vars == <<row, old, history, bound, reserved, draining, conn, request, tools, tracked,
          permits, cleaner>>
store == <<row, old, history>>
leases == <<bound, reserved, draining>>
clientTools == <<tools, tracked>>

Cleaners == {"loop", "manager"}
Free == [conn |-> None, phase |-> "none", task |-> None]
NoRequest == [conn |-> None, session |-> None, at |-> "none", fresh |-> FALSE, offers |-> FALSE]
NoWork == [holds |-> {}, todo |-> {}, purged |-> {}]

(***************************************************************************)
(* The daemon starts on the sessions an earlier one left.                  *)
(***************************************************************************)
Idle ==
    /\ bound = [s \in Sessions |-> Free]
    /\ reserved = {}
    /\ draining = FALSE
    /\ conn = [c \in Connections |-> "none"]
    /\ request = [r \in Requests |-> NoRequest]
    /\ tools = [s \in Sessions |-> None]
    /\ tracked = [c \in Connections |-> {}]
    /\ permits = MaxRuns
    /\ cleaner = [w \in Cleaners |-> NoWork]

Init ==
    /\ row \in [Sessions -> {"none", "open", "closed"}]
    /\ old = [s \in Sessions |-> FALSE]
    /\ history = [s \in Sessions |-> row[s] # "none"]
    /\ Idle

-----------------------------------------------------------------------------
(* The coordinator.                                                        *)

Stored(s) == row[s] \in {"open", "closed"}

\* Mutant: a session reserved for cleanup can be attached.
AttachableReserved(c, s) ==
    \/ bound[s] = Free
    \/ bound[s].conn = c /\ bound[s].phase # "disconnecting"
\* attach: a session that no cleaner has reserved, a free one or one's own.
Attachable(c, s) ==
    /\ s \notin reserved
    /\ \/ bound[s] = Free
       \/ bound[s].conn = c /\ bound[s].phase # "disconnecting"

\* Mutant: the phase of the binding is not tested.
MayBeginBusy(c, s) == bound[s].conn = c /\ bound[s].phase # "disconnecting" /\ ~draining
\* begin_operation and begin_prompt, for a session c has attached.
MayBegin(c, s) == bound[s].conn = c /\ bound[s].phase = "idle" /\ ~draining

\* end_operation and end_prompt leave a binding alone that is no longer theirs.
EndedOperation(c, s, phase) ==
    IF bound[s].conn = c /\ bound[s].phase = phase
    THEN [bound EXCEPT ![s].phase = "idle"] ELSE bound

EndedPrompt(c, s, r) ==
    IF bound[s] = [conn |-> c, phase |-> "running", task |-> r]
    THEN [bound EXCEPT ![s] = [conn |-> c, phase |-> "idle", task |-> None]] ELSE bound

\* end_operation, then detach.
Detached(c, s) ==
    IF bound[s].conn = c /\ bound[s].task = None THEN [bound EXCEPT ![s] = Free] ELSE bound

\* reserve_cleanup.
Reservable(s) == bound[s] = Free /\ s \notin reserved

Now(r, at) == request' = [request EXCEPT ![r].at = at]
Gone(r) == request' = [request EXCEPT ![r] = NoRequest]
Of(c) == {r \in Requests : request[r].conn = c}

-----------------------------------------------------------------------------
(* Connections, and session/new.                                           *)

Connect(c) ==
    /\ conn[c] = "none"
    /\ conn' = [conn EXCEPT ![c] = "open"]
    /\ UNCHANGED <<store, leases, request, clientTools, permits, cleaner>>

NewSession(c, s) ==
    /\ conn[c] = "open" /\ row[s] = "none"
    /\ row' = [row EXCEPT ![s] = "open"]
    /\ bound' = [bound EXCEPT ![s] = [conn |-> c, phase |-> "idle", task |-> None]]
    /\ \/ /\ tools' = [tools EXCEPT ![s] = c]
          /\ tracked' = [tracked EXCEPT ![c] = @ \cup {s}]
       \/ UNCHANGED clientTools
    /\ UNCHANGED <<old, history, reserved, draining, conn, request, permits, cleaner>>

-----------------------------------------------------------------------------
(* session/load.                                                           *)

\* Mutant: a load without servers keeps those of an earlier client.
BindKept(c, s, offers) ==
    /\ tools' = [tools EXCEPT ![s] = IF offers THEN c ELSE @]
    /\ tracked' = [tracked EXCEPT ![c] = IF offers THEN @ \cup {s} ELSE @ \ {s}]
\* bind_client_mcp, once no other definition is in its way.
Bind(c, s, offers) ==
    /\ tools' = [tools EXCEPT ![s] = IF offers THEN c ELSE None]
    /\ tracked' = [tracked EXCEPT ![c] = IF offers THEN @ \cup {s} ELSE @ \ {s}]

\* A definition that is there already is kept if it is the same, and is
\* released first, which takes a while, if it is not.  A workspace stored in an
\* old spelling is saved in the new one.
LoadBegin(r, c, s) ==
    /\ request[r] = NoRequest /\ conn[c] = "open" /\ row[s] = "open"
    /\ Attachable(c, s) /\ ~draining /\ bound[s].phase \in {"none", "idle"}
    /\ bound' = [bound EXCEPT ![s] = [conn |-> c, phase |-> "loading", task |-> None]]
    /\ \E offers \in BOOLEAN, swap \in BOOLEAN :
         /\ swap => tools[s] # None
         /\ tools[s] # None /\ ~offers => swap
         /\ request' = [request EXCEPT ![r] =
              [conn |-> c, session |-> s, at |-> IF swap THEN "swap" ELSE "replay",
               fresh |-> bound[s] = Free, offers |-> offers]]
         /\ IF swap THEN UNCHANGED clientTools ELSE Bind(c, s, offers)
    /\ old' \in {old, [old EXCEPT ![s] = FALSE]}
    /\ UNCHANGED <<row, history, reserved, draining, conn, permits, cleaner>>

Swap(r) ==
    /\ request[r].at = "swap"
    /\ Bind(request[r].conn, request[r].session, request[r].offers)
    /\ Now(r, "replay")
    /\ UNCHANGED <<store, leases, conn, permits, cleaner>>

LoadDone(r) ==
    /\ request[r].at = "replay"
    /\ bound' = EndedOperation(request[r].conn, request[r].session, "loading")
    /\ Gone(r)
    /\ UNCHANGED <<store, reserved, draining, conn, clientTools, permits, cleaner>>

\* The release, the replay or the connection fails.  A load that attached the
\* session takes everything back; one that reloaded it only ends.
LoadFails(r) ==
    /\ request[r].at \in {"swap", "replay"}
    /\ IF request[r].fresh
       THEN Now(r, "unload") /\ UNCHANGED bound
       ELSE /\ Gone(r)
            /\ bound' = EndedOperation(request[r].conn, request[r].session, "loading")
    /\ UNCHANGED <<store, reserved, draining, conn, clientTools, permits, cleaner>>

\* If the client's servers cannot be closed, their definition stays behind as a
\* marker for the next load.
Unload(r) ==
    LET s == request[r].session  c == request[r].conn IN
    /\ request[r].at = "unload"
    /\ tools' \in {tools, [tools EXCEPT ![s] = None]}
    /\ tracked' = [tracked EXCEPT ![c] = @ \ {s}]
    /\ bound' = Detached(c, s)
    /\ Gone(r)
    /\ UNCHANGED <<store, reserved, draining, conn, permits, cleaner>>

-----------------------------------------------------------------------------
(* session/prompt.                                                         *)

PromptBegin(r, c, s) ==
    /\ request[r] = NoRequest /\ conn[c] = "open" /\ row[s] = "open"
    /\ MayBegin(c, s)
    /\ bound' = [bound EXCEPT ![s].phase = "running", ![s].task = r]
    /\ request' = [request EXCEPT ![r] = [NoRequest EXCEPT !.conn = c, !.session = s, !.at = "queued"]]
    /\ UNCHANGED <<store, reserved, draining, conn, clientTools, permits, cleaner>>

\* A task of its own waits for the slot: it may have got one which the prompt
\* has not yet learnt of.
Grant(r) ==
    /\ request[r].at = "queued" /\ permits > 0
    /\ permits' = permits - 1
    /\ Now(r, "granted")
    /\ UNCHANGED <<store, leases, conn, clientTools, cleaner>>

Run(r) ==
    /\ request[r].at = "granted"
    /\ history' = [history EXCEPT ![request[r].session] = TRUE]
    /\ Now(r, "running")
    /\ UNCHANGED <<row, old, leases, conn, clientTools, permits, cleaner>>

\* The prompt leaves the queue: cancelled, or out of time.  Its finally block
\* cancels the task and awaits its result.
LeaveQueue(r) ==
    /\ request[r].at \in {"queued", "granted"}
    /\ Now(r, IF request[r].at = "granted" THEN "yielding" ELSE "leaving")
    /\ UNCHANGED <<store, leases, conn, clientTools, permits, cleaner>>

Unclaimed(r) == IF request[r].at = "yielding" THEN permits + 1 ELSE permits

Yield(r) ==
    /\ request[r].at \in {"leaving", "yielding"}
    /\ permits' = Unclaimed(r)
    /\ Now(r, "ending")
    /\ UNCHANGED <<store, leases, conn, clientTools, cleaner>>

\* A second cancellation strikes at that await, and the block ends without the
\* result: nobody releases the slot the task had got.
YieldCancelled(r) ==
    /\ request[r].at \in {"leaving", "yielding"}
    /\ Now(r, "ending")
    /\ UNCHANGED <<store, leases, conn, clientTools, permits, cleaner>>

\* The run ends, fails or is cancelled.
RunEnds(r) ==
    /\ request[r].at = "running"
    /\ permits' = permits + 1
    /\ Now(r, "ending")
    /\ UNCHANGED <<store, leases, conn, clientTools, cleaner>>

\* Unless it failed, the prompt saves the session as it read it at its start:
\* the whole row, and the row itself if there is none.
PromptEnds(r) ==
    LET s == request[r].session IN
    /\ request[r].at = "ending"
    /\ \/ row' = [row EXCEPT ![s] = "open"] /\ old' = [old EXCEPT ![s] = FALSE]
       \/ UNCHANGED <<row, old>>
    /\ bound' = EndedPrompt(request[r].conn, s, r)
    /\ Gone(r)
    /\ UNCHANGED <<history, reserved, draining, conn, clientTools, permits, cleaner>>

-----------------------------------------------------------------------------
(* session/close.                                                          *)

CloseBegin(r, c, s) ==
    /\ request[r] = NoRequest /\ conn[c] = "open" /\ row[s] = "open"
    /\ MayBegin(c, s)
    /\ row' = [row EXCEPT ![s] = "closed"]
    /\ old' = [old EXCEPT ![s] = FALSE]
    /\ bound' = [bound EXCEPT ![s].phase = "mutating"]
    /\ request' = [request EXCEPT ![r] = [NoRequest EXCEPT !.conn = c, !.session = s, !.at = "releasing"]]
    /\ UNCHANGED <<history, reserved, draining, conn, clientTools, permits, cleaner>>

\* A release that fails is left to the end of the connection.
CloseDone(r) ==
    LET s == request[r].session  c == request[r].conn IN
    /\ request[r].at = "releasing"
    /\ \/ /\ tools' = [tools EXCEPT ![s] = None]
          /\ tracked' = [tracked EXCEPT ![c] = @ \ {s}]
       \/ UNCHANGED clientTools
    /\ bound' = Detached(c, s)
    /\ Gone(r)
    /\ UNCHANGED <<store, reserved, draining, conn, permits, cleaner>>

-----------------------------------------------------------------------------
(* The end of a connection (shutdown).                                     *)

BeginDisconnect(c) ==
    /\ conn[c] = "open"
    /\ conn' = [conn EXCEPT ![c] = "closing"]
    /\ bound' = [s \in Sessions |->
         IF bound[s].conn = c THEN [bound[s] EXCEPT !.phase = "disconnecting"] ELSE bound[s]]
    /\ UNCHANGED <<store, reserved, draining, request, clientTools, permits, cleaner>>

\* Mutant: shutdown cancels the prompts but does not wait for them.
QuietUnawaited(c) == {r \in Of(c) : request[r].at \notin {"queued", "granted", "leaving", "yielding", "running", "ending"}} = {}
\* The library's close cancels the handlers and waits for them; shutdown waits
\* for the prompts, which outlive a cancellation, once more.
Quiet(c) == Of(c) = {}

ReleaseTools(c) ==
    /\ conn[c] = "closing" /\ Quiet(c)
    /\ \E s \in tracked[c] :
         /\ tools' \in {tools, [tools EXCEPT ![s] = None]}
         /\ tracked' = [tracked EXCEPT ![c] = @ \ {s}]
    /\ UNCHANGED <<store, leases, conn, request, permits, cleaner>>

FinishDisconnect(c) ==
    /\ conn[c] = "closing" /\ Quiet(c) /\ tracked[c] = {}
    /\ conn' = [conn EXCEPT ![c] = "none"]
    /\ bound' = [s \in Sessions |-> IF bound[s].conn = c THEN Free ELSE bound[s]]
    /\ UNCHANGED <<store, reserved, draining, request, clientTools, permits, cleaner>>

-----------------------------------------------------------------------------
(* Cleaners.                                                               *)

\* The retention loop takes all expired sessions it can, the desktop names one.
Chosen(w) ==
    LET free == {s \in Sessions : Stored(s) /\ Reservable(s)}
        expired == {s \in free : old[s]}
    IN  IF w = "loop" THEN {expired} \ {{}} ELSE {{s} : s \in free}

Reserve(w) ==
    /\ cleaner[w] = NoWork
    /\ \E S \in Chosen(w) :
         /\ reserved' = reserved \cup S
         /\ cleaner' = [cleaner EXCEPT ![w] = [holds |-> S, todo |-> S, purged |-> {}]]
    /\ UNCHANGED <<store, bound, draining, conn, request, clientTools, permits>>

\* release_session and the deletion of the checkpoints.  Each may fail; without
\* the latter the session stays.
Purge(w) ==
    /\ \E s \in cleaner[w].todo :
         /\ tools' \in {tools, [tools EXCEPT ![s] = None]}
         /\ \E deleted \in BOOLEAN :
              /\ history' = [history EXCEPT ![s] = @ /\ ~deleted]
              /\ cleaner' = [cleaner EXCEPT ![w].todo = @ \ {s},
                                            ![w].purged = IF deleted THEN @ \cup {s} ELSE @]
    /\ UNCHANGED <<row, old, leases, conn, request, tracked, permits>>

\* Mutant: the rows go whether or not their checkpoints did.
DeletableAll(w) == cleaner[w].holds
\* Deletable(w): the rows that go are those whose checkpoints are gone.
Deletable(w) == cleaner[w].purged

Released(w) == reserved \ cleaner[w].holds

CleanerDone(w) ==
    /\ cleaner[w] # NoWork /\ cleaner[w].todo = {}
    /\ row' = [s \in Sessions |-> IF s \in Deletable(w) THEN "deleted" ELSE row[s]]
    /\ reserved' = Released(w)
    /\ cleaner' = [cleaner EXCEPT ![w] = NoWork]
    /\ UNCHANGED <<old, history, bound, draining, conn, request, clientTools, permits>>

\* An error or a cancellation frees the reservations and nothing else.
CleanerFails(w) ==
    /\ cleaner[w] # NoWork
    /\ reserved' = Released(w)
    /\ cleaner' = [cleaner EXCEPT ![w] = NoWork]
    /\ UNCHANGED <<store, bound, draining, conn, request, clientTools, permits>>

-----------------------------------------------------------------------------
\* daemon.drain and daemon.resume.
SetDraining(on) ==
    /\ draining # on
    /\ draining' = on
    /\ UNCHANGED <<store, bound, reserved, conn, request, clientTools, permits, cleaner>>

Expire(s) ==
    /\ Stored(s) /\ ~old[s]
    /\ old' = [old EXCEPT ![s] = TRUE]
    /\ UNCHANGED <<row, history, leases, conn, request, clientTools, permits, cleaner>>

\* The daemon dies; another starts with nothing but the store.
Restart ==
    /\ bound' = [s \in Sessions |-> Free]
    /\ reserved' = {}
    /\ draining' = FALSE
    /\ conn' = [c \in Connections |-> "none"]
    /\ request' = [r \in Requests |-> NoRequest]
    /\ tools' = [s \in Sessions |-> None]
    /\ tracked' = [c \in Connections |-> {}]
    /\ permits' = MaxRuns
    /\ cleaner' = [w \in Cleaners |-> NoWork]
    /\ UNCHANGED store

Handle(r) ==
    \/ Swap(r) \/ LoadDone(r) \/ LoadFails(r) \/ Unload(r)
    \/ Grant(r) \/ Run(r) \/ LeaveQueue(r) \/ Yield(r) \/ YieldCancelled(r)
    \/ RunEnds(r) \/ PromptEnds(r) \/ CloseDone(r)

Next ==
    \/ \E c \in Connections : Connect(c) \/ BeginDisconnect(c) \/ ReleaseTools(c) \/ FinishDisconnect(c)
    \/ \E c \in Connections, s \in Sessions :
         \/ NewSession(c, s)
         \/ \E r \in Requests : LoadBegin(r, c, s) \/ PromptBegin(r, c, s) \/ CloseBegin(r, c, s)
    \/ \E r \in Requests : Handle(r)
    \/ \E w \in Cleaners : Reserve(w) \/ Purge(w) \/ CleanerDone(w) \/ CleanerFails(w)
    \/ \E s \in Sessions : Expire(s)
    \/ \E on \in BOOLEAN : SetDraining(on)
    \/ Restart

Spec == Init /\ [][Next]_vars

-----------------------------------------------------------------------------
TypeOK ==
    /\ row \in [Sessions -> {"none", "open", "closed", "deleted"}]
    /\ old \in [Sessions -> BOOLEAN] /\ history \in [Sessions -> BOOLEAN]
    /\ bound \in [Sessions -> [conn : Connections \cup {None},
                               phase : {"none", "idle", "loading", "mutating", "running", "disconnecting"},
                               task : Requests \cup {None}]]
    /\ reserved \subseteq Sessions /\ draining \in BOOLEAN
    /\ conn \in [Connections -> {"none", "open", "closing"}]
    /\ request \in [Requests -> [conn : Connections \cup {None}, session : Sessions \cup {None},
                                 at : {"none", "swap", "replay", "unload", "queued", "granted",
                                       "leaving", "yielding", "running", "ending", "releasing"},
                                 fresh : BOOLEAN, offers : BOOLEAN]]
    /\ tools \in [Sessions -> Connections \cup {None}]
    /\ tracked \in [Connections -> SUBSET Sessions]
    /\ permits \in 0 .. MaxRuns
    /\ cleaner \in [Cleaners -> [holds : SUBSET Sessions, todo : SUBSET Sessions, purged : SUBSET Sessions]]

Active == {r \in Requests : request[r] # NoRequest}

\* Two handlers never work on the same session, whichever connections they came
\* from: not a prompt that outlives its connection and the next owner's load,
\* nor a close and a prompt.
OneOperation ==
    \A q, r \in Active : request[q].session = request[r].session => q = r

\* A session is purged alone: no connection holds it and no handler works on it
\* from the reservation to its end, and no two cleaners purge it.
PurgeAlone ==
    \A w \in Cleaners : \A s \in cleaner[w].holds :
        /\ bound[s] = Free
        /\ \A r \in Active : request[r].session # s
        /\ \A v \in Cleaners \ {w} : s \notin cleaner[v].holds

\* A prompt runs with the client tools of the connection it came from, or with
\* none: those of an earlier owner, whose release may have failed, are gone.
ToolsOfOwner ==
    \A r \in Active : request[r].at \in {"queued", "granted", "running"}
        => tools[request[r].session] \in {None, request[r].conn}

Holders == {r \in Requests : request[r].at \in {"granted", "yielding", "running"}}

\* What the README says of max_active_runs: it limits the prompts that execute,
\* and more prompts than that wait for a slot.  So one that waits in vain has
\* max_active_runs others before it.  It does not hold: a prompt cancelled twice
\* while it gives its slot back loses it (YieldCancelled).
WaitMeansBusy ==
    (permits = 0 /\ \E r \in Requests : request[r].at = "queued") => Cardinality(Holders) = MaxRuns

\* A deleted session leaves no checkpoints behind, which nothing would ever
\* delete: none survive its row, and no late prompt writes new ones.
NothingLeftBehind == \A s \in Sessions : row[s] = "deleted" => ~history[s]

\* No late save brings a closed or deleted session back.
NoResurrection ==
    [][\A s \in Sessions : row[s] \in {"closed", "deleted"} => row'[s] \in {row[s], "deleted"}]_vars
=============================================================================

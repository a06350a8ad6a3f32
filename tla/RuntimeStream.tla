---------------------------- MODULE RuntimeStream ----------------------------
(* The events of one provider runtime on their way to the desktops that     *)
(* show it: the hub of the daemon numbers, journals and broadcasts them     *)
(* (waku-core/src/server.rs); the client thread of a desktop reads its      *)
(* connection and hands them to a subscriber or keeps them for one          *)
(* (waku-client/src/client.rs); the supervisor replaces a client whose      *)
(* connection broke by one that resumes from its cursors                    *)
(* (waku-client/src/process.rs); and the adapter of the session passes them *)
(* on to the transcript and moves to the replacement                        *)
(* (desktop-app/src/driver/mod.rs).                                         *)
(*                                                                          *)
(* Connections break at any time with what is under way on them, a slow     *)
(* desktop is disconnected, the provider ends, somebody closes the session, *)
(* and the daemon itself may be restarted, which ends the runtime.          *)
EXTENDS Naturals, Sequences, SequencesExt

CONSTANTS
  Desktop,      \* client processes
  MaxEvents,    \* bound: events of the runtime, its exit included
  JournalCap,   \* MAX_REPLAY_EVENTS_PER_SESSION
  QueueCap,     \* MAX_QUEUED_MESSAGES_PER_SUBSCRIBER
  BufferCap,    \* MAX_BUFFERED_EVENTS_PER_RUNTIME
  MaxLinks      \* bound: connections each desktop makes to one daemon

ASSUME CapAssumption ==
  /\ {MaxEvents, JournalCap, QueueCap, BufferCap} \subseteq Nat \ {0}
  /\ MaxLinks \in [Desktop -> Nat \ {0}]
  /\ JournalCap <= QueueCap  \* one journal fits into the queue of a subscriber

Link == UNION {1 .. MaxLinks[d] + 1 : d \in Desktop}
Event == 1 .. MaxEvents

VARIABLES
  life,     \* the driver the daemon holds: none, live, exited, gone
  heard,    \* Hub.active_runtimes names the runtime
  last,     \* Hub.next_sequences
  journal,  \* Hub.journal, the newest events
  exit,     \* sequence of processExited, 0 if it was not emitted
  link,     \* per desktop, the number of its newest connection
  up,       \* per desktop, whether that connection stands
  listed,   \* per desktop, whether the hub sends to that connection
  wire,     \* per desktop, events queued for and under way on it
  cursor,   \* per desktop, last_sequences of the newest client
  kept,     \* per desktop and connection, pending_events
  adapter,  \* per desktop, the thread that follows the runtime
  saved,    \* runtime_event_cursor of the session as the daemon stores it
  got       \* history: per desktop, the events its transcript received

daemonVars == <<life, heard, last, journal, exit>>
linkVars == <<link, up, listed, wire, cursor>>
streamVars == <<life, heard, last, journal, exit, link, up, listed, wire, cursor, kept, adapter,
                saved, got>>

\* An adapter without a runtime. `on' is the connection it uses, `chan' what
\* was sent to it, `open' whether more may come, `from' the cursor of its
\* session when it attached.
Idle == [st |-> "none", on |-> 0, chan |-> <<>>, open |-> FALSE, from |-> 0]

StreamInit ==
  /\ life = "none"
  /\ heard = FALSE
  /\ last = 0
  /\ journal = <<>>
  /\ exit = 0
  /\ link = [d \in Desktop |-> 1]
  /\ up = [d \in Desktop |-> TRUE]
  /\ listed = [d \in Desktop |-> TRUE]
  /\ wire = [d \in Desktop |-> <<>>]
  /\ cursor = [d \in Desktop |-> 0]
  /\ kept = [d \in Desktop |-> [k \in Link |-> <<>>]]
  /\ adapter = [d \in Desktop |-> Idle]
  /\ saved = 0
  /\ got = [d \in Desktop |-> <<>>]

-----------------------------------------------------------------------------
(* The daemon.                                                              *)

Newest(s, n) == IF Len(s) > n THEN SubSeq(s, Len(s) - n + 1, Len(s)) ELSE s

\* Hub.emit: the next sequence number, the journal, and every subscriber; one
\* whose queue is full is taken off the list and its connection ends.
Publish ==
  LET e == last + 1
      full == {d \in Desktop : listed[d] /\ Len(wire[d]) >= QueueCap}
  IN  /\ last' = e
      /\ journal' = Newest(Append(journal, e), JournalCap)
      /\ wire' = [d \in Desktop |->
                    IF listed[d] /\ d \notin full THEN Append(wire[d], e) ELSE wire[d]]
      /\ listed' = [d \in Desktop |-> listed[d] /\ d \notin full]

\* The driver reports something. One number is left for its exit.
Emit ==
  /\ life = "live"
  /\ heard
  /\ last + 1 < MaxEvents
  /\ Publish
  /\ UNCHANGED <<life, heard, exit, link, up, cursor, kept, adapter, saved, got>>

\* The driver is let go: its process ended, or the session is being closed.
DriverEnds ==
  /\ life = "live"
  /\ life' = "exited"
  /\ UNCHANGED <<heard, last, journal, exit, linkVars, kept, adapter, saved, got>>

\* The forwarding thread has taken the driver out of the backend's table and
\* now passes on processExited; nobody hears it once the session is closed.
EmitExit ==
  /\ life = "exited"
  /\ heard
  /\ exit = 0
  /\ exit' = last + 1
  /\ Publish
  /\ UNCHANGED <<life, heard, link, up, cursor, kept, adapter, saved, got>>

\* CloseSession: Hub.end_runtime after the driver was let go.
Silence ==
  /\ life = "exited"
  /\ heard
  /\ heard' = FALSE
  /\ journal' = <<>>
  /\ UNCHANGED <<life, last, exit, linkVars, kept, adapter, saved, got>>

-----------------------------------------------------------------------------
(* Connections.                                                             *)

\* What the end of a connection does to the adapter that follows it: its
\* channel is closed; an adapter that has not subscribed yet notices nothing.
CutOff(d) ==
  IF adapter[d].st = "follow" /\ adapter[d].on = link[d]
  THEN [adapter EXCEPT ![d].open = FALSE] ELSE adapter

\* The connection breaks, or the desktop sees that the daemon closed it. What
\* was under way is lost; the sender of every subscription is dropped.
Break(d) ==
  /\ up[d]
  /\ link[d] < MaxLinks[d]
  /\ up' = [up EXCEPT ![d] = FALSE]
  /\ listed' = [listed EXCEPT ![d] = FALSE]
  /\ wire' = [wire EXCEPT ![d] = <<>>]
  /\ adapter' = CutOff(d)
  /\ UNCHANGED <<daemonVars, link, cursor, kept, saved, got>>

\* Mutant: the supervisor reconnects without its replay cursors.
ReconnectAnew(d) ==
  /\ ~up[d]
  /\ link' = [link EXCEPT ![d] = @ + 1]
  /\ up' = [up EXCEPT ![d] = TRUE]
  /\ listed' = [listed EXCEPT ![d] = TRUE]
  /\ wire' = [wire EXCEPT ![d] = journal]
  /\ cursor' = [cursor EXCEPT ![d] = 0]
  /\ UNCHANGED <<daemonVars, kept, adapter, saved, got>>

\* The broken client is dropped with what it kept, unless an adapter is about
\* to subscribe with it.
LetGo(d) ==
  kept' = IF adapter[d].st = "attached" THEN kept ELSE [kept EXCEPT ![d][link[d]] = <<>>]

\* The events of a journal above n. It rises, so they are its end.
After(events, n) ==
  LET later == {i \in DOMAIN events : events[i] > n}
  IN  IF later = {} THEN <<>> ELSE SubSeq(events, Min(later), Len(events))

\* The supervisor connects again from the cursors of the broken client and
\* publishes the new one; the hub registers it and replays its journal.
Reconnect(d) ==
  /\ ~up[d]
  /\ link' = [link EXCEPT ![d] = @ + 1]
  /\ up' = [up EXCEPT ![d] = TRUE]
  /\ listed' = [listed EXCEPT ![d] = TRUE]
  /\ wire' = [wire EXCEPT ![d] = After(journal, cursor[d])]
  /\ LetGo(d)
  /\ UNCHANGED <<daemonVars, cursor, adapter, saved, got>>

\* The daemon ends and is started again: every connection breaks and its
\* memory of the runtime is gone.
Restart ==
  /\ life \in {"live", "exited"}
  /\ life' = "gone"
  /\ heard' = FALSE
  /\ journal' = <<>>
  /\ up' = [d \in Desktop |-> FALSE]
  /\ listed' = [d \in Desktop |-> FALSE]
  /\ wire' = [d \in Desktop |-> <<>>]
  /\ adapter' = [d \in Desktop |-> CutOff(d)[d]]
  /\ UNCHANGED <<last, exit, link, cursor, kept, saved, got>>

\* The client thread reads an event: one it has seen is dropped; it goes to
\* the subscriber, or waits for one, the oldest making room.
ClientRead(d) ==
  LET e == Head(wire[d])
      k == link[d]
      subscribed == adapter[d].st = "follow" /\ adapter[d].on = k
  IN  /\ up[d]
      /\ wire[d] # <<>>
      /\ wire' = [wire EXCEPT ![d] = Tail(@)]
      /\ IF e <= cursor[d]
         THEN UNCHANGED <<cursor, kept, adapter>>
         ELSE /\ cursor' = [cursor EXCEPT ![d] = e]
              /\ IF subscribed
                 THEN /\ adapter' = [adapter EXCEPT ![d].chan = Append(@, e)]
                      /\ UNCHANGED kept
                 ELSE /\ kept' = [kept EXCEPT ![d][k] = Newest(Append(@, e), BufferCap)]
                      /\ UNCHANGED adapter
      /\ UNCHANGED <<daemonVars, link, up, listed, saved, got>>

-----------------------------------------------------------------------------
(* Desktops and their adapters.                                             *)

\* start_remote: the provider is started; its desktop is told so, or, when the
\* answer is lost, takes the start for failed.
Start(d) ==
  /\ life = "none"
  /\ adapter[d].st = "none"
  /\ up[d]
  /\ life' = "live"
  /\ heard' = TRUE
  /\ \/ adapter' = [adapter EXCEPT ![d] = [Idle EXCEPT !.st = "attached", !.on = link[d]]]
     \/ UNCHANGED adapter
  /\ UNCHANGED <<last, journal, exit, linkVars, kept, saved, got>>

\* attach_driver: the session is hydrated, then the daemon answers which
\* runtime it has; another desktop may save in between.
Hydrate(d) ==
  /\ adapter[d].st = "none"
  /\ up[d]
  /\ adapter' = [adapter EXCEPT ![d] = [Idle EXCEPT !.st = "hydrated", !.from = saved]]
  /\ UNCHANGED <<daemonVars, linkVars, kept, saved, got>>

Attach(d) ==
  /\ adapter[d].st = "hydrated"
  /\ adapter' = [adapter EXCEPT ![d] =
       IF up[d] /\ life = "live" THEN [@ EXCEPT !.st = "attached", !.on = link[d]] ELSE Idle]
  /\ UNCHANGED <<daemonVars, linkVars, kept, saved, got>>

\* DaemonClient.subscribe on the connection the runtime was found on. If that
\* has broken since, the sender is registered with a client that is no more:
\* nothing will ever come, and nothing will close the channel.
Subscribe(d) ==
  LET k == adapter[d].on
  IN  /\ adapter[d].st = "attached"
      /\ adapter' = [adapter EXCEPT ![d].st = "follow", ![d].open = TRUE,
                                    ![d].chan = kept[d][k]]
      /\ kept' = [kept EXCEPT ![d][k] = <<>>]
      /\ UNCHANGED <<daemonVars, linkVars, saved, got>>

\* The adapter passes an event on unless the session had it when it was
\* attached; after processExited it ends.
Forward(d) ==
  LET e == Head(adapter[d].chan)
      old == e <= adapter[d].from
  IN  /\ adapter[d].st = "follow"
      /\ adapter[d].chan # <<>>
      /\ got' = IF old THEN got ELSE [got EXCEPT ![d] = Append(@, e)]
      /\ adapter' = [adapter EXCEPT ![d].chan = Tail(@),
                                    ![d].st = IF e = exit /\ ~old THEN "done" ELSE "follow"]
      /\ UNCHANGED <<daemonVars, linkVars, kept, saved>>

\* Mutant: a closed channel is taken for the end of the provider.
NoticeExit(d) ==
  /\ adapter[d].st = "follow"
  /\ ~adapter[d].open
  /\ adapter[d].chan = <<>>
  /\ adapter' = [adapter EXCEPT ![d].st = "done"]
  /\ UNCHANGED <<daemonVars, linkVars, kept, saved, got>>

\* The channel is drained and closed: the connection broke.
Notice(d) ==
  /\ adapter[d].st = "follow"
  /\ ~adapter[d].open
  /\ adapter[d].chan = <<>>
  /\ adapter' = [adapter EXCEPT ![d].st = "await"]
  /\ UNCHANGED <<daemonVars, linkVars, kept, saved, got>>

\* The next client that the supervisor publishes.
Adopt(d) ==
  /\ adapter[d].st = "await"
  /\ link[d] > adapter[d].on
  /\ adapter' = [adapter EXCEPT ![d].st = "ask", ![d].on = @ + 1]
  /\ UNCHANGED <<daemonVars, linkVars, kept, saved, got>>

\* Mutant: an adapter whose question fails gives up.
AskOnce(d) ==
  /\ adapter[d].st = "ask"
  /\ adapter' = [adapter EXCEPT ![d].st =
       IF ~(up[d] /\ link[d] = adapter[d].on) THEN "none"
       ELSE IF life = "live" THEN "attached" ELSE "done"]
  /\ UNCHANGED <<daemonVars, linkVars, kept, saved, got>>

\* AttachSession on the replacement: the runtime lives, it does not (and the
\* adapter reports its end), or this connection is gone too.
Ask(d) ==
  /\ adapter[d].st = "ask"
  /\ adapter' = [adapter EXCEPT ![d].st =
       IF ~(up[d] /\ link[d] = adapter[d].on) THEN "await"
       ELSE IF life = "live" THEN "attached" ELSE "done"]
  /\ UNCHANGED <<daemonVars, linkVars, kept, saved, got>>

\* The transcript is saved with the cursor it has come to. Saves of several
\* desktops are ordered by cursor (session_projection_precedes).
Save(d) ==
  /\ got[d] # <<>>
  /\ up[d]
  /\ Last(got[d]) > saved
  /\ saved' = Last(got[d])
  /\ UNCHANGED <<daemonVars, linkVars, kept, adapter, got>>

-----------------------------------------------------------------------------
Adapter(d) ==
  Attach(d) \/ Subscribe(d) \/ Forward(d) \/ Notice(d) \/ Adopt(d) \/ Ask(d)

StreamNext ==
  \/ Emit \/ DriverEnds \/ EmitExit \/ Silence \/ Restart
  \/ \E d \in Desktop :
       \/ Break(d) \/ Reconnect(d) \/ ClientRead(d)
       \/ Start(d) \/ Hydrate(d) \/ Save(d)
       \/ Adapter(d)

StreamSpec == StreamInit /\ [][StreamNext]_streamVars

\* Threads that can go on do, and the supervisor polls for broken connections.
FairStreamSpec ==
  /\ StreamSpec
  /\ \A d \in Desktop :
       WF_streamVars(ClientRead(d)) /\ WF_streamVars(Reconnect(d)) /\ WF_streamVars(Adapter(d))

-----------------------------------------------------------------------------
(* Properties.                                                              *)

Numbers == Seq(Event)

StreamTypeOK ==
  /\ life \in {"none", "live", "exited", "gone"}
  /\ heard \in BOOLEAN
  /\ last \in 0 .. MaxEvents
  /\ journal \in Numbers
  /\ exit \in 0 .. MaxEvents
  /\ link \in [Desktop -> Link]
  /\ up \in [Desktop -> BOOLEAN]
  /\ listed \in [Desktop -> BOOLEAN]
  /\ wire \in [Desktop -> Numbers]
  /\ cursor \in [Desktop -> 0 .. MaxEvents]
  /\ kept \in [Desktop -> [Link -> Numbers]]
  /\ adapter \in [Desktop -> [st : {"none", "hydrated", "attached", "follow", "await", "ask", "done"},
                              on : Link \cup {0}, chan : Numbers, open : BOOLEAN,
                              from : 0 .. MaxEvents]]
  /\ saved \in 0 .. MaxEvents
  /\ got \in [Desktop -> Numbers]

Rising(s) == \A i, j \in DOMAIN s : i < j => s[i] < s[j]

\* A transcript receives every event at most once and in the order of the
\* daemon, from where its session was saved, whichever connections broke
\* while events were queued, buffered, replayed or handed over.
InOrder ==
  \A d \in Desktop :
    /\ Rising(got[d])
    /\ \A i \in DOMAIN got[d] : got[d][i] > adapter[d].from

\* "Closing the desktop transport is not evidence that a daemon-owned provider
\* exited" (client.rs): an adapter ends only when the runtime has.
NoFalseExit ==
  \A d \in Desktop : adapter[d].st = "done" => life # "live"

\* The adapter subscribed with a client whose connection had already broken.
Stuck(d) ==
  /\ adapter[d].st = "follow"
  /\ adapter[d].open
  /\ ~(up[d] /\ adapter[d].on = link[d])

\* An adapter whose connection broke under it comes to follow the newest one,
\* or learns that the runtime has ended: it never waits for good, however
\* often the connection breaks again during the handover. (Unless it loses
\* the connection between the answer of the daemon and its subscription.)
HandoverEnds ==
  \A d \in Desktop :
    adapter[d].st \in {"await", "ask"}
      ~> \/ adapter[d].st = "done"
         \/ Stuck(d)
         \/ adapter[d].st = "follow" /\ adapter[d].on = link[d]

\* server.rs, broadcast: a dropped subscriber "reconnects with replay cursors,
\* so no event stream is lost permanently". It does not hold: what the journal
\* dropped while a desktop was away is gone, and its cursor passes over the gap.
NothingLost ==
  \A d \in Desktop :
    \A i \in DOMAIN got[d] : got[d][i] = adapter[d].from + i
=============================================================================

---------------------------- MODULE StreamBridge ----------------------------
(***************************************************************************)
(* The in-memory stream bridge, deerflow/runtime/stream_bridge/memory.py,  *)
(* for one run id: the producer publishes into a bounded replay buffer,    *)
(* readers subscribe with the id of the last event they saw and follow it  *)
(* by offsets, expiry empties the buffer, cleanup forgets the stream and   *)
(* whoever asks next creates a new one.  No coroutine suspends while it    *)
(* holds the condition of a stream, so every step under it is atomic.      *)
(***************************************************************************)
EXTENDS Integers, Sequences, FiniteSets

CONSTANTS
  Reader,      \* connections that read the stream
  MaxSize,     \* queue_maxsize
  MaxEvents,   \* bound: events published into one stream
  MaxStreams   \* bound: streams created for the run id

ASSUME StreamBridgeAssumption ==
  MaxSize \in Nat \ {0} /\ MaxEvents \in Nat /\ MaxStreams \in Nat \ {0}

\* The _RunStream objects in the order they are created; 0 stands for none.  A reader
\* keeps the object it subscribed to, also when the bridge has forgotten it.
Stream == 1 .. MaxStreams

\* An event id is its stream and its number in it (a time stamp and a counter in the code).
NoEvent == [stream |-> 0, seq |-> 0]

VARIABLES
  object,  \* the _RunStream objects: events, start_offset, ended, expired; and their counter
  made,    \* how many exist
  live,    \* the one in _streams, or 0
  run,     \* the run that publishes: "active", "over", or "gone" once cleaned up
  reader   \* phase, the object held, next_offset, and the last event the client saw

vars == <<object, made, live, run, reader>>

NewStream == [events |-> <<>>, start |-> 0, ended |-> FALSE, expired |-> FALSE, counter |-> 0]
EventIds == [stream : 0 .. MaxStreams, seq : 0 .. MaxEvents]

TypeOK ==
  /\ object \in [Stream -> [events : Seq(1 .. MaxEvents), start : 0 .. MaxEvents, ended : BOOLEAN,
                            expired : BOOLEAN, counter : 0 .. MaxEvents]]
  /\ made \in 0 .. MaxStreams /\ live \in 0 .. made
  /\ run \in {"active", "over", "gone"}
  /\ reader \in [Reader -> [phase : {"away", "reading", "finished"}, held : 0 .. MaxStreams,
                            offset : 0 .. MaxEvents, last : EventIds]]

Init ==
  /\ object = [o \in Stream |-> NewStream]
  /\ made = 0 /\ live = 0 /\ run = "active"
  /\ reader = [c \in Reader |-> [phase |-> "away", held |-> 0, offset |-> 0, last |-> NoEvent]]

\* _get_or_create_stream
Target == IF live = 0 THEN made + 1 ELSE live
GetOrCreate ==
  /\ Target \in Stream
  /\ live' = Target
  /\ made' = IF live = 0 THEN made + 1 ELSE made

-----------------------------------------------------------------------------
(* The producer side.                                                      *)

TrimmedInPlace(s) ==                          \* mutant: start_offset not moved
  IF Len(s.events) > MaxSize THEN [s EXCEPT !.events = SubSeq(@, Len(@) - MaxSize + 1, Len(@))] ELSE s

\* Drop the oldest events above the limit.
Trimmed(s) ==
  LET overflow == Len(s.events) - MaxSize IN
  IF overflow > 0
  THEN [s EXCEPT !.events = SubSeq(@, overflow + 1, Len(@)), !.start = @ + overflow]
  ELSE s

Appended(s) == [s EXCEPT !.events = Append(@, s.counter + 1), !.counter = @ + 1]

Publish ==
  /\ run = "active" /\ GetOrCreate
  /\ ~object[Target].expired /\ object[Target].counter < MaxEvents
  /\ object' = [object EXCEPT ![Target] = Trimmed(Appended(@))]
  /\ UNCHANGED <<run, reader>>

PublishEnd ==
  /\ run = "active" /\ GetOrCreate
  /\ object' = IF object[Target].expired THEN object ELSE [object EXCEPT ![Target].ended = TRUE]
  /\ run' = "over"
  /\ UNCHANGED reader

WithdrawnOpen(s) == [s EXCEPT !.events = <<>>, !.start = 0, !.expired = TRUE]  \* mutant: not ended

Withdrawn(s) == [s EXCEPT !.events = <<>>, !.start = 0, !.expired = TRUE, !.ended = TRUE]

\* The disconnect grace of a running run, or the replay window of a completed one, is over.
Expire ==
  /\ run # "gone" /\ GetOrCreate
  /\ object' = [object EXCEPT ![Target] = Withdrawn(@)]
  /\ UNCHANGED <<run, reader>>

\* Called once the run is over.
Cleanup ==
  /\ run = "over"
  /\ live' = 0 /\ run' = "gone"
  /\ UNCHANGED <<object, made, reader>>

\* A new run is started under the id of one that is gone.
Restart ==
  /\ run = "gone"
  /\ run' = "active"
  /\ UNCHANGED <<object, made, live, reader>>

-----------------------------------------------------------------------------
(* The subscriber side.                                                    *)

ResolvedAgain(o, last) ==                     \* mutant: the last event itself is replayed
  LET s == object[o]
      known == {i \in DOMAIN s.events : last = [stream |-> o, seq |-> s.events[i]]}
  IN IF known = {} THEN s.start ELSE s.start + (CHOOSE i \in known : TRUE) - 1

\* _resolve_start_offset: after the last event, if it is still kept.
Resolved(o, last) ==
  LET s == object[o]
      known == {i \in DOMAIN s.events : last = [stream |-> o, seq |-> s.events[i]]}
  IN IF known = {} THEN s.start ELSE s.start + (CHOOSE i \in known : TRUE)

\* subscribe, up to its loop; last is the Last-Event-ID the client sends, or none.
Subscribe(c, last) ==
  /\ reader[c].phase # "reading" /\ last \in {reader[c].last, NoEvent}
  /\ GetOrCreate
  /\ reader' = [reader EXCEPT ![c] =
       [phase |-> IF object[Target].expired THEN "finished" ELSE "reading", held |-> Target,
        offset |-> IF object[Target].expired THEN 0 ELSE Resolved(Target, last), last |-> last]]
  /\ UNCHANGED <<object, run>>

\* next_offset, moved up when the reader fell behind the buffer.
CaughtUp(c) ==
  LET start == object[reader[c].held].start
  IN IF reader[c].offset < start THEN start ELSE reader[c].offset
Index(c) == CaughtUp(c) - object[reader[c].held].start + 1

\* One round of the loop: the next event ...
Deliver(c) ==
  LET s == object[reader[c].held] IN
  /\ reader[c].phase = "reading" /\ Index(c) \in DOMAIN s.events
  /\ reader' = [reader EXCEPT ![c].offset = CaughtUp(c) + 1,
                              ![c].last = [stream |-> reader[c].held, seq |-> s.events[Index(c)]]]
  /\ UNCHANGED <<object, made, live, run>>

\* ... or the end marker; otherwise the reader waits (heartbeats change nothing).
End(c) ==
  LET s == object[reader[c].held] IN
  /\ reader[c].phase = "reading" /\ Index(c) \notin DOMAIN s.events /\ s.ended
  /\ reader' = [reader EXCEPT ![c].phase = "finished"]
  /\ UNCHANGED <<object, made, live, run>>

\* The connection breaks.
Disconnect(c) ==
  /\ reader[c].phase = "reading"
  /\ reader' = [reader EXCEPT ![c].phase = "away"]
  /\ UNCHANGED <<object, made, live, run>>

Next ==
  \/ Publish \/ PublishEnd \/ Expire \/ Cleanup \/ Restart
  \/ \E c \in Reader :
       \/ \E last \in {reader[c].last, NoEvent} : Subscribe(c, last)
       \/ Deliver(c) \/ End(c) \/ Disconnect(c)

Spec == Init /\ [][Next]_vars

-----------------------------------------------------------------------------
(* What the bridge promises.                                               *)

\* The stream as its readers rely on it.
Seen(o, c) == IF reader[c].held = o /\ reader[c].last.stream = o THEN reader[c].last.seq ELSE 0
Log(o) == INSTANCE ReplayLog WITH
  state <- IF object[o].expired THEN "withdrawn" ELSE IF object[o].ended THEN "ended" ELSE "open",
  length <- object[o].counter,
  floor <- IF object[o].counter > MaxSize THEN object[o].counter - MaxSize ELSE 0,
  mode <- [c \in Reader |-> IF reader[c].held = o THEN reader[c].phase ELSE "away"],
  seen <- [c \in Reader |-> Seen(o, c)],
  cursor <- [c \in Reader |-> IF reader[c].held = o /\ reader[c].phase = "reading"
                              THEN reader[c].offset ELSE Seen(o, c)]

\* Every stream is a replay log: order, no repetition across reconnects, gaps only where
\* the buffer overflowed, and no early end marker (publish, subscribe, _resolve_start_offset).
ImplementsReplayLog ==
  /\ \A o \in Stream : Log(o)!Init
  /\ [][\A o \in Stream : Log(o)!Next \/ UNCHANGED Log(o)!logVars]_vars

\* A reader that waits, waits on the stream the bridge still knows: nobody would ever
\* wake it otherwise (expire and publish_end end a stream before cleanup forgets it).
WaitersAreReachable ==
  \A c \in Reader :
    reader[c].phase = "reading" /\ ~object[reader[c].held].ended => reader[c].held = live
=============================================================================

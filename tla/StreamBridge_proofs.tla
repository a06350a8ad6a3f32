------------------------- MODULE StreamBridge_proofs -------------------------
(***************************************************************************)
(* Machine-checked proofs about the stream bridge, for any number of        *)
(* readers, streams and events and any limit of the buffer.                 *)
(***************************************************************************)
EXTENDS StreamBridge, SequenceTheorems, TLAPS

\* What a stream object and a reader's place look like.
Events == Seq(1 .. MaxEvents)
Object == [events : Events, start : 0 .. MaxEvents, ended : BOOLEAN,
           expired : BOOLEAN, counter : 0 .. MaxEvents]
Seat == [phase : {"away", "reading", "finished"}, held : 0 .. MaxStreams,
         offset : 0 .. MaxEvents, last : EventIds]

\* The numbers after a up to n.
Numbered(a, n) == [i \in 1 .. (n - a) |-> a + i]

\* How many of n events are no longer kept.
Floor(n) == IF n > MaxSize THEN n - MaxSize ELSE 0

\* A stream that was not withdrawn keeps the newest of the events published into it.
Buffer(s) ==
  /\ s.expired => s.ended /\ s.start = 0 /\ s.events = <<>>
  /\ ~s.expired => s.start = Floor(s.counter) /\ s.events = Numbered(s.start, s.counter)

\* Only the newest stream may be live, the ones before it have ended, and the
\* live one has ended exactly when its run is over or the stream was withdrawn.
Current(o) ==
  /\ o > made => object[o] = NewStream
  /\ o <= made /\ o # live => object[o].ended
  /\ o = live => (object[o].ended <=> run = "over" \/ object[o].expired)

\* A reader has seen nothing that is not in the log it holds or an older one.
Follows(c) ==
  LET r == reader[c]
  IN  /\ r.held <= made
      /\ r.phase # "away" => r.held > 0
      /\ r.last.stream <= r.held
      /\ r.last.stream > 0 => r.last.seq <= object[r.last.stream].counter

\* The streams of the bridge: one is live at most, and each keeps what it must.
StreamsOK ==
  /\ object \in [Stream -> Object]
  /\ made \in 0 .. MaxStreams
  /\ live \in {0, made}
  /\ run \in {"active", "over", "gone"}
  /\ run = "over" => live > 0
  /\ \A o \in Stream : Buffer(object[o]) /\ Current(o)

\* The inductive invariant of the bridge.
BridgeInv ==
  /\ StreamsOK
  /\ reader \in [Reader -> Seat]
  /\ \A c \in Reader : Follows(c)

\* Changing the events, the start or the marks of a stream object leaves it one.
LEMMA ObjectTypes ==
  ASSUME NEW s \in Object, NEW e \in Events, NEW n \in 0 .. MaxEvents
  PROVE  /\ [s EXCEPT !.events = e, !.counter = n] \in Object
         /\ [s EXCEPT !.events = e, !.start = n] \in Object
  BY DEF Object

\* Numbered lists: one more event ...
LEMMA NumberedAppend ==
  ASSUME NEW a \in Nat, NEW n \in Nat, a <= n
  PROVE  Append(Numbered(a, n), n + 1) = Numbered(a, n + 1)
<1>1. Numbered(a, n) \in Seq(Nat) /\ Len(Numbered(a, n)) = n - a
  BY DEF Numbered
<1>2. PICK g : g = Numbered(a, n)
  OBVIOUS
<1>3. g \in Seq(Nat) /\ Len(g) = n - a /\ \A i \in 1 .. (n - a) : g[i] = a + i
  BY <1>1, <1>2 DEF Numbered
<1>4. /\ Append(g, n + 1) \in Seq(Nat) /\ Len(Append(g, n + 1)) = n - a + 1
      /\ \A i \in 1 .. (n - a) : Append(g, n + 1)[i] = a + i
      /\ Append(g, n + 1)[n - a + 1] = n + 1
  BY <1>3, AppendProperties
<1>5. \A i \in 1 .. (n + 1 - a) : Append(g, n + 1)[i] = a + i
  BY <1>4
<1>6. Append(g, n + 1) = [i \in 1 .. (n - a + 1) |-> Append(g, n + 1)[i]]
  BY <1>4
<1>7. Append(g, n + 1) = Numbered(a, n + 1)
  BY <1>5, <1>6 DEF Numbered
<1> QED
  BY <1>1, <1>2, <1>7

\* ... and the oldest dropped.
LEMMA NumberedTail ==
  ASSUME NEW a \in Nat, NEW n \in Nat, a < n
  PROVE  SubSeq(Numbered(a, n), 2, n - a) = Numbered(a + 1, n)
<1>1. PICK g : g = Numbered(a, n)
  OBVIOUS
<1>2. g \in Seq(Nat) /\ Len(g) = n - a /\ \A i \in 1 .. (n - a) : g[i] = a + i
  BY <1>1 DEF Numbered
<1>3. PICK h : h = SubSeq(g, 2, n - a)
  OBVIOUS
<1>4. /\ h \in Seq(Nat) /\ Len(h) = n - a - 1
      /\ \A i \in 1 .. (n - a - 1) : h[i] = g[i + 1]
  <2>1. \A i \in 2 .. n - a : g[i] \in Nat
    BY <1>2
  <2>2. /\ h \in Seq(Nat) /\ Len(h) = IF 2 <= n - a THEN n - a - 2 + 1 ELSE 0
        /\ \A i \in 1 .. (n - a - 2 + 1) : h[i] = g[2 + i - 1]
    BY <1>3, <2>1, SubSeqProperties
  <2> QED
    BY <2>2
<1>5. h = [i \in 1 .. (n - (a + 1)) |-> h[i]]
  BY <1>4
<1>6. \A i \in 1 .. (n - (a + 1)) : h[i] = a + 1 + i
  BY <1>2, <1>4
<1> QED
  BY <1>1, <1>3, <1>5, <1>6 DEF Numbered

\* Such a list is a list of events.
LEMMA NumberedType ==
  ASSUME NEW a \in Nat, NEW n \in Nat, NEW m \in Nat, a <= n, n <= m
  PROVE  Numbered(a, n) \in Seq(1 .. m) /\ Len(Numbered(a, n)) = n - a
  BY DEF Numbered

\* What publishing makes of a stream that is kept.
LEMMA PublishedStream ==
  ASSUME StreamBridgeAssumption, NEW s \in Object, Buffer(s),
         ~s.expired, s.counter < MaxEvents
  PROVE  LET t == Trimmed(Appended(s))
         IN  /\ t \in Object
             /\ t.counter = s.counter + 1
             /\ t.start = Floor(s.counter + 1)
             /\ t.events = Numbered(t.start, t.counter)
             /\ t.ended = s.ended
             /\ t.expired = FALSE
<1>0. PICK n, a, k : n = s.counter /\ a = s.start /\ k = n + 1
  OBVIOUS
<1>1. s \in Object /\ s.ended \in BOOLEAN /\ s.expired = FALSE
  BY <1>0 DEF Object
<1>2. /\ MaxSize \in Nat \ {0} /\ MaxEvents \in Nat
      /\ n \in Nat /\ k \in Nat /\ n < k /\ k = n + 1 /\ k <= MaxEvents
  BY <1>0 DEF StreamBridgeAssumption, Object
<1>20. a = Floor(n) /\ s.events = Numbered(a, n)
  BY <1>0 DEF Buffer
<1>21. a \in Nat /\ a <= n /\ a <= k
  BY <1>2, <1>20 DEF Floor
<1>22. Append(Numbered(a, n), n + 1) = Numbered(a, n + 1)
  BY <1>2, <1>21, NumberedAppend
<1>3. Numbered(a, k) \in Events /\ Len(Numbered(a, k)) = k - a
  BY <1>2, <1>21, NumberedType DEF Events
<1>4. PICK u : u = Appended(s)
  OBVIOUS
<1>41. u = [s EXCEPT !.events = Append(s.events, k), !.counter = k]
  BY <1>0, <1>4 DEF Appended
<1>42. u = [s EXCEPT !.events = Numbered(a, k), !.counter = k]
  BY <1>2, <1>20, <1>22, <1>41
<1>43. u \in Object
  <2>1. k \in 0 .. MaxEvents
    BY <1>2
  <2> QED
    BY <1>1, <1>3, <1>42, <2>1, ObjectTypes
<1>44. /\ u.events = Numbered(a, k) /\ u.start = a /\ u.counter = k
       /\ u.ended = s.ended /\ u.expired = FALSE
  BY <1>0, <1>1, <1>42 DEF Object
<1>45. Len(u.events) - MaxSize = k - a - MaxSize
  BY <1>3, <1>44
<1>5. CASE k - a - MaxSize > 0
  <2>0. PICK b, v : b = a + 1 /\ v = Len(u.events) - MaxSize
    OBVIOUS
  <2>1. b = Floor(k) /\ b <= k /\ b \in Nat /\ a < k /\ v = 1
    <3>1. k - a - MaxSize = 1 /\ a + 1 = Floor(k) /\ a + 1 <= k
      BY <1>2, <1>20, <1>21, <1>5 DEF Floor
    <3>2. v = k - a - MaxSize
      BY <1>45, <2>0
    <3> QED
      BY <1>2, <1>21, <2>0, <3>1, <3>2
  <2>2. SubSeq(Numbered(a, k), 2, k - a) = Numbered(b, k)
    BY <1>2, <1>21, <2>0, <2>1, NumberedTail
  <2>3. Numbered(b, k) \in Events
    BY <1>2, <2>1, NumberedType DEF Events
  <2>4. b \in 0 .. MaxEvents
    BY <1>2, <2>1
  <2>5. Trimmed(u) = [u EXCEPT !.events = SubSeq(u.events, v + 1, Len(u.events)), !.start = u.start + v]
    <3>1. v > 0
      BY <2>1
    <3> QED
      BY <2>0, <3>1, Zenon DEF Trimmed
  <2>6. v + 1 = 2 /\ u.start + v = b
    BY <1>44, <2>0, <2>1
  <2>7. PICK t : t = Trimmed(u)
    OBVIOUS
  <2>8. t = [u EXCEPT !.events = Numbered(b, k), !.start = b]
    <3>1. Len(u.events) = k - a
      BY <1>3, <1>44
    <3>2. SubSeq(u.events, v + 1, Len(u.events)) = Numbered(b, k)
      BY <1>44, <2>2, <2>6, <3>1
    <3> QED
      BY <2>5, <2>6, <2>7, <3>2
  <2>9. t \in Object
    BY <1>43, <2>3, <2>4, <2>8, ObjectTypes
  <2>10. /\ t.counter = k /\ t.start = b /\ t.events = Numbered(b, k)
         /\ t.ended = s.ended /\ t.expired = FALSE
    BY <1>43, <1>44, <2>8 DEF Object
  <2> QED
    BY <1>0, <1>4, <2>1, <2>7, <2>9, <2>10
<1>6. CASE ~(k - a - MaxSize > 0)
  <2>1. a = Floor(k)
    BY <1>2, <1>20, <1>6 DEF Floor
  <2>2. Trimmed(u) = u
    BY <1>45, <1>6 DEF Trimmed
  <2> QED
    BY <1>0, <1>4, <1>43, <1>44, <2>1, <2>2
<1> QED
  BY <1>5, <1>6

-----------------------------------------------------------------------------
\* The stream that is asked for: the live one, or a new one.
LEMMA TargetStream ==
  ASSUME StreamBridgeAssumption, StreamsOK, GetOrCreate
  PROVE  /\ Target \in Stream /\ Target > 0 /\ live' = Target
         /\ made' \in 0 .. MaxStreams /\ made <= made' /\ Target = made'
         /\ \A o \in Stream : o <= made /\ o # live => o # Target
         /\ \A o \in Stream : o <= made' /\ o # Target => o <= made /\ o # live
         /\ \A o \in Stream : o > made' => o > made
         /\ object[Target] \in Object /\ Buffer(object[Target])
         /\ object[Target].ended <=> run = "over" \/ object[Target].expired
<1>1. /\ Target \in Stream /\ live' = Target /\ made \in Nat /\ MaxStreams \in Nat
      /\ live \in {0, made} /\ made <= MaxStreams /\ Stream = 1 .. MaxStreams
  BY DEF StreamBridgeAssumption, StreamsOK, GetOrCreate, Stream
<1>2. object[Target] \in Object /\ Buffer(object[Target]) /\ Current(Target)
  BY <1>1 DEF StreamsOK
<1>3. CASE live = 0
  <2>1. Target = made + 1 /\ made' = made + 1
    BY <1>3 DEF Target, GetOrCreate
  <2>2. object[Target] = NewStream /\ run # "over"
    BY <1>1, <1>2, <1>3, <2>1 DEF Current, StreamsOK
  <2>3. ~object[Target].ended /\ ~object[Target].expired
    BY <2>2 DEF NewStream
  <2> QED
    BY <1>1, <1>2, <1>3, <2>1, <2>2, <2>3
<1>4. CASE live # 0
  <2>1. Target = live /\ made' = made
    BY <1>4 DEF Target, GetOrCreate
  <2>2. object[Target].ended <=> run = "over" \/ object[Target].expired
    BY <1>2, <2>1 DEF Current
  <2> QED
    BY <1>1, <1>2, <1>4, <2>1, <2>2
<1> QED
  BY <1>3, <1>4

\* A step on the stream asked for, which becomes t.
LEMMA TouchKeeps ==
  ASSUME StreamBridgeAssumption, StreamsOK, GetOrCreate, NEW t \in Object, Buffer(t),
         object' = [object EXCEPT ![Target] = t],
         run' \in {"active", "over", "gone"},
         t.ended <=> run' = "over" \/ t.expired
  PROVE  StreamsOK'
<1>1. /\ Target \in Stream /\ Target > 0 /\ live' = Target
      /\ made' \in 0 .. MaxStreams /\ made <= made' /\ Target = made'
      /\ \A o \in Stream : o <= made' /\ o # Target => o <= made /\ o # live
      /\ \A o \in Stream : o > made' => o > made
  BY TargetStream
<1>2. object \in [Stream -> Object] /\ \A o \in Stream : Buffer(object[o]) /\ Current(o)
  BY DEF StreamsOK
<1>3. /\ object' \in [Stream -> Object] /\ object'[Target] = t
      /\ \A o \in Stream : o # Target => object'[o] = object[o]
  BY <1>1, <1>2
<1>4. ASSUME NEW o \in Stream
      PROVE  Buffer(object'[o]) /\ Current(o)'
  <2>1. CASE o = Target
    <3>1. o \in Nat
      BY <2>1, <1>1 DEF StreamBridgeAssumption
    <3> QED
      BY <1>1, <1>3, <2>1, <3>1 DEF Current
  <2>2. CASE o # Target
    BY <1>1, <1>2, <1>3, <2>2 DEF Current
  <2> QED
    BY <2>1, <2>2
<1> QED
  BY <1>1, <1>3, <1>4 DEF StreamsOK

\* Readers rely on the streams they hold only to grow.
LEMMA ReadersKept ==
  ASSUME StreamBridgeAssumption, BridgeInv, StreamsOK', made <= made', reader' = reader,
         \A o \in Stream : object[o].counter <= object'[o].counter
  PROVE  BridgeInv'
<1>1. ASSUME NEW c \in Reader
      PROVE  Follows(c)'
  <2>1. reader[c] \in Seat /\ Follows(c) /\ made \in 0 .. MaxStreams /\ made' \in 0 .. MaxStreams
    BY DEF BridgeInv, StreamsOK
  <2>2. /\ reader[c].held \in Nat /\ reader[c].last.stream \in Nat /\ reader[c].last.seq \in Nat
        /\ made \in Nat /\ made' \in Nat /\ MaxStreams \in Nat
    BY <2>1 DEF StreamBridgeAssumption, Seat, EventIds
  <2>3. reader[c].held <= made /\ reader[c].last.stream <= reader[c].held
    BY <2>1 DEF Follows
  <2>4. CASE reader[c].last.stream > 0
    <3>1. PICK o \in Stream : o = reader[c].last.stream
      BY <2>1, <2>2, <2>3, <2>4 DEF Stream
    <3>2. object[o].counter \in Nat /\ object'[o].counter \in Nat
      BY DEF BridgeInv, StreamsOK, Object
    <3>3. reader[c].last.seq <= object'[o].counter
      BY <2>1, <2>2, <2>4, <3>1, <3>2 DEF Follows
    <3> QED
      BY <2>1, <2>2, <2>3, <3>1, <3>3 DEF Follows
  <2>5. CASE ~(reader[c].last.stream > 0)
    BY <2>1, <2>2, <2>3, <2>5 DEF Follows
  <2> QED
    BY <2>4, <2>5
<1> QED
  BY <1>1 DEF BridgeInv

\* publish keeps the invariant,
LEMMA PublishKeeps ==
  ASSUME StreamBridgeAssumption, BridgeInv, Publish
  PROVE  BridgeInv'
<1>1. StreamsOK /\ GetOrCreate /\ run = "active" /\ run' = run /\ reader' = reader
  BY DEF BridgeInv, Publish
<1>2. PICK s : s = object[Target]
  OBVIOUS
<1>3. s \in Object /\ Buffer(s) /\ ~s.expired /\ s.counter < MaxEvents /\ Target \in Stream
      /\ (s.ended <=> run = "over" \/ s.expired) /\ made <= made'
  BY <1>1, <1>2, TargetStream DEF Publish
<1>4. PICK t : t = Trimmed(Appended(s))
  OBVIOUS
<1>5. /\ t \in Object /\ t.counter = s.counter + 1 /\ t.start = Floor(t.counter)
      /\ t.events = Numbered(t.start, t.counter) /\ t.ended = s.ended /\ t.expired = FALSE
  BY <1>3, <1>4, PublishedStream
<1>6. object' = [object EXCEPT ![Target] = t]
  BY <1>2, <1>4 DEF Publish
<1>7. Buffer(t) /\ (t.ended <=> run' = "over" \/ t.expired)
  BY <1>1, <1>3, <1>5 DEF Buffer
<1>8. StreamsOK'
  BY <1>1, <1>5, <1>6, <1>7, TouchKeeps
<1>9. \A o \in Stream : object[o].counter <= object'[o].counter
  <2>1. \A o \in Stream : object[o].counter \in Nat
    BY <1>1 DEF StreamsOK, Object
  <2>2. object'[Target] = t /\ \A o \in Stream : o # Target => object'[o] = object[o]
    BY <1>1, <1>3, <1>6 DEF StreamsOK
  <2>3. s.counter <= t.counter
    BY <1>2, <1>3, <1>5, <2>1
  <2> QED
    BY <1>2, <2>1, <2>2, <2>3
<1> QED
  BY <1>1, <1>3, <1>8, <1>9, ReadersKept

\* Ending or withdrawing a stream changes none of its numbers.
LEMMA CloseKeeps ==
  ASSUME StreamBridgeAssumption, BridgeInv, GetOrCreate, NEW t \in Object, Buffer(t),
         object' = [object EXCEPT ![Target] = t], t.counter = object[Target].counter,
         run' \in {"active", "over", "gone"}, reader' = reader,
         t.ended <=> run' = "over" \/ t.expired
  PROVE  BridgeInv'
<1>1. StreamsOK /\ Target \in Stream /\ made <= made'
  BY TargetStream DEF BridgeInv
<1>2. StreamsOK'
  BY <1>1, TouchKeeps
<1>3. \A o \in Stream : object[o].counter \in Nat /\ object'[o].counter = object[o].counter
  BY <1>1 DEF StreamsOK, Object
<1> QED
  BY <1>1, <1>2, <1>3, ReadersKept

\* and publish_end,
LEMMA PublishEndKeeps ==
  ASSUME StreamBridgeAssumption, BridgeInv, PublishEnd
  PROVE  BridgeInv'
<1>1. StreamsOK /\ GetOrCreate /\ run' = "over" /\ reader' = reader
  BY DEF BridgeInv, PublishEnd
<1>2. PICK s : s = object[Target]
  OBVIOUS
<1>3. s \in Object /\ Buffer(s) /\ Target \in Stream /\ (s.ended <=> run = "over" \/ s.expired)
      /\ object \in [Stream -> Object]
  BY <1>1, <1>2, TargetStream DEF StreamsOK
<1>4. CASE s.expired
  <2>1. object' = [object EXCEPT ![Target] = s]
    BY <1>2, <1>3, <1>4 DEF PublishEnd
  <2> QED
    BY <1>1, <1>2, <1>3, <1>4, <2>1, CloseKeeps
<1>5. CASE ~s.expired
  <2>1. PICK t : t = [s EXCEPT !.ended = TRUE]
    OBVIOUS
  <2>2. object' = [object EXCEPT ![Target] = t]
    BY <1>2, <1>5, <2>1 DEF PublishEnd
  <2>3. t \in Object
    BY <1>3, <2>1 DEF Object
  <2>4. t.ended = TRUE /\ t.counter = s.counter /\ t.start = s.start /\ t.events = s.events
        /\ t.expired = s.expired
    BY <1>3, <2>1 DEF Object
  <2>5. Buffer(t)
    BY <1>3, <1>5, <2>4 DEF Buffer
  <2> QED
    BY <1>1, <1>2, <2>2, <2>3, <2>4, <2>5, CloseKeeps
<1> QED
  BY <1>4, <1>5

\* What expire makes of a stream.
LEMMA WithdrawnStream ==
  ASSUME StreamBridgeAssumption, NEW s \in Object
  PROVE  LET t == Withdrawn(s)
         IN  /\ t \in Object /\ Buffer(t) /\ t.counter = s.counter
             /\ t.ended = TRUE /\ t.expired = TRUE
<1>1. <<>> \in Events /\ 0 \in 0 .. MaxEvents
  BY DEF Events, StreamBridgeAssumption
<1>2. PICK t : t = Withdrawn(s)
  OBVIOUS
<1>3. t \in Object
  BY <1>1, <1>2 DEF Withdrawn, Object
<1>4. t.counter = s.counter /\ t.ended = TRUE /\ t.expired = TRUE /\ t.start = 0 /\ t.events = <<>>
  BY <1>2 DEF Withdrawn, Object
<1> QED
  BY <1>2, <1>3, <1>4 DEF Buffer

\* expire,
LEMMA ExpireKeeps ==
  ASSUME StreamBridgeAssumption, BridgeInv, Expire
  PROVE  BridgeInv'
<1>1. StreamsOK /\ GetOrCreate /\ run' = run /\ run \in {"active", "over", "gone"} /\ reader' = reader
  BY DEF BridgeInv, Expire, StreamsOK
<1>2. PICK t : t = Withdrawn(object[Target])
  OBVIOUS
<1>3. object[Target] \in Object
  BY <1>1, TargetStream
<1>4. /\ t \in Object /\ Buffer(t) /\ t.counter = object[Target].counter
      /\ t.ended = TRUE /\ t.expired = TRUE
  BY <1>2, <1>3, WithdrawnStream
<1>5. object' = [object EXCEPT ![Target] = t]
  BY <1>2 DEF Expire
<1> QED
  BY <1>1, <1>4, <1>5, CloseKeeps

\* cleanup, which forgets a stream that has ended,
LEMMA CleanupKeeps ==
  ASSUME StreamBridgeAssumption, BridgeInv, Cleanup
  PROVE  BridgeInv'
<1>1. /\ run = "over" /\ live' = 0 /\ run' = "gone" /\ object' = object /\ made' = made
      /\ reader' = reader /\ StreamsOK
  BY DEF Cleanup, BridgeInv
<1>2. live = made /\ made \in 0 .. MaxStreams
  BY <1>1 DEF StreamsOK, StreamBridgeAssumption
<1>3. ASSUME NEW o \in Stream
      PROVE  Current(o)'
  <2>1. Current(o) /\ o # 0
    BY <1>1 DEF StreamsOK, Stream, StreamBridgeAssumption
  <2>2. o <= made => object[o].ended
    BY <1>1, <1>2, <2>1 DEF Current
  <2> QED
    BY <1>1, <2>1, <2>2 DEF Current
<1>4. StreamsOK'
  BY <1>1, <1>3 DEF StreamsOK
<1> QED
  BY <1>1, <1>4 DEF BridgeInv, Follows

\* and a new run under the same id.
LEMMA RestartKeeps ==
  ASSUME BridgeInv, Restart
  PROVE  BridgeInv'
<1>1. /\ run = "gone" /\ run' = "active" /\ object' = object /\ made' = made /\ live' = live
      /\ reader' = reader
  BY DEF Restart
<1>2. \A o \in Stream : Current(o) => Current(o)'
  BY <1>1 DEF Current
<1>3. StreamsOK'
  BY <1>1, <1>2 DEF BridgeInv, StreamsOK
<1> QED
  BY <1>1, <1>3 DEF BridgeInv, Follows

-----------------------------------------------------------------------------
\* Where a reader goes on: after the event it names, if that is still kept.
LEMMA ResolvedIs ==
  ASSUME StreamBridgeAssumption, StreamsOK, NEW o \in Stream, ~object[o].expired,
         NEW last \in EventIds
  PROVE  LET s == object[o]
         IN  Resolved(o, last) = IF last.stream = o /\ last.seq > s.start /\ last.seq <= s.counter
                                 THEN last.seq ELSE s.start
<1>1. PICK a, n, e, q : a = object[o].start /\ n = object[o].counter /\ e = object[o].events /\ q = last.seq
  OBVIOUS
<1>2. e = Numbered(a, n) /\ a \in Nat /\ n \in Nat /\ q \in Nat
  BY <1>1 DEF StreamsOK, Buffer, Object, EventIds, StreamBridgeAssumption
<1>3. DOMAIN e = 1 .. (n - a) /\ \A i \in 1 .. (n - a) : e[i] = a + i
  BY <1>2 DEF Numbered
<1>4. PICK K : K = {i \in DOMAIN e : last = [stream |-> o, seq |-> e[i]]}
  OBVIOUS
<1>5. Resolved(o, last) = IF K = {} THEN a ELSE a + (CHOOSE i \in K : TRUE)
  BY <1>1, <1>4 DEF Resolved
<1>6. \A x : last = [stream |-> o, seq |-> x] <=> last.stream = o /\ q = x
  BY <1>1 DEF EventIds
<1>7. \A i : i \in K <=> i \in 1 .. (n - a) /\ last.stream = o /\ q = a + i
  BY <1>3, <1>4, <1>6
<1>8. CASE last.stream = o /\ q > a /\ q <= n
  <2>1. q - a \in K
    BY <1>2, <1>7, <1>8
  <2>2. PICK j : j = CHOOSE i \in K : TRUE
    OBVIOUS
  <2>3. j \in K
    BY <2>1, <2>2
  <2>4. a + j = q
    BY <1>7, <2>3
  <2> QED
    BY <1>1, <1>5, <1>8, <2>1, <2>2, <2>4
<1>9. CASE ~(last.stream = o /\ q > a /\ q <= n)
  <2>1. K = {}
    BY <1>2, <1>7, <1>9
  <2> QED
    BY <1>1, <1>5, <1>9, <2>1
<1> QED
  BY <1>8, <1>9

\* The next event of a reader that is still kept.
LEMMA NextEvent ==
  ASSUME StreamBridgeAssumption, StreamsOK, NEW o \in Stream, NEW x \in Nat, NEW k,
         k = (IF x < object[o].start THEN object[o].start ELSE x) - object[o].start + 1
  PROVE  LET s == object[o]
             y == IF x < s.start THEN s.start ELSE x
         IN  /\ k \in DOMAIN s.events => ~s.expired /\ s.events[k] = y + 1 /\ y + 1 <= s.counter
                                         /\ s.start = Floor(s.counter) /\ y \in Nat
             /\ k \notin DOMAIN s.events /\ ~s.expired => x >= s.counter
<1>1. PICK a, n, e, y : /\ a = object[o].start /\ n = object[o].counter /\ e = object[o].events
                        /\ y = IF x < a THEN a ELSE x
  OBVIOUS
<1>2. a \in Nat /\ n \in Nat /\ y \in Nat /\ y >= a /\ k = y - a + 1
  BY <1>1 DEF StreamsOK, Object, StreamBridgeAssumption
<1>3. CASE object[o].expired
  <2>1. e = <<>>
    BY <1>1, <1>3 DEF StreamsOK, Buffer
  <2> QED
    BY <1>1, <1>3, <2>1
<1>4. CASE ~object[o].expired
  <2>1. a = Floor(n) /\ e = Numbered(a, n)
    BY <1>1, <1>4 DEF StreamsOK, Buffer
  <2>2. DOMAIN e = 1 .. (n - a) /\ \A i \in 1 .. (n - a) : e[i] = a + i
    BY <2>1 DEF Numbered
  <2>3. k \in DOMAIN e => e[k] = y + 1 /\ y + 1 <= n
    BY <1>2, <2>2
  <2>4. n > 0 => a < n
    BY <1>2, <2>1 DEF Floor, StreamBridgeAssumption
  <2>5. k \notin DOMAIN e => x >= n
    <3>1. k \notin DOMAIN e => y >= n
      BY <1>2, <2>2
    <3>2. y >= n => x >= n
      BY <1>1, <1>2, <2>4
    <3> QED
      BY <3>1, <3>2
  <2> QED
    BY <1>1, <1>2, <1>4, <2>1, <2>3, <2>5
<1> QED
  BY <1>3, <1>4

\* A reader moves; the streams stay as they are.
LEMMA SeatKeeps ==
  ASSUME StreamBridgeAssumption, BridgeInv, StreamsOK', object' = object, made <= made',
         NEW c \in Reader, NEW r \in Seat, reader' = [reader EXCEPT ![c] = r],
         r.held <= made', r.phase # "away" => r.held > 0, r.last.stream <= r.held,
         r.last.stream > 0 => r.last.seq <= object[r.last.stream].counter
  PROVE  BridgeInv'
<1>1. reader' \in [Reader -> Seat] /\ reader'[c] = r /\ \A d \in Reader : d # c => reader'[d] = reader[d]
  BY DEF BridgeInv
<1>2. ASSUME NEW d \in Reader
      PROVE  Follows(d)'
  <2>1. CASE d = c
    BY <1>1, <2>1 DEF Follows
  <2>2. CASE d # c
    <3>1. Follows(d) /\ reader'[d] = reader[d] /\ reader[d].held \in Nat /\ made \in Nat /\ made' \in Nat
      BY <1>1, <2>2 DEF BridgeInv, StreamsOK, Seat, StreamBridgeAssumption
    <3> QED
      BY <3>1 DEF Follows
  <2> QED
    BY <2>1, <2>2
<1> QED
  BY <1>1, <1>2 DEF BridgeInv

-----------------------------------------------------------------------------
(* A stream as the replay log its readers rely on.                          *)

\* The variables of the log o.
LogState(o) == IF object[o].expired THEN "withdrawn" ELSE IF object[o].ended THEN "ended" ELSE "open"
LogMode(o) == [c \in Reader |-> IF reader[c].held = o THEN reader[c].phase ELSE "away"]
LogSeen(o) == [c \in Reader |-> Seen(o, c)]
LogCursor(o) == [c \in Reader |-> IF reader[c].held = o /\ reader[c].phase = "reading"
                                  THEN reader[c].offset ELSE Seen(o, c)]

\* What a place at a stream shows of the log o.
ModeOf(r, o) == IF r.held = o THEN r.phase ELSE "away"
SeenOf(r, o) == IF r.held = o /\ r.last.stream = o THEN r.last.seq ELSE 0
CursorOf(r, o) == IF r.held = o /\ r.phase = "reading" THEN r.offset ELSE SeenOf(r, o)

\* A step of the bridge is a step of the log o, or none.
LogStep(o) == Log(o)!Next \/ UNCHANGED Log(o)!logVars

\* Only the log's own variables matter to it.
LEMMA LogStill ==
  ASSUME NEW o, object'[o].expired = object[o].expired, object'[o].ended = object[o].ended,
         object'[o].counter = object[o].counter, reader' = reader
  PROVE  LogStep(o)
  BY DEF LogStep, Log!logVars, Seen

\* Only the place of the reader c changes, into r.
Moves(c, r) == object' = object /\ reader' = [reader EXCEPT ![c] = r]

\* A reader moves: what that means for each log.
LEMMA SeatMoves ==
  ASSUME BridgeInv, NEW c \in Reader, NEW r \in Seat, Moves(c, r), NEW o \in Stream
  PROVE  /\ LogState(o)' = LogState(o)
         /\ LogMode(o)' = [LogMode(o) EXCEPT ![c] = ModeOf(r, o)]
         /\ LogSeen(o)' = [LogSeen(o) EXCEPT ![c] = SeenOf(r, o)]
         /\ LogCursor(o)' = [LogCursor(o) EXCEPT ![c] = CursorOf(r, o)]
         /\ LogMode(o)[c] = ModeOf(reader[c], o)
         /\ LogSeen(o)[c] = SeenOf(reader[c], o)
         /\ LogCursor(o)[c] = CursorOf(reader[c], o)
<1>1. reader'[c] = r /\ \A d \in Reader : d # c => reader'[d] = reader[d]
  BY DEF BridgeInv, Moves
<1>2. LogState(o)' = LogState(o)
  BY DEF LogState, Moves
<1>3. /\ LogMode(o) = [d \in Reader |-> ModeOf(reader[d], o)]
      /\ LogMode(o)' = [d \in Reader |-> ModeOf(reader'[d], o)]
      /\ LogSeen(o) = [d \in Reader |-> SeenOf(reader[d], o)]
      /\ LogSeen(o)' = [d \in Reader |-> SeenOf(reader'[d], o)]
      /\ LogCursor(o) = [d \in Reader |-> CursorOf(reader[d], o)]
      /\ LogCursor(o)' = [d \in Reader |-> CursorOf(reader'[d], o)]
  BY Zenon DEF LogMode, LogSeen, LogCursor, ModeOf, SeenOf, CursorOf, Seen
<1>4. LogMode(o)' = [LogMode(o) EXCEPT ![c] = ModeOf(r, o)]
  BY <1>1, <1>3
<1>5. LogSeen(o)' = [LogSeen(o) EXCEPT ![c] = SeenOf(r, o)]
  BY <1>1, <1>3
<1>6. LogCursor(o)' = [LogCursor(o) EXCEPT ![c] = CursorOf(r, o)]
  BY <1>1, <1>3
<1> QED
  BY <1>2, <1>3, <1>4, <1>5, <1>6

\* A reader that goes, or turns to another stream.
LEMMA SeatLeaves ==
  ASSUME BridgeInv, NEW c \in Reader, NEW r \in Seat, Moves(c, r), NEW o \in Stream,
         ModeOf(r, o) = "away",
         SeenOf(r, o) \in {0, SeenOf(reader[c], o)}
  PROVE  LogStep(o)
<1>1. /\ LogMode(o)' = [LogMode(o) EXCEPT ![c] = ModeOf(r, o)]
      /\ LogSeen(o)' = [LogSeen(o) EXCEPT ![c] = SeenOf(r, o)]
      /\ LogCursor(o)' = [LogCursor(o) EXCEPT ![c] = CursorOf(r, o)]
      /\ LogSeen(o)[c] = SeenOf(reader[c], o)
  BY SeatMoves
<1>0. LogMode(o)' = [LogMode(o) EXCEPT ![c] = "away"]
  BY <1>1
<1>2. LogSeen(o) = [d \in Reader |-> LogSeen(o)[d]]
  BY DEF LogSeen
<1>3. LogSeen(o)' \in {LogSeen(o), [LogSeen(o) EXCEPT ![c] = 0]}
  BY <1>1, <1>2
<1>4. CursorOf(r, o) = SeenOf(r, o) /\ LogSeen(o)'[c] = SeenOf(r, o)
  BY <1>1, <1>2 DEF CursorOf, ModeOf
<1>5. LogCursor(o)' = [LogCursor(o) EXCEPT ![c] = LogSeen(o)'[c]]
  BY <1>1, <1>4
<1>6. LogState(o)' = LogState(o)
  BY DEF LogState, Moves
<1>61. object' = object
  BY DEF Moves
<1>7. Log(o)!Leave(c)
  BY <1>0, <1>3, <1>5, <1>6, <1>61, Zenon DEF Log!Leave, LogMode, LogSeen, LogCursor, LogState
<1> QED
  BY <1>7 DEF LogStep, Log!Next

\* A reader comes.
LEMMA SeatComes ==
  ASSUME BridgeInv, NEW c \in Reader, NEW r \in Seat, Moves(c, r), NEW o \in Stream,
         ModeOf(reader[c], o) # "reading",
         r.held = o, SeenOf(r, o) \in {0, SeenOf(reader[c], o)},
         object[o].expired => r.phase = "finished",
         ~object[o].expired => /\ r.phase = "reading"
                               /\ r.offset = IF SeenOf(r, o) > Floor(object[o].counter)
                                             THEN SeenOf(r, o) ELSE Floor(object[o].counter)
  PROVE  LogStep(o)
<1>1. /\ LogMode(o)' = [LogMode(o) EXCEPT ![c] = ModeOf(r, o)]
      /\ LogSeen(o)' = [LogSeen(o) EXCEPT ![c] = SeenOf(r, o)]
      /\ LogCursor(o)' = [LogCursor(o) EXCEPT ![c] = CursorOf(r, o)]
      /\ LogMode(o)[c] # "reading"
      /\ LogSeen(o)[c] = SeenOf(reader[c], o)
  BY SeatMoves
<1>2. LogSeen(o) = [d \in Reader |-> LogSeen(o)[d]]
  BY DEF LogSeen
<1>3. LogSeen(o)' \in {LogSeen(o), [LogSeen(o) EXCEPT ![c] = 0]} /\ LogSeen(o)'[c] = SeenOf(r, o)
  <2>1. LogSeen(o)'[c] = SeenOf(r, o)
    BY <1>1, <1>2
  <2>2. CASE SeenOf(r, o) = 0
    BY <1>1, <2>1, <2>2
  <2>3. CASE SeenOf(r, o) = SeenOf(reader[c], o)
    <3>1. LogSeen(o)' = [LogSeen(o) EXCEPT ![c] = LogSeen(o)[c]]
      BY <1>1, <2>3
    <3>2. LogSeen(o)' = LogSeen(o)
      BY <1>2, <3>1
    <3> QED
      BY <2>1, <3>2
  <2> QED
    BY <2>1, <2>2, <2>3
<1>4. LogState(o)' = LogState(o) /\ object' = object
  BY DEF LogState, Moves
<1>5. CASE object[o].expired
  <2>1. ModeOf(r, o) = "finished" /\ CursorOf(r, o) = SeenOf(r, o)
    BY <1>5 DEF ModeOf, CursorOf
  <2>2. /\ LogMode(o)' = [LogMode(o) EXCEPT ![c] = "finished"]
        /\ LogCursor(o)' = [LogCursor(o) EXCEPT ![c] = LogSeen(o)'[c]]
    BY <1>1, <1>3, <2>1
  <2>3. Log(o)!Connect(c)
    BY <1>1, <1>3, <1>4, <1>5, <2>2 DEF Log!Connect, LogMode, LogSeen, LogCursor, LogState
  <2> QED
    BY <2>3 DEF LogStep, Log!Next
<1>6. CASE ~object[o].expired
  <2>1. ModeOf(r, o) = "reading" /\ CursorOf(r, o) = r.offset
    BY <1>6 DEF ModeOf, CursorOf
  <2>2. /\ LogMode(o)' = [LogMode(o) EXCEPT ![c] = "reading"]
        /\ LogCursor(o)' = [LogCursor(o) EXCEPT ![c] = r.offset]
    BY <1>1, <2>1
  <2>3. r.offset = Log(o)!Later(LogSeen(o)'[c], Floor(object[o].counter))
    BY <1>3, <1>6 DEF Log!Later
  <2>4. LogState(o) # "withdrawn"
    BY <1>6 DEF LogState
  <2>5. Log(o)!Connect(c)
    BY <1>1, <1>3, <1>4, <2>2, <2>3, <2>4 DEF Log!Connect, LogMode, LogSeen, LogCursor, LogState, Floor
  <2> QED
    BY <2>5 DEF LogStep, Log!Next
<1> QED
  BY <1>5, <1>6

\* A reader is given the next event.
LEMMA SeatReads ==
  ASSUME BridgeInv, NEW c \in Reader, NEW r \in Seat, Moves(c, r), NEW o \in Stream,
         reader[c].held = o, reader[c].phase = "reading",
         r.held = o, r.phase = "reading", r.last.stream = o, r.last.seq = r.offset,
         r.offset = Log(o)!Later(reader[c].offset, Floor(object[o].counter)) + 1,
         Log(o)!Later(reader[c].offset, Floor(object[o].counter)) < object[o].counter
  PROVE  LogStep(o)
<1>1. /\ LogMode(o)' = [LogMode(o) EXCEPT ![c] = ModeOf(r, o)]
      /\ LogSeen(o)' = [LogSeen(o) EXCEPT ![c] = SeenOf(r, o)]
      /\ LogCursor(o)' = [LogCursor(o) EXCEPT ![c] = CursorOf(r, o)]
      /\ LogMode(o)[c] = ModeOf(reader[c], o)
      /\ LogCursor(o)[c] = CursorOf(reader[c], o)
  BY SeatMoves
<1>2. /\ ModeOf(r, o) = "reading" /\ SeenOf(r, o) = r.offset /\ CursorOf(r, o) = r.offset
      /\ ModeOf(reader[c], o) = "reading" /\ CursorOf(reader[c], o) = reader[c].offset
  BY DEF ModeOf, SeenOf, CursorOf
<1>3. LogMode(o) = [d \in Reader |-> LogMode(o)[d]] /\ LogCursor(o) = [d \in Reader |-> LogCursor(o)[d]]
  BY DEF LogMode, LogCursor
<1>4. /\ LogMode(o)' = LogMode(o) /\ LogMode(o)[c] = "reading"
      /\ LogCursor(o)' = [LogCursor(o) EXCEPT ![c] = r.offset] /\ LogCursor(o)'[c] = r.offset
      /\ LogCursor(o)[c] = reader[c].offset
      /\ LogSeen(o)' = [LogSeen(o) EXCEPT ![c] = LogCursor(o)'[c]]
  BY <1>1, <1>2, <1>3
<1>5. LogState(o)' = LogState(o) /\ object' = object
  BY DEF LogState, Moves
<1>6. LogCursor(o)' = [LogCursor(o) EXCEPT ![c] =
         Log(o)!Later(LogCursor(o)[c], Floor(object[o].counter)) + 1]
      /\ Log(o)!Later(LogCursor(o)[c], Floor(object[o].counter)) < object[o].counter
  BY <1>4
<1>7. Log(o)!Deliver(c)
  BY <1>4, <1>5, <1>6, Zenon DEF Log!Deliver, LogMode, LogSeen, LogCursor, LogState, Floor
<1> QED
  BY <1>7 DEF LogStep, Log!Next

\* A reader is told that the stream ended.
LEMMA SeatFinishes ==
  ASSUME BridgeInv, NEW c \in Reader, NEW r \in Seat, Moves(c, r), NEW o \in Stream,
         reader[c].held = o, reader[c].phase = "reading",
         r.held = o, r.phase = "finished", r.last = reader[c].last, object[o].ended,
         object[o].expired \/ reader[c].offset >= object[o].counter
  PROVE  LogStep(o)
<1>1. /\ LogMode(o)' = [LogMode(o) EXCEPT ![c] = ModeOf(r, o)]
      /\ LogSeen(o)' = [LogSeen(o) EXCEPT ![c] = SeenOf(r, o)]
      /\ LogCursor(o)' = [LogCursor(o) EXCEPT ![c] = CursorOf(r, o)]
      /\ LogMode(o)[c] = ModeOf(reader[c], o)
      /\ LogSeen(o)[c] = SeenOf(reader[c], o)
      /\ LogCursor(o)[c] = CursorOf(reader[c], o)
  BY SeatMoves
<1>2. /\ ModeOf(r, o) = "finished" /\ SeenOf(r, o) = SeenOf(reader[c], o) /\ CursorOf(r, o) = SeenOf(r, o)
      /\ ModeOf(reader[c], o) = "reading" /\ CursorOf(reader[c], o) = reader[c].offset
  BY DEF ModeOf, SeenOf, CursorOf
<1>3. LogSeen(o) = [d \in Reader |-> LogSeen(o)[d]]
  BY DEF LogSeen
<1>4. /\ LogMode(o)' = [LogMode(o) EXCEPT ![c] = "finished"] /\ LogMode(o)[c] = "reading"
      /\ LogSeen(o)' = LogSeen(o)
      /\ LogCursor(o)' = [LogCursor(o) EXCEPT ![c] = LogSeen(o)[c]]
      /\ LogCursor(o)[c] = reader[c].offset
  BY <1>1, <1>2, <1>3
<1>5. LogState(o)' = LogState(o) /\ object' = object
  BY DEF LogState, Moves
<1>6. LogState(o) = "withdrawn" \/ (LogState(o) = "ended" /\ LogCursor(o)[c] >= object[o].counter)
  BY <1>4 DEF LogState
<1>7. Log(o)!Finish(c)
  BY <1>4, <1>5, <1>6, Zenon DEF Log!Finish, LogMode, LogSeen, LogCursor, LogState
<1> QED
  BY <1>7 DEF LogStep, Log!Next

-----------------------------------------------------------------------------
(* The steps of the bridge and of its readers.                              *)

\* subscribe: the log held before is left, the one held now is connected to.
LEMMA SubscribeStep ==
  ASSUME StreamBridgeAssumption, BridgeInv, NEW c \in Reader, NEW last \in EventIds, Subscribe(c, last)
  PROVE  BridgeInv' /\ \A o \in Stream : LogStep(o)
<1>1. StreamsOK /\ GetOrCreate /\ object' = object /\ run' = run
  BY DEF BridgeInv, Subscribe
<1>2. /\ Target \in Stream /\ Target > 0 /\ made' \in 0 .. MaxStreams /\ made <= made' /\ Target = made'
      /\ \A o \in Stream : o <= made /\ o # live => o # Target
      /\ object[Target] \in Object /\ Buffer(object[Target])
      /\ object[Target].ended <=> run = "over" \/ object[Target].expired
  BY <1>1, TargetStream
<1>3. PICK o \in Stream : o = Target
  BY <1>2
<1>4. PICK s, x : s = object[o] /\ x = IF s.expired THEN 0 ELSE Resolved(o, last)
  OBVIOUS
<1>5. PICK r : r = [phase |-> IF s.expired THEN "finished" ELSE "reading", held |-> o,
                    offset |-> x, last |-> last]
  OBVIOUS
<1>6. reader' = [reader EXCEPT ![c] = r] /\ last \in {reader[c].last, NoEvent}
      /\ reader[c].phase # "reading"
  BY <1>3, <1>4, <1>5 DEF Subscribe
<1>7. /\ s.counter \in Nat /\ s.counter <= MaxEvents /\ s.start \in Nat /\ last.seq \in Nat
      /\ s.start <= MaxEvents /\ last.stream \in Nat /\ MaxEvents \in Nat /\ o \in Nat
  BY <1>1, <1>2, <1>3, <1>4 DEF StreamBridgeAssumption, Object, EventIds, Stream
<1>8. ~s.expired => x = IF last.stream = o /\ last.seq > s.start /\ last.seq <= s.counter
                        THEN last.seq ELSE s.start
  BY <1>1, <1>4, ResolvedIs
<1>9. x \in 0 .. MaxEvents
  BY <1>4, <1>7, <1>8
<1>10. r \in Seat
  BY <1>2, <1>3, <1>5, <1>9 DEF Seat, Stream
<1>11. /\ r.phase = (IF s.expired THEN "finished" ELSE "reading") /\ r.held = o /\ r.offset = x
       /\ r.last = last
  BY <1>5
<1>12. /\ reader[c].held \in Nat /\ reader[c].held <= made /\ reader[c].last.stream \in Nat
       /\ reader[c].last.stream <= reader[c].held
       /\ reader[c].last.stream > 0 => reader[c].last.seq <= object[reader[c].last.stream].counter
       /\ made \in Nat /\ made' \in Nat
  BY <1>1, <1>2 DEF BridgeInv, StreamsOK, Seat, EventIds, Follows, StreamBridgeAssumption
<1>13. /\ last.stream <= o
       /\ last.stream > 0 => last.seq <= object[last.stream].counter
  <2>1. CASE last = NoEvent
    BY <1>7, <2>1 DEF NoEvent
  <2>2. CASE last = reader[c].last
    BY <1>2, <1>3, <1>7, <1>12, <2>2
  <2> QED
    BY <1>6, <2>1, <2>2
<1>14. StreamsOK'
  <2>1. object' = [object EXCEPT ![Target] = object[Target]]
    BY <1>1, <1>2 DEF StreamsOK
  <2> QED
    BY <1>1, <1>2, <2>1, TouchKeeps DEF StreamsOK
<1>15. BridgeInv'
  <2>1. r.held <= made' /\ (r.phase # "away" => r.held > 0) /\ made <= made'
    BY <1>2, <1>3, <1>11, <1>12
  <2>2. r.last.stream <= r.held /\ (r.last.stream > 0 => r.last.seq <= object[r.last.stream].counter)
    BY <1>11, <1>13
  <2> QED
    BY <1>1, <1>6, <1>10, <1>14, <2>1, <2>2, SeatKeeps
<1>16. Moves(c, r)
  BY <1>1, <1>6 DEF Moves
<1>17. ASSUME NEW p \in Stream, p # o
       PROVE  LogStep(p)
  <2>1. ModeOf(r, p) = "away" /\ SeenOf(r, p) = 0
    BY <1>11, <1>17 DEF ModeOf, SeenOf
  <2> QED
    BY <1>10, <1>16, <2>1, SeatLeaves
<1>18. LogStep(o)
  <2>1. SeenOf(r, o) = IF last.stream = o THEN last.seq ELSE 0
    BY <1>11 DEF SeenOf
  <2>2. SeenOf(r, o) \in {0, SeenOf(reader[c], o)}
    <3>1. CASE last = NoEvent
      BY <1>2, <1>3, <2>1, <3>1 DEF NoEvent
    <3>2. CASE last = reader[c].last /\ last.stream = o
      <4>1. reader[c].held = o
        BY <1>2, <1>3, <1>7, <1>12, <3>2
      <4> QED
        BY <2>1, <3>2, <4>1 DEF SeenOf
    <3>3. CASE last.stream # o
      BY <2>1, <3>3
    <3> QED
      BY <1>6, <3>1, <3>2, <3>3
  <2>3. ModeOf(reader[c], o) # "reading"
    BY <1>6 DEF ModeOf
  <2>4. ~s.expired => x = IF SeenOf(r, o) > Floor(s.counter) THEN SeenOf(r, o) ELSE Floor(s.counter)
    <3>1. ~s.expired => s.start = Floor(s.counter)
      BY <1>2, <1>3, <1>4 DEF Buffer
    <3>2. last.stream = o => last.seq <= s.counter
      BY <1>2, <1>3, <1>4, <1>13
    <3> QED
      BY <1>7, <1>8, <2>1, <3>1, <3>2
  <2> QED
    BY <1>4, <1>10, <1>11, <1>16, <2>2, <2>3, <2>4, SeatComes
<1> QED
  BY <1>15, <1>17, <1>18

\* A delivery: the next event of one log, nothing for the others.
LEMMA DeliverStep ==
  ASSUME StreamBridgeAssumption, BridgeInv, NEW c \in Reader, Deliver(c)
  PROVE  BridgeInv' /\ \A o \in Stream : LogStep(o)
<1>1. /\ StreamsOK /\ reader[c].phase = "reading" /\ object' = object /\ made' = made /\ live' = live
      /\ run' = run /\ Index(c) \in DOMAIN object[reader[c].held].events
  BY DEF BridgeInv, Deliver
<1>2. reader[c] \in Seat /\ Follows(c) /\ made \in 0 .. MaxStreams /\ reader[c].held \in Nat
      /\ reader[c].offset \in Nat /\ MaxStreams \in Nat /\ MaxEvents \in Nat
  BY <1>1 DEF BridgeInv, StreamsOK, Seat, StreamBridgeAssumption
<1>3. reader[c].held > 0 /\ reader[c].held <= made
  BY <1>1, <1>2 DEF Follows
<1>4. PICK o \in Stream : o = reader[c].held
  BY <1>2, <1>3 DEF Stream
<1>5. PICK s, x, k, y : /\ s = object[o] /\ x = reader[c].offset /\ k = Index(c)
                        /\ y = IF x < s.start THEN s.start ELSE x
  OBVIOUS
<1>6. y = CaughtUp(c) /\ k = y - s.start + 1 /\ x \in Nat
  BY <1>2, <1>4, <1>5 DEF CaughtUp, Index
<1>7. /\ ~s.expired /\ s.events[k] = y + 1 /\ y + 1 <= s.counter
      /\ s.start = Floor(s.counter) /\ y \in Nat
  <2>1. k \in DOMAIN object[o].events
    BY <1>1, <1>4, <1>5
  <2>2. k = (IF x < object[o].start THEN object[o].start ELSE x) - object[o].start + 1
    BY <1>5, <1>6
  <2> QED
    BY <1>1, <1>5, <1>6, <2>1, <2>2, NextEvent
<1>8. PICK r : r = [reader[c] EXCEPT !.offset = y + 1, !.last = [stream |-> o, seq |-> y + 1]]
  OBVIOUS
<1>9. reader' = [reader EXCEPT ![c] = r]
  <2>1. reader' = [reader EXCEPT ![c].offset = CaughtUp(c) + 1,
                                 ![c].last = [stream |-> o, seq |-> s.events[k]]]
    BY <1>4, <1>5 DEF Deliver
  <2>2. reader' = [reader EXCEPT ![c].offset = y + 1, ![c].last = [stream |-> o, seq |-> y + 1]]
    BY <1>6, <1>7, <2>1
  <2> QED
    BY <1>8, <2>2 DEF BridgeInv
<1>10. s.counter \in Nat /\ s.counter <= MaxEvents
  BY <1>1, <1>2, <1>5 DEF StreamsOK, Object
<1>11. y + 1 \in 0 .. MaxEvents /\ o \in 0 .. MaxStreams
  BY <1>2, <1>3, <1>4, <1>7, <1>10
<1>12. [stream |-> o, seq |-> y + 1] \in EventIds
  BY <1>11 DEF EventIds
<1>13. /\ r \in Seat /\ r.phase = "reading" /\ r.held = o /\ r.offset = y + 1
       /\ r.last = [stream |-> o, seq |-> y + 1]
  BY <1>1, <1>2, <1>4, <1>8, <1>11, <1>12 DEF Seat
<1>14. BridgeInv'
  <2>1. StreamsOK'
    BY <1>1 DEF StreamsOK, Current
  <2>2. r.held <= made' /\ (r.phase # "away" => r.held > 0) /\ made <= made'
    BY <1>1, <1>2, <1>3, <1>4, <1>13
  <2>3. r.last.stream <= r.held /\ (r.last.stream > 0 => r.last.seq <= object[r.last.stream].counter)
    BY <1>5, <1>7, <1>11, <1>13
  <2> QED
    BY <1>1, <1>9, <1>13, <2>1, <2>2, <2>3, SeatKeeps
<1>15. Moves(c, r)
  BY <1>1, <1>9 DEF Moves
<1>16. ASSUME NEW p \in Stream, p # o
       PROVE  LogStep(p)
  <2>1. ModeOf(r, p) = "away" /\ SeenOf(r, p) = 0
    BY <1>13, <1>16 DEF ModeOf, SeenOf
  <2> QED
    BY <1>13, <1>15, <2>1, SeatLeaves
<1>17. LogStep(o)
  <2>1. y = Log(o)!Later(x, Floor(s.counter))
    <3>1. Floor(s.counter) \in Nat
      BY <1>10 DEF Floor, StreamBridgeAssumption
    <3> QED
      BY <1>5, <1>6, <1>7, <3>1 DEF Log!Later
  <2>2. y < s.counter
    BY <1>7, <1>10
  <2>3. r.last.stream = o /\ r.last.seq = r.offset
    BY <1>13
  <2> QED
    BY <1>1, <1>4, <1>5, <1>13, <1>15, <2>1, <2>2, <2>3, SeatReads
<1> QED
  BY <1>14, <1>16, <1>17

\* The end marker, and a connection that breaks.
LEMMA EndStep ==
  ASSUME StreamBridgeAssumption, BridgeInv, NEW c \in Reader, End(c) \/ Disconnect(c)
  PROVE  BridgeInv' /\ \A o \in Stream : LogStep(o)
<1>1. /\ StreamsOK /\ reader[c].phase = "reading" /\ object' = object /\ made' = made /\ live' = live
      /\ run' = run
  BY DEF BridgeInv, End, Disconnect
<1>2. reader[c] \in Seat /\ Follows(c) /\ made \in 0 .. MaxStreams /\ reader[c].held \in Nat
      /\ reader[c].offset \in Nat /\ MaxStreams \in Nat /\ MaxEvents \in Nat
  BY <1>1 DEF BridgeInv, StreamsOK, Seat, StreamBridgeAssumption
<1>3. reader[c].held > 0 /\ reader[c].held <= made
  BY <1>1, <1>2 DEF Follows
<1>4. PICK o \in Stream : o = reader[c].held
  BY <1>2, <1>3 DEF Stream
<1>5. PICK r : \/ End(c) /\ r = [reader[c] EXCEPT !.phase = "finished"]
               \/ Disconnect(c) /\ r = [reader[c] EXCEPT !.phase = "away"]
  OBVIOUS
<1>6. reader' = [reader EXCEPT ![c] = r]
  BY <1>5 DEF End, Disconnect, BridgeInv
<1>7. /\ r \in Seat /\ r.held = o /\ r.last = reader[c].last
      /\ \/ End(c) /\ r.phase = "finished"
         \/ Disconnect(c) /\ r.phase = "away"
  BY <1>2, <1>4, <1>5 DEF Seat
<1>8. BridgeInv'
  <2>1. StreamsOK'
    BY <1>1 DEF StreamsOK, Current
  <2>2. r.held <= made' /\ (r.phase # "away" => r.held > 0) /\ made <= made'
    BY <1>1, <1>2, <1>3, <1>4, <1>7
  <2>3. r.last.stream <= r.held /\ (r.last.stream > 0 => r.last.seq <= object[r.last.stream].counter)
    BY <1>2, <1>4, <1>7 DEF Follows
  <2> QED
    BY <1>1, <1>6, <1>7, <2>1, <2>2, <2>3, SeatKeeps
<1>9. Moves(c, r)
  BY <1>1, <1>6 DEF Moves
<1>10. ASSUME NEW p \in Stream, p # o
       PROVE  LogStep(p)
  <2>1. ModeOf(r, p) = "away" /\ SeenOf(r, p) = 0
    BY <1>7, <1>10 DEF ModeOf, SeenOf
  <2> QED
    BY <1>7, <1>9, <2>1, SeatLeaves
<1>11. LogStep(o)
  <2>1. CASE Disconnect(c) /\ r.phase = "away"
    <3>1. ModeOf(r, o) = "away" /\ SeenOf(r, o) = SeenOf(reader[c], o)
      BY <1>4, <1>7, <2>1 DEF ModeOf, SeenOf
    <3> QED
      BY <1>7, <1>9, <3>1, SeatLeaves
  <2>2. CASE End(c) /\ r.phase = "finished"
    <3>1. object[o].ended /\ Index(c) \notin DOMAIN object[o].events
      BY <1>4, <2>2 DEF End
    <3>2. Index(c) = (IF reader[c].offset < object[o].start THEN object[o].start ELSE reader[c].offset)
                       - object[o].start + 1
      BY <1>4 DEF Index, CaughtUp
    <3>3. object[o].expired \/ reader[c].offset >= object[o].counter
      BY <1>1, <1>2, <3>1, <3>2, NextEvent
    <3> QED
      BY <1>1, <1>4, <1>7, <1>9, <2>2, <3>1, <3>3, SeatFinishes
  <2> QED
    BY <1>7, <2>1, <2>2
<1> QED
  BY <1>8, <1>10, <1>11

\* The readers do not move: the log keeps their places.
LEMMA SeatsStill ==
  ASSUME reader' = reader, NEW o
  PROVE  LogMode(o)' = LogMode(o) /\ LogSeen(o)' = LogSeen(o) /\ LogCursor(o)' = LogCursor(o)
  BY DEF LogMode, LogSeen, LogCursor, Seen

\* publish appends to the log asked for, which is still open.
LEMMA PublishLogs ==
  ASSUME StreamBridgeAssumption, BridgeInv, Publish
  PROVE  \A o \in Stream : LogStep(o)
<1>1. StreamsOK /\ GetOrCreate /\ run = "active" /\ reader' = reader
  BY DEF BridgeInv, Publish
<1>2. PICK s : s = object[Target]
  OBVIOUS
<1>3. s \in Object /\ Buffer(s) /\ ~s.expired /\ s.counter < MaxEvents /\ Target \in Stream /\ ~s.ended
  BY <1>1, <1>2, TargetStream DEF Publish
<1>4. PICK t : t = Trimmed(Appended(s))
  OBVIOUS
<1>5. /\ t \in Object /\ t.counter = s.counter + 1 /\ t.ended = s.ended /\ t.expired = FALSE
  BY <1>3, <1>4, PublishedStream
<1>6. object' = [object EXCEPT ![Target] = t]
  BY <1>2, <1>4 DEF Publish
<1>7. object'[Target] = t /\ \A o \in Stream : o # Target => object'[o] = object[o]
  BY <1>1, <1>3, <1>6 DEF StreamsOK
<1>8. ASSUME NEW o \in Stream
      PROVE  LogStep(o)
  <2>1. CASE o # Target
    BY <1>1, <1>7, <2>1, LogStill
  <2>2. CASE o = Target
    <3>1. LogMode(o)' = LogMode(o) /\ LogSeen(o)' = LogSeen(o) /\ LogCursor(o)' = LogCursor(o)
      BY <1>1, SeatsStill
    <3>2. LogState(o) = "open" /\ LogState(o)' = LogState(o)
      BY <1>2, <1>3, <1>5, <1>7, <2>2 DEF LogState
    <3>3. s.counter \in Nat /\ MaxSize \in Nat \ {0}
      BY <1>3 DEF Object, StreamBridgeAssumption
    <3>4. object'[o].counter = object[o].counter + 1
      BY <1>2, <1>5, <1>7, <2>2
    <3>5. Floor(object'[o].counter) = Log(o)!Later(Floor(object[o].counter), object[o].counter + 1 - MaxSize)
      BY <1>2, <2>2, <3>3, <3>4 DEF Floor, Log!Later
    <3>6. Log(o)!Append
      BY <3>1, <3>2, <3>4, <3>5, Zenon DEF Log!Append, LogMode, LogSeen, LogCursor, LogState, Floor
    <3> QED
      BY <3>6 DEF LogStep, Log!Next
  <2> QED
    BY <2>1, <2>2
<1> QED
  BY <1>8

\* A stream is ended or withdrawn, and keeps its numbers.
LEMMA CloseLogs ==
  ASSUME StreamBridgeAssumption, StreamsOK, GetOrCreate, NEW t \in Object,
         object' = [object EXCEPT ![Target] = t], t.counter = object[Target].counter,
         reader' = reader,
         \/ t.expired
         \/ ~object[Target].expired /\ ~object[Target].ended /\ t.ended /\ ~t.expired
  PROVE  \A o \in Stream : LogStep(o)
<1>1. Target \in Stream /\ object[Target] \in Object
  BY TargetStream
<1>2. object'[Target] = t /\ \A o \in Stream : o # Target => object'[o] = object[o]
  BY <1>1 DEF StreamsOK
<1>3. ASSUME NEW o \in Stream
      PROVE  LogStep(o)
  <2>1. CASE o # Target
    BY <1>2, <2>1, LogStill
  <2>2. CASE o = Target
    <3>1. LogMode(o)' = LogMode(o) /\ LogSeen(o)' = LogSeen(o) /\ LogCursor(o)' = LogCursor(o)
      BY SeatsStill
    <3>2. LogState(o)' = "withdrawn" \/ (LogState(o) = "open" /\ LogState(o)' = "ended")
      BY <1>2, <2>2 DEF LogState
    <3>3. object'[o].counter = object[o].counter
      BY <1>2, <2>2
    <3>4. Floor(object[o].counter)' = Floor(object[o].counter)
      BY <3>3 DEF Floor
    <3>5. UNCHANGED <<object[o].counter, Floor(object[o].counter), LogMode(o), LogSeen(o), LogCursor(o)>>
      BY <3>1, <3>3, <3>4
    <3>6. Log(o)!Close
      BY <3>2, <3>5, Zenon DEF Log!Close, LogMode, LogSeen, LogCursor, LogState, Floor
    <3> QED
      BY <3>6 DEF LogStep, Log!Next
  <2> QED
    BY <2>1, <2>2
<1> QED
  BY <1>3

\* publish_end ends it,
LEMMA PublishEndLogs ==
  ASSUME StreamBridgeAssumption, BridgeInv, PublishEnd
  PROVE  \A o \in Stream : LogStep(o)
<1>1. StreamsOK /\ GetOrCreate /\ run = "active" /\ reader' = reader
  BY DEF BridgeInv, PublishEnd
<1>2. PICK s : s = object[Target]
  OBVIOUS
<1>3. s \in Object /\ Target \in Stream /\ (s.ended <=> run = "over" \/ s.expired)
  BY <1>1, <1>2, TargetStream
<1>4. CASE s.expired
  <2>1. object' = object
    BY <1>2, <1>4 DEF PublishEnd
  <2> QED
    BY <1>1, <2>1, LogStill
<1>5. CASE ~s.expired
  <2>1. PICK t : t = [s EXCEPT !.ended = TRUE]
    OBVIOUS
  <2>2. object' = [object EXCEPT ![Target] = t]
    BY <1>2, <1>5, <2>1 DEF PublishEnd
  <2>3. t \in Object /\ t.ended = TRUE /\ t.counter = s.counter /\ t.expired = s.expired
    BY <1>3, <2>1 DEF Object
  <2> QED
    BY <1>1, <1>2, <1>3, <1>5, <2>2, <2>3, CloseLogs
<1> QED
  BY <1>4, <1>5

\* and expire withdraws it.
LEMMA ExpireLogs ==
  ASSUME StreamBridgeAssumption, BridgeInv, Expire
  PROVE  \A o \in Stream : LogStep(o)
<1>1. StreamsOK /\ GetOrCreate /\ reader' = reader
  BY DEF BridgeInv, Expire
<1>2. PICK t : t = Withdrawn(object[Target])
  OBVIOUS
<1>3. object[Target] \in Object
  BY <1>1, TargetStream
<1>4. t \in Object /\ t.counter = object[Target].counter /\ t.expired = TRUE
  BY <1>2, <1>3, WithdrawnStream
<1>5. object' = [object EXCEPT ![Target] = t]
  BY <1>2 DEF Expire
<1> QED
  BY <1>1, <1>4, <1>5, CloseLogs

\* The bridge begins with empty logs.
LEMMA BeginsBridge ==
  ASSUME StreamBridgeAssumption, Init
  PROVE  BridgeInv /\ \A o \in Stream : Log(o)!Init
<1>1. /\ \A o \in Stream : object[o] = NewStream
      /\ object = [o \in Stream |-> object[o]]
      /\ made = 0 /\ live = 0 /\ run = "active"
      /\ MaxSize \in Nat \ {0} /\ MaxEvents \in Nat /\ MaxStreams \in Nat
  BY DEF Init, StreamBridgeAssumption
<1>2. NewStream \in Object
  <2>1. <<>> \in Events /\ 0 \in 0 .. MaxEvents
    BY <1>1 DEF Events
  <2> QED
    BY <2>1 DEF NewStream, Object
<1>3. Buffer(NewStream)
  <2>1. Numbered(0, 0) = <<>> /\ Floor(0) = 0
    BY <1>1 DEF Numbered, Floor
  <2> QED
    BY <2>1 DEF NewStream, Buffer
<1>4. \A o \in Stream : Current(o)
  BY <1>1 DEF Current, Stream, NewStream
<1>5. StreamsOK
  BY <1>1, <1>2, <1>3, <1>4 DEF StreamsOK
<1>6. PICK r : r = [phase |-> "away", held |-> 0, offset |-> 0, last |-> NoEvent]
  OBVIOUS
<1>7. reader = [c \in Reader |-> r]
  BY <1>6 DEF Init
<1>8. r \in Seat
  <2>1. NoEvent \in EventIds /\ 0 \in 0 .. MaxEvents /\ 0 \in 0 .. MaxStreams
    BY <1>1 DEF NoEvent, EventIds
  <2> QED
    BY <1>6, <2>1 DEF Seat
<1>9. \A c \in Reader : Follows(c)
  BY <1>1, <1>6, <1>7 DEF Follows, NoEvent
<1>10. \A o \in Stream : Log(o)!Init
  BY <1>1, <1>6, <1>7 DEF Log!Init, Seen, NewStream, NoEvent
<1> QED
  BY <1>5, <1>7, <1>8, <1>9, <1>10 DEF BridgeInv

\* Every step keeps the invariant and is a step of each log.
LEMMA NextBridge ==
  ASSUME StreamBridgeAssumption, BridgeInv, [Next]_vars
  PROVE  BridgeInv' /\ \A o \in Stream : LogStep(o)
<1>1. CASE Publish
  BY <1>1, PublishKeeps, PublishLogs
<1>2. CASE PublishEnd
  BY <1>2, PublishEndKeeps, PublishEndLogs
<1>3. CASE Expire
  BY <1>3, ExpireKeeps, ExpireLogs
<1>4. CASE Cleanup \/ Restart
  <2>1. object' = object /\ reader' = reader
    BY <1>4 DEF Cleanup, Restart
  <2>2. BridgeInv'
    BY <1>4, CleanupKeeps, RestartKeeps
  <2> QED
    BY <2>1, <2>2, LogStill
<1>5. ASSUME NEW c \in Reader, NEW last \in {reader[c].last, NoEvent}, Subscribe(c, last)
      PROVE  BridgeInv' /\ \A o \in Stream : LogStep(o)
  <2>1. last \in EventIds
    BY DEF BridgeInv, Seat, NoEvent, EventIds, StreamBridgeAssumption
  <2> QED
    BY <1>5, <2>1, SubscribeStep
<1>6. ASSUME NEW c \in Reader, Deliver(c)
      PROVE  BridgeInv' /\ \A o \in Stream : LogStep(o)
  BY <1>6, DeliverStep
<1>7. ASSUME NEW c \in Reader, End(c) \/ Disconnect(c)
      PROVE  BridgeInv' /\ \A o \in Stream : LogStep(o)
  BY <1>7, EndStep
<1>8. CASE UNCHANGED vars
  <2>1. object' = object /\ reader' = reader /\ made' = made /\ live' = live /\ run' = run
    BY <1>8 DEF vars
  <2>2. BridgeInv'
    BY <2>1 DEF BridgeInv, StreamsOK, Current, Follows
  <2> QED
    BY <2>1, <2>2, LogStill
<1>9. CASE \E c \in Reader : \/ \E last \in {reader[c].last, NoEvent} : Subscribe(c, last)
                            \/ Deliver(c) \/ End(c) \/ Disconnect(c)
  BY <1>5, <1>6, <1>7, <1>9
<1> QED
  BY <1>1, <1>2, <1>3, <1>4, <1>8, <1>9 DEF Next

\* The invariant says what the readers need to know.
LEMMA WaitersFound ==
  ASSUME StreamBridgeAssumption, BridgeInv
  PROVE  WaitersAreReachable
<1> SUFFICES ASSUME NEW c \in Reader, reader[c].phase = "reading", ~object[reader[c].held].ended
             PROVE  reader[c].held = live
  BY DEF WaitersAreReachable
<1>1. reader[c].held \in Nat /\ reader[c].held > 0 /\ reader[c].held <= made /\ made \in 0 .. MaxStreams
      /\ MaxStreams \in Nat
  BY DEF BridgeInv, StreamsOK, Seat, Follows, StreamBridgeAssumption
<1>2. reader[c].held \in Stream
  BY <1>1 DEF Stream
<1>3. Current(reader[c].held)
  BY <1>2 DEF BridgeInv, StreamsOK
<1> QED
  BY <1>1, <1>3 DEF Current

\* Streams and readers stay well formed for any readers and bounds; what a reader holds
\* exists (memory.py: _RunStream, subscribe).
THEOREM TypeCorrect ==
  ASSUME StreamBridgeAssumption
  PROVE  Spec => []TypeOK
<1>1. Init => BridgeInv
  BY BeginsBridge
<1>2. BridgeInv /\ [Next]_vars => BridgeInv'
  BY NextBridge
<1>3. BridgeInv => TypeOK
  <2> SUFFICES ASSUME BridgeInv PROVE TypeOK
    OBVIOUS
  <2>1. made \in 0 .. MaxStreams /\ live \in 0 .. made
    BY DEF BridgeInv, StreamsOK, StreamBridgeAssumption
  <2>2. QED
    BY <2>1 DEF BridgeInv, StreamsOK, Seat, Object, Events, TypeOK
<1> QED
  BY <1>1, <1>2, <1>3, PTL DEF Spec

\* A reader that waits for an event or for the end marker waits on the stream the bridge
\* still has under its run id, where publish, publish_end and expire will notify it: no
\* reader is left behind on a stream that cleanup forgot or a later run replaced
\* (memory.py: subscribe, _get_or_create_stream, cleanup), for any readers and bounds.
THEOREM WaitersAreWoken ==
  ASSUME StreamBridgeAssumption
  PROVE  Spec => []WaitersAreReachable
<1>1. Init => BridgeInv
  BY BeginsBridge
<1>2. BridgeInv /\ [Next]_vars => BridgeInv'
  BY NextBridge
<1>3. BridgeInv => WaitersAreReachable
  BY WaitersFound
<1> QED
  BY <1>1, <1>2, <1>3, PTL DEF Spec

\* Every stream is a replay log (ReplayLog) for any number of readers, reconnects and
\* streams and any queue_maxsize: a reader sees the events in order and each once, misses
\* only what the full buffer dropped, and hears of the end only after the last event or
\* because the log was withdrawn (memory.py: publish, publish_end, expire, subscribe,
\* _resolve_start_offset).
THEOREM StreamsAreLogs ==
  ASSUME StreamBridgeAssumption
  PROVE  Spec => ImplementsReplayLog
<1>1. Init => BridgeInv /\ \A o \in Stream : Log(o)!Init
  BY BeginsBridge
<1>2. BridgeInv /\ [Next]_vars => BridgeInv'
  BY NextBridge
<1>3. BridgeInv /\ [Next]_vars => [\A o \in Stream : Log(o)!Next \/ UNCHANGED Log(o)!logVars]_vars
  BY NextBridge DEF LogStep
<1> QED
  BY <1>1, <1>2, <1>3, PTL DEF Spec, ImplementsReplayLog
==============================================================================

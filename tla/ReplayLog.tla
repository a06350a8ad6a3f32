----------------------------- MODULE ReplayLog -----------------------------
(***************************************************************************)
(* What a run stream promises its readers: an append-only log of which a   *)
(* bounded tail is kept.  A reader sees the events in order and each one at *)
(* most once, also when it reconnects; it misses an event only when that   *)
(* event had already been dropped; and it is told that the stream ended    *)
(* only after the last event, or because the whole log was withdrawn.      *)
(***************************************************************************)
EXTENDS Integers

CONSTANTS Reader, MaxSize

VARIABLES
  state,   \* "open", "ended" or "withdrawn"
  length,  \* events appended so far
  floor,   \* events no longer kept
  mode,    \* each reader is "away", "reading" or "finished"
  seen,    \* the last event it has seen (0: none)
  cursor   \* while it reads: the event after which it goes on

logVars == <<state, length, floor, mode, seen, cursor>>

Later(a, b) == IF a > b THEN a ELSE b

Init ==
  /\ state = "open" /\ length = 0 /\ floor = 0
  /\ mode = [c \in Reader |-> "away"]
  /\ seen = [c \in Reader |-> 0] /\ cursor = seen

Append ==
  /\ state = "open"
  /\ length' = length + 1
  /\ floor' = Later(floor, length + 1 - MaxSize)
  /\ UNCHANGED <<state, mode, seen, cursor>>

Close ==
  /\ \/ state' = "withdrawn"
     \/ state = "open" /\ state' = "ended"
  /\ UNCHANGED <<length, floor, mode, seen, cursor>>

\* A reader comes, to go on after what it has seen or to start afresh.
Connect(c) ==
  /\ mode[c] # "reading"
  /\ seen' \in {seen, [seen EXCEPT ![c] = 0]}
  /\ IF state = "withdrawn"
     THEN mode' = [mode EXCEPT ![c] = "finished"] /\ cursor' = [cursor EXCEPT ![c] = seen'[c]]
     ELSE mode' = [mode EXCEPT ![c] = "reading"] /\ cursor' = [cursor EXCEPT ![c] = Later(seen'[c], floor)]
  /\ UNCHANGED <<state, length, floor>>

\* It goes, or turns to another log.
Leave(c) ==
  /\ mode' = [mode EXCEPT ![c] = "away"]
  /\ seen' \in {seen, [seen EXCEPT ![c] = 0]}
  /\ cursor' = [cursor EXCEPT ![c] = seen'[c]]
  /\ UNCHANGED <<state, length, floor>>

\* The next event that is still kept, never an earlier one.
Deliver(c) ==
  /\ mode[c] = "reading" /\ Later(cursor[c], floor) < length
  /\ cursor' = [cursor EXCEPT ![c] = Later(@, floor) + 1]
  /\ seen' = [seen EXCEPT ![c] = cursor'[c]]
  /\ UNCHANGED <<state, length, floor, mode>>

\* The end marker: nothing is left to read, now or ever.
Finish(c) ==
  /\ mode[c] = "reading"
  /\ \/ state = "withdrawn"
     \/ state = "ended" /\ cursor[c] >= length
  /\ mode' = [mode EXCEPT ![c] = "finished"]
  /\ cursor' = [cursor EXCEPT ![c] = seen[c]]
  /\ UNCHANGED <<state, length, floor, seen>>

Next ==
  \/ Append \/ Close
  \/ \E c \in Reader : Connect(c) \/ Leave(c) \/ Deliver(c) \/ Finish(c)

Spec == Init /\ [][Next]_logVars
=============================================================================

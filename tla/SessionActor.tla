---------------------------- MODULE SessionActor ----------------------------
(* What the daemon promises about the commands of a session: "a live       *)
(* provider runtime is an actor owned by the daemon", its commands are      *)
(* served one at a time in the order they arrived, none is left behind      *)
(* while the daemon runs, and sessions do not wait for each other.          *)
EXTENDS Sequences

CONSTANTS
  Session,  \* conversations
  Call,     \* commands
  NoCall    \* the idle actor, no member of Call

VARIABLES
  waiting,  \* per session, the commands not yet served, oldest first
  serving   \* per session, the command being served

vars == <<waiting, serving>>

Init ==
  /\ waiting = [s \in Session |-> <<>>]
  /\ serving = [s \in Session |-> NoCall]

\* A command joins the end of its session's line.
Accept(s, c) ==
  /\ waiting' = [waiting EXCEPT ![s] = Append(@, c)]
  /\ UNCHANGED serving

\* The actor takes the oldest command; it serves one at a time.
Take(s) ==
  /\ serving[s] = NoCall
  /\ waiting[s] # <<>>
  /\ serving' = [serving EXCEPT ![s] = Head(waiting[s])]
  /\ waiting' = [waiting EXCEPT ![s] = Tail(@)]

Finish(s) ==
  /\ serving[s] # NoCall
  /\ serving' = [serving EXCEPT ![s] = NoCall]
  /\ UNCHANGED waiting

\* The actor dies while it serves a command; what waited behind it is gone.
Crash(s) ==
  /\ serving[s] # NoCall
  /\ serving' = [serving EXCEPT ![s] = NoCall]
  /\ waiting' = [waiting EXCEPT ![s] = <<>>]

Next ==
  \E s \in Session :
    \/ \E c \in Call : Accept(s, c)
    \/ Take(s)
    \/ Finish(s)
    \/ Crash(s)

Spec == Init /\ [][Next]_vars
=============================================================================

----------------------------- MODULE Occurrences -----------------------------
(***************************************************************************)
(* What the scheduler promises about the occurrences of its tasks, whatever *)
(* its processes do: the life of an occurrence as its users rely on it.    *)
(* Processes, leases, clocks and crashes are not visible here.             *)
(***************************************************************************)
EXTENDS Integers

CONSTANTS Row, Thread, MaxAttempts

VARIABLES
  phase,   \* where each occurrence is in its life
  tries,   \* attempts made on it
  conv,    \* the conversation it belongs to, once it exists
  slot     \* the time it was scheduled for, once it exists

contractVars == <<phase, tries, conv, slot>>

Phases == {"absent", "waiting", "leased", "launched", "closed", "gone"}
Running == {"leased", "launched"}

\* Conversations are worked on by one occurrence at a time, as long as
\* occurrences appear in the order of their slots.
Exclusive(ph, cv, sl) ==
  \A x, y \in Row :
    x < y /\ ph[x] \in Running /\ ph[y] \in Running /\ cv[x] = cv[y] => sl[y] < sl[x]

Init ==
  /\ phase = [o \in Row |-> "absent"]
  /\ tries = [o \in Row |-> 0]
  /\ conv \in [Row -> Thread]
  /\ slot \in [Row -> Nat]

Same(o) == conv'[o] = conv[o] /\ slot'[o] = slot[o]
Stay(o) == phase'[o] = phase[o] /\ tries'[o] = tries[o] /\ Same(o)

\* A new occurrence waits, is attempted at once, or is rejected as unusable.
Appear(o) ==
  /\ phase[o] = "absent" /\ conv'[o] \in Thread /\ slot'[o] \in Nat
  /\ \/ phase'[o] \in {"waiting", "closed"} /\ tries'[o] = 0
     \/ phase'[o] = "leased" /\ tries'[o] = 1

\* A new attempt: of a waiting occurrence, or of one whose attempt is presumed
\* dead.  Never of one that was launched.
Attempt(o) ==
  /\ phase[o] \in {"waiting", "leased"} /\ phase'[o] = "leased"
  /\ tries[o] < MaxAttempts /\ tries'[o] = tries[o] + 1
  /\ Same(o)

\* The attempt in progress is launched, put back for another one, or closed.
Progress(o) ==
  /\ \/ phase[o] = "leased" /\ phase'[o] = "launched"
     \/ phase[o] \in Running /\ phase'[o] = "waiting" /\ tries[o] < MaxAttempts
     \/ phase[o] \in Running \cup {"waiting"} /\ phase'[o] = "closed"
     \/ phase[o] # "absent" /\ phase'[o] = "gone"
  /\ tries'[o] = tries[o] /\ Same(o)

Next ==
  /\ \A o \in Row : Stay(o) \/ Appear(o) \/ Attempt(o) \/ Progress(o)
  /\ Exclusive(phase', conv', slot')

Spec == Init /\ [][Next]_contractVars
=============================================================================

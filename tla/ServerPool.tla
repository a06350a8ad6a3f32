------------------------------ MODULE ServerPool ------------------------------
(* The pools of resident server processes of the desktop daemon             *)
(* (waku-core/src/opencode_pool.rs and deepseek_pool.rs).                   *)
(*                                                                          *)
(* Sessions that work in one place share one process, found through a slot  *)
(* that knows it by a weak reference only. The last handle to be dropped    *)
(* stops the process, in whatever thread it happens to be dropped.          *)
(*                                                                          *)
(* The lock of a slot is held over several steps only by the destructor     *)
(* that stops the slot's process, and the slot is "stopping" just then: no  *)
(* thread sees that value, they wait for the lock.                          *)
EXTENDS Naturals, FiniteSets

CONSTANTS
  Caller,   \* threads that want a server, or hold a handle of one
  Slot,     \* PoolKey: a binary with a working directory
  Catalog,  \* the slot of the catalog's working directory
  Server,   \* processes, each started once
  MaxCalls, \* bound: calls and clones of all threads
  NoServer

ServerAssumption ==
  /\ Catalog \in Slot
  /\ MaxCalls \in Nat
  /\ NoServer \notin Server
  /\ {"vacant", "starting", "stopping"} \cap Server = {}

VARIABLES
  state, \* PoolSlot.state: Vacant, Starting, Stopping, or the server it runs
  proc,  \* the processes: unused, alive, exited (not by our doing), stopped
  home,  \* the slot each process was started for
  pc,    \* where a thread is
  ref,   \* the PoolInner a thread has in hand, or the process it starts
  at,    \* the slot a thread wants
  todo,  \* slots any_live has not looked at yet
  then,  \* where a thread goes on after a destructor
  calls  \* calls so far

poolVars == <<state, proc, home, pc, ref, at, todo, then, calls>>

Place == {"idle", "scan", "peeked", "acquire", "wait", "superseded", "start", "probe", "failed",
          "holding", "drop", "stopping", "reaping"}

PoolInit ==
  /\ state = [s \in Slot |-> "vacant"]
  /\ proc = [g \in Server |-> "unused"]
  /\ home = [g \in Server |-> Catalog]
  /\ pc = [c \in Caller |-> "idle"]
  /\ ref = [c \in Caller |-> NoServer]
  /\ at = [c \in Caller |-> Catalog]
  /\ todo = [c \in Caller |-> {}]
  /\ then = [c \in Caller |-> "idle"]
  /\ calls = 0

-----------------------------------------------------------------------------
(* Strong references, locks and the condition variable.                     *)

Strong(g) == {c \in Caller : ref[c] = g /\ pc[c] \in {"peeked", "superseded", "holding"}}

Free(s) == state[s] # "stopping"

\* A reference is dropped; the last one runs the destructor.
Release(c, next) ==
  IF Strong(ref[c]) = {c}
  THEN /\ pc' = [pc EXCEPT ![c] = "drop"]
       /\ then' = [then EXCEPT ![c] = next]
       /\ UNCHANGED ref
  ELSE /\ pc' = [pc EXCEPT ![c] = next]
       /\ ref' = [ref EXCEPT ![c] = NoServer]
       /\ UNCHANGED then

Woken(s) == {d \in Caller : pc[d] = "wait" /\ at[d] = s}

\* Thread c goes on, and everyone who waits for the slot looks at it again.
NotifyAll(c, next, s) ==
  pc' = [d \in Caller |-> IF d = c THEN next ELSE IF d \in Woken(s) THEN "acquire" ELSE pc[d]]

-----------------------------------------------------------------------------
(* Looking for a live server of any slot.                                   *)

AnyLive(c) ==
  /\ pc[c] = "idle"
  /\ calls < MaxCalls
  /\ calls' = calls + 1
  /\ pc' = [pc EXCEPT ![c] = "scan"]
  /\ todo' = [todo EXCEPT ![c] = Slot]
  /\ UNCHANGED <<state, proc, home, ref, at, then>>

Peek(c, s) ==
  /\ pc[c] = "scan"
  /\ s \in todo[c]
  /\ Free(s)
  /\ todo' = [todo EXCEPT ![c] = @ \ {s}]
  /\ IF state[s] \in Server /\ Strong(state[s]) # {}
     THEN /\ ref' = [ref EXCEPT ![c] = state[s]]
          /\ pc' = [pc EXCEPT ![c] = "peeked"]
     ELSE UNCHANGED <<ref, pc>>
  /\ UNCHANGED <<state, proc, home, at, then, calls>>

\* The lock is no longer held: the process may exit before or after.
Inspect(c) ==
  /\ pc[c] = "peeked"
  /\ IF proc[ref[c]] = "alive"
     THEN /\ pc' = [pc EXCEPT ![c] = "holding"]
          /\ UNCHANGED <<ref, then>>
     ELSE Release(c, "scan")
  /\ UNCHANGED <<state, proc, home, at, todo, calls>>

\* No server runs: the catalog starts one for its own directory.
NoneLive(c) ==
  /\ pc[c] = "scan"
  /\ todo[c] = {}
  /\ pc' = [pc EXCEPT ![c] = "acquire"]
  /\ at' = [at EXCEPT ![c] = Catalog]
  /\ UNCHANGED <<state, proc, home, ref, todo, then, calls>>

-----------------------------------------------------------------------------
(* acquire_with_start                                                       *)

Acquire(c, s) ==
  /\ pc[c] = "idle"
  /\ calls < MaxCalls
  /\ calls' = calls + 1
  /\ pc' = [pc EXCEPT ![c] = "acquire"]
  /\ at' = [at EXCEPT ![c] = s]
  /\ UNCHANGED <<state, proc, home, ref, todo, then>>

Looks(c) == pc[c] = "acquire" /\ Free(at[c])

Runs(c) == state[at[c]] \in Server

\* The upgrade of the weak reference succeeds.
Upgrades(c) == Runs(c) /\ Strong(state[at[c]]) # {}

Share(c) ==
  /\ Looks(c)
  /\ Upgrades(c)
  /\ proc[state[at[c]]] = "alive"
  /\ pc' = [pc EXCEPT ![c] = "holding"]
  /\ ref' = [ref EXCEPT ![c] = state[at[c]]]
  /\ UNCHANGED <<state, proc, home, at, todo, then, calls>>

\* The process exited under its handles: this thread replaces it.
Supersede(c) ==
  /\ Looks(c)
  /\ Upgrades(c)
  /\ proc[state[at[c]]] # "alive"
  /\ state' = [state EXCEPT ![at[c]] = "starting"]
  /\ pc' = [pc EXCEPT ![c] = "superseded"]
  /\ ref' = [ref EXCEPT ![c] = state[at[c]]]
  /\ UNCHANGED <<proc, home, at, todo, then, calls>>

\* Outside the lock, for the reference may be the last one.
DropSuperseded(c) ==
  /\ pc[c] = "superseded"
  /\ Release(c, "start")
  /\ UNCHANGED <<state, proc, home, at, todo, calls>>

Vacant(c) == state[at[c]] = "vacant"

Claim(c) ==
  /\ Looks(c)
  /\ Vacant(c)
  /\ state' = [state EXCEPT ![at[c]] = "starting"]
  /\ pc' = [pc EXCEPT ![c] = "start"]
  /\ UNCHANGED <<proc, home, ref, at, todo, then, calls>>

\* Another thread starts a server, or is about to stop the one that runs.
Wait(c) ==
  /\ Looks(c)
  /\ state[at[c]] = "starting" \/ (Runs(c) /\ ~Upgrades(c))
  /\ pc' = [pc EXCEPT ![c] = "wait"]
  /\ UNCHANGED <<state, proc, home, ref, at, todo, then, calls>>

SpuriousWakeup(c) ==
  /\ pc[c] = "wait"
  /\ pc' = [pc EXCEPT ![c] = "acquire"]
  /\ UNCHANGED <<state, proc, home, ref, at, todo, then, calls>>

Spawn(c, g) ==
  /\ pc[c] = "start"
  /\ proc[g] = "unused"
  /\ proc' = [proc EXCEPT ![g] = "alive"]
  /\ home' = [home EXCEPT ![g] = at[c]]
  /\ ref' = [ref EXCEPT ![c] = g]
  /\ pc' = [pc EXCEPT ![c] = "probe"]
  /\ UNCHANGED <<state, at, todo, then, calls>>

SpawnFails(c) ==
  /\ pc[c] = "start"
  /\ pc' = [pc EXCEPT ![c] = "failed"]
  /\ UNCHANGED <<state, proc, home, ref, at, todo, then, calls>>

\* It exited, or is not healthy in time: it is killed with its owner.
ProbeFails(c) ==
  /\ pc[c] = "probe"
  /\ proc' = [proc EXCEPT ![ref[c]] = "stopped"]
  /\ ref' = [ref EXCEPT ![c] = NoServer]
  /\ pc' = [pc EXCEPT ![c] = "failed"]
  /\ UNCHANGED <<state, home, at, todo, then, calls>>

Started(c) ==
  /\ pc[c] = "probe"
  /\ Free(at[c])
  /\ state' = [state EXCEPT ![at[c]] = ref[c]]
  /\ NotifyAll(c, "holding", at[c])
  /\ UNCHANGED <<proc, home, ref, at, todo, then, calls>>

\* The caller gets the error; the next in line tries for itself.
StartFails(c) ==
  /\ pc[c] = "failed"
  /\ Free(at[c])
  /\ state' = [state EXCEPT ![at[c]] = "vacant"]
  /\ NotifyAll(c, "idle", at[c])
  /\ UNCHANGED <<proc, home, ref, at, todo, then, calls>>

-----------------------------------------------------------------------------
(* Handles, and the destructor of the last one.                             *)

\* A clone, for a thread of the session.
Clone(c, d) ==
  /\ pc[c] = "holding"
  /\ pc[d] = "idle"
  /\ calls < MaxCalls
  /\ calls' = calls + 1
  /\ pc' = [pc EXCEPT ![d] = "holding"]
  /\ ref' = [ref EXCEPT ![d] = ref[c]]
  /\ UNCHANGED <<state, proc, home, at, todo, then>>

DropHandle(c) ==
  /\ pc[c] = "holding"
  /\ Release(c, "idle")
  /\ UNCHANGED <<state, proc, home, at, todo, calls>>

Current(g) == state[home[g]] = g

\* The lock is taken. A process that is not the slot's own is stopped without it.
Teardown(c) ==
  /\ pc[c] = "drop"
  /\ Free(home[ref[c]])
  /\ IF Current(ref[c])
     THEN /\ state' = [state EXCEPT ![home[ref[c]]] = "stopping"]
          /\ pc' = [pc EXCEPT ![c] = "stopping"]
     ELSE /\ pc' = [pc EXCEPT ![c] = "reaping"]
          /\ UNCHANGED state
  /\ UNCHANGED <<proc, home, ref, at, todo, then, calls>>

Stopped(c) ==
  /\ pc[c] = "stopping"
  /\ proc' = [proc EXCEPT ![ref[c]] = "stopped"]
  /\ state' = [state EXCEPT ![home[ref[c]]] = "vacant"]
  /\ NotifyAll(c, then[c], home[ref[c]])
  /\ ref' = [ref EXCEPT ![c] = NoServer]
  /\ UNCHANGED <<home, at, todo, then, calls>>

Reaped(c) ==
  /\ pc[c] = "reaping"
  /\ proc' = [proc EXCEPT ![ref[c]] = "stopped"]
  /\ pc' = [pc EXCEPT ![c] = then[c]]
  /\ ref' = [ref EXCEPT ![c] = NoServer]
  /\ UNCHANGED <<state, home, at, todo, then, calls>>

\* A process exits by itself.
Exits(g) ==
  /\ proc[g] = "alive"
  /\ proc' = [proc EXCEPT ![g] = "exited"]
  /\ UNCHANGED <<state, home, pc, ref, at, todo, then, calls>>

-----------------------------------------------------------------------------
\* What a thread does on its own, once a call or a drop was made.
Proceed(c) ==
  \/ \E s \in Slot : Peek(c, s)
  \/ Inspect(c)
  \/ NoneLive(c)
  \/ Share(c)
  \/ Supersede(c)
  \/ DropSuperseded(c)
  \/ Claim(c)
  \/ Wait(c)
  \/ \E g \in Server : Spawn(c, g)
  \/ SpawnFails(c)
  \/ ProbeFails(c)
  \/ Started(c)
  \/ StartFails(c)
  \/ Teardown(c)
  \/ Stopped(c)
  \/ Reaped(c)

PoolNext ==
  \/ \E c \in Caller : Proceed(c) \/ AnyLive(c) \/ SpuriousWakeup(c) \/ DropHandle(c)
  \/ \E c \in Caller, s \in Slot : Acquire(c, s)
  \/ \E c, d \in Caller : Clone(c, d)
  \/ \E g \in Server : Exits(g)

PoolSpec == PoolInit /\ [][PoolNext]_poolVars

\* Threads run. Nobody has to drop a handle or to make a call.
FairPoolSpec == PoolSpec /\ \A c \in Caller : WF_poolVars(Proceed(c))

-----------------------------------------------------------------------------
PoolTypeOK ==
  /\ state \in [Slot -> {"vacant", "starting", "stopping"} \cup Server]
  /\ proc \in [Server -> {"unused", "alive", "exited", "stopped"}]
  /\ home \in [Server -> Slot]
  /\ pc \in [Caller -> Place]
  /\ ref \in [Caller -> Server \cup {NoServer}]
  /\ at \in [Caller -> Slot]
  /\ todo \in [Caller -> SUBSET Slot]
  /\ then \in [Caller -> {"idle", "scan", "start"}]
  /\ calls \in 0 .. MaxCalls

\* No two servers run in one place, not even while one of them starts or is
\* being stopped, nor when one died under its sessions.
OneServer ==
  \A g, h \in Server :
    g # h /\ proc[g] = "alive" /\ proc[h] = "alive" => home[g] # home[h]

\* The process of a handle, if it lives, is the one that the next session of
\* its slot will share: no teardown of another generation takes it away.
HeldIsCurrent ==
  \A c \in Caller :
    pc[c] = "holding" /\ proc[ref[c]] = "alive" => state[home[ref[c]]] = ref[c]

\* Thread d will change slot s and notify.
WillNotify(d, s) ==
  \/ pc[d] \in {"superseded", "start", "probe", "failed"} /\ at[d] = s
  \/ pc[d] \in {"drop", "reaping"} /\ then[d] = "start" /\ at[d] = s
  \/ pc[d] = "drop" /\ state[s] = ref[d]
  \/ pc[d] = "stopping" /\ home[ref[d]] = s

\* No wakeup is lost: behind every thread that waits for a slot there is one
\* that will change the slot and notify.
WaitersAreWoken == \A c \in Caller : pc[c] = "wait" => \E d \in Caller : WillNotify(d, at[c])

\* A call ends with a handle or an error, whoever starts, fails, dies or is
\* stopped meanwhile, if calls do not come without end.
CallsEnd ==
  \A c \in Caller : (pc[c] \in {"scan", "acquire", "wait"}) ~> (pc[c] \in {"holding", "idle"})

=============================================================================

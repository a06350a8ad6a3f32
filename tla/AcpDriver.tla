------------------------------ MODULE AcpDriver ------------------------------
(* The daemon's end of one agent process that speaks the Agent Client       *)
(* Protocol (src/desktop-app/crates/waku-core/src/driver/acp.rs).           *)
(*                                                                          *)
(* One thread drives the connection: a loop takes the commands of the       *)
(* session's worker one by one, and between two of its awaits the callbacks *)
(* of replies, notifications and requests of the agent run. Prompts and     *)
(* changes of the tool approval are answered by callbacks, model options    *)
(* are awaited inside the loop, so every later command waits for them. The  *)
(* worker itself waits for the outcome of an approval change, for ten       *)
(* seconds at most; the change may be confirmed long after.                 *)
(*                                                                          *)
(* The agent is external: it takes what was sent to it in order, answers    *)
(* when it likes and may die at any time.                                   *)
EXTENDS Naturals, Sequences

CONSTANTS
  MaxPrompts, \* bound, per provider: session/prompt requests
  MaxAsks,    \* bound, per provider: session/request_permission requests of the agent
  MaxQueue    \* bound: commands that wait for the loop or are under way to the agent

\* "grok" stands for the agents that take a second prompt as steering, "fast"
\* for one of them that runs in full access.
Provider == {"deerflow", "grok", "fast"}

ASSUME BoundAssumption ==
  /\ {MaxPrompts, MaxAsks} \subseteq [Provider -> Nat]
  /\ MaxQueue \in Nat

\* Ids of prompts and of permission requests, in the order of their use.
Prompt == 1 .. MaxPrompts["deerflow"] \cup 1 .. MaxPrompts["grok"] \cup 1 .. MaxPrompts["fast"]
Ask == 1 .. MaxAsks["deerflow"] \cup 1 .. MaxAsks["grok"] \cup 1 .. MaxAsks["fast"]

Mode == {"ask", "allow_always"}
Policy == Mode \cup {"off"}

Command ==
  [op : {"prompt", "steer", "cancel", "options", "shutdown"}]
  \cup [op : {"respond"}, id : Ask]
  \cup [op : {"approval"}, mode : Mode, expired : BOOLEAN]

\* What travels to the agent, and what comes back.
Request ==
  [op : {"prompt"}, id : Prompt] \cup [op : {"answer"}, ids : SUBSET Ask]
  \cup [op : {"cancel", "options"}] \cup [op : {"policy"}, want : Mode]

Message ==
  [op : {"reply"}, id : Prompt, ok : BOOLEAN] \cup [op : {"complete"}, id : Prompt, named : BOOLEAN]
  \cup [op : {"ask"}, id : Ask] \cup [op : {"options"}, ok : BOOLEAN]
  \cup [op : {"policy"}, want : Mode, is : Policy \cup {"error"}]

VARIABLES
  provider,
  phase,      \* the connection's thread: starting, loop, applying, left, gone
  held,       \* the daemon holds the driver
  open,       \* the command channel takes commands
  queue,      \* commands waiting for the loop
  caller,     \* the worker waits for the outcome of an approval change
  access,     \* AcpAccessState
  optionsOk,  \* model_options_ready
  prompts,    \* prompt_requests
  perms,      \* pending_permissions
  toAgent, fromAgent,
  alive,      \* the agent process
  policy,     \* the tool approval the agent applies
  running,    \* prompts the agent works on
  halted,     \* those of them it was told to cancel
  prompted,   \* prompts sent so far
  asked,      \* permissions asked for so far
  turn,       \* the last turn event: none, open, failed, succeeded
  announced,  \* the last ToolApprovalChanged
  exited,     \* ProcessExited was sent
  cancelled,  \* history: prompts a cancel was taken for while they were in flight
  mistaken    \* history: prompts the agent goes on with, settled by an unnamed completion

loopVars == <<phase, queue, caller, optionsOk>>
agentVars == <<alive, policy, running, halted>>
eventVars == <<turn, announced, exited>>
used == <<prompted, asked>>
history == <<cancelled, mistaken>>
vars == <<provider, phase, held, open, queue, caller, access, optionsOk, prompts, perms, toAgent,
          fromAgent, alive, policy, running, halted, prompted, asked, turn, announced, exited,
          cancelled, mistaken>>

Init ==
  /\ provider \in Provider
  /\ phase = "starting"
  /\ held = TRUE
  /\ open = TRUE
  /\ queue = <<>>
  /\ caller = FALSE
  /\ access = [approval |-> "none", ready |-> FALSE, pending |-> FALSE]
  /\ optionsOk = FALSE
  /\ prompts = {}
  /\ perms = {}
  /\ toAgent = <<>>
  /\ fromAgent = {}
  /\ alive = TRUE
  /\ policy \in Policy
  /\ provider # "deerflow" => policy = "off"
  /\ running = {}
  /\ halted = {}
  /\ prompted = 0
  /\ asked = 0
  /\ turn = "none"
  /\ announced = "none"
  /\ exited = FALSE
  /\ cancelled = {}
  /\ mistaken = {}

-----------------------------------------------------------------------------
(* Events. The hub takes none of a runtime that has ended.                  *)

Says(t) == turn' = IF exited THEN turn ELSE t
Finishes(ok) == Says(IF ok THEN "succeeded" ELSE "failed")
Announces(m) == announced' = IF exited THEN announced ELSE m

\* Prompts the agent has not taken yet.
UnderWay == {r.id : r \in {toAgent[i] : i \in {j \in DOMAIN toAgent : toAgent[j].op = "prompt"}}}

\* Requests to a dead agent go nowhere.
Sends(reqs) == toAgent' = IF alive THEN toAgent \o reqs ELSE toAgent

-----------------------------------------------------------------------------
(* The session's worker. It takes no other command while it waits.          *)

\* Commands that wait, that the agent has not taken yet, or that the loop waits
\* for. A dead agent counts as one.
Backlog ==
  Len(queue) + Len(toAgent) + (IF phase = "applying" \/ ~alive THEN 1 ELSE 0)

Accepts == held /\ ~caller /\ open /\ Backlog < MaxQueue

Issue(c) ==
  /\ Accepts
  /\ queue' = Append(queue, c)
  /\ UNCHANGED <<provider, phase, held, open, caller, access, optionsOk, prompts, perms, toAgent,
                 fromAgent, agentVars, used, eventVars, history>>

Tell(op) ==
  /\ op = "steer" => provider # "deerflow"
  /\ Issue([op |-> op])

Respond(a) == a <= asked /\ Issue([op |-> "respond", id |-> a])

\* A prompt for a channel that has closed is settled on the spot.
PromptTooLate ==
  /\ held /\ ~caller
  /\ ~open
  /\ Says("failed")
  /\ exited' = TRUE
  /\ UNCHANGED <<provider, held, loopVars, open, access, prompts, perms, toAgent, fromAgent, agentVars,
                 used, announced, history>>

\* The session is closed, or its runtime was seen to end: no command follows.
Drop ==
  /\ held /\ ~caller
  /\ open => Accepts
  /\ held' = FALSE
  /\ queue' = IF open THEN Append(queue, [op |-> "shutdown"]) ELSE queue
  /\ UNCHANGED <<provider, phase, open, caller, access, optionsOk, prompts, perms, toAgent,
                 fromAgent, agentVars, used, eventVars, history>>

SetToolApproval(m) ==
  /\ Accepts
  /\ provider = "deerflow"
  /\ queue' = Append(queue, [op |-> "approval", mode |-> m, expired |-> FALSE])
  /\ caller' = TRUE
  /\ UNCHANGED <<provider, phase, held, open, access, optionsOk, prompts, perms, toAgent, fromAgent,
                 agentVars, used, eventVars, history>>

\* Ten seconds have passed since the change was asked for: the worker goes
\* on, and the change expires if the loop has not taken it.
TimesOut ==
  /\ caller
  /\ caller' = FALSE
  /\ queue' = [i \in DOMAIN queue |->
                 IF queue[i].op = "approval" THEN [queue[i] EXCEPT !.expired = TRUE]
                 ELSE queue[i]]
  /\ UNCHANGED <<provider, phase, held, open, access, optionsOk, prompts, perms, toAgent, fromAgent,
                 agentVars, used, eventVars, history>>

-----------------------------------------------------------------------------
(* The connection is made. The policy of a restored session is the agent's; *)
(* a new one is given the mode it was started with.                         *)

InitialPolicy(mode, restoring) ==
  IF restoring \/ policy = "off" THEN policy ELSE mode

Connect(mode, restoring, applied) ==
  /\ phase = "starting"
  /\ alive
  /\ (provider = "deerflow" /\ ~restoring /\ policy = "off") => mode = "allow_always"
  /\ policy' = IF provider = "deerflow" THEN InitialPolicy(mode, restoring) ELSE policy
  /\ IF provider = "deerflow"
     THEN /\ access' = [approval |-> policy', ready |-> TRUE, pending |-> FALSE]
          /\ Announces(policy')
     ELSE UNCHANGED <<access, announced>>
  /\ optionsOk' = (applied \/ provider # "deerflow")
  /\ phase' = "loop"
  /\ UNCHANGED <<provider, held, open, queue, caller, prompts, perms, toAgent, fromAgent, alive,
                 running, halted, used, turn, exited, history>>

\* Handshake, restore or approval failed, or the approval took too long.
ConnectFails ==
  /\ phase = "starting"
  /\ phase' = "left"
  /\ open' = FALSE
  /\ UNCHANGED <<provider, held, queue, caller, access, optionsOk, prompts, perms, toAgent,
                 fromAgent, agentVars, used, eventVars, history>>

-----------------------------------------------------------------------------
(* The command loop.                                                        *)

Takes(op) == phase = "loop" /\ queue # <<>> /\ Head(queue).op = op

\* Mutant: a prompt is sent while the approval is not confirmed.
UsableUnconfirmed == optionsOk

Usable == (provider = "deerflow" => access.ready) /\ optionsOk

RejectPrompt ==
  /\ Takes("prompt")
  /\ ~Usable
  /\ queue' = Tail(queue)
  /\ Says("failed")
  /\ UNCHANGED <<provider, phase, held, open, caller, access, optionsOk, prompts, perms, toAgent,
                 fromAgent, agentVars, used, announced, exited, history>>

\* send_prompt: the request is on its way before it is listed, but nothing of
\* the connection runs in between.
SendPrompt(p) ==
  /\ Takes("prompt")
  /\ Usable
  /\ p = prompted + 1
  /\ p <= MaxPrompts[provider]
  /\ prompted' = p
  /\ queue' = Tail(queue)
  /\ prompts' = prompts \cup {p}
  /\ Sends(<<[op |-> "prompt", id |-> p]>>)
  /\ Says("open")
  /\ UNCHANGED <<provider, phase, held, open, caller, access, optionsOk, perms, fromAgent, agentVars,
                 asked, announced, exited, history>>

\* An attachment that cannot be read, or a connection that is gone.
SendPromptFails ==
  /\ Takes("prompt")
  /\ Usable
  /\ queue' = Tail(queue)
  /\ Says("failed")
  /\ UNCHANGED <<provider, phase, held, open, caller, access, optionsOk, prompts, perms, toAgent,
                 fromAgent, agentVars, used, announced, exited, history>>

Steer(p) ==
  /\ Takes("steer")
  /\ optionsOk /\ prompts # {}
  /\ p = prompted + 1
  /\ p <= MaxPrompts[provider]
  /\ prompted' = p
  /\ queue' = Tail(queue)
  /\ prompts' = prompts \cup {p}
  /\ Sends(<<[op |-> "prompt", id |-> p]>>)
  /\ UNCHANGED <<provider, phase, held, open, caller, access, optionsOk, perms, fromAgent, agentVars,
                 asked, eventVars, history>>

\* A steer without a turn is rejected, as is one that cannot be sent.
RejectSteer ==
  /\ Takes("steer")
  /\ queue' = Tail(queue)
  /\ UNCHANGED <<provider, phase, held, open, caller, access, optionsOk, prompts, perms, toAgent,
                 fromAgent, agentVars, used, eventVars, history>>

\* The answers to permissions, those given by the user and those that a
\* cancel gives.
Answers(set) == IF set = {} THEN <<>> ELSE <<[op |-> "answer", ids |-> set]>>

\* Mutant: a turn is cancelled by cancelling the permissions it waits for.
CancelByAnswer ==
  /\ Takes("cancel")
  /\ queue' = Tail(queue)
  /\ cancelled' = cancelled \cup prompts
  /\ perms' = {}
  /\ Sends(Answers(perms))
  /\ UNCHANGED <<provider, phase, held, open, caller, access, optionsOk, prompts, fromAgent,
                 agentVars, used, eventVars, mistaken>>

Cancel ==
  /\ Takes("cancel")
  /\ queue' = Tail(queue)
  /\ cancelled' = cancelled \cup prompts
  /\ perms' = {}
  /\ Sends(<<[op |-> "cancel"]>> \o Answers(perms))
  /\ UNCHANGED <<provider, phase, held, open, caller, access, optionsOk, prompts, fromAgent,
                 agentVars, used, eventVars, mistaken>>

\* An answer to a permission that is no longer pending is dropped.
Answer ==
  /\ Takes("respond")
  /\ queue' = Tail(queue)
  /\ perms' = perms \ {Head(queue).id}
  /\ Sends(Answers(perms \cap {Head(queue).id}))
  /\ UNCHANGED <<provider, phase, held, open, caller, access, optionsOk, prompts, fromAgent,
                 agentVars, used, eventVars, history>>

MayChange ==
  /\ ~Head(queue).expired
  /\ prompts = {}
  /\ ~access.pending
  /\ access.approval # "off"

RefuseApproval ==
  /\ Takes("approval")
  /\ ~MayChange
  /\ queue' = Tail(queue)
  /\ caller' = (caller /\ Head(queue).expired)
  /\ UNCHANGED <<provider, phase, held, open, access, optionsOk, prompts, perms, toAgent, fromAgent,
                 agentVars, used, eventVars, history>>

\* request_deerflow_approval. The worker keeps waiting for its callback.
RequestApproval ==
  /\ Takes("approval")
  /\ MayChange
  /\ queue' = Tail(queue)
  /\ access' = [access EXCEPT !.pending = TRUE, !.ready = FALSE]
  /\ Sends(<<[op |-> "policy", want |-> Head(queue).mode]>>)
  /\ UNCHANGED <<provider, phase, held, open, caller, optionsOk, prompts, perms, fromAgent, agentVars,
                 used, eventVars, history>>

\* The request could not be sent: nothing is pending, nothing is confirmed.
RequestApprovalFails ==
  /\ Takes("approval")
  /\ MayChange
  /\ ~alive
  /\ queue' = Tail(queue)
  /\ access' = [access EXCEPT !.ready = FALSE]
  /\ caller' = FALSE
  /\ UNCHANGED <<provider, phase, held, open, optionsOk, prompts, perms, toAgent, fromAgent,
                 agentVars, used, eventVars, history>>

\* The loop awaits the agent's verdict on changed options.
ApplyOptions ==
  /\ Takes("options")
  /\ queue' = Tail(queue)
  /\ phase' = "applying"
  /\ Sends(<<[op |-> "options"]>>)
  /\ UNCHANGED <<provider, held, open, caller, access, optionsOk, prompts, perms, fromAgent, agentVars,
                 used, eventVars, history>>

Applied(msg) ==
  /\ phase = "applying"
  /\ msg \in fromAgent /\ msg.op = "options"
  /\ fromAgent' = fromAgent \ {msg}
  /\ optionsOk' = (msg.ok \/ provider # "deerflow")
  /\ phase' = "loop"
  /\ UNCHANGED <<provider, held, open, queue, caller, access, prompts, perms, toAgent, agentVars, used,
                 eventVars, history>>

\* The connection ended under the request.
ApplyBreaks ==
  /\ phase = "applying"
  /\ ~alive
  /\ optionsOk' = (provider # "deerflow")
  /\ phase' = "loop"
  /\ UNCHANGED <<provider, held, open, queue, caller, access, prompts, perms, toAgent, fromAgent,
                 agentVars, used, eventVars, history>>

\* Shutdown, or the channel is closed and drained.
Leave ==
  /\ phase = "loop"
  /\ IF queue = <<>> THEN ~open ELSE Head(queue).op = "shutdown"
  /\ phase' = "left"
  /\ perms' = {}
  /\ Sends(Answers(perms))
  /\ UNCHANGED <<provider, held, open, queue, caller, access, optionsOk, prompts, fromAgent, agentVars,
                 used, eventVars, history>>

\* The connection is dropped with its callbacks and the agent process, the
\* thread says so and ends; a worker that waits finds its channel gone.
Exit ==
  /\ phase = "left"
  /\ phase' = "gone"
  /\ open' = FALSE
  /\ queue' = <<>>
  /\ caller' = FALSE
  /\ alive' = FALSE
  /\ running' = {}
  /\ halted' = {}
  /\ toAgent' = <<>>
  /\ fromAgent' = {}
  /\ prompts' = {} /\ perms' = {} /\ cancelled' = {} /\ mistaken' = {}
  /\ exited' = TRUE
  /\ UNCHANGED <<provider, held, access, optionsOk, policy, used, turn, announced>>

-----------------------------------------------------------------------------
(* The callbacks of the connection. They run until it is dropped.           *)

Hears(msg, op) ==
  /\ phase \in {"loop", "applying", "left"}
  /\ msg \in fromAgent
  /\ msg.op = op
  /\ fromAgent' = fromAgent \ {msg}

\* on_close.
Closed ==
  /\ ~alive /\ open /\ phase # "gone"
  /\ open' = FALSE
  /\ UNCHANGED <<provider, held, loopVars, access, prompts, perms, toAgent, fromAgent, agentVars, used,
                 eventVars, history>>

\* Mutant: every settled prompt ends the turn.
SettleAny(p, ok) ==
  /\ prompts' = prompts \ {p}
  /\ cancelled' = cancelled \ {p}
  /\ IF p \in prompts THEN Finishes(ok) ELSE UNCHANGED turn

\* The turn ends with the last of its prompts; one that is settled already
\* says nothing.
Settle(p, ok) ==
  /\ prompts' = prompts \ {p}
  /\ cancelled' = cancelled \ {p}
  /\ IF prompts = {p} THEN Finishes(ok) ELSE UNCHANGED turn

PromptSettled(msg) ==
  /\ Hears(msg, "reply")
  /\ Settle(msg.id, msg.ok)
  /\ UNCHANGED <<provider, held, loopVars, open, access, perms, toAgent, agentVars, used, announced,
                 exited, mistaken>>

\* settle_extension: a completion that names no prompt is taken for the oldest.
Completed(msg) ==
  IF msg.named \/ prompts = {} THEN msg.id
  ELSE CHOOSE p \in prompts : \A q \in prompts : p <= q

\* _x.ai/session/prompt_complete comes before the reply.
PromptComplete(msg) ==
  /\ Hears(msg, "complete")
  /\ Settle(Completed(msg), TRUE)
  /\ mistaken' = IF msg.named THEN mistaken
                 ELSE mistaken \cup ({Completed(msg)} \cap (running \cup UnderWay))
  /\ UNCHANGED <<provider, held, loopVars, open, access, perms, toAgent, agentVars, used, announced,
                 exited>>

\* A reply that will never come is an error, unless the thread is faster.
PromptLost(p) ==
  /\ ~alive
  /\ phase \in {"loop", "applying", "left"}
  /\ p \in prompts
  /\ Settle(p, FALSE)
  /\ UNCHANGED <<provider, held, loopVars, open, access, perms, toAgent, fromAgent, agentVars, used,
                 announced, exited, mistaken>>

\* Mutant: the outcome of a change nobody waits for any more is ignored.
ApprovalSettledInTime(msg) ==
  /\ Hears(msg, "policy")
  /\ IF msg.is = msg.want /\ caller
     THEN /\ access' = [approval |-> msg.is, ready |-> TRUE, pending |-> FALSE]
          /\ Announces(msg.is)
     ELSE /\ access' = IF caller THEN [access EXCEPT !.pending = FALSE, !.ready = FALSE]
                       ELSE access
          /\ UNCHANGED announced
  /\ caller' = FALSE
  /\ UNCHANGED <<provider, phase, held, open, queue, optionsOk, prompts, perms, toAgent, agentVars,
                 used, turn, exited, history>>

\* The agent's answer counts however late it is, and only what it confirms.
ApprovalSettled(msg) ==
  /\ Hears(msg, "policy")
  /\ IF msg.is = msg.want
     THEN /\ access' = [approval |-> msg.is, ready |-> TRUE, pending |-> FALSE]
          /\ Announces(msg.is)
     ELSE /\ access' = [access EXCEPT !.pending = FALSE, !.ready = FALSE]
          /\ UNCHANGED announced
  /\ caller' = (caller /\ \E i \in DOMAIN queue : queue[i].op = "approval")
  /\ UNCHANGED <<provider, phase, held, open, queue, optionsOk, prompts, perms, toAgent, agentVars,
                 used, turn, exited, history>>

\* A permission is put to the user, or answered at once in full access.
PermissionAsked(msg) ==
  /\ Hears(msg, "ask")
  /\ IF provider = "fast"
     THEN /\ Sends(Answers({msg.id}))
          /\ UNCHANGED perms
     ELSE /\ perms' = perms \cup {msg.id}
          /\ UNCHANGED toAgent
  /\ UNCHANGED <<provider, held, loopVars, open, access, prompts, agentVars, used, eventVars,
                 history>>

-----------------------------------------------------------------------------
(* The agent.                                                               *)

Receives(op) == alive /\ toAgent # <<>> /\ Head(toAgent).op = op /\ toAgent' = Tail(toAgent)

AgentRuns ==
  /\ Receives("prompt")
  /\ running' = running \cup {Head(toAgent).id}
  /\ UNCHANGED <<provider, held, loopVars, open, access, prompts, perms, fromAgent, alive, policy,
                 halted, used, eventVars, history>>

\* A session that is busy takes no second prompt.
AgentRefuses ==
  /\ Receives("prompt")
  /\ fromAgent' = fromAgent \cup {[op |-> "reply", id |-> Head(toAgent).id, ok |-> FALSE]}
  /\ UNCHANGED <<provider, held, loopVars, open, access, prompts, perms, agentVars, used, eventVars,
                 history>>

AgentCancels ==
  /\ Receives("cancel")
  /\ halted' = running
  /\ UNCHANGED <<provider, held, loopVars, open, access, prompts, perms, fromAgent, alive, policy,
                 running, used, eventVars, history>>

AgentIsAnswered ==
  /\ Receives("answer")
  /\ UNCHANGED <<provider, held, loopVars, open, access, prompts, perms, fromAgent, agentVars, used,
                 eventVars, history>>

AgentConfigures(ok) ==
  /\ Receives("options")
  /\ fromAgent' = fromAgent \cup {[op |-> "options", ok |-> ok]}
  /\ UNCHANGED <<provider, held, loopVars, open, access, prompts, perms, agentVars, used, eventVars,
                 history>>

\* The change is made, another policy is imposed, or nothing is changed.
AgentSetsPolicy(is) ==
  /\ Receives("policy")
  /\ is \in {Head(toAgent).want, "off", "error"}
  /\ policy' = IF is = "error" THEN policy ELSE is
  /\ fromAgent' = fromAgent \cup {[op |-> "policy", want |-> Head(toAgent).want, is |-> is]}
  /\ UNCHANGED <<provider, held, loopVars, open, access, prompts, perms, alive, running, halted, used,
                 eventVars, history>>

AgentAsks(a) ==
  /\ alive
  /\ running \ halted # {}
  /\ a = asked + 1
  /\ a <= MaxAsks[provider]
  /\ asked' = a
  /\ fromAgent' = fromAgent \cup {[op |-> "ask", id |-> a]}
  /\ UNCHANGED <<provider, held, loopVars, open, access, prompts, perms, toAgent, agentVars, prompted,
                 eventVars,
                 history>>

AgentEnds(p, ok) ==
  /\ alive
  /\ p \in running
  /\ running' = running \ {p}
  /\ halted' = halted \ {p}
  /\ mistaken' = mistaken \ {p}
  /\ \E named \in BOOLEAN :
       fromAgent' = fromAgent \cup {[op |-> "reply", id |-> p, ok |-> ok]}
                    \cup (IF provider = "grok" /\ ok
                          THEN {[op |-> "complete", id |-> p, named |-> named]} ELSE {})
  /\ UNCHANGED <<provider, held, loopVars, open, access, prompts, perms, toAgent, alive, policy, used,
                 eventVars, cancelled>>

AgentStops(p) == p \in halted /\ AgentEnds(p, TRUE)

AgentDies ==
  /\ alive
  /\ alive' = FALSE
  /\ running' = {}
  /\ halted' = {}
  /\ mistaken' = {}
  /\ toAgent' = <<>>
  /\ UNCHANGED <<provider, held, loopVars, open, access, prompts, perms, fromAgent, policy, used,
                 eventVars, cancelled>>

-----------------------------------------------------------------------------
Worker ==
  \/ \E op \in {"prompt", "steer", "cancel", "options"} : Tell(op)
  \/ \E a \in Ask : Respond(a)
  \/ \E m \in Mode : SetToolApproval(m)
  \/ PromptTooLate
  \/ Drop
  \/ TimesOut

Begin ==
  \/ \E m \in Mode, restoring, applied \in BOOLEAN : Connect(m, restoring, applied)
  \/ ConnectFails

Loop ==
  \/ RejectPrompt
  \/ \E p \in Prompt : SendPrompt(p) \/ Steer(p)
  \/ SendPromptFails
  \/ RejectSteer
  \/ Cancel
  \/ Answer
  \/ RefuseApproval
  \/ RequestApproval
  \/ RequestApprovalFails
  \/ ApplyOptions
  \/ \E msg \in fromAgent : Applied(msg)
  \/ ApplyBreaks
  \/ Leave
  \/ Exit

Callback ==
  \/ Closed
  \/ \E msg \in fromAgent :
       PromptSettled(msg) \/ PromptComplete(msg) \/ ApprovalSettled(msg) \/ PermissionAsked(msg)
  \/ \E p \in Prompt : PromptLost(p)

AgentAnswers ==
  \/ AgentRuns
  \/ AgentRefuses
  \/ AgentCancels
  \/ AgentIsAnswered
  \/ \E ok \in BOOLEAN : AgentConfigures(ok)
  \/ \E is \in Policy \cup {"error"} : AgentSetsPolicy(is)

Agent ==
  \/ AgentAnswers
  \/ \E a \in Ask : AgentAsks(a)
  \/ \E p \in Prompt, ok \in BOOLEAN : AgentEnds(p, ok)
  \/ AgentDies

Next == Worker \/ Begin \/ Loop \/ Callback \/ Agent

Spec == Init /\ [][Next]_vars

\* The thread of the connection and its callbacks run; the agent takes what
\* it is sent, answers a request for its configuration and ends a turn it was
\* told to cancel. It owes nothing else, nor does any user.
Fairness ==
  /\ WF_vars(Loop) /\ WF_vars(Callback)
  /\ WF_vars(AgentAnswers)
  /\ \A p \in Prompt : WF_vars(AgentStops(p))

FairSpec == Spec /\ Fairness

-----------------------------------------------------------------------------
TypeOK ==
  /\ provider \in Provider
  /\ phase \in {"starting", "loop", "applying", "left", "gone"}
  /\ held \in BOOLEAN /\ open \in BOOLEAN /\ caller \in BOOLEAN /\ optionsOk \in BOOLEAN
  /\ queue \in Seq(Command)
  /\ access \in [approval : Policy \cup {"none"}, ready : BOOLEAN, pending : BOOLEAN]
  /\ prompts \subseteq Prompt
  /\ perms \subseteq Ask
  /\ toAgent \in Seq(Request)
  /\ fromAgent \subseteq Message
  /\ alive \in BOOLEAN
  /\ policy \in Policy
  /\ halted \subseteq running /\ running \subseteq Prompt
  /\ prompted \in 0 .. MaxPrompts[provider]
  /\ asked \in 0 .. MaxAsks[provider]
  /\ turn \in {"none", "open", "failed", "succeeded"}
  /\ announced \in Policy \cup {"none"}
  /\ exited \in BOOLEAN
  /\ cancelled \subseteq Prompt /\ mistaken \subseteq Prompt

\* No prompt reaches or keeps a DeerFlow agent whose tool approval is not the
\* one that was last announced to the clients, whatever was asked, refused or
\* confirmed late in between.
RunsAsAnnounced ==
  (provider = "deerflow" /\ ~exited /\ (running # {} \/ UnderWay # {})) => policy = announced

\* A turn reported as a success has left nothing running in the agent, nor
\* on its way there, but what a completion without a prompt id was mistaken for:
\* a steering prompt counts as much as the one it steers.
SuccessMeansQuiet ==
  (turn = "succeeded" /\ ~exited) => running \cup UnderWay \subseteq mistaken

\* The same without the exception, as if "a steer only settles when the last sdk
\* request finishes" held of every completion. It does not: the first of two
\* prompts runs on when the unnamed completion of the second settles it, and the
\* reply to the second ends the turn.
SuccessMeansDone == (turn = "succeeded" /\ ~exited) => running = {} /\ UnderWay = {}

\* A prompt that was in flight when a cancel was taken does not stay so: it is
\* settled, or the exit of the agent is reported.
CancelledTurnsEnd == \A p \in Prompt : []<>(p \notin cancelled \/ exited)

\* A change of the approval does not stay pending: while it does, neither a
\* prompt nor another change is possible.
ChangesSettle == []<>(~access.pending \/ exited)

=============================================================================

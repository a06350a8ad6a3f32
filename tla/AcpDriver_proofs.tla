--------------------------- MODULE AcpDriver_proofs ---------------------------
(***************************************************************************)
(* Machine-checked proofs about the driver of an ACP agent, for every       *)
(* number of prompts, permissions and waiting commands; and, after them,    *)
(* about the pools of servers that other drivers share.                     *)
(***************************************************************************)
EXTENDS AcpDriver, ServerPool, SequenceTheorems, TLAPS

\* The requests and messages that the invariants speak of.
Notable == {"prompt", "policy"}
Settling(msg) == msg.op \in {"reply", "complete"}
Answered == {msg.id : msg \in {m \in fromAgent : Settling(m)}}

\* Prompts that may be in the agent: those the driver lists, and those it
\* settled by mistake.
Listed == prompts \cup mistaken

\* A prompt the driver has settled is nowhere in the agent or on its way
\* there, unless it was by mistake, and one that is there is there once.
Placed ==
  /\ \A i \in DOMAIN toAgent : toAgent[i].op = "prompt" =>
       toAgent[i].id \in Listed \ running /\ toAgent[i].id \notin Answered
  /\ \A i, j \in DOMAIN toAgent :
       toAgent[i].op = "prompt" /\ toAgent[j].op = "prompt" /\ i # j =>
         toAgent[i].id # toAgent[j].id
  /\ running \subseteq Listed
  /\ \A p \in running : p \notin Answered
  /\ \A p \in Listed : p <= prompted
  /\ \A msg \in fromAgent : Settling(msg) => msg.id <= prompted
  /\ ~alive => toAgent = <<>> /\ running = {}

\* After a success no prompt is left.
Rested == turn = "succeeded" /\ ~exited => prompts = {}

\* Only agents that take steering send completions.
Named ==
  provider # "grok" => mistaken = {} /\ \A msg \in fromAgent : msg.op # "complete"

\* Nothing has been sent before the connection stands.
Fresh ==
  phase = "starting" =>
    /\ toAgent = <<>> /\ fromAgent = {} /\ prompts = {} /\ mistaken = {}
    /\ ~access.ready /\ ~access.pending

\* At most one change of the approval is open; while it is, and until one is
\* confirmed, there is no prompt; what was confirmed was announced.
Confirmed ==
  provider = "deerflow" =>
    /\ \A i \in DOMAIN toAgent : toAgent[i].op = "policy" =>
         access.pending /\ \A msg \in fromAgent : msg.op # "policy"
    /\ \A i, j \in DOMAIN toAgent :
         toAgent[i].op = "policy" /\ toAgent[j].op = "policy" => i = j
    /\ \A msg \in fromAgent : msg.op = "policy" =>
         access.pending /\ (msg.is # "error" => policy = msg.is)
    /\ \A m1, m2 \in fromAgent : m1.op = "policy" /\ m2.op = "policy" => m1 = m2
    /\ access.pending => ~access.ready
    /\ ~access.ready => prompts = {}
    /\ access.ready /\ ~exited => policy = announced

IInv == TypeOK /\ Placed /\ Rested /\ Named /\ Fresh /\ Confirmed

-----------------------------------------------------------------------------
(* What goes over the wire.                                                 *)

\* No notable request is new in t: each was in s, at the same place or one further.
NothingNew(t, s) ==
  \E k \in {0, 1} : \A i \in DOMAIN t :
    t[i].op \in Notable => i + k \in DOMAIN s /\ t[i] = s[i + k]

LEMMA SameIsNotNew ==
  ASSUME NEW s \in Seq(Request)
  PROVE  NothingNew(s, s)
<1>1. \A i \in DOMAIN s : i + 0 \in DOMAIN s /\ s[i] = s[i + 0]
  BY LenProperties
<1>2. QED
  BY <1>1 DEF NothingNew

LEMMA NoneIsNotNew ==
  ASSUME NEW s
  PROVE  NothingNew(<<>>, s)
  BY DEF NothingNew

\* Requests are well formed.
LEMMA SendsTyped ==
  ASSUME toAgent \in Seq(Request), NEW reqs \in Seq(Request), Sends(reqs)
  PROVE  toAgent' \in Seq(Request)
  BY ConcatProperties DEF Sends

\* A request that is not notable changes nothing that matters here.
LEMMA PlainSends ==
  ASSUME toAgent \in Seq(Request), NEW reqs \in Seq(Request), Sends(reqs),
         \A i \in DOMAIN reqs : reqs[i].op \notin Notable
  PROVE  NothingNew(toAgent', toAgent)
<1>1. CASE ~alive
  BY <1>1, SameIsNotNew DEF Sends
<1>2. CASE alive
  <2>1. /\ Len(toAgent) \in Nat /\ Len(reqs) \in Nat
        /\ DOMAIN toAgent = 1 .. Len(toAgent) /\ DOMAIN reqs = 1 .. Len(reqs)
    BY LenProperties
  <2>2. /\ toAgent' = toAgent \o reqs
        /\ toAgent' \in Seq(Request)
        /\ DOMAIN toAgent' = 1 .. Len(toAgent) + Len(reqs)
        /\ \A i \in 1 .. Len(toAgent) + Len(reqs) :
             toAgent'[i] = IF i <= Len(toAgent) THEN toAgent[i] ELSE reqs[i - Len(toAgent)]
    BY <1>2, ConcatProperties, LenProperties DEF Sends
  <2>3. \A i \in DOMAIN toAgent' :
          toAgent'[i].op \in Notable => i + 0 \in DOMAIN toAgent /\ toAgent'[i] = toAgent[i + 0]
    <3> SUFFICES ASSUME NEW i \in DOMAIN toAgent', toAgent'[i].op \in Notable
                 PROVE  i + 0 \in DOMAIN toAgent /\ toAgent'[i] = toAgent[i + 0]
      OBVIOUS
    <3>1. CASE i <= Len(toAgent)
      BY <2>1, <2>2, <3>1
    <3>2. CASE ~(i <= Len(toAgent))
      <4>1. i - Len(toAgent) \in DOMAIN reqs /\ toAgent'[i] = reqs[i - Len(toAgent)]
        BY <2>1, <2>2, <3>2
      <4>2. QED
        BY <4>1
    <3>3. QED
      BY <3>1, <3>2
  <2>4. QED
    BY <2>3 DEF NothingNew
<1>3. QED
  BY <1>1, <1>2

\* One request is added at the end, or the agent is dead.
LEMMA SendsOne ==
  ASSUME toAgent \in Seq(Request), NEW x \in Request, Sends(<<x>>)
  PROVE  /\ toAgent' \in Seq(Request)
         /\ \A i \in DOMAIN toAgent' :
              \/ i \in DOMAIN toAgent /\ toAgent'[i] = toAgent[i]
              \/ i = Len(toAgent) + 1 /\ toAgent'[i] = x
<1>1. CASE ~alive
  BY <1>1 DEF Sends
<1>2. CASE alive
  <2>1. toAgent' = Append(toAgent, x)
    BY <1>2, AppendIsConcat DEF Sends
  <2>2. QED
    BY <2>1, AppendProperties, LenProperties
<1>3. QED
  BY <1>1, <1>2

\* The agent takes the oldest request.
LEMMA TakenOff ==
  ASSUME toAgent \in Seq(Request), toAgent # <<>>, toAgent' = Tail(toAgent)
  PROVE  /\ toAgent' \in Seq(Request)
         /\ 1 \in DOMAIN toAgent /\ Head(toAgent) = toAgent[1] /\ toAgent[1] \in Request
         /\ \A i \in DOMAIN toAgent' : /\ i \in Nat \ {0}
                                       /\ i + 1 \in DOMAIN toAgent
                                       /\ toAgent'[i] = toAgent[i + 1]
         /\ NothingNew(toAgent', toAgent)
<1>1. /\ toAgent' \in Seq(Request)
      /\ DOMAIN toAgent' = 1 .. Len(toAgent') /\ DOMAIN toAgent = 1 .. Len(toAgent)
      /\ Len(toAgent) \in Nat /\ Len(toAgent') \in Nat
      /\ Len(toAgent') = Len(toAgent) - 1
      /\ \A i \in 1 .. Len(toAgent') : toAgent'[i] = toAgent[i + 1]
  BY HeadTailProperties, LenProperties
<1>2. \A i \in DOMAIN toAgent' : /\ i \in Nat \ {0} /\ i + 1 \in DOMAIN toAgent
                                 /\ toAgent'[i] = toAgent[i + 1]
  BY <1>1
<1>3. 1 \in DOMAIN toAgent /\ Head(toAgent) = toAgent[1] /\ toAgent[1] \in Request
  BY <1>1, HeadTailProperties
<1>4. QED
  BY <1>1, <1>2, <1>3 DEF NothingNew

-----------------------------------------------------------------------------
(* Types.                                                                   *)

LEMMA Bounds ==
  /\ MaxPrompts \in [Provider -> Nat] /\ MaxAsks \in [Provider -> Nat]
  /\ Prompt \subseteq Nat \ {0} /\ Ask \subseteq Nat \ {0}
  BY BoundAssumption DEF Prompt, Ask, Provider

LEMMA TypedInit == Init => TypeOK
<1> SUFFICES ASSUME Init PROVE TypeOK
  OBVIOUS
<1>1. prompted \in 0 .. MaxPrompts[provider] /\ asked \in 0 .. MaxAsks[provider]
  BY Bounds DEF Init
<1>2. access \in [approval : Policy \cup {"none"}, ready : BOOLEAN, pending : BOOLEAN]
  BY DEF Init
<1>3. queue \in Seq(Command) /\ toAgent \in Seq(Request)
  BY EmptySeq DEF Init
<1>4. QED
  BY <1>1, <1>2, <1>3 DEF Init, TypeOK

LEMMA QueueLess ==
  ASSUME TypeOK, queue # <<>>
  PROVE  Head(queue) \in Command /\ Tail(queue) \in Seq(Command)
  BY HeadTailProperties DEF TypeOK

LEMMA AnswersTyped ==
  ASSUME NEW set \in SUBSET Ask
  PROVE  /\ Answers(set) \in Seq(Request)
         /\ \A i \in DOMAIN Answers(set) : Answers(set)[i].op \notin Notable
<1>1. [op |-> "answer", ids |-> set] \in Request
  BY DEF Request
<1>2. QED
  BY <1>1, EmptySeq DEF Answers, Notable

LEMMA IssueTyped ==
  ASSUME TypeOK, NEW c \in Command, Issue(c)
  PROVE  TypeOK'
<1>1. queue' \in Seq(Command)
  BY AppendProperties DEF Issue, TypeOK
<1>2. QED
  BY <1>1 DEF Issue, TypeOK, agentVars, used, eventVars, history

\* A step that leaves the agent, the wire, the permissions and the events alone.
LEMMA QuietTyped ==
  ASSUME TypeOK, provider' = provider, access' = access, prompts' = prompts, perms' = perms,
         toAgent' = toAgent, fromAgent' = fromAgent, UNCHANGED agentVars, UNCHANGED used,
         UNCHANGED eventVars, UNCHANGED history,
         phase' \in {"starting", "loop", "applying", "left", "gone"},
         held' \in BOOLEAN, open' \in BOOLEAN, caller' \in BOOLEAN, optionsOk' \in BOOLEAN,
         queue' \in Seq(Command)
  PROVE  TypeOK'
<1>1. /\ alive' = alive /\ policy' = policy /\ running' = running /\ halted' = halted
      /\ turn' = turn /\ announced' = announced /\ exited' = exited
      /\ prompted' = prompted /\ asked' = asked
      /\ cancelled' = cancelled /\ mistaken' = mistaken
  BY DEF agentVars, used, eventVars, history
<1>2. QED
  BY <1>1 DEF TypeOK

LEMMA WorkerTyped == TypeOK /\ Worker => TypeOK'
<1> SUFFICES ASSUME TypeOK, Worker PROVE TypeOK'
  OBVIOUS
<1>1. ASSUME NEW op \in {"prompt", "steer", "cancel", "options"}, Tell(op)
      PROVE  TypeOK'
  <2>1. [op |-> op] \in Command
    BY DEF Command
  <2>2. QED
    BY <1>1, <2>1, IssueTyped DEF Tell
<1>2. ASSUME NEW a \in Ask, Respond(a)
      PROVE  TypeOK'
  <2>1. [op |-> "respond", id |-> a] \in Command
    BY DEF Command
  <2>2. QED
    BY <1>2, <2>1, IssueTyped DEF Respond
<1>3. ASSUME NEW m \in Mode, SetToolApproval(m)
      PROVE  TypeOK'
  <2>1. [op |-> "approval", mode |-> m, expired |-> FALSE] \in Command
    BY DEF Command
  <2>2. queue' \in Seq(Command)
    BY <1>3, <2>1, AppendProperties DEF SetToolApproval, TypeOK
  <2>3. QED
    BY <1>3, <2>2 DEF SetToolApproval, TypeOK, agentVars, used, eventVars, history
<1>4. CASE PromptTooLate
  BY <1>4 DEF PromptTooLate, TypeOK, Says, loopVars, agentVars, used, history
<1>5. CASE Drop
  <2>1. [op |-> "shutdown"] \in Command
    BY DEF Command
  <2>2. queue' \in Seq(Command)
    BY <1>5, <2>1, AppendProperties DEF Drop, TypeOK
  <2>3. /\ phase' = phase /\ held' = FALSE /\ open' = open /\ caller' = caller
        /\ optionsOk' = optionsOk
        /\ phase \in {"starting", "loop", "applying", "left", "gone"}
        /\ open \in BOOLEAN /\ caller \in BOOLEAN /\ optionsOk \in BOOLEAN
    BY <1>5 DEF Drop, TypeOK
  <2>4. QED
    BY <1>5, <2>2, <2>3, QuietTyped DEF Drop
<1>6. CASE TimesOut
  <2>1. \A c \in Command : c.op = "approval" => [c EXCEPT !.expired = TRUE] \in Command
    BY DEF Command
  <2>2. queue \in [1 .. Len(queue) -> Command] /\ Len(queue) \in Nat
    BY LenProperties DEF TypeOK
  <2>3. queue' \in [1 .. Len(queue) -> Command]
    BY <1>6, <2>1, <2>2 DEF TimesOut
  <2>4. queue' \in Seq(Command)
    BY <2>2, <2>3, IsASeq
  <2>5. /\ caller' \in BOOLEAN
        /\ UNCHANGED <<provider, phase, held, open, access, optionsOk, prompts, perms, toAgent,
                       fromAgent, agentVars, used, eventVars, history>>
    BY <1>6 DEF TimesOut
  <2>6. QED
    BY <2>4, <2>5 DEF TypeOK, agentVars, used, eventVars, history
<1>7. QED
  BY <1>1, <1>2, <1>3, <1>4, <1>5, <1>6 DEF Worker

LEMMA BeginTyped == TypeOK /\ Begin => TypeOK'
<1> SUFFICES ASSUME TypeOK, Begin PROVE TypeOK'
  OBVIOUS
<1>1. ASSUME NEW m \in Mode, NEW restoring \in BOOLEAN, NEW applied \in BOOLEAN,
             Connect(m, restoring, applied)
      PROVE  TypeOK'
  <2>1. policy' \in Policy /\ Mode \subseteq Policy
    BY <1>1 DEF Connect, InitialPolicy, TypeOK, Policy
  <2>2. access' \in [approval : Policy \cup {"none"}, ready : BOOLEAN, pending : BOOLEAN]
    <3>1. CASE provider = "deerflow"
      <4>1. access' = [approval |-> policy', ready |-> TRUE, pending |-> FALSE]
        BY <1>1, <3>1 DEF Connect
      <4>2. QED
        BY <2>1, <4>1
    <3>2. CASE provider # "deerflow"
      BY <1>1, <3>2 DEF Connect, TypeOK
    <3>3. QED
      BY <3>1, <3>2
  <2>3. announced' \in Policy \cup {"none"}
    BY <1>1, <2>1 DEF Connect, Announces, TypeOK
  <2>4. optionsOk' \in BOOLEAN
    BY <1>1 DEF Connect
  <2>5. QED
    BY <1>1, <2>1, <2>2, <2>3, <2>4 DEF Connect, TypeOK, used, history
<1>2. CASE ConnectFails
  <2>1. held \in BOOLEAN /\ caller \in BOOLEAN /\ optionsOk \in BOOLEAN /\ queue \in Seq(Command)
    BY DEF TypeOK
  <2>2. QED
    BY <1>2, <2>1, QuietTyped DEF ConnectFails
<1>3. QED
  BY <1>1, <1>2 DEF Begin

LEMMA PromptSent ==
  ASSUME TypeOK, NEW p \in Prompt, SendPrompt(p) \/ Steer(p)
  PROVE  /\ [op |-> "prompt", id |-> p] \in Request
         /\ Sends(<<[op |-> "prompt", id |-> p]>>)
         /\ p = prompted + 1 /\ prompted \in Nat
         /\ prompted' = p /\ prompts' = prompts \cup {p}
         /\ UNCHANGED <<provider, phase, open, held, caller, access, optionsOk, perms, fromAgent,
                        alive, policy, running, halted, asked, announced, exited, history>>
         /\ queue' \in Seq(Command)
         /\ TypeOK'
<1>1. [op |-> "prompt", id |-> p] \in Request
  BY DEF Request
<1>2. toAgent' \in Seq(Request)
  BY <1>1, SendsOne DEF SendPrompt, Steer, TypeOK
<1>3. queue' \in Seq(Command)
  BY QueueLess DEF SendPrompt, Steer, Takes
<1>4. prompted \in Nat /\ prompted' \in 0 .. MaxPrompts[provider]
  BY Bounds DEF SendPrompt, Steer, TypeOK
<1>5. turn' \in {"none", "open", "failed", "succeeded"}
  BY DEF SendPrompt, Steer, Says, TypeOK, eventVars, history
<1>6. prompts' \subseteq Prompt
  BY DEF SendPrompt, Steer, TypeOK
<1>7. UNCHANGED <<provider, phase, open, held, caller, access, optionsOk, perms, fromAgent,
                  alive, policy, running, halted, asked, announced, exited, history>>
  BY DEF SendPrompt, Steer, agentVars, eventVars, history
<1>8. TypeOK'
  BY <1>2, <1>3, <1>4, <1>5, <1>6, <1>7 DEF TypeOK, history
<1>9. QED
  BY <1>1, <1>3, <1>4, <1>7, <1>8 DEF SendPrompt, Steer

\* One request of the driver's own, which is not a prompt.
LEMMA OneSent ==
  ASSUME TypeOK, NEW x \in Request, NEW ids \in SUBSET Ask, Sends(<<x>> \o Answers(ids))
  PROVE  /\ toAgent' \in Seq(Request)
         /\ x.op \notin Notable => NothingNew(toAgent', toAgent)
<1> DEFINE reqs == <<x>> \o Answers(ids)
<1>1. <<x>> \in Seq(Request) /\ Len(<<x>>) = 1 /\ <<x>>[1] = x
  OBVIOUS
<1>2. Answers(ids) \in Seq(Request) /\ \A i \in DOMAIN Answers(ids) : Answers(ids)[i].op \notin Notable
  BY AnswersTyped
<1>3. /\ reqs \in Seq(Request)
      /\ Len(reqs) = 1 + Len(Answers(ids))
      /\ \A i \in 1 .. 1 + Len(Answers(ids)) :
           reqs[i] = IF i <= 1 THEN x ELSE Answers(ids)[i - 1]
  BY <1>1, <1>2, ConcatProperties
<1>4. toAgent' \in Seq(Request)
  BY <1>3, SendsTyped DEF TypeOK
<1>5. ASSUME x.op \notin Notable
      PROVE  NothingNew(toAgent', toAgent)
  <2>1. Len(Answers(ids)) \in Nat /\ DOMAIN Answers(ids) = 1 .. Len(Answers(ids))
        /\ DOMAIN reqs = 1 .. Len(reqs)
    BY <1>2, <1>3, LenProperties
  <2>2. ASSUME NEW i \in DOMAIN reqs
        PROVE  reqs[i].op \notin Notable
    <3>1. CASE i <= 1
      BY <1>3, <1>5, <2>1, <2>2, <3>1
    <3>2. CASE ~(i <= 1)
      <4>1. i - 1 \in DOMAIN Answers(ids) /\ reqs[i] = Answers(ids)[i - 1]
        BY <1>3, <2>1, <2>2, <3>2
      <4>2. QED
        BY <1>2, <4>1
    <3>3. QED
      BY <3>1, <3>2
  <2>3. QED
    BY <1>3, <2>2, PlainSends DEF TypeOK
<1>6. QED
  BY <1>4, <1>5

LEMMA AnswersSent ==
  ASSUME TypeOK, NEW ids \in SUBSET Ask, Sends(Answers(ids))
  PROVE  toAgent' \in Seq(Request) /\ NothingNew(toAgent', toAgent)
  BY AnswersTyped, SendsTyped, PlainSends DEF TypeOK

LEMMA LoopTyped == TypeOK /\ Loop => TypeOK'
<1> SUFFICES ASSUME TypeOK, Loop PROVE TypeOK'
  OBVIOUS
<1>q. queue # <<>> => Head(queue) \in Command /\ Tail(queue) \in Seq(Command)
  BY QueueLess
<1>1. CASE RejectPrompt
  BY <1>1, <1>q DEF RejectPrompt, Takes, Says, TypeOK, agentVars, used, history
<1>2. ASSUME NEW p \in Prompt, SendPrompt(p) \/ Steer(p)
      PROVE  TypeOK'
  BY <1>2, PromptSent
<1>3. CASE SendPromptFails
  BY <1>3, <1>q DEF SendPromptFails, Takes, Says, TypeOK, agentVars, used, history
<1>4. CASE RejectSteer
  BY <1>4, <1>q DEF RejectSteer, Takes, TypeOK, agentVars, used, eventVars, history
<1>5. CASE Cancel
  <2>1. [op |-> "cancel"] \in Request
    BY DEF Request
  <2>2. toAgent' \in Seq(Request)
    BY <1>5, <2>1, OneSent DEF Cancel, TypeOK
  <2>3. QED
    BY <1>5, <1>q, <2>2 DEF Cancel, Takes, TypeOK, agentVars, used, eventVars, history
<1>6. CASE Answer
  <2>1. toAgent' \in Seq(Request)
    BY <1>6, AnswersSent DEF Answer, TypeOK
  <2>2. QED
    BY <1>6, <1>q, <2>1 DEF Answer, Takes, TypeOK, agentVars, used, eventVars, history
<1>7. CASE RefuseApproval
  <2>1. caller' \in BOOLEAN
    BY <1>7 DEF RefuseApproval
  <2>2. QED
    BY <1>7, <1>q, <2>1 DEF RefuseApproval, Takes, TypeOK, agentVars, used, eventVars, history
<1>8. CASE RequestApproval
  <2>1. Head(queue).mode \in Mode
    BY <1>8, <1>q DEF RequestApproval, Takes, Command
  <2>2. [op |-> "policy", want |-> Head(queue).mode] \in Request
    BY <2>1 DEF Request
  <2>3. toAgent' \in Seq(Request)
    BY <1>8, <2>2, SendsOne DEF RequestApproval, TypeOK
  <2>4. access' \in [approval : Policy \cup {"none"}, ready : BOOLEAN, pending : BOOLEAN]
    BY <1>8 DEF RequestApproval, TypeOK
  <2>5. QED
    BY <1>8, <1>q, <2>3, <2>4 DEF RequestApproval, Takes, TypeOK, agentVars, used, eventVars, history
<1>9. CASE RequestApprovalFails
  <2>1. access' \in [approval : Policy \cup {"none"}, ready : BOOLEAN, pending : BOOLEAN]
    BY <1>9 DEF RequestApprovalFails, TypeOK
  <2>2. QED
    BY <1>9, <1>q, <2>1 DEF RequestApprovalFails, Takes, TypeOK, agentVars, used, eventVars, history
<1>10. CASE ApplyOptions
  <2>1. [op |-> "options"] \in Request
    BY DEF Request
  <2>2. toAgent' \in Seq(Request)
    BY <1>10, <2>1, SendsOne DEF ApplyOptions, TypeOK
  <2>3. QED
    BY <1>10, <1>q, <2>2 DEF ApplyOptions, Takes, TypeOK, agentVars, used, eventVars, history
<1>11. ASSUME NEW msg \in fromAgent, Applied(msg)
       PROVE  TypeOK'
  <2>1. optionsOk' \in BOOLEAN
    <3>1. msg.ok \in BOOLEAN
      BY <1>11 DEF Applied, TypeOK, Message
    <3>2. QED
      BY <1>11, <3>1 DEF Applied
  <2>2. QED
    BY <1>11, <2>1 DEF Applied, TypeOK, agentVars, used, eventVars, history
<1>12. CASE ApplyBreaks
  BY <1>12 DEF ApplyBreaks, TypeOK, agentVars, used, eventVars, history
<1>13. CASE Leave
  <2>1. toAgent' \in Seq(Request)
    BY <1>13, AnswersSent DEF Leave, TypeOK
  <2>2. QED
    BY <1>13, <2>1 DEF Leave, TypeOK, agentVars, used, eventVars, history
<1>14. CASE Exit
  BY <1>14, EmptySeq DEF Exit, TypeOK, used, history
<1>15. QED
  BY <1>1, <1>2, <1>3, <1>4, <1>5, <1>6, <1>7, <1>8, <1>9, <1>10, <1>11, <1>12, <1>13, <1>14 DEF Loop

\* A message of each kind.
LEMMA Heard ==
  ASSUME TypeOK, NEW msg \in fromAgent
  PROVE  /\ Settling(msg) => msg.id \in Prompt
         /\ msg.op = "reply" => msg.ok \in BOOLEAN
         /\ msg.op = "ask" => msg.id \in Ask
         /\ msg.op = "policy" => msg.want \in Mode /\ msg.is \in Policy \cup {"error"}
  BY DEF TypeOK, Message, Settling

LEMMA UnderWayTyped == TypeOK => UnderWay \subseteq Prompt
<1> SUFFICES ASSUME TypeOK, NEW i \in DOMAIN toAgent, toAgent[i].op = "prompt"
             PROVE  toAgent[i].id \in Prompt
  BY DEF UnderWay
<1>1. toAgent[i] \in Request
  BY LenProperties DEF TypeOK
<1>2. QED
  BY <1>1 DEF Request

LEMMA CallbackTyped == TypeOK /\ Callback => TypeOK'
<1> SUFFICES ASSUME TypeOK, Callback PROVE TypeOK'
  OBVIOUS
<1>1. CASE Closed
  <2>1. /\ held' = held /\ open' = FALSE /\ UNCHANGED <<phase, queue, caller, optionsOk>>
        /\ provider' = provider /\ access' = access /\ prompts' = prompts /\ perms' = perms
        /\ toAgent' = toAgent /\ fromAgent' = fromAgent /\ UNCHANGED agentVars
        /\ UNCHANGED used /\ UNCHANGED eventVars /\ UNCHANGED history
    BY <1>1 DEF Closed, loopVars, history
  <2>2. /\ phase \in {"starting", "loop", "applying", "left", "gone"} /\ held \in BOOLEAN
        /\ caller \in BOOLEAN /\ optionsOk \in BOOLEAN /\ queue \in Seq(Command)
    BY DEF TypeOK
  <2>3. QED
    BY <2>1, <2>2, QuietTyped
<1>2. ASSUME NEW msg \in fromAgent, PromptSettled(msg) \/ PromptComplete(msg)
      PROVE  TypeOK'
  <2>1. /\ prompts' \subseteq prompts /\ cancelled' \subseteq cancelled
        /\ fromAgent' \subseteq fromAgent
        /\ turn' \in {turn, "failed", "succeeded"}
        /\ mistaken' \subseteq mistaken \cup running \cup UnderWay
    BY <1>2 DEF PromptSettled, PromptComplete, Settle, Finishes, Says, Hears
  <2>2. UNCHANGED <<provider, held, loopVars, open, access, perms, toAgent, agentVars, used, announced,
                    exited>>
    BY <1>2 DEF PromptSettled, PromptComplete
  <2>3. QED
    BY <2>1, <2>2, UnderWayTyped DEF TypeOK, loopVars, agentVars, used
<1>3. ASSUME NEW msg \in fromAgent, ApprovalSettled(msg)
      PROVE  TypeOK'
  <2>1. fromAgent' \subseteq fromAgent /\ caller' \in BOOLEAN /\ msg.want \in Mode
    BY <1>3, Heard DEF ApprovalSettled, Hears
  <2>2. /\ access' \in [approval : Policy \cup {"none"}, ready : BOOLEAN, pending : BOOLEAN]
        /\ announced' \in Policy \cup {"none"}
    <3>1. CASE msg.is = msg.want
      <4>1. msg.is \in Policy
        BY <2>1, <3>1 DEF Policy
      <4>2. access' = [approval |-> msg.is, ready |-> TRUE, pending |-> FALSE] /\ Announces(msg.is)
        BY <1>3, <3>1 DEF ApprovalSettled
      <4>3. QED
        BY <4>1, <4>2 DEF Announces, TypeOK
    <3>2. CASE msg.is # msg.want
      BY <1>3, <3>2 DEF ApprovalSettled, TypeOK
    <3>3. QED
      BY <3>1, <3>2
  <2>3. UNCHANGED <<provider, phase, held, open, queue, optionsOk, prompts, perms, toAgent, agentVars,
                    used, turn, exited, history>>
    BY <1>3 DEF ApprovalSettled
  <2>4. QED
    BY <2>1, <2>2, <2>3 DEF TypeOK, agentVars, used, history
<1>4. ASSUME NEW msg \in fromAgent, PermissionAsked(msg)
      PROVE  TypeOK'
  <2>1. msg.id \in Ask /\ fromAgent' \subseteq fromAgent
    BY <1>4, Heard DEF PermissionAsked, Hears
  <2>2. toAgent' \in Seq(Request) /\ perms' \subseteq Ask
    <3>1. CASE provider = "fast"
      BY <1>4, <2>1, <3>1, AnswersSent DEF PermissionAsked, TypeOK
    <3>2. CASE provider # "fast"
      BY <1>4, <2>1, <3>2 DEF PermissionAsked, TypeOK
    <3>3. QED
      BY <3>1, <3>2
  <2>3. UNCHANGED <<provider, held, loopVars, open, access, prompts, agentVars, used, eventVars,
                    history>>
    BY <1>4 DEF PermissionAsked
  <2>4. QED
    BY <2>1, <2>2, <2>3 DEF TypeOK, loopVars, agentVars, used, eventVars, history
<1>5. ASSUME NEW p \in Prompt, PromptLost(p)
      PROVE  TypeOK'
  <2>1. prompts' \subseteq prompts /\ cancelled' \subseteq cancelled /\ turn' \in {turn, "failed"}
    BY <1>5 DEF PromptLost, Settle, Finishes, Says
  <2>2. UNCHANGED <<provider, held, loopVars, open, access, perms, toAgent, fromAgent, agentVars, used,
                    announced, exited, mistaken>>
    BY <1>5 DEF PromptLost
  <2>3. QED
    BY <2>1, <2>2 DEF TypeOK, loopVars, agentVars, used, history
<1>6. QED
  BY <1>1, <1>2, <1>3, <1>4, <1>5 DEF Callback

\* The agent takes a request of the kind it expects.
LEMMA Received ==
  ASSUME TypeOK, NEW op, Receives(op)
  PROVE  /\ toAgent' \in Seq(Request) /\ alive
         /\ 1 \in DOMAIN toAgent /\ Head(toAgent) = toAgent[1]
         /\ Head(toAgent) \in Request /\ Head(toAgent).op = op
         /\ \A i \in DOMAIN toAgent' : /\ i \in Nat \ {0}
                                       /\ i + 1 \in DOMAIN toAgent
                                       /\ toAgent'[i] = toAgent[i + 1]
         /\ NothingNew(toAgent', toAgent)
<1>1. toAgent \in Seq(Request) /\ toAgent # <<>> /\ toAgent' = Tail(toAgent)
  BY DEF TypeOK, Receives
<1>2. QED
  BY <1>1, TakenOff DEF Receives

LEMMA AgentTyped == TypeOK /\ Agent => TypeOK'
<1> SUFFICES ASSUME TypeOK, Agent PROVE TypeOK'
  OBVIOUS
<1>1. CASE AgentRuns
  <2>1. toAgent' \in Seq(Request) /\ Head(toAgent).id \in Prompt
    BY <1>1, Received DEF AgentRuns, Request
  <2>2. halted' = halted /\ running' = running \cup {Head(toAgent).id}
        /\ UNCHANGED <<provider, held, loopVars, open, access, prompts, perms, fromAgent, alive, policy,
                       used, eventVars, history>>
    BY <1>1 DEF AgentRuns
  <2>3. QED
    BY <2>1, <2>2 DEF TypeOK, loopVars, used, eventVars, history
<1>2. CASE AgentRefuses
  <2>1. toAgent' \in Seq(Request) /\ Head(toAgent).id \in Prompt
    BY <1>2, Received DEF AgentRefuses, Request
  <2>2. [op |-> "reply", id |-> Head(toAgent).id, ok |-> FALSE] \in Message
    BY <2>1 DEF Message
  <2>3. /\ fromAgent' \subseteq Message
        /\ UNCHANGED <<provider, held, loopVars, open, access, prompts, perms, agentVars, used, eventVars,
                       history>>
    BY <1>2, <2>2 DEF AgentRefuses, TypeOK
  <2>4. QED
    BY <2>1, <2>3 DEF TypeOK, loopVars, agentVars, used, eventVars, history
<1>3. CASE AgentCancels
  <2>1. toAgent' \in Seq(Request)
    BY <1>3, Received DEF AgentCancels
  <2>2. QED
    BY <1>3, <2>1 DEF AgentCancels, TypeOK, loopVars, used, eventVars, history
<1>4. CASE AgentIsAnswered
  <2>1. toAgent' \in Seq(Request)
    BY <1>4, Received DEF AgentIsAnswered
  <2>2. QED
    BY <1>4, <2>1 DEF AgentIsAnswered, TypeOK, loopVars, agentVars, used, eventVars, history
<1>5. ASSUME NEW ok \in BOOLEAN, AgentConfigures(ok)
      PROVE  TypeOK'
  <2>1. toAgent' \in Seq(Request) /\ [op |-> "options", ok |-> ok] \in Message
    BY <1>5, Received DEF AgentConfigures, Message
  <2>2. QED
    BY <1>5, <2>1 DEF AgentConfigures, TypeOK, loopVars, agentVars, used, eventVars, history
<1>6. ASSUME NEW is \in Policy \cup {"error"}, AgentSetsPolicy(is)
      PROVE  TypeOK'
  <2>1. toAgent' \in Seq(Request) /\ Head(toAgent).want \in Mode
    BY <1>6, Received DEF AgentSetsPolicy, Request
  <2>2. [op |-> "policy", want |-> Head(toAgent).want, is |-> is] \in Message
    BY <2>1 DEF Message
  <2>3. policy' \in Policy
    BY <1>6 DEF AgentSetsPolicy, TypeOK
  <2>4. QED
    BY <1>6, <2>1, <2>2, <2>3 DEF AgentSetsPolicy, TypeOK, loopVars, used, eventVars, history
<1>7. ASSUME NEW a \in Ask, AgentAsks(a)
      PROVE  TypeOK'
  <2>1. [op |-> "ask", id |-> a] \in Message
    BY DEF Message
  <2>2. asked' \in 0 .. MaxAsks[provider]
    BY <1>7, Bounds DEF AgentAsks, TypeOK
  <2>3. QED
    BY <1>7, <2>1, <2>2 DEF AgentAsks, TypeOK, loopVars, agentVars, eventVars, history
<1>8. ASSUME NEW p \in Prompt, NEW ok \in BOOLEAN, AgentEnds(p, ok)
      PROVE  TypeOK'
  <2>1. /\ [op |-> "reply", id |-> p, ok |-> ok] \in Message
        /\ \A named \in BOOLEAN : [op |-> "complete", id |-> p, named |-> named] \in Message
    BY DEF Message
  <2>2. fromAgent' \subseteq Message
    BY <1>8, <2>1 DEF AgentEnds, TypeOK
  <2>3. halted' \subseteq running' /\ running' \subseteq Prompt /\ mistaken' \subseteq Prompt
    BY <1>8 DEF AgentEnds, TypeOK
  <2>4. UNCHANGED <<provider, held, loopVars, open, access, prompts, perms, toAgent, alive, policy, used,
                    eventVars, cancelled>>
    BY <1>8 DEF AgentEnds
  <2>5. QED
    BY <2>2, <2>3, <2>4 DEF TypeOK, loopVars, used, eventVars, history
<1>9. CASE AgentDies
  <2>1. toAgent' \in Seq(Request) /\ running' = {} /\ halted' = {} /\ alive' \in BOOLEAN
        /\ mistaken' = {}
    BY <1>9, EmptySeq DEF AgentDies
  <2>2. UNCHANGED <<provider, held, loopVars, open, access, prompts, perms, fromAgent, policy, used,
                    eventVars, cancelled>>
    BY <1>9 DEF AgentDies
  <2>3. QED
    BY <2>1, <2>2 DEF TypeOK, loopVars, used, eventVars, history
<1>10. QED
  BY <1>1, <1>2, <1>3, <1>4, <1>5, <1>6, <1>7, <1>8, <1>9 DEF Agent, AgentAnswers

LEMMA NextTyped == TypeOK /\ [Next]_vars => TypeOK'
<1>1. TypeOK /\ UNCHANGED vars => TypeOK'
  BY DEF TypeOK, vars, agentVars, used, eventVars, history
<1>2. QED
  BY <1>1, WorkerTyped, BeginTyped, LoopTyped, CallbackTyped, AgentTyped DEF Next

-----------------------------------------------------------------------------
(* The steps that neither send nor settle a prompt or a change.             *)

Plain ==
  /\ NothingNew(toAgent', toAgent)
  /\ \A msg \in fromAgent' : msg.op \in {"reply", "complete", "policy"} => msg \in fromAgent
  /\ UNCHANGED <<provider, prompts, prompted, access, policy, announced>>
  /\ running' \subseteq running /\ mistaken' \subseteq mistaken
  /\ mistaken' = mistaken \/ (toAgent' = <<>> /\ running' = {})
  /\ ~alive' => toAgent' = <<>> /\ running' = {}
  /\ exited => exited'
  /\ turn' = "succeeded" => turn = "succeeded" \/ exited'
  /\ phase' = "starting" =>
       phase = "starting" /\ toAgent' \in {toAgent, <<>>} /\ fromAgent' = fromAgent

LEMMA PlainPlaced ==
  ASSUME TypeOK, TypeOK', Placed, Plain
  PROVE  Placed'
<1>1. PICK k \in {0, 1} :
        \A i \in DOMAIN toAgent' :
          toAgent'[i].op \in Notable => i + k \in DOMAIN toAgent /\ toAgent'[i] = toAgent[i + k]
  BY DEF Plain, NothingNew
<1>2. /\ Answered' \subseteq Answered
      /\ Listed' \subseteq Listed
      /\ Listed' = Listed \/ (DOMAIN toAgent' = {} /\ running' = {})
  BY DEF Plain, Answered, Settling, Listed
<1>3. \A i \in DOMAIN toAgent' : toAgent'[i].op = "prompt" =>
        /\ i + k \in DOMAIN toAgent /\ toAgent'[i] = toAgent[i + k]
        /\ toAgent'[i].id \in Listed' \ running' /\ toAgent'[i].id \notin Answered
  BY <1>1, <1>2 DEF Plain, Placed, Notable
<1>4. \A i, j \in DOMAIN toAgent' :
        toAgent'[i].op = "prompt" /\ toAgent'[j].op = "prompt" /\ i # j =>
          toAgent'[i].id # toAgent'[j].id
  <2> SUFFICES ASSUME NEW i \in DOMAIN toAgent', NEW j \in DOMAIN toAgent',
                      toAgent'[i].op = "prompt", toAgent'[j].op = "prompt", i # j
               PROVE  toAgent'[i].id # toAgent'[j].id
    OBVIOUS
  <2>1. i \in Nat /\ j \in Nat
    BY LenProperties DEF TypeOK
  <2>2. i + k # j + k
    BY <2>1
  <2>3. QED
    BY <1>3, <2>2 DEF Placed
<1>5. running' \subseteq Listed' /\ \A p \in running' : p \notin Answered'
  BY <1>2 DEF Plain, Placed
<1>6. \A p \in Listed' : p <= prompted'
  BY <1>2 DEF Plain, Placed
<1>7. \A msg \in fromAgent' : Settling(msg) => msg.id <= prompted'
  BY DEF Plain, Placed, Settling
<1>8. ~alive' => toAgent' = <<>> /\ running' = {}
  BY DEF Plain
<1>9. \A i \in DOMAIN toAgent' : toAgent'[i].op = "prompt" =>
        toAgent'[i].id \in Listed' \ running' /\ toAgent'[i].id \notin Answered'
  BY <1>2, <1>3
<1>10. QED
  BY <1>4, <1>5, <1>6, <1>7, <1>8, <1>9 DEF Placed

\* The state of the approval is as it was, and nothing of a change is new.
LEMMA ConfirmedKept ==
  ASSUME TypeOK, TypeOK', Confirmed, NothingNew(toAgent', toAgent),
         \A msg \in fromAgent' : msg.op = "policy" => msg \in fromAgent,
         UNCHANGED <<provider, access, policy, announced>>,
         access.ready \/ prompts' \subseteq prompts, exited => exited'
  PROVE  Confirmed'
<1> SUFFICES ASSUME provider = "deerflow" PROVE Confirmed'
  BY DEF Confirmed
<1>1. PICK k \in {0, 1} :
        \A i \in DOMAIN toAgent' :
          toAgent'[i].op \in Notable => i + k \in DOMAIN toAgent /\ toAgent'[i] = toAgent[i + k]
  BY DEF NothingNew
<1>2. \A i \in DOMAIN toAgent' : toAgent'[i].op = "policy" =>
        access'.pending /\ \A msg \in fromAgent' : msg.op # "policy"
  BY <1>1 DEF Confirmed, Notable
<1>3. \A i, j \in DOMAIN toAgent' :
        toAgent'[i].op = "policy" /\ toAgent'[j].op = "policy" => i = j
  <2> SUFFICES ASSUME NEW i \in DOMAIN toAgent', NEW j \in DOMAIN toAgent',
                      toAgent'[i].op = "policy", toAgent'[j].op = "policy"
               PROVE  i = j
    OBVIOUS
  <2>1. i \in Nat /\ j \in Nat
    BY LenProperties DEF TypeOK
  <2>2. i + k = j + k
    BY <1>1 DEF Confirmed, Notable
  <2>3. QED
    BY <2>1, <2>2
<1>4. /\ \A msg \in fromAgent' : msg.op = "policy" =>
           access'.pending /\ (msg.is # "error" => policy' = msg.is)
      /\ \A m1, m2 \in fromAgent' : m1.op = "policy" /\ m2.op = "policy" => m1 = m2
  BY DEF Confirmed
<1>5. /\ access'.pending => ~access'.ready
      /\ ~access'.ready => prompts' = {}
      /\ access'.ready /\ ~exited' => policy' = announced'
  BY DEF Confirmed
<1>6. QED
  BY <1>2, <1>3, <1>4, <1>5 DEF Confirmed

LEMMA PlainKeeps ==
  ASSUME IInv, TypeOK', Plain
  PROVE  IInv'
<1>1. Placed'
  BY PlainPlaced DEF IInv
<1>2. Rested' /\ Named'
  BY DEF IInv, Rested, Named, Plain
<1>3. Fresh'
  BY DEF IInv, Fresh, Plain
<1>4. Confirmed'
  BY ConfirmedKept DEF IInv, Plain
<1>5. QED
  BY <1>1, <1>2, <1>3, <1>4 DEF IInv

LEMMA WorkerPlain == IInv /\ Worker => Plain
<1> SUFFICES ASSUME IInv, Worker PROVE Plain
  OBVIOUS
<1> DEFINE Aside == /\ UNCHANGED <<provider, prompts, prompted, mistaken, access, policy, announced, phase, toAgent,
                                   fromAgent, alive, running>>
                    /\ exited => exited'
                    /\ turn' = "succeeded" => turn = "succeeded" \/ exited'
<1>a. ASSUME NEW c, Issue(c)
      PROVE  Aside
  BY <1>a DEF Issue, agentVars, used, eventVars, history
<1>1. Aside
  <2>1. ASSUME NEW op, Tell(op)
        PROVE  Aside
    BY <1>a, <2>1 DEF Tell
  <2>2. ASSUME NEW a, Respond(a)
        PROVE  Aside
    BY <1>a, <2>2 DEF Respond
  <2>3. ASSUME NEW m, SetToolApproval(m)
        PROVE  Aside
    BY <2>3 DEF SetToolApproval, agentVars, used, eventVars, history
  <2>4. CASE PromptTooLate
    BY <2>4 DEF PromptTooLate, loopVars, agentVars, used, history
  <2>5. CASE Drop \/ TimesOut
    BY <2>5 DEF Drop, TimesOut, agentVars, used, eventVars, history
  <2>6. QED
    BY <2>1, <2>2, <2>3, <2>4, <2>5 DEF Worker
<1>2. NothingNew(toAgent', toAgent)
  BY <1>1, SameIsNotNew DEF IInv, TypeOK
<1>3. QED
  BY <1>1, <1>2 DEF Plain, IInv, Placed

\* What the loop does without the agent.
LEMMA LoopPlain ==
  ASSUME IInv,
         \/ ConnectFails \/ RejectPrompt \/ SendPromptFails \/ RejectSteer \/ RefuseApproval
         \/ ApplyBreaks \/ Closed \/ UNCHANGED vars
         \/ \E msg \in fromAgent : Applied(msg)
  PROVE  Plain
<1>1. /\ UNCHANGED <<provider, prompts, prompted, mistaken, access, policy, announced, toAgent, alive, running>>
      /\ fromAgent' \subseteq fromAgent
      /\ exited => exited'
      /\ turn' = "succeeded" => turn = "succeeded" \/ exited'
      /\ phase' = "starting" => phase = "starting" /\ fromAgent' = fromAgent
  BY DEF ConnectFails, RejectPrompt, SendPromptFails, RejectSteer, RefuseApproval, ApplyBreaks, Closed,
         Applied, Takes, Says, agentVars, used, eventVars, loopVars, vars, history
<1>2. NothingNew(toAgent', toAgent)
  BY <1>1, SameIsNotNew DEF IInv, TypeOK
<1>3. QED
  BY <1>1, <1>2 DEF Plain, IInv, Placed

\* What it sends besides prompts and changes of the approval.
LEMMA SendPlain ==
  ASSUME IInv,
         \/ Cancel \/ Answer \/ ApplyOptions \/ Leave
         \/ \E msg \in fromAgent : PermissionAsked(msg)
  PROVE  Plain
<1>1. NothingNew(toAgent', toAgent) /\ (~alive => toAgent' = toAgent)
  <2>1. CASE Cancel
    <3>1. [op |-> "cancel"] \in Request /\ [op |-> "cancel"].op \notin Notable
      BY DEF Request, Notable
    <3>2. Sends(<<[op |-> "cancel"]>> \o Answers(perms)) /\ perms \in SUBSET Ask
      BY <2>1 DEF Cancel, IInv, TypeOK
    <3>3. QED
      BY <3>1, <3>2, OneSent DEF IInv, Sends
  <2>2. CASE Answer \/ Leave
    <3>1. \E ids \in SUBSET Ask : Sends(Answers(ids))
      BY <2>2 DEF Answer, Leave, IInv, TypeOK
    <3>2. QED
      BY <3>1, AnswersSent DEF IInv, Sends
  <2>3. CASE ApplyOptions
    <3>1. [op |-> "options"] \in Request /\ [op |-> "options"].op \notin Notable
      BY DEF Request, Notable
    <3>2. Sends(<<[op |-> "options"]>> \o Answers({}))
      BY <2>3 DEF ApplyOptions, Sends, Answers
    <3>3. QED
      BY <3>1, <3>2, OneSent DEF IInv, Sends
  <2>4. ASSUME NEW msg \in fromAgent, PermissionAsked(msg)
        PROVE  NothingNew(toAgent', toAgent) /\ (~alive => toAgent' = toAgent)
    <3>1. {msg.id} \in SUBSET Ask
      BY <2>4, Heard DEF PermissionAsked, Hears, IInv
    <3>2. CASE provider = "fast"
      <4>1. Sends(Answers({msg.id}))
        BY <2>4, <3>2 DEF PermissionAsked
      <4>2. QED
        BY <3>1, <4>1, AnswersSent DEF IInv, Sends
    <3>3. CASE provider # "fast"
      BY <2>4, <3>3, SameIsNotNew DEF PermissionAsked, IInv, TypeOK
    <3>4. QED
      BY <3>2, <3>3
  <2>5. QED
    BY <2>1, <2>2, <2>3, <2>4
<1>2. /\ UNCHANGED <<provider, prompts, prompted, mistaken, access, policy, announced, alive, running, turn, exited>>
      /\ fromAgent' \subseteq fromAgent
      /\ phase' # "starting"
  BY DEF Cancel, Answer, ApplyOptions, Leave, PermissionAsked, Hears, Takes, agentVars, used, eventVars,
         loopVars, history
<1>3. QED
  BY <1>1, <1>2 DEF Plain, IInv, Placed

\* What the agent does with other requests, and on its own.
LEMMA AgentPlain ==
  ASSUME IInv,
         \/ AgentCancels \/ AgentIsAnswered \/ AgentDies
         \/ \E ok \in BOOLEAN : AgentConfigures(ok)
         \/ \E a \in Ask : AgentAsks(a)
  PROVE  Plain
<1>1. /\ UNCHANGED <<provider, prompts, prompted, access, policy, announced, turn, exited, phase>>
      /\ alive
      /\ \A msg \in fromAgent' : msg.op \in {"reply", "complete", "policy"} => msg \in fromAgent
  BY DEF AgentCancels, AgentIsAnswered, AgentDies, AgentConfigures, AgentAsks, Receives, agentVars, used,
         eventVars, loopVars, history
<1>2. /\ NothingNew(toAgent', toAgent)
      /\ running' \subseteq running /\ mistaken' \subseteq mistaken
      /\ mistaken' = mistaken \/ (toAgent' = <<>> /\ running' = {})
      /\ ~alive' => toAgent' = <<>> /\ running' = {}
      /\ phase = "starting" => toAgent' \in {toAgent, <<>>} /\ fromAgent' = fromAgent
  <2>1. CASE AgentCancels
    BY <2>1, Received DEF AgentCancels, IInv, Fresh, Receives, history
  <2>2. CASE AgentIsAnswered
    BY <2>2, Received DEF AgentIsAnswered, IInv, Fresh, Receives, agentVars, history
  <2>3. CASE AgentDies
    BY <2>3, NoneIsNotNew DEF AgentDies
  <2>4. ASSUME NEW ok \in BOOLEAN, AgentConfigures(ok)
        PROVE  /\ NothingNew(toAgent', toAgent)
               /\ running' \subseteq running /\ mistaken' = mistaken
               /\ ~alive' => toAgent' = <<>> /\ running' = {}
               /\ phase = "starting" => toAgent' \in {toAgent, <<>>} /\ fromAgent' = fromAgent
    BY <2>4, Received DEF AgentConfigures, IInv, Fresh, Receives, agentVars, history
  <2>5. ASSUME NEW a \in Ask, AgentAsks(a)
        PROVE  /\ NothingNew(toAgent', toAgent)
               /\ running' \subseteq running /\ mistaken' = mistaken
               /\ ~alive' => toAgent' = <<>> /\ running' = {}
               /\ phase = "starting" => toAgent' \in {toAgent, <<>>} /\ fromAgent' = fromAgent
    BY <2>5, SameIsNotNew DEF AgentAsks, IInv, TypeOK, Fresh, Placed, Listed, agentVars, history
  <2>6. QED
    BY <2>1, <2>2, <2>3, <2>4, <2>5
<1>3. QED
  BY <1>1, <1>2 DEF Plain

-----------------------------------------------------------------------------
(* The steps of prompts and of changes of the approval.                     *)

\* A new prompt has an id that is nowhere yet.
LEMMA PromptGiven ==
  ASSUME IInv, NEW p \in Prompt, SendPrompt(p) \/ Steer(p)
  PROVE  IInv'
<1>t. TypeOK
  BY DEF IInv
<1>1. /\ [op |-> "prompt", id |-> p] \in Request
      /\ Sends(<<[op |-> "prompt", id |-> p]>>)
      /\ p = prompted + 1 /\ prompted \in Nat
      /\ prompted' = p /\ prompts' = prompts \cup {p}
      /\ UNCHANGED <<provider, phase, open, held, caller, access, optionsOk, perms, fromAgent,
                     alive, policy, running, halted, asked, announced, exited, history>>
      /\ TypeOK'
  BY <1>t, PromptSent
<1>2. phase = "loop"
  BY DEF SendPrompt, Steer, Takes
<1>3. \A i \in DOMAIN toAgent' :
        \/ i \in DOMAIN toAgent /\ toAgent'[i] = toAgent[i]
        \/ i = Len(toAgent) + 1 /\ toAgent'[i] = [op |-> "prompt", id |-> p]
  BY <1>t, <1>1, SendsOne DEF TypeOK
<1>4. /\ Listed \subseteq Nat /\ (\A q \in Listed : q <= prompted) /\ p \notin Listed
      /\ Listed' = Listed \cup {p}
  <2>1. Listed \subseteq Nat /\ \A q \in Listed : q <= prompted
    BY <1>t, Bounds DEF IInv, Placed, TypeOK, Listed
  <2>2. Listed' = Listed \cup {p}
    BY <1>1 DEF Listed, history
  <2>3. QED
    BY <1>1, <2>1, <2>2
<1>5. p \notin Answered
  <2>1. ASSUME NEW msg \in fromAgent, Settling(msg)
        PROVE  msg.id # p
    <3>1. msg.id <= prompted /\ msg.id \in Nat
      BY <1>t, <2>1, Heard, Bounds DEF IInv, Placed
    <3>2. QED
      BY <1>1, <3>1
  <2>2. QED
    BY <2>1 DEF Answered
<1>6. Placed'
  <2>1. \A i \in DOMAIN toAgent' : toAgent'[i].op = "prompt" =>
          toAgent'[i].id \in Listed' \ running' /\ toAgent'[i].id \notin Answered'
    BY <1>1, <1>3, <1>4, <1>5 DEF IInv, Placed, Answered
  <2>2. \A i, j \in DOMAIN toAgent' :
          toAgent'[i].op = "prompt" /\ toAgent'[j].op = "prompt" /\ i # j =>
            toAgent'[i].id # toAgent'[j].id
    <3> SUFFICES ASSUME NEW i \in DOMAIN toAgent', NEW j \in DOMAIN toAgent',
                        toAgent'[i].op = "prompt", toAgent'[j].op = "prompt", i # j
                 PROVE  toAgent'[i].id # toAgent'[j].id
      OBVIOUS
    <3>1. \A m \in DOMAIN toAgent : toAgent[m].op = "prompt" => toAgent[m].id # p
      BY <1>4 DEF IInv, Placed
    <3>2. QED
      BY <1>3, <3>1 DEF IInv, Placed
  <2>3. running' \subseteq Listed' /\ \A q \in running' : q \notin Answered'
    BY <1>1, <1>4 DEF IInv, Placed, Answered
  <2>4. \A q \in Listed' : q <= prompted'
    BY <1>1, <1>4
  <2>5. ASSUME NEW msg \in fromAgent', Settling(msg)
        PROVE  msg.id <= prompted'
    <3>1. msg.id <= prompted /\ msg.id \in Nat
      BY <1>t, <1>1, <2>5, Heard, Bounds DEF IInv, Placed
    <3>2. QED
      BY <1>1, <3>1
  <2>6. ~alive' => toAgent' = <<>> /\ running' = {}
    BY <1>1 DEF IInv, Placed, Sends
  <2>7. QED
    BY <2>1, <2>2, <2>3, <2>4, <2>5, <2>6 DEF Placed
<1>7. Rested'
  <2>1. CASE SendPrompt(p)
    BY <2>1 DEF SendPrompt, Says, Rested
  <2>2. CASE Steer(p)
    BY <2>2 DEF Steer, eventVars, Rested, IInv, history
  <2>3. QED
    BY <2>1, <2>2
<1>8. Fresh' /\ Named'
  BY <1>1, <1>2 DEF Fresh, IInv, Named, history
<1>9. Confirmed'
  <2> SUFFICES ASSUME provider = "deerflow" PROVE Confirmed'
    BY <1>1 DEF Confirmed
  <2>1. access.ready
    BY DEF SendPrompt, Steer, Usable, IInv, Confirmed
  <2>2. \A i \in DOMAIN toAgent' : toAgent'[i].op = "policy" =>
          i \in DOMAIN toAgent /\ toAgent'[i] = toAgent[i]
    BY <1>3
  <2>3. \A i \in DOMAIN toAgent' : toAgent'[i].op # "policy"
    BY <2>1, <2>2 DEF IInv, Confirmed
  <2>4. QED
    BY <1>1, <2>1, <2>3 DEF IInv, Confirmed
<1>10. QED
  BY <1>1, <1>6, <1>7, <1>8, <1>9 DEF IInv

\* A prompt is settled that the agent no longer has, or by mistake.
LEMMA SettledKeeps ==
  ASSUME IInv, TypeOK', NEW p, NEW ok \in BOOLEAN, Settle(p, ok),
         p \in running \cup UnderWay => p \in mistaken',
         mistaken \subseteq mistaken', mistaken' \subseteq mistaken \cup ({p} \cap (running \cup UnderWay)),
         provider # "grok" => mistaken' = mistaken,
         fromAgent' \subseteq fromAgent, phase' = phase, phase # "starting",
         UNCHANGED <<provider, access, toAgent, alive, policy, running, prompted, announced, exited>>
  PROVE  IInv'
<1>1. /\ prompts' = prompts \ {p}
      /\ \A i \in DOMAIN toAgent : toAgent[i].op = "prompt" => toAgent[i].id \in UnderWay
      /\ running \cup UnderWay \subseteq Listed
  BY DEF Settle, IInv, Placed, UnderWay
<1>2. Answered' \subseteq Answered
  BY DEF Answered
<1>3. /\ Listed' \subseteq Listed
      /\ \A q \in running \cup UnderWay : q \in Listed'
  BY <1>1 DEF Listed
<1>4. Placed'
  BY <1>1, <1>2, <1>3 DEF IInv, Placed
<1>5. Rested' /\ Named'
  BY <1>1 DEF IInv, Rested, Named, Settle, Finishes, Says
<1>6. Fresh'
  BY DEF Fresh
<1>7. Confirmed'
  BY <1>1, ConfirmedKept, SameIsNotNew DEF IInv, TypeOK
<1>8. QED
  BY <1>4, <1>5, <1>6, <1>7 DEF IInv

LEMMA PromptsSettled ==
  ASSUME IInv, TypeOK',
         \/ \E msg \in fromAgent : PromptSettled(msg) \/ PromptComplete(msg)
         \/ \E p \in Prompt : PromptLost(p)
  PROVE  IInv'
<1>a. \A p : p \in Answered \/ ~alive => p \notin running \cup UnderWay
  BY DEF IInv, Placed, UnderWay
<1>1. ASSUME NEW msg \in fromAgent, PromptSettled(msg)
      PROVE  IInv'
  <2>1. msg.id \in Answered
    BY <1>1 DEF PromptSettled, Hears, Answered, Settling
  <2>2. msg.ok \in BOOLEAN /\ Settle(msg.id, msg.ok)
    BY <1>1, Heard DEF PromptSettled, Hears, IInv
  <2>3. /\ UNCHANGED <<provider, access, toAgent, alive, policy, running, prompted, announced, exited, phase,
                       mistaken>>
        /\ fromAgent' \subseteq fromAgent /\ phase # "starting"
    BY <1>1 DEF PromptSettled, Hears, loopVars, agentVars, used
  <2>4. QED
    BY <1>a, <2>1, <2>2, <2>3, SettledKeeps
<1>2. ASSUME NEW msg \in fromAgent, PromptComplete(msg)
      PROVE  IInv'
  <2> DEFINE q == Completed(msg)
  <2>1. /\ UNCHANGED <<provider, access, toAgent, alive, policy, running, prompted, announced, exited, phase>>
        /\ fromAgent' \subseteq fromAgent /\ phase # "starting" /\ msg.op = "complete"
        /\ Settle(q, TRUE)
    BY <1>2 DEF PromptComplete, Hears, loopVars, agentVars, used
  <2>2. /\ mistaken' = mistaken /\ q \in Answered
        \/ mistaken' = mistaken \cup ({q} \cap (running \cup UnderWay))
    <3>1. CASE msg.named
      BY <1>2, <2>1, <3>1 DEF PromptComplete, Completed, Answered, Settling
    <3>2. CASE ~msg.named
      BY <1>2, <3>2 DEF PromptComplete
    <3>3. QED
      BY <3>1, <3>2
  <2>3. provider = "grok"
    BY <2>1 DEF IInv, Named
  <2> HIDE DEF q
  <2>4. /\ q \in running \cup UnderWay => q \in mistaken'
        /\ mistaken \subseteq mistaken' /\ mistaken' \subseteq mistaken \cup ({q} \cap (running \cup UnderWay))
    BY <1>a, <2>2
  <2>5. QED
    BY <2>1, <2>3, <2>4, SettledKeeps
<1>3. ASSUME NEW p \in Prompt, PromptLost(p)
      PROVE  IInv'
  <2>1. /\ UNCHANGED <<provider, access, toAgent, alive, policy, running, prompted, announced, exited, phase,
                       mistaken>>
        /\ fromAgent' = fromAgent /\ phase # "starting" /\ ~alive /\ Settle(p, FALSE)
    BY <1>3 DEF PromptLost, loopVars, agentVars, used
  <2>2. QED
    BY <1>a, <2>1, SettledKeeps
<1>4. QED
  BY <1>1, <1>2, <1>3

\* Everything the connection had is gone.
LEMMA ExitKeeps ==
  ASSUME IInv, TypeOK', Exit
  PROVE  IInv'
<1>1. Placed' /\ Rested' /\ Named' /\ Fresh'
  BY DEF Exit, Placed, Listed, Rested, Named, Fresh, Answered, used, history
<1>2. Confirmed'
  BY NoneIsNotNew, ConfirmedKept DEF Exit, IInv
<1>3. QED
  BY <1>1, <1>2 DEF IInv

\* The agent takes a prompt that no one else has.
LEMMA PromptTaken ==
  ASSUME IInv, TypeOK', NEW q, q = Head(toAgent).id, Receives("prompt")
  PROVE  /\ q \in Listed \ running /\ q \notin Answered
         /\ \A i \in DOMAIN toAgent' : toAgent'[i].op = "prompt" =>
              /\ toAgent'[i].id \in Listed \ running
              /\ toAgent'[i].id \notin Answered /\ toAgent'[i].id # q
         /\ \A i, j \in DOMAIN toAgent' :
              toAgent'[i].op = "prompt" /\ toAgent'[j].op = "prompt" /\ i # j =>
                toAgent'[i].id # toAgent'[j].id
         /\ alive /\ NothingNew(toAgent', toAgent) /\ phase # "starting"
<1>1. /\ alive /\ 1 \in DOMAIN toAgent /\ Head(toAgent) = toAgent[1] /\ toAgent[1].op = "prompt"
      /\ \A i \in DOMAIN toAgent' : /\ i \in Nat \ {0} /\ i + 1 \in DOMAIN toAgent
                                    /\ toAgent'[i] = toAgent[i + 1]
      /\ NothingNew(toAgent', toAgent)
  BY Received DEF IInv
<1>2. phase # "starting"
  BY DEF IInv, Fresh, Receives
<1>3. q \in Listed \ running /\ q \notin Answered
  BY <1>1 DEF IInv, Placed
<1>4. ASSUME NEW i \in DOMAIN toAgent', toAgent'[i].op = "prompt"
      PROVE  /\ toAgent'[i].id \in Listed \ running
             /\ toAgent'[i].id \notin Answered /\ toAgent'[i].id # q
  <2>1. i + 1 # 1 /\ i + 1 \in DOMAIN toAgent /\ toAgent[i + 1].op = "prompt"
    BY <1>1, <1>4
  <2>2. QED
    BY <1>1, <2>1 DEF IInv, Placed
<1>5. ASSUME NEW i \in DOMAIN toAgent', NEW j \in DOMAIN toAgent',
             toAgent'[i].op = "prompt", toAgent'[j].op = "prompt", i # j
      PROVE  toAgent'[i].id # toAgent'[j].id
  <2>1. i + 1 # j + 1
    BY <1>1, <1>5
  <2>2. QED
    BY <1>1, <1>5, <2>1 DEF IInv, Placed
<1>6. QED
  BY <1>1, <1>2, <1>3, <1>4, <1>5

LEMMA AgentRunsKeeps ==
  ASSUME IInv, TypeOK', AgentRuns
  PROVE  IInv'
<1> DEFINE q == Head(toAgent).id
<1>1. /\ running' = running \cup {q}
      /\ UNCHANGED <<provider, phase, access, prompts, mistaken, prompted, fromAgent, alive, policy, turn, announced,
                     exited>>
      /\ Receives("prompt")
  BY DEF AgentRuns, loopVars, used, eventVars, history
<1>2. /\ q \in Listed \ running /\ q \notin Answered
      /\ \A i \in DOMAIN toAgent' : toAgent'[i].op = "prompt" =>
           /\ toAgent'[i].id \in Listed \ running
           /\ toAgent'[i].id \notin Answered /\ toAgent'[i].id # q
      /\ \A i, j \in DOMAIN toAgent' :
           toAgent'[i].op = "prompt" /\ toAgent'[j].op = "prompt" /\ i # j =>
             toAgent'[i].id # toAgent'[j].id
      /\ alive /\ NothingNew(toAgent', toAgent) /\ phase # "starting"
  BY <1>1, PromptTaken
<1>l. Listed' = Listed
  BY <1>1 DEF Listed
<1> HIDE DEF q
<1>3. Answered' = Answered
  BY <1>1 DEF Answered
<1>4. Placed'
  BY <1>1, <1>2, <1>3, <1>l DEF IInv, Placed
<1>5. Rested' /\ Fresh' /\ Named'
  BY <1>1, <1>2 DEF IInv, Rested, Fresh, Named
<1>6. Confirmed'
  BY <1>1, <1>2, ConfirmedKept DEF IInv
<1>7. QED
  BY <1>4, <1>5, <1>6 DEF IInv

LEMMA AgentRefusesKeeps ==
  ASSUME IInv, TypeOK', AgentRefuses
  PROVE  IInv'
<1> DEFINE q == Head(toAgent).id
<1> DEFINE reply == [op |-> "reply", id |-> q, ok |-> FALSE]
<1>1. /\ fromAgent' = fromAgent \cup {reply}
      /\ UNCHANGED <<provider, phase, access, prompts, mistaken, prompted, running, alive, policy, turn, announced,
                     exited>>
      /\ Receives("prompt")
  BY DEF AgentRefuses, loopVars, used, eventVars, agentVars, history
<1>2. /\ q \in Listed \ running /\ q \notin Answered
      /\ \A i \in DOMAIN toAgent' : toAgent'[i].op = "prompt" =>
           /\ toAgent'[i].id \in Listed \ running
           /\ toAgent'[i].id \notin Answered /\ toAgent'[i].id # q
      /\ \A i, j \in DOMAIN toAgent' :
           toAgent'[i].op = "prompt" /\ toAgent'[j].op = "prompt" /\ i # j =>
             toAgent'[i].id # toAgent'[j].id
      /\ alive /\ NothingNew(toAgent', toAgent) /\ phase # "starting"
  BY <1>1, PromptTaken
<1>3. reply.op = "reply" /\ reply.id = q
  OBVIOUS
<1>l. Listed' = Listed
  BY <1>1 DEF Listed
<1> HIDE DEF q, reply
<1>4. Answered' \subseteq Answered \cup {q}
  BY <1>1, <1>3 DEF Answered
<1>5. Placed'
  <2>1. \A msg \in fromAgent' : Settling(msg) => msg.id <= prompted'
    BY <1>1, <1>2, <1>3 DEF IInv, Placed
  <2>2. \A p \in running' : p \notin Answered'
    BY <1>1, <1>2, <1>4 DEF IInv, Placed
  <2>3. QED
    BY <1>1, <1>2, <1>4, <1>l, <2>1, <2>2 DEF IInv, Placed
<1>6. Rested' /\ Fresh' /\ Named'
  BY <1>1, <1>2, <1>3 DEF IInv, Rested, Fresh, Named
<1>7. Confirmed'
  BY <1>1, <1>2, <1>3, ConfirmedKept DEF IInv
<1>8. QED
  BY <1>5, <1>6, <1>7 DEF IInv

LEMMA AgentEndsKeeps ==
  ASSUME IInv, TypeOK', NEW p \in Prompt, NEW ok \in BOOLEAN, AgentEnds(p, ok)
  PROVE  IInv'
<1>1. /\ p \in running /\ running' = running \ {p}
      /\ UNCHANGED <<provider, phase, access, prompts, prompted, toAgent, alive, policy, turn, announced,
                     exited>>
      /\ alive /\ mistaken' = mistaken \ {p}
  BY DEF AgentEnds, loopVars, used, eventVars, history
<1>2. \A msg \in fromAgent' : \/ msg \in fromAgent
                              \/ /\ Settling(msg) /\ msg.id = p
                                 /\ provider # "grok" => msg.op # "complete"
  BY DEF AgentEnds, Settling
<1>3. /\ p \in Listed /\ phase # "starting"
      /\ Listed' \subseteq Listed /\ \A q \in Listed : q # p => q \in Listed'
      /\ \A i \in DOMAIN toAgent : toAgent[i].op = "prompt" => toAgent[i].id # p
  BY <1>1 DEF IInv, Placed, Fresh, Listed
<1>4. Answered' \subseteq Answered \cup {p}
  BY <1>2 DEF Answered
<1>5. Placed'
  <2>1. \A msg \in fromAgent' : Settling(msg) => msg.id <= prompted'
    BY <1>1, <1>2, <1>3 DEF IInv, Placed
  <2>2. QED
    BY <1>1, <1>3, <1>4, <2>1 DEF IInv, Placed
<1>6. Rested' /\ Fresh' /\ Named'
  BY <1>1, <1>2, <1>3 DEF IInv, Rested, Fresh, Named
<1>7. Confirmed'
  <2>1. \A msg \in fromAgent' : msg.op = "policy" => msg \in fromAgent
    BY <1>2 DEF Settling
  <2>2. QED
    BY <1>1, <2>1, ConfirmedKept, SameIsNotNew DEF IInv, TypeOK
<1>8. QED
  BY <1>5, <1>6, <1>7 DEF IInv

LEMMA ConnectKeeps ==
  ASSUME IInv, TypeOK', NEW mode, NEW restoring, NEW applied, Connect(mode, restoring, applied)
  PROVE  IInv'
<1>1. /\ UNCHANGED <<provider, toAgent, fromAgent, prompts, mistaken, prompted, running, alive, turn, exited>>
      /\ phase = "starting" /\ phase' = "loop"
  BY DEF Connect, used, history
<1>2. toAgent = <<>> /\ fromAgent = {} /\ prompts = {}
  BY <1>1 DEF IInv, Fresh
<1>3. Placed' /\ Rested' /\ Fresh' /\ Named'
  BY <1>1 DEF IInv, Placed, Listed, Rested, Fresh, Named, Answered
<1>4. Confirmed'
  <2> SUFFICES ASSUME provider = "deerflow" PROVE Confirmed'
    BY <1>1 DEF Confirmed
  <2>1. access' = [approval |-> policy', ready |-> TRUE, pending |-> FALSE] /\ Announces(policy')
    BY DEF Connect
  <2>2. access'.ready /\ ~access'.pending /\ (~exited' => policy' = announced')
    BY <1>1, <2>1 DEF Announces
  <2>3. QED
    BY <1>1, <1>2, <2>2 DEF Confirmed
<1>5. QED
  BY <1>3, <1>4 DEF IInv

\* A change is asked for when none is open and no prompt is left.
LEMMA RequestKeeps ==
  ASSUME IInv, TypeOK', RequestApproval
  PROVE  IInv'
<1> DEFINE x == [op |-> "policy", want |-> Head(queue).mode]
<1>1. /\ UNCHANGED <<provider, phase, fromAgent, prompts, mistaken, prompted, running, alive, policy, turn, announced,
                     exited>>
      /\ phase = "loop" /\ prompts = {} /\ ~access.pending /\ Sends(<<x>>)
      /\ access' = [access EXCEPT !.pending = TRUE, !.ready = FALSE]
  BY DEF RequestApproval, MayChange, Takes, agentVars, used, eventVars, history
<1>2. x \in Request
  <2>1. Head(queue).mode \in Mode
    BY QueueLess DEF RequestApproval, Takes, Command, IInv
  <2>2. QED
    BY <2>1 DEF Request
<1>3. \A i \in DOMAIN toAgent' :
        \/ i \in DOMAIN toAgent /\ toAgent'[i] = toAgent[i]
        \/ i = Len(toAgent) + 1 /\ toAgent'[i].op = "policy"
  BY <1>1, <1>2, SendsOne DEF IInv, TypeOK
<1>4. access'.pending /\ ~access'.ready
  BY <1>1 DEF IInv, TypeOK
<1> HIDE DEF x
<1>5. Placed'
  <2>1. \A i \in DOMAIN toAgent' : toAgent'[i].op = "prompt" =>
          i \in DOMAIN toAgent /\ toAgent'[i] = toAgent[i]
    BY <1>3
  <2>2. ~alive' => toAgent' = <<>>
    BY <1>1 DEF Sends, IInv, Placed
  <2>3. QED
    BY <1>1, <2>1, <2>2 DEF IInv, Placed, Listed, Answered
<1>6. Rested' /\ Fresh' /\ Named'
  BY <1>1 DEF IInv, Rested, Fresh, Named
<1>7. Confirmed'
  <2> SUFFICES ASSUME provider = "deerflow" PROVE Confirmed'
    BY <1>1 DEF Confirmed
  <2>1. /\ \A i \in DOMAIN toAgent : toAgent[i].op # "policy"
        /\ \A msg \in fromAgent : msg.op # "policy"
    BY <1>1 DEF IInv, Confirmed
  <2>2. \A i \in DOMAIN toAgent' : toAgent'[i].op = "policy" => i = Len(toAgent) + 1
    BY <1>3, <2>1
  <2>3. QED
    BY <1>1, <1>4, <2>1, <2>2 DEF Confirmed
<1>8. QED
  BY <1>5, <1>6, <1>7 DEF IInv

LEMMA RequestFailsKeeps ==
  ASSUME IInv, TypeOK', RequestApprovalFails
  PROVE  IInv'
<1>1. /\ UNCHANGED <<provider, phase, toAgent, fromAgent, prompts, mistaken, prompted, running, alive, policy, turn,
                     announced, exited>>
      /\ phase = "loop" /\ prompts = {} /\ ~access.pending
      /\ access' = [access EXCEPT !.ready = FALSE]
  BY DEF RequestApprovalFails, MayChange, Takes, agentVars, used, eventVars, history
<1>2. access'.pending = access.pending /\ ~access'.ready
  BY <1>1 DEF IInv, TypeOK
<1>3. Placed' /\ Rested' /\ Fresh' /\ Named'
  BY <1>1 DEF IInv, Placed, Listed, Rested, Fresh, Named, Answered
<1>4. Confirmed'
  BY <1>1, <1>2 DEF IInv, Confirmed
<1>5. QED
  BY <1>3, <1>4 DEF IInv

\* The agent has the only change there is.
LEMMA SetsPolicyKeeps ==
  ASSUME IInv, TypeOK', NEW is \in Policy \cup {"error"}, AgentSetsPolicy(is)
  PROVE  IInv'
<1> DEFINE answer == [op |-> "policy", want |-> Head(toAgent).want, is |-> is]
<1>1. /\ UNCHANGED <<provider, phase, access, prompts, mistaken, prompted, running, alive, turn, announced, exited>>
      /\ Receives("policy") /\ fromAgent' = fromAgent \cup {answer}
      /\ policy' = IF is = "error" THEN policy ELSE is
  BY DEF AgentSetsPolicy, loopVars, used, eventVars, history
<1>2. /\ 1 \in DOMAIN toAgent /\ toAgent[1].op = "policy" /\ alive
      /\ \A i \in DOMAIN toAgent' : /\ i \in Nat \ {0} /\ i + 1 \in DOMAIN toAgent
                                    /\ toAgent'[i] = toAgent[i + 1]
  BY <1>1, Received DEF IInv
<1>3. answer.op = "policy" /\ answer.is = is
  OBVIOUS
<1> HIDE DEF answer
<1>4. phase # "starting"
  BY <1>1 DEF IInv, Fresh, Receives
<1>5. Answered' = Answered /\ Listed' = Listed
  BY <1>1, <1>3 DEF Answered, Settling, Listed
<1>6. Placed'
  <2>1. \A i, j \in DOMAIN toAgent' : i # j => i + 1 # j + 1
    BY <1>2
  <2>2. \A i, j \in DOMAIN toAgent' :
          toAgent'[i].op = "prompt" /\ toAgent'[j].op = "prompt" /\ i # j =>
            toAgent'[i].id # toAgent'[j].id
    BY <1>2, <2>1 DEF IInv, Placed
  <2>3. \A i \in DOMAIN toAgent' : toAgent'[i].op = "prompt" =>
          toAgent'[i].id \in Listed' \ running' /\ toAgent'[i].id \notin Answered'
    BY <1>1, <1>2, <1>5 DEF IInv, Placed
  <2>4. \A msg \in fromAgent' : Settling(msg) => msg.id <= prompted'
    BY <1>1, <1>3 DEF IInv, Placed, Settling
  <2>5. QED
    BY <1>1, <1>2, <1>5, <2>2, <2>3, <2>4 DEF IInv, Placed
<1>7. Rested' /\ Fresh' /\ Named'
  BY <1>1, <1>3, <1>4 DEF IInv, Rested, Fresh, Named
<1>8. Confirmed'
  <2> SUFFICES ASSUME provider = "deerflow" PROVE Confirmed'
    BY <1>1 DEF Confirmed
  <2>1. access.pending /\ ~access.ready /\ prompts = {} /\ \A msg \in fromAgent : msg.op # "policy"
    BY <1>2 DEF IInv, Confirmed
  <2>2. \A i \in DOMAIN toAgent' : toAgent'[i].op # "policy"
    <3> SUFFICES ASSUME NEW i \in DOMAIN toAgent', toAgent'[i].op = "policy" PROVE FALSE
      OBVIOUS
    <3>1. i + 1 # 1 /\ i + 1 \in DOMAIN toAgent /\ toAgent[i + 1].op = "policy"
      BY <1>2
    <3>2. QED
      BY <1>2, <3>1 DEF IInv, Confirmed
  <2>3. \A msg \in fromAgent' : msg.op = "policy" => msg = answer
    BY <1>1, <2>1
  <2>4. QED
    BY <1>1, <1>3, <2>1, <2>2, <2>3 DEF Confirmed
<1>9. QED
  BY <1>6, <1>7, <1>8 DEF IInv

\* Its answer closes it.
LEMMA ApprovalKeeps ==
  ASSUME IInv, TypeOK', NEW msg \in fromAgent, ApprovalSettled(msg)
  PROVE  IInv'
<1>1. /\ UNCHANGED <<provider, phase, toAgent, prompts, mistaken, prompted, running, alive, policy, turn, exited>>
      /\ fromAgent' = fromAgent \ {msg} /\ msg.op = "policy" /\ phase # "starting"
  BY DEF ApprovalSettled, Hears, agentVars, used, history
<1>2. msg.want \in Mode /\ "error" \notin Mode
  BY <1>1, Heard DEF IInv, Mode
<1>3. Answered' \subseteq Answered /\ Listed' = Listed
  BY <1>1 DEF Answered, Listed
<1>4. Placed' /\ Rested' /\ Fresh' /\ Named'
  BY <1>1, <1>3 DEF IInv, Placed, Rested, Fresh, Named
<1>5. Confirmed'
  <2> SUFFICES ASSUME provider = "deerflow" PROVE Confirmed'
    BY <1>1 DEF Confirmed
  <2>1. /\ access.pending /\ ~access.ready /\ prompts = {}
        /\ \A m \in fromAgent' : m.op # "policy"
        /\ \A i \in DOMAIN toAgent : toAgent[i].op # "policy"
        /\ msg.is # "error" => policy = msg.is
    BY <1>1 DEF IInv, Confirmed
  <2>2. CASE msg.is = msg.want
    <3>1. access' = [approval |-> msg.is, ready |-> TRUE, pending |-> FALSE] /\ Announces(msg.is)
      BY <2>2 DEF ApprovalSettled
    <3>2. access'.ready /\ ~access'.pending /\ (~exited' => announced' = msg.is) /\ policy' = msg.is
      BY <1>1, <1>2, <2>1, <2>2, <3>1 DEF Announces
    <3>3. QED
      BY <1>1, <2>1, <3>2 DEF Confirmed
  <2>3. CASE msg.is # msg.want
    <3>1. access' = [access EXCEPT !.pending = FALSE, !.ready = FALSE]
      BY <2>3 DEF ApprovalSettled
    <3>2. ~access'.ready /\ ~access'.pending
      BY <3>1 DEF IInv, TypeOK
    <3>3. QED
      BY <1>1, <2>1, <3>2 DEF Confirmed
  <2>4. QED
    BY <2>2, <2>3
<1>6. QED
  BY <1>4, <1>5 DEF IInv

-----------------------------------------------------------------------------
LEMMA InitIInv == Init => IInv
<1> SUFFICES ASSUME Init PROVE IInv
  OBVIOUS
<1>1. Placed /\ Rested /\ Named /\ Fresh /\ Confirmed
  BY DEF Init, Placed, Listed, Rested, Named, Fresh, Confirmed, Answered
<1>2. QED
  BY <1>1, TypedInit DEF IInv

LEMMA NextIInv == IInv /\ [Next]_vars => IInv'
<1> SUFFICES ASSUME IInv, [Next]_vars PROVE IInv'
  OBVIOUS
<1>t. TypeOK'
  BY NextTyped DEF IInv
<1>1. CASE UNCHANGED vars
  BY <1>t, <1>1, LoopPlain, PlainKeeps
<1>2. CASE Worker
  BY <1>t, <1>2, WorkerPlain, PlainKeeps
<1>3. CASE Begin
  <2>1. ASSUME NEW m \in Mode, NEW restoring \in BOOLEAN, NEW applied \in BOOLEAN,
               Connect(m, restoring, applied)
        PROVE  IInv'
    BY <1>t, <2>1, ConnectKeeps
  <2>2. CASE ConnectFails
    BY <1>t, <2>2, LoopPlain, PlainKeeps
  <2>3. QED
    BY <1>3, <2>1, <2>2 DEF Begin
<1>4. CASE Loop
  <2>1. ASSUME NEW p \in Prompt, SendPrompt(p) \/ Steer(p)
        PROVE  IInv'
    BY <2>1, PromptGiven
  <2>2. CASE RequestApproval
    BY <1>t, <2>2, RequestKeeps
  <2>3. CASE RequestApprovalFails
    BY <1>t, <2>3, RequestFailsKeeps
  <2>4. CASE Exit
    BY <1>t, <2>4, ExitKeeps
  <2>5. CASE Cancel \/ Answer \/ ApplyOptions \/ Leave
    BY <1>t, <2>5, SendPlain, PlainKeeps
  <2>6. CASE \/ RejectPrompt \/ SendPromptFails \/ RejectSteer \/ RefuseApproval \/ ApplyBreaks
             \/ \E msg \in fromAgent : Applied(msg)
    BY <1>t, <2>6, LoopPlain, PlainKeeps
  <2>7. QED
    BY <1>4, <2>1, <2>2, <2>3, <2>4, <2>5, <2>6 DEF Loop
<1>5. CASE Callback
  <2>1. CASE Closed
    BY <1>t, <2>1, LoopPlain, PlainKeeps
  <2>2. CASE \/ \E msg \in fromAgent : PromptSettled(msg) \/ PromptComplete(msg)
             \/ \E p \in Prompt : PromptLost(p)
    BY <1>t, <2>2, PromptsSettled
  <2>3. ASSUME NEW msg \in fromAgent, ApprovalSettled(msg)
        PROVE  IInv'
    BY <1>t, <2>3, ApprovalKeeps
  <2>4. CASE \E msg \in fromAgent : PermissionAsked(msg)
    BY <1>t, <2>4, SendPlain, PlainKeeps
  <2>5. QED
    BY <1>5, <2>1, <2>2, <2>3, <2>4 DEF Callback
<1>6. CASE Agent
  <2>1. CASE AgentRuns
    BY <1>t, <2>1, AgentRunsKeeps
  <2>2. CASE AgentRefuses
    BY <1>t, <2>2, AgentRefusesKeeps
  <2>3. ASSUME NEW is \in Policy \cup {"error"}, AgentSetsPolicy(is)
        PROVE  IInv'
    BY <1>t, <2>3, SetsPolicyKeeps
  <2>4. ASSUME NEW p \in Prompt, NEW ok \in BOOLEAN, AgentEnds(p, ok)
        PROVE  IInv'
    BY <1>t, <2>4, AgentEndsKeeps
  <2>5. CASE \/ AgentCancels \/ AgentIsAnswered \/ AgentDies
             \/ \E ok \in BOOLEAN : AgentConfigures(ok)
             \/ \E a \in Ask : AgentAsks(a)
    BY <1>t, <2>5, AgentPlain, PlainKeeps
  <2>6. QED
    BY <1>6, <2>1, <2>2, <2>3, <2>4, <2>5 DEF Agent, AgentAnswers
<1>7. QED
  BY <1>1, <1>2, <1>3, <1>4, <1>5, <1>6 DEF Next

LEMMA DriverSound == Spec => []IInv
<1>1. QED
  BY InitIInv, NextIInv, PTL DEF Spec

\* Whatever the user, the agent and the ten-second limit do, the driver's
\* state is well formed (acp.rs).
THEOREM DriverTyped == Spec => []TypeOK
<1>1. IInv => TypeOK
  BY DEF IInv
<1>2. QED
  BY <1>1, DriverSound, PTL

\* No prompt runs under a tool approval that was not the last one announced:
\* it is enough that a change is refused while a prompt or another change is
\* open, and a prompt while the approval is unconfirmed.
THEOREM PromptsRunAsAnnounced == Spec => []RunsAsAnnounced
<1>1. IInv => RunsAsAnnounced
  BY DEF IInv, Placed, Listed, Named, Confirmed, RunsAsAnnounced, UnderWay
<1>2. QED
  BY <1>1, DriverSound, PTL

\* A turn that is reported as a success leaves no prompt in the agent but those
\* that an unnamed completion settled by mistake: the list prompt_requests
\* counts the steering prompts with the one they steer.
THEOREM SuccessIsQuiet == Spec => []SuccessMeansQuiet
<1>1. IInv => SuccessMeansQuiet
  BY DEF IInv, Placed, Listed, Rested, SuccessMeansQuiet, UnderWay
<1>2. QED
  BY <1>1, DriverSound, PTL

-----------------------------------------------------------------------------
(* The pools of servers, ServerPool, for any number of threads, slots and   *)
(* processes. They share no state with the ACP driver.                      *)

\* Thread d has claimed slot s and will say how it went.
Starter(d, s) ==
  /\ at[d] = s
  /\ \/ pc[d] \in {"superseded", "start", "probe", "failed"}
     \/ pc[d] \in {"drop", "reaping"} /\ then[d] = "start"

\* Where a thread has a server in hand, and where no other thread has it.
Bound == {"peeked", "superseded", "holding", "drop", "stopping", "reaping", "probe"}
Alone == {"drop", "stopping", "reaping", "probe"}

Refs ==
  /\ \A c \in Caller : ref[c] \in Server <=> pc[c] \in Bound
  /\ \A c \in Caller : pc[c] \in Bound => proc[ref[c]] # "unused"
  /\ \A c, d \in Caller : pc[c] \in Alone /\ c # d => ref[c] # ref[d]
  /\ \A c \in Caller, s \in Slot : pc[c] \in Bound /\ Starter(c, s) => home[ref[c]] = s

\* A slot is starting just when one thread starts its server.
Starters ==
  /\ \A d \in Caller, s \in Slot : Starter(d, s) => state[s] = "starting"
  /\ \A c, d \in Caller, s \in Slot : Starter(c, s) /\ Starter(d, s) => c = d
  /\ \A s \in Slot : state[s] = "starting" => \E d \in Caller : Starter(d, s)

\* A slot is stopping just when one thread stops its server.
Stops(d, s) == pc[d] = "stopping" /\ home[ref[d]] = s

Stoppers ==
  /\ \A d \in Caller, s \in Slot : Stops(d, s) => state[s] = "stopping" /\ then[d] # "start"
  /\ \A c, d \in Caller, s \in Slot : Stops(c, s) /\ Stops(d, s) => c = d
  /\ \A s \in Slot : state[s] = "stopping" => \E d \in Caller : Stops(d, s)

\* A server that a slot runs has a handle, or its destructor is still to come.
Running ==
  \A s \in Slot : state[s] \in Server =>
    /\ home[state[s]] = s
    /\ \E c \in Caller : ref[c] = state[s] /\ pc[c] \in {"peeked", "holding", "drop"}

\* A process that lives is known to its slot, or one thread deals with it.
Living ==
  \A g \in Server : proc[g] = "alive" =>
    \/ state[home[g]] = g
    \/ \E d \in Caller : ref[d] = g /\ pc[d] \in {"probe", "stopping"}

\* Whoever waits does so while someone has to act on the slot.
Waiting ==
  \A c \in Caller : pc[c] = "wait" =>
    \/ state[at[c]] \in {"starting", "stopping"}
    \/ \E d \in Caller : pc[d] = "drop" /\ ref[d] = state[at[c]]

PoolIInv == PoolTypeOK /\ Refs /\ Starters /\ Stoppers /\ Running /\ Living /\ Waiting

USE DEF ServerAssumption

-----------------------------------------------------------------------------
LEMMA PoolTypedInit == ASSUME ServerAssumption PROVE PoolInit => PoolTypeOK
  BY DEF PoolInit, PoolTypeOK, Place

LEMMA ReleaseTyped ==
  ASSUME ServerAssumption, PoolTypeOK, NEW c \in Caller, NEW next \in {"idle", "scan", "start"}, Release(c, next)
  PROVE  /\ pc' \in [Caller -> Place]
         /\ ref' \in [Caller -> Server \cup {NoServer}]
         /\ then' \in [Caller -> {"idle", "scan", "start"}]
  BY DEF Release, PoolTypeOK, Place

LEMMA NotifyTyped ==
  ASSUME ServerAssumption, PoolTypeOK, NEW c \in Caller, NEW next \in Place, NEW s \in Slot, NotifyAll(c, next, s)
  PROVE  pc' \in [Caller -> Place]
  BY DEF NotifyAll, PoolTypeOK, Place

LEMMA PoolNextTyped == ASSUME ServerAssumption PROVE PoolTypeOK /\ Refs /\ [PoolNext]_poolVars => PoolTypeOK'
<1> SUFFICES ASSUME PoolTypeOK, Refs, [PoolNext]_poolVars PROVE PoolTypeOK'
  OBVIOUS
<1>1. CASE UNCHANGED poolVars
  BY <1>1 DEF PoolTypeOK, poolVars
<1>2. ASSUME NEW c \in Caller, Proceed(c)
      PROVE  PoolTypeOK'
  <2>1. ASSUME NEW s \in Slot, Peek(c, s)
        PROVE  PoolTypeOK'
    BY <2>1 DEF Peek, PoolTypeOK, Place
  <2>2. CASE Inspect(c)
    BY <2>2, ReleaseTyped DEF Inspect, PoolTypeOK, Place
  <2>3. CASE NoneLive(c)
    BY <2>3 DEF NoneLive, PoolTypeOK, Place
  <2>4. CASE Share(c)
    BY <2>4 DEF Share, PoolTypeOK, Place, Runs, Upgrades, Looks
  <2>5. CASE Supersede(c)
    BY <2>5 DEF Supersede, PoolTypeOK, Place, Runs, Upgrades, Looks
  <2>6. CASE DropSuperseded(c)
    BY <2>6, ReleaseTyped DEF DropSuperseded, PoolTypeOK
  <2>7. CASE Claim(c)
    BY <2>7 DEF Claim, PoolTypeOK, Place
  <2>8. CASE Wait(c)
    BY <2>8 DEF Wait, PoolTypeOK, Place
  <2>9. ASSUME NEW g \in Server, Spawn(c, g)
        PROVE  PoolTypeOK'
    BY <2>9 DEF Spawn, PoolTypeOK, Place
  <2>10. CASE SpawnFails(c)
    BY <2>10 DEF SpawnFails, PoolTypeOK, Place
  <2>11. CASE ProbeFails(c)
    BY <2>11 DEF ProbeFails, PoolTypeOK, Place
  <2>12. CASE Started(c)
    <3>1. pc' \in [Caller -> Place]
      BY <2>12, NotifyTyped DEF Started, PoolTypeOK, Place
    <3>2. ref[c] \in Server
      BY <2>12 DEF Started, Refs, Bound
    <3>3. QED
      BY <2>12, <3>1, <3>2 DEF Started, PoolTypeOK
  <2>13. CASE StartFails(c)
    BY <2>13, NotifyTyped DEF StartFails, PoolTypeOK, Place
  <2>14. CASE Teardown(c)
    BY <2>14 DEF Teardown, PoolTypeOK, Place
  <2>15. CASE Stopped(c)
    <3>1. then[c] \in Place /\ ref[c] \in Server
      BY <2>15 DEF Stopped, PoolTypeOK, Place, Refs, Bound
    <3>2. pc' \in [Caller -> Place]
      BY <2>15, <3>1, NotifyTyped DEF Stopped, PoolTypeOK
    <3>3. QED
      BY <2>15, <3>1, <3>2 DEF Stopped, PoolTypeOK
  <2>16. CASE Reaped(c)
    BY <2>16 DEF Reaped, PoolTypeOK, Place
  <2>17. QED
    BY <1>2, <2>1, <2>2, <2>3, <2>4, <2>5, <2>6, <2>7, <2>8, <2>9, <2>10, <2>11, <2>12, <2>13, <2>14, <2>15, <2>16 DEF Proceed
<1>3. ASSUME NEW c \in Caller, AnyLive(c)
      PROVE  PoolTypeOK'
  BY <1>3 DEF AnyLive, PoolTypeOK, Place
<1>4. ASSUME NEW c \in Caller, SpuriousWakeup(c)
      PROVE  PoolTypeOK'
  BY <1>4 DEF SpuriousWakeup, PoolTypeOK, Place
<1>5. ASSUME NEW c \in Caller, DropHandle(c)
      PROVE  PoolTypeOK'
  BY <1>5, ReleaseTyped DEF DropHandle, PoolTypeOK, Place
<1>6. ASSUME NEW c \in Caller, NEW s \in Slot, Acquire(c, s)
      PROVE  PoolTypeOK'
  BY <1>6 DEF Acquire, PoolTypeOK, Place
<1>7. ASSUME NEW c \in Caller, NEW d \in Caller, Clone(c, d)
      PROVE  PoolTypeOK'
  BY <1>7 DEF Clone, PoolTypeOK, Place
<1>8. ASSUME NEW g \in Server, Exits(g)
      PROVE  PoolTypeOK'
  BY <1>8 DEF Exits, PoolTypeOK
<1>9. QED
  BY <1>1, <1>2, <1>3, <1>4, <1>5, <1>6, <1>7, <1>8 DEF PoolNext

-----------------------------------------------------------------------------
(* What one thread does leaves the others where they are.                   *)

Others(c) ==
  \A d \in Caller \ {c} :
    pc'[d] = pc[d] /\ ref'[d] = ref[d] /\ at'[d] = at[d] /\ then'[d] = then[d]

\* ... and the slots and processes.
Alike(c) == Others(c) /\ UNCHANGED <<state, proc, home>>

\* A thread without a server goes from one place to another.
LEMMA LooseKeeps ==
  ASSUME ServerAssumption, PoolIInv, PoolTypeOK', NEW c \in Caller, Alike(c), ref'[c] = ref[c],
         pc[c] \in {"idle", "scan", "acquire", "wait"}, pc'[c] \in {"idle", "scan", "acquire"}
  PROVE  PoolIInv'
<1>1. Refs'
  <2>1. ref[c] \notin Server /\ pc'[c] \notin Bound
    BY DEF PoolIInv, Refs, Bound
  <2>2. \A d \in Caller : ref'[d] = ref[d] /\ (pc'[d] \in Bound <=> pc[d] \in Bound)
                         /\ (pc'[d] \in Bound => pc'[d] = pc[d] /\ at'[d] = at[d] /\ then'[d] = then[d])
    BY <2>1 DEF Alike, Others, PoolIInv, Refs
  <2>3. Alone \subseteq Bound
    BY DEF Alone, Bound
  <2>4. \A d \in Caller, s \in Slot : pc'[d] \in Bound /\ Starter(d, s)' => pc[d] \in Bound /\ Starter(d, s)
    BY <2>2 DEF Starter
  <2>5. UNCHANGED <<proc, home>>
    BY DEF Alike
  <2>6. QED
    BY <2>2, <2>3, <2>4, <2>5 DEF PoolIInv, Refs
<1>2. Starters'
  BY DEF PoolIInv, PoolTypeOK, Starters, Starter, Alike, Others, Bound
<1>3. Stoppers'
  BY DEF PoolIInv, PoolTypeOK, Stoppers, Stops, Alike, Others, Bound
<1>4. Running'
  BY DEF PoolIInv, PoolTypeOK, Running, Alike, Others, Bound, Refs
<1>5. Living'
  BY DEF PoolIInv, PoolTypeOK, Living, Alike, Others, Bound, Refs
<1>6. Waiting'
  BY DEF PoolIInv, PoolTypeOK, Waiting, Alike, Others, Bound, Refs
<1>7. QED
  BY <1>1, <1>2, <1>3, <1>4, <1>5, <1>6 DEF PoolIInv

\* A thread gets a handle of a server that another has.
LEMMA TakeKeeps ==
  ASSUME ServerAssumption, PoolIInv, PoolTypeOK', NEW c \in Caller, NEW e \in Caller, Alike(c), c # e,
         pc[c] \in {"idle", "scan", "acquire"}, pc'[c] \in {"peeked", "holding"},
         pc[e] \in {"peeked", "superseded", "holding"}, ref'[c] = ref[e]
  PROVE  PoolIInv'
<1>1. Refs'
  BY DEF PoolIInv, PoolTypeOK, Refs, Bound, Alone, Starter, Alike, Others
<1>2. Starters'
  BY DEF PoolIInv, PoolTypeOK, Starters, Starter, Alike, Others, Bound
<1>3. Stoppers'
  BY SMTT(60) DEF PoolIInv, PoolTypeOK, Stoppers, Stops, Alike, Others, Bound
<1>4. Running'
  BY DEF PoolIInv, PoolTypeOK, Running, Alike, Others, Bound, Refs
<1>5. Living'
  BY DEF PoolIInv, PoolTypeOK, Living, Alike, Others, Bound, Refs
<1>6. Waiting'
  BY DEF PoolIInv, PoolTypeOK, Waiting, Alike, Others, Bound, Refs
<1>7. QED
  BY <1>1, <1>2, <1>3, <1>4, <1>5, <1>6 DEF PoolIInv

\* The thread of any_live keeps the handle.
LEMMA KeepKeeps ==
  ASSUME ServerAssumption, PoolIInv, PoolTypeOK', NEW c \in Caller, Alike(c), ref'[c] = ref[c], at'[c] = at[c],
         pc[c] = "peeked", pc'[c] = "holding"
  PROVE  PoolIInv'
<1>1. Refs'
  BY DEF PoolIInv, PoolTypeOK, Refs, Bound, Alone, Starter, Alike, Others
<1>2. Starters'
  BY DEF PoolIInv, PoolTypeOK, Starters, Starter, Alike, Others
<1>3. Stoppers'
  BY DEF PoolIInv, PoolTypeOK, Stoppers, Stops, Alike, Others
<1>4. Running'
  BY DEF PoolIInv, PoolTypeOK, Running, Alike, Others
<1>5. Living'
  BY DEF PoolIInv, PoolTypeOK, Living, Alike, Others
<1>6. Waiting'
  BY DEF PoolIInv, PoolTypeOK, Waiting, Alike, Others
<1>7. QED
  BY <1>1, <1>2, <1>3, <1>4, <1>5, <1>6 DEF PoolIInv

\* A thread waits where a server starts, or is about to be stopped.
LEMMA WaitKeeps ==
  ASSUME ServerAssumption, PoolIInv, PoolTypeOK', NEW c \in Caller, Wait(c)
  PROVE  PoolIInv'
<1>1. Alike(c) /\ ref' = ref /\ at' = at /\ pc[c] = "acquire" /\ pc'[c] = "wait"
  BY DEF Wait, Looks, Alike, Others, PoolIInv, PoolTypeOK
<1>w. \/ state[at[c]] = "starting"
      \/ \E d \in Caller : pc[d] = "drop" /\ ref[d] = state[at[c]]
  <2>1. CASE state[at[c]] = "starting"
    BY <2>1
  <2>2. CASE Runs(c) /\ ~Upgrades(c)
    BY <2>2 DEF Runs, Upgrades, Strong, Running, PoolIInv, PoolTypeOK
  <2>3. QED
    BY <2>1, <2>2 DEF Wait
<1>2. Refs'
  BY <1>1 DEF PoolIInv, PoolTypeOK, Refs, Bound, Alone, Starter, Alike, Others
<1>3. Starters'
  BY <1>1 DEF PoolIInv, PoolTypeOK, Starters, Starter, Alike, Others
<1>4. Stoppers'
  BY <1>1 DEF PoolIInv, PoolTypeOK, Stoppers, Stops, Alike, Others
<1>5. Running'
  BY <1>1 DEF PoolIInv, PoolTypeOK, Running, Alike, Others
<1>6. Living'
  BY <1>1 DEF PoolIInv, PoolTypeOK, Living, Alike, Others
<1>7. Waiting'
  BY <1>1, <1>w DEF PoolIInv, PoolTypeOK, Waiting, Alike, Others
<1>8. QED
  BY <1>2, <1>3, <1>4, <1>5, <1>6, <1>7 DEF PoolIInv

\* A thread finds the server of the slot dead, and replaces it.
LEMMA SupersedeKeeps ==
  ASSUME ServerAssumption, PoolIInv, PoolTypeOK', NEW c \in Caller, Supersede(c)
  PROVE  PoolIInv'
<1>1. Others(c) /\ UNCHANGED <<proc, home, at, then>> /\ pc[c] = "acquire" /\ pc'[c] = "superseded"
      /\ ref'[c] = state[at[c]]
  BY DEF Supersede, Looks, Others, PoolIInv, PoolTypeOK
<1>2. /\ state[at[c]] \in Server /\ proc[state[at[c]]] # "alive"
      /\ \E e \in Caller : ref[e] = state[at[c]] /\ pc[e] \in {"peeked", "superseded", "holding"}
  BY DEF Supersede, Upgrades, Runs, Strong
<1>3. state'[at[c]] = "starting" /\ \A s \in Slot \ {at[c]} : state'[s] = state[s]
  BY DEF Supersede, PoolIInv, PoolTypeOK
<1>4. Refs'
  BY <1>1, <1>2, <1>3 DEF PoolIInv, PoolTypeOK, Refs, Bound, Alone, Starter, Others, Running
<1>5. Starters'
  BY <1>1, <1>2, <1>3 DEF PoolIInv, PoolTypeOK, Starters, Starter, Others, Bound, Refs
<1>6. Stoppers'
  BY <1>1, <1>2, <1>3, SMTT(60) DEF PoolIInv, PoolTypeOK, Stoppers, Stops, Others, Bound, Refs
<1>7. Running'
  BY <1>1, <1>2, <1>3 DEF PoolIInv, PoolTypeOK, Running, Others, Bound, Refs
<1>8. Living'
  <2> SUFFICES ASSUME NEW h \in Server, proc[h] = "alive"
               PROVE  \/ state'[home[h]] = h
                      \/ \E d \in Caller : ref'[d] = h /\ pc'[d] \in {"probe", "stopping"}
    BY <1>1 DEF Living
  <2>1. home[h] \in Slot /\ at[c] \in Slot
    BY DEF PoolIInv, PoolTypeOK
  <2>2. CASE state[home[h]] = h
    <3>1. home[h] # at[c]
      BY <1>2, <2>2
    <3>2. QED
      BY <1>3, <2>1, <2>2, <3>1
  <2>3. ASSUME NEW d \in Caller, ref[d] = h, pc[d] \in {"probe", "stopping"}
        PROVE  ref'[d] = h /\ pc'[d] \in {"probe", "stopping"}
    BY <1>1, <2>3 DEF Others
  <2>4. QED
    BY <2>2, <2>3 DEF PoolIInv, Living
<1>9. Waiting'
  BY <1>1, <1>2, <1>3 DEF PoolIInv, PoolTypeOK, Waiting, Others, Bound, Refs
<1>10. QED
  BY <1>4, <1>5, <1>6, <1>7, <1>8, <1>9 DEF PoolIInv

\* A thread claims a vacant slot.
LEMMA ClaimKeeps ==
  ASSUME ServerAssumption, PoolIInv, PoolTypeOK', NEW c \in Caller, Claim(c)
  PROVE  PoolIInv'
<1>1. Others(c) /\ UNCHANGED <<proc, home, ref, at, then>> /\ pc[c] = "acquire" /\ pc'[c] = "start"
  BY DEF Claim, Looks, Others, PoolIInv, PoolTypeOK
<1>2. state[at[c]] = "vacant"
  BY DEF Claim, Vacant
<1>3. state'[at[c]] = "starting" /\ \A s \in Slot \ {at[c]} : state'[s] = state[s]
  BY DEF Claim, PoolIInv, PoolTypeOK
<1>4. Refs'
  BY <1>1, <1>2, <1>3 DEF PoolIInv, PoolTypeOK, Refs, Bound, Alone, Starter, Others
<1>5. Starters'
  BY <1>1, <1>2, <1>3 DEF PoolIInv, PoolTypeOK, Starters, Starter, Others, Bound, Refs
<1>6. Stoppers'
  BY <1>1, <1>2, <1>3 DEF PoolIInv, PoolTypeOK, Stoppers, Stops, Others, Bound, Refs
<1>7. Running'
  BY <1>1, <1>2, <1>3 DEF PoolIInv, PoolTypeOK, Running, Others, Bound, Refs
<1>8. Living'
  BY <1>1, <1>2, <1>3 DEF PoolIInv, PoolTypeOK, Living, Others, Bound, Refs
<1>9. Waiting'
  BY <1>1, <1>2, <1>3 DEF PoolIInv, PoolTypeOK, Waiting, Others, Bound, Refs
<1>10. QED
  BY <1>4, <1>5, <1>6, <1>7, <1>8, <1>9 DEF PoolIInv

\* A process is started that nobody knows yet.
LEMMA SpawnKeeps ==
  ASSUME ServerAssumption, PoolIInv, PoolTypeOK', NEW c \in Caller, NEW g \in Server, Spawn(c, g)
  PROVE  PoolIInv'
<1>1. Others(c) /\ UNCHANGED <<state, at, then>> /\ pc[c] = "start" /\ pc'[c] = "probe" /\ ref'[c] = g
  BY DEF Spawn, Others, PoolIInv, PoolTypeOK
<1>2. /\ proc[g] = "unused" /\ proc'[g] = "alive" /\ home'[g] = at[c]
      /\ \A h \in Server \ {g} : proc'[h] = proc[h] /\ home'[h] = home[h]
  BY DEF Spawn, PoolIInv, PoolTypeOK
<1>3. \A d \in Caller : ref[d] # g
  BY <1>2 DEF PoolIInv, Refs
<1>4. Refs'
  BY <1>1, <1>2, <1>3 DEF PoolIInv, PoolTypeOK, Refs, Bound, Alone, Starter, Others
<1>5. Starters'
  BY <1>1, <1>2, <1>3 DEF PoolIInv, PoolTypeOK, Starters, Starter, Others, Bound, Refs
<1>6. Stoppers'
  BY <1>1, <1>2, <1>3, SMTT(60) DEF PoolIInv, PoolTypeOK, Stoppers, Stops, Others, Bound, Refs
<1>7. Running'
  BY <1>1, <1>2, <1>3 DEF PoolIInv, PoolTypeOK, Running, Others, Bound, Refs
<1>8. Living'
  BY <1>1, <1>2, <1>3 DEF PoolIInv, PoolTypeOK, Living, Others, Bound, Refs
<1>9. Waiting'
  BY <1>1, <1>2, <1>3, SMTT(60) DEF PoolIInv, PoolTypeOK, Waiting, Others, Bound, Refs
<1>10. QED
  BY <1>4, <1>5, <1>6, <1>7, <1>8, <1>9 DEF PoolIInv

\* No process could be started.
LEMMA SpawnFailsKeeps ==
  ASSUME ServerAssumption, PoolIInv, PoolTypeOK', NEW c \in Caller, SpawnFails(c)
  PROVE  PoolIInv'
<1>1. Alike(c) /\ UNCHANGED <<ref, at, then>> /\ pc[c] = "start" /\ pc'[c] = "failed"
  BY DEF SpawnFails, Alike, Others, PoolIInv, PoolTypeOK
<1>2. Refs'
  BY <1>1 DEF PoolIInv, PoolTypeOK, Refs, Bound, Alone, Starter, Alike, Others
<1>3. Starters'
  BY <1>1 DEF PoolIInv, PoolTypeOK, Starters, Starter, Alike, Others, Bound
<1>4. Stoppers'
  BY <1>1 DEF PoolIInv, PoolTypeOK, Stoppers, Stops, Alike, Others, Bound
<1>5. Running'
  BY <1>1 DEF PoolIInv, PoolTypeOK, Running, Alike, Others, Bound
<1>6. Living'
  BY <1>1 DEF PoolIInv, PoolTypeOK, Living, Alike, Others, Bound
<1>7. Waiting'
  BY <1>1 DEF PoolIInv, PoolTypeOK, Waiting, Alike, Others, Bound
<1>8. QED
  BY <1>2, <1>3, <1>4, <1>5, <1>6, <1>7 DEF PoolIInv

\* The process that was started is killed.
LEMMA ProbeFailsKeeps ==
  ASSUME ServerAssumption, PoolIInv, PoolTypeOK', NEW c \in Caller, ProbeFails(c)
  PROVE  PoolIInv'
<1>1. Others(c) /\ UNCHANGED <<state, home, at, then>> /\ pc[c] = "probe" /\ pc'[c] = "failed" /\ ref'[c] = NoServer
  BY DEF ProbeFails, Others, PoolIInv, PoolTypeOK
<1>2. /\ ref[c] \in Server /\ proc'[ref[c]] = "stopped"
      /\ \A h \in Server \ {ref[c]} : proc'[h] = proc[h]
  BY <1>1 DEF ProbeFails, PoolIInv, PoolTypeOK, Refs, Bound
<1>3. Refs'
  <2>1. \A d \in Caller \ {c} : /\ ref'[d] = ref[d] /\ (pc'[d] \in Bound <=> pc[d] \in Bound)
                                /\ pc'[d] \in Bound => pc'[d] = pc[d] /\ at'[d] = at[d] /\ then'[d] = then[d]
    BY <1>1 DEF Others
  <2>2. pc'[c] \notin Bound /\ ref'[c] \notin Server /\ Alone \subseteq Bound
    BY <1>1 DEF Bound, Alone
  <2>3. \A d \in Caller : pc'[d] \in Bound => proc'[ref'[d]] # "unused"
    BY <1>2, <2>1, <2>2 DEF PoolIInv, Refs
  <2>4. \A d, e \in Caller : pc'[d] \in Alone /\ d # e => ref'[d] # ref'[e]
    BY <2>1, <2>2 DEF PoolIInv, Refs
  <2>5. \A d \in Caller, s \in Slot : pc'[d] \in Bound /\ Starter(d, s)' => home'[ref'[d]] = s
    <3>1. \A d \in Caller, s \in Slot : pc'[d] \in Bound /\ Starter(d, s)' => pc[d] \in Bound /\ Starter(d, s) /\ ref'[d] = ref[d]
      BY <2>1, <2>2 DEF Starter
    <3>2. QED
      BY <1>1, <3>1 DEF PoolIInv, Refs
  <2>6. \A d \in Caller : ref'[d] \in Server <=> pc'[d] \in Bound
    BY <2>1, <2>2 DEF PoolIInv, Refs
  <2>7. QED
    BY <2>3, <2>4, <2>5, <2>6, Zenon DEF Refs
<1>4. Starters'
  BY <1>1, <1>2 DEF PoolIInv, PoolTypeOK, Starters, Starter, Others, Bound, Refs, Alone
<1>5. Stoppers'
  BY <1>1, <1>2, SMTT(60) DEF PoolIInv, PoolTypeOK, Stoppers, Stops, Others, Bound, Refs, Alone
<1>6. Running'
  BY <1>1, <1>2 DEF PoolIInv, PoolTypeOK, Running, Others, Bound, Refs, Alone
<1>7. Living'
  BY <1>1, <1>2 DEF PoolIInv, PoolTypeOK, Living, Others, Bound, Refs, Alone
<1>8. Waiting'
  BY <1>1, <1>2 DEF PoolIInv, PoolTypeOK, Waiting, Others, Bound, Refs, Alone
<1>9. QED
  BY <1>3, <1>4, <1>5, <1>6, <1>7, <1>8 DEF PoolIInv

\* The server runs, and those who wait look at the slot again.
LEMMA StartedKeeps ==
  ASSUME ServerAssumption, PoolIInv, PoolTypeOK', NEW c \in Caller, Started(c)
  PROVE  PoolIInv'
<1>1. /\ UNCHANGED <<proc, home, at, then, ref>> /\ pc[c] = "probe" /\ pc'[c] = "holding"
      /\ ref[c] \in Server /\ home[ref[c]] = at[c] /\ state[at[c]] = "starting" /\ Starter(c, at[c])
  BY DEF Started, NotifyAll, PoolIInv, PoolTypeOK, Refs, Bound, Starters, Starter
<1>2. \A d \in Caller \ {c} : /\ ref'[d] = ref[d] /\ at'[d] = at[d] /\ then'[d] = then[d]
                              /\ pc'[d] = IF pc[d] = "wait" /\ at[d] = at[c] THEN "acquire" ELSE pc[d]
  BY DEF Started, NotifyAll, Woken, PoolIInv, PoolTypeOK
<1>3. state'[at[c]] = ref[c] /\ \A s \in Slot \ {at[c]} : state'[s] = state[s]
  BY DEF Started, PoolIInv, PoolTypeOK
<1>4. Refs'
  BY <1>1, <1>2, <1>3, SMTT(60) DEF PoolIInv, PoolTypeOK, Refs, Bound, Alone, Starter
<1>5. Starters'
  BY <1>1, <1>2, <1>3 DEF PoolIInv, PoolTypeOK, Starters, Starter, Bound, Refs, Alone
<1>6. Stoppers'
  BY <1>1, <1>2, <1>3 DEF PoolIInv, PoolTypeOK, Stoppers, Stops, Bound, Refs, Alone
<1>7. Running'
  BY <1>1, <1>2, <1>3 DEF PoolIInv, PoolTypeOK, Running, Bound, Refs, Alone
<1>8. Living'
  BY <1>1, <1>2, <1>3 DEF PoolIInv, PoolTypeOK, Living, Bound, Refs, Alone
<1>9. Waiting'
  BY <1>1, <1>2, <1>3 DEF PoolIInv, PoolTypeOK, Waiting, Bound, Refs, Alone
<1>10. QED
  BY <1>4, <1>5, <1>6, <1>7, <1>8, <1>9 DEF PoolIInv

\* There is no server, and those who wait look at the slot again.
LEMMA StartFailsKeeps ==
  ASSUME ServerAssumption, PoolIInv, PoolTypeOK', NEW c \in Caller, StartFails(c)
  PROVE  PoolIInv'
<1>1. /\ UNCHANGED <<proc, home, at, then, ref>> /\ pc[c] = "failed" /\ pc'[c] = "idle"
      /\ state[at[c]] = "starting" /\ Starter(c, at[c])
  BY DEF StartFails, NotifyAll, PoolIInv, PoolTypeOK, Starters, Starter
<1>2. \A d \in Caller \ {c} : /\ ref'[d] = ref[d] /\ at'[d] = at[d] /\ then'[d] = then[d]
                              /\ pc'[d] = IF pc[d] = "wait" /\ at[d] = at[c] THEN "acquire" ELSE pc[d]
  BY DEF StartFails, NotifyAll, Woken, PoolIInv, PoolTypeOK
<1>3. state'[at[c]] = "vacant" /\ \A s \in Slot \ {at[c]} : state'[s] = state[s]
  BY DEF StartFails, PoolIInv, PoolTypeOK
<1>4. Refs'
  BY <1>1, <1>2, <1>3 DEF PoolIInv, PoolTypeOK, Refs, Bound, Alone, Starter
<1>5. Starters'
  BY <1>1, <1>2, <1>3, SMTT(60) DEF PoolIInv, PoolTypeOK, Starters, Starter, Bound, Refs, Alone
<1>6. Stoppers'
  BY <1>1, <1>2, <1>3, SMTT(60) DEF PoolIInv, PoolTypeOK, Stoppers, Stops, Bound, Refs, Alone
<1>7. Running'
  BY <1>1, <1>2, <1>3 DEF PoolIInv, PoolTypeOK, Running, Bound, Refs, Alone
<1>8. Living'
  BY <1>1, <1>2, <1>3 DEF PoolIInv, PoolTypeOK, Living, Bound, Refs, Alone
<1>9. Waiting'
  BY <1>1, <1>2, <1>3 DEF PoolIInv, PoolTypeOK, Waiting, Bound, Refs, Alone
<1>10. QED
  BY <1>4, <1>5, <1>6, <1>7, <1>8, <1>9 DEF PoolIInv

\* A handle is dropped that is not the last.
LEMMA LeaveKeeps ==
  ASSUME ServerAssumption, PoolIInv, PoolTypeOK', NEW c \in Caller, NEW e \in Caller, Alike(c), UNCHANGED <<at, then>>, c # e,
         pc[c] \in {"peeked", "superseded", "holding"}, ref'[c] = NoServer,
         pc'[c] = "start" <=> pc[c] = "superseded", pc'[c] \in {"idle", "scan", "start"},
         ref[e] = ref[c], pc[e] \in {"peeked", "superseded", "holding"}
  PROVE  PoolIInv'
<1>1. Refs'
  BY DEF PoolIInv, PoolTypeOK, Refs, Bound, Alone, Starter, Alike, Others
<1>2. Starters'
  BY DEF PoolIInv, PoolTypeOK, Starters, Starter, Alike, Others, Bound, Alone
<1>3. Stoppers'
  BY DEF PoolIInv, PoolTypeOK, Stoppers, Stops, Alike, Others, Bound, Alone
<1>4. Running'
  BY DEF PoolIInv, PoolTypeOK, Running, Alike, Others, Bound, Alone, Refs, Starters, Starter
<1>5. Living'
  BY DEF PoolIInv, PoolTypeOK, Living, Alike, Others, Bound, Alone, Refs, Starters, Starter
<1>6. Waiting'
  BY DEF PoolIInv, PoolTypeOK, Waiting, Alike, Others, Bound, Alone, Refs, Starters, Starter
<1>7. QED
  BY <1>1, <1>2, <1>3, <1>4, <1>5, <1>6 DEF PoolIInv

\* The last handle is dropped.
LEMMA LastKeeps ==
  ASSUME ServerAssumption, PoolIInv, PoolTypeOK', NEW c \in Caller, NEW next \in {"idle", "scan", "start"}, Alike(c), UNCHANGED <<at, ref>>, Strong(ref[c]) = {c},
         pc[c] \in {"peeked", "superseded", "holding"}, pc'[c] = "drop", then'[c] = next,
         next = "start" <=> pc[c] = "superseded"
  PROVE  PoolIInv'
<1>1. \A d \in Caller \ {c} : ref[d] # ref[c]
  BY DEF Strong, PoolIInv, Refs, Bound, Alone
<1>2. Refs'
  BY <1>1 DEF PoolIInv, PoolTypeOK, Refs, Bound, Alone, Starter, Alike, Others
<1>3. Starters'
  BY <1>1 DEF PoolIInv, PoolTypeOK, Starters, Starter, Alike, Others, Bound, Alone
<1>4. Stoppers'
  BY <1>1 DEF PoolIInv, PoolTypeOK, Stoppers, Stops, Alike, Others, Bound, Alone
<1>5. Running'
  BY <1>1 DEF PoolIInv, PoolTypeOK, Running, Alike, Others, Bound, Alone, Refs, Starters, Starter
<1>6. Living'
  BY <1>1 DEF PoolIInv, PoolTypeOK, Living, Alike, Others, Bound, Alone, Refs, Starters, Starter
<1>7. Waiting'
  BY <1>1 DEF PoolIInv, PoolTypeOK, Waiting, Alike, Others, Bound, Alone, Refs, Starters, Starter
<1>8. QED
  BY <1>2, <1>3, <1>4, <1>5, <1>6, <1>7 DEF PoolIInv

\* The destructor has the lock.
LEMMA TeardownKeeps ==
  ASSUME ServerAssumption, PoolIInv, PoolTypeOK', NEW c \in Caller, Teardown(c)
  PROVE  PoolIInv'
<1>1. /\ Others(c) /\ UNCHANGED <<proc, home, at, then, ref>> /\ pc[c] = "drop" /\ ref[c] \in Server /\ home[ref[c]] \in Slot
  BY DEF Teardown, Others, PoolIInv, PoolTypeOK, Refs, Bound
<1>2. \/ /\ state[home[ref[c]]] = ref[c] /\ pc'[c] = "stopping" /\ state'[home[ref[c]]] = "stopping"
         /\ \A s \in Slot \ {home[ref[c]]} : state'[s] = state[s]
      \/ /\ state[home[ref[c]]] # ref[c] /\ pc'[c] = "reaping" /\ state' = state
  BY <1>1 DEF Teardown, Current, PoolIInv, PoolTypeOK
<1>3. Refs'
  BY <1>1, <1>2 DEF PoolIInv, PoolTypeOK, Refs, Bound, Alone, Starter, Others, Starters
<1>4. Starters'
  BY <1>1, <1>2 DEF PoolIInv, PoolTypeOK, Starters, Starter, Others, Bound, Alone, Refs
<1>5. Stoppers'
  <2>1. CASE pc'[c] = "reaping"
    BY <1>1, <1>2, <2>1 DEF PoolIInv, Stoppers, Stops, Others
  <2>2. CASE pc'[c] = "stopping"
    <3>1. state[home[ref[c]]] = ref[c] /\ state'[home[ref[c]]] = "stopping"
          /\ \A s \in Slot \ {home[ref[c]]} : state'[s] = state[s]
      BY <1>2, <2>2
    <3>2. \A d \in Caller, s \in Slot : Stops(d, s)' <=> Stops(d, s) \/ (d = c /\ s = home[ref[c]])
      BY <1>1, <2>2 DEF Stops, Others
    <3>3. \A d \in Caller : ~Stops(d, home[ref[c]])
      BY <1>1, <3>1 DEF PoolIInv, Stoppers
    <3>4. then'[c] # "start"
      <4>1. then[c] = "start" => Starter(c, at[c]) /\ at[c] \in Slot
        BY <1>1 DEF Starter, PoolIInv, PoolTypeOK
      <4>2. then[c] = "start" => home[ref[c]] = at[c] /\ state[at[c]] = "starting"
        BY <1>1, <4>1 DEF PoolIInv, Refs, Bound, Starters
      <4>3. QED
        BY <1>1, <3>1, <4>2
    <3>5. \A d \in Caller, s \in Slot : Stops(d, s)' => state'[s] = "stopping" /\ then'[d] # "start"
      BY <1>1, <3>1, <3>2, <3>4 DEF PoolIInv, Stoppers
    <3>6. \A a, d \in Caller, s \in Slot : Stops(a, s)' /\ Stops(d, s)' => a = d
      BY <3>2, <3>3 DEF PoolIInv, Stoppers
    <3>7. \A s \in Slot : state'[s] = "stopping" => \E d \in Caller : Stops(d, s)'
      BY <3>1, <3>2 DEF PoolIInv, Stoppers
    <3>8. QED
      BY <3>5, <3>6, <3>7 DEF Stoppers
  <2>3. QED
    BY <1>2, <2>1, <2>2
<1>6. Running'
  BY <1>1, <1>2 DEF PoolIInv, PoolTypeOK, Running, Others, Bound, Alone, Refs, Starters, Starter
<1>7. Living'
  BY <1>1, <1>2 DEF PoolIInv, PoolTypeOK, Living, Others, Bound, Alone, Refs, Starters, Starter
<1>8. Waiting'
  <2> SUFFICES ASSUME NEW d \in Caller, pc'[d] = "wait"
               PROVE  \/ state'[at'[d]] \in {"starting", "stopping"}
                      \/ \E e \in Caller : pc'[e] = "drop" /\ ref'[e] = state'[at'[d]]
    BY DEF Waiting
  <2>1. pc[d] = "wait" /\ at'[d] = at[d] /\ at[d] \in Slot
    BY <1>1, <1>2 DEF Others, PoolIInv, PoolTypeOK
  <2>2. CASE state[at[d]] \in {"starting", "stopping"}
    BY <1>1, <1>2, <2>1, <2>2
  <2>3. ASSUME NEW e \in Caller, pc[e] = "drop", ref[e] = state[at[d]]
        PROVE  \/ state'[at'[d]] \in {"starting", "stopping"}
               \/ \E x \in Caller : pc'[x] = "drop" /\ ref'[x] = state'[at'[d]]
    <3>1. ref[e] \in Server /\ home[ref[e]] = at[d]
      BY <2>1, <2>3 DEF PoolIInv, Refs, Bound, Running
    <3>2. CASE e = c
      BY <1>1, <1>2, <2>1, <2>3, <3>1, <3>2
    <3>3. CASE e # c
      BY <1>1, <1>2, <2>1, <2>3, <3>3 DEF Others
    <3>4. QED
      BY <3>2, <3>3
  <2>4. QED
    BY <2>1, <2>2, <2>3 DEF PoolIInv, Waiting
<1>9. QED
  BY <1>3, <1>4, <1>5, <1>6, <1>7, <1>8 DEF PoolIInv

\* The server of the slot is stopped, and those who wait look at the slot again.
LEMMA StoppedKeeps ==
  ASSUME ServerAssumption, PoolIInv, PoolTypeOK', NEW c \in Caller, Stopped(c)
  PROVE  PoolIInv'
<1>1. /\ UNCHANGED <<home, at, then>> /\ pc[c] = "stopping" /\ pc'[c] = then[c] /\ ref'[c] = NoServer
      /\ ref[c] \in Server /\ home[ref[c]] \in Slot /\ state[home[ref[c]]] = "stopping" /\ then[c] \in {"idle", "scan"}
  BY DEF Stopped, NotifyAll, PoolIInv, PoolTypeOK, Refs, Bound, Stoppers, Stops
<1>2. \A d \in Caller \ {c} : /\ ref'[d] = ref[d] /\ at'[d] = at[d] /\ then'[d] = then[d]
                              /\ pc'[d] = IF pc[d] = "wait" /\ at[d] = home[ref[c]] THEN "acquire" ELSE pc[d]
  BY DEF Stopped, NotifyAll, Woken, PoolIInv, PoolTypeOK
<1>3. /\ state'[home[ref[c]]] = "vacant" /\ \A s \in Slot \ {home[ref[c]]} : state'[s] = state[s]
      /\ proc'[ref[c]] = "stopped" /\ \A h \in Server \ {ref[c]} : proc'[h] = proc[h]
  BY <1>1 DEF Stopped, PoolIInv, PoolTypeOK
<1>4. Refs'
  <2>1. \A d \in Caller \ {c} : /\ ref'[d] = ref[d] /\ (pc'[d] \in Bound <=> pc[d] \in Bound)
                                /\ pc'[d] \in Bound => pc'[d] = pc[d] /\ at'[d] = at[d] /\ then'[d] = then[d]
    BY <1>2 DEF Bound
  <2>2. pc'[c] \notin Bound /\ ref'[c] \notin Server /\ Alone \subseteq Bound
    BY <1>1 DEF Bound, Alone
  <2>3. \A d \in Caller : pc'[d] \in Bound => proc'[ref'[d]] # "unused"
    BY <1>3, <2>1, <2>2 DEF PoolIInv, Refs
  <2>4. \A d, e \in Caller : pc'[d] \in Alone /\ d # e => ref'[d] # ref'[e]
    BY <2>1, <2>2 DEF PoolIInv, Refs
  <2>5. \A d \in Caller, s \in Slot : pc'[d] \in Bound /\ Starter(d, s)' => home'[ref'[d]] = s
    <3>1. \A d \in Caller, s \in Slot : pc'[d] \in Bound /\ Starter(d, s)' => pc[d] \in Bound /\ Starter(d, s) /\ ref'[d] = ref[d]
      BY <2>1, <2>2 DEF Starter
    <3>2. QED
      BY <1>1, <3>1 DEF PoolIInv, Refs
  <2>6. \A d \in Caller : ref'[d] \in Server <=> pc'[d] \in Bound
    BY <2>1, <2>2 DEF PoolIInv, Refs
  <2>7. QED
    BY <2>3, <2>4, <2>5, <2>6, Zenon DEF Refs
<1>5. Starters'
  BY <1>1, <1>2, <1>3, SMTT(60) DEF PoolIInv, PoolTypeOK, Starters, Starter, Bound, Alone, Refs, Stoppers, Stops
<1>6. Stoppers'
  <2>1. \A d \in Caller, s \in Slot : Stops(d, s)' <=> Stops(d, s) /\ d # c
    BY <1>1, <1>2 DEF Stops
  <2>2. \A d \in Caller : d # c => ~Stops(d, home[ref[c]])
    BY <1>1 DEF PoolIInv, Stoppers, Stops
  <2>3. \A s \in Slot : s # home[ref[c]] => ~Stops(c, s)
    BY DEF Stops
  <2>4. QED
    BY <1>1, <1>3, <2>1, <2>2, <2>3 DEF PoolIInv, Stoppers
<1>7. Running'
  BY <1>1, <1>2, <1>3, SMTT(60) DEF PoolIInv, PoolTypeOK, Running, Bound, Alone, Refs, Stoppers, Stops
<1>8. Living'
  BY <1>1, <1>2, <1>3, SMTT(60) DEF PoolIInv, PoolTypeOK, Living, Bound, Alone, Refs, Stoppers, Stops
<1>9. Waiting'
  BY <1>1, <1>2, <1>3 DEF PoolIInv, PoolTypeOK, Waiting, Bound, Alone, Refs, Stoppers, Stops
<1>10. QED
  BY <1>4, <1>5, <1>6, <1>7, <1>8, <1>9 DEF PoolIInv

\* A process that is no slot's is stopped.
LEMMA ReapedKeeps ==
  ASSUME ServerAssumption, PoolIInv, PoolTypeOK', NEW c \in Caller, Reaped(c)
  PROVE  PoolIInv'
<1>1. /\ Others(c) /\ UNCHANGED <<state, home, at, then>> /\ pc[c] = "reaping" /\ pc'[c] = then[c] /\ ref'[c] = NoServer
      /\ ref[c] \in Server /\ then[c] \in {"idle", "scan", "start"}
  BY DEF Reaped, Others, PoolIInv, PoolTypeOK, Refs, Bound
<1>2. proc'[ref[c]] = "stopped" /\ \A h \in Server \ {ref[c]} : proc'[h] = proc[h]
  BY <1>1 DEF Reaped, PoolIInv, PoolTypeOK
<1>3. Refs'
  BY <1>1, <1>2 DEF PoolIInv, PoolTypeOK, Refs, Bound, Alone, Starter, Others
<1>4. Starters'
  BY <1>1, <1>2 DEF PoolIInv, PoolTypeOK, Starters, Starter, Others, Bound, Alone, Refs
<1>5. Stoppers'
  BY <1>1, <1>2, SMTT(60) DEF PoolIInv, PoolTypeOK, Stoppers, Stops, Others, Bound, Alone, Refs
<1>6. Running'
  BY <1>1, <1>2 DEF PoolIInv, PoolTypeOK, Running, Others, Bound, Alone, Refs
<1>7. Living'
  BY <1>1, <1>2 DEF PoolIInv, PoolTypeOK, Living, Others, Bound, Alone, Refs
<1>8. Waiting'
  BY <1>1, <1>2 DEF PoolIInv, PoolTypeOK, Waiting, Others, Bound, Alone, Refs
<1>9. QED
  BY <1>3, <1>4, <1>5, <1>6, <1>7, <1>8 DEF PoolIInv

\* A process exits by itself.
LEMMA ExitsKeeps ==
  ASSUME ServerAssumption, PoolIInv, PoolTypeOK', NEW g \in Server, Exits(g)
  PROVE  PoolIInv'
<1>1. UNCHANGED <<state, home, pc, ref, at, then>>
  BY DEF Exits
<1>2. proc[g] = "alive" /\ proc'[g] = "exited" /\ \A h \in Server \ {g} : proc'[h] = proc[h]
  BY DEF Exits, PoolIInv, PoolTypeOK
<1>3. Refs'
  BY <1>1, <1>2 DEF PoolIInv, PoolTypeOK, Refs, Bound, Alone, Starter
<1>4. Starters'
  BY <1>1, <1>2 DEF PoolIInv, PoolTypeOK, Starters, Starter
<1>5. Stoppers'
  BY <1>1, <1>2 DEF PoolIInv, PoolTypeOK, Stoppers, Stops
<1>6. Running'
  BY <1>1, <1>2 DEF PoolIInv, PoolTypeOK, Running
<1>7. Living'
  BY <1>1, <1>2 DEF PoolIInv, PoolTypeOK, Living
<1>8. Waiting'
  BY <1>1, <1>2 DEF PoolIInv, PoolTypeOK, Waiting
<1>9. QED
  BY <1>3, <1>4, <1>5, <1>6, <1>7, <1>8 DEF PoolIInv

-----------------------------------------------------------------------------
\* A reference is let go, be it the last or not.
LEMMA ReleaseKeeps ==
  ASSUME ServerAssumption, PoolIInv, PoolTypeOK', NEW c \in Caller, NEW next \in {"idle", "scan", "start"}, Release(c, next),
         pc[c] \in {"peeked", "superseded", "holding"}, next = "start" <=> pc[c] = "superseded",
         UNCHANGED <<state, proc, home, at>>
  PROVE  PoolIInv'
<1>1. Alike(c)
  BY DEF Release, Alike, Others, PoolIInv, PoolTypeOK
<1>2. CASE Strong(ref[c]) = {c}
  <2>1. pc'[c] = "drop" /\ then'[c] = next /\ ref' = ref
    BY <1>2 DEF Release, PoolIInv, PoolTypeOK
  <2>2. QED
    BY <1>1, <1>2, <2>1, LastKeeps
<1>3. CASE Strong(ref[c]) # {c}
  <2>1. pc'[c] = next /\ ref'[c] = NoServer /\ then' = then
    BY <1>3 DEF Release, PoolIInv, PoolTypeOK
  <2>2. c \in Strong(ref[c])
    BY DEF Strong
  <2>3. PICK e \in Caller : e # c /\ e \in Strong(ref[c])
    BY <1>3, <2>2 DEF Strong
  <2>4. ref[e] = ref[c] /\ pc[e] \in {"peeked", "superseded", "holding"}
    BY <2>3 DEF Strong
  <2>5. QED
    BY <1>1, <2>1, <2>3, <2>4, LeaveKeeps
<1>4. QED
  BY <1>2, <1>3

LEMMA ScanKeeps ==
  ASSUME ServerAssumption, PoolIInv, PoolTypeOK', NEW c \in Caller,
         (\E s \in Slot : Peek(c, s)) \/ Inspect(c) \/ NoneLive(c) \/ AnyLive(c)
  PROVE  PoolIInv'
<1>1. ASSUME NEW s \in Slot, Peek(c, s)
      PROVE  PoolIInv'
  <2>1. CASE state[s] \in Server /\ Strong(state[s]) # {}
    <3>1. PICK e \in Caller : ref[e] = state[s] /\ pc[e] \in {"peeked", "superseded", "holding"}
      BY <2>1 DEF Strong
    <3>2. /\ Alike(c) /\ pc[c] = "scan" /\ pc'[c] = "peeked" /\ ref'[c] = ref[e] /\ c # e
      BY <1>1, <2>1, <3>1 DEF Peek, Alike, Others, PoolIInv, PoolTypeOK
    <3>3. QED
      BY <3>1, <3>2, TakeKeeps
  <2>2. CASE ~(state[s] \in Server /\ Strong(state[s]) # {})
    <3>1. Alike(c) /\ ref' = ref /\ pc[c] = "scan" /\ pc'[c] = "scan"
      BY <1>1, <2>2 DEF Peek, Alike, Others
    <3>2. QED
      BY <3>1, LooseKeeps
  <2>3. QED
    BY <2>1, <2>2
<1>2. CASE Inspect(c)
  <2>1. CASE proc[ref[c]] = "alive"
    <3>1. Alike(c) /\ ref' = ref /\ at' = at /\ pc[c] = "peeked" /\ pc'[c] = "holding"
      BY <1>2, <2>1 DEF Inspect, Alike, Others, PoolIInv, PoolTypeOK
    <3>2. QED
      BY <3>1, KeepKeeps
  <2>2. CASE proc[ref[c]] # "alive"
    <3>1. Release(c, "scan") /\ pc[c] = "peeked" /\ UNCHANGED <<state, proc, home, at>>
      BY <1>2, <2>2 DEF Inspect
    <3>2. QED
      BY <3>1, ReleaseKeeps
  <2>3. QED
    BY <2>1, <2>2
<1>3. CASE NoneLive(c) \/ AnyLive(c)
  <2>1. Alike(c) /\ ref' = ref /\ pc[c] \in {"idle", "scan"} /\ pc'[c] \in {"scan", "acquire"}
    BY <1>3 DEF NoneLive, AnyLive, Alike, Others, PoolIInv, PoolTypeOK
  <2>2. QED
    BY <2>1, LooseKeeps
<1>4. QED
  BY <1>1, <1>2, <1>3

LEMMA HandleKeeps ==
  ASSUME ServerAssumption, PoolIInv, PoolTypeOK', NEW c \in Caller,
         \/ Share(c) \/ DropSuperseded(c) \/ DropHandle(c) \/ SpuriousWakeup(c)
         \/ \E s \in Slot : Acquire(c, s)
         \/ \E d \in Caller : Clone(c, d)
  PROVE  PoolIInv'
<1>1. CASE Share(c)
  <2>1. PICK e \in Caller : ref[e] = state[at[c]] /\ pc[e] \in {"peeked", "superseded", "holding"}
    BY <1>1 DEF Share, Upgrades, Strong
  <2>2. Alike(c) /\ pc[c] = "acquire" /\ pc'[c] = "holding" /\ ref'[c] = ref[e] /\ c # e
    BY <1>1, <2>1 DEF Share, Looks, Alike, Others, PoolIInv, PoolTypeOK
  <2>3. QED
    BY <2>1, <2>2, TakeKeeps
<1>2. CASE DropSuperseded(c)
  BY <1>2, ReleaseKeeps DEF DropSuperseded
<1>3. CASE DropHandle(c)
  BY <1>3, ReleaseKeeps DEF DropHandle
<1>4. CASE SpuriousWakeup(c) \/ \E s \in Slot : Acquire(c, s)
  <2>1. Alike(c) /\ ref' = ref /\ pc[c] \in {"idle", "wait"} /\ pc'[c] = "acquire"
    BY <1>4 DEF SpuriousWakeup, Acquire, Alike, Others, PoolIInv, PoolTypeOK
  <2>2. QED
    BY <2>1, LooseKeeps
<1>5. ASSUME NEW d \in Caller, Clone(c, d)
      PROVE  PoolIInv'
  <2>1. /\ Alike(d) /\ pc[d] = "idle" /\ pc'[d] = "holding" /\ ref'[d] = ref[c] /\ pc[c] = "holding"
        /\ c # d
    BY <1>5 DEF Clone, Alike, Others, PoolIInv, PoolTypeOK
  <2>2. QED
    BY <2>1, TakeKeeps
<1>6. QED
  BY <1>1, <1>2, <1>3, <1>4, <1>5

LEMMA PoolInitIInv == ASSUME ServerAssumption PROVE PoolInit => PoolIInv
<1> SUFFICES ASSUME PoolInit PROVE PoolIInv
  OBVIOUS
<1>1. Refs /\ Starters /\ Stoppers /\ Running /\ Living /\ Waiting
  BY DEF PoolInit, Refs, Bound, Alone, Starters, Starter, Stoppers, Stops, Running, Living, Waiting
<1>2. QED
  BY <1>1, PoolTypedInit DEF PoolIInv

LEMMA PoolNextIInv == ASSUME ServerAssumption PROVE PoolIInv /\ [PoolNext]_poolVars => PoolIInv'
<1> SUFFICES ASSUME PoolIInv, [PoolNext]_poolVars PROVE PoolIInv'
  OBVIOUS
<1>t. PoolTypeOK'
  BY PoolNextTyped DEF PoolIInv
<1>1. CASE UNCHANGED poolVars
  BY <1>1 DEF poolVars, PoolIInv, PoolTypeOK, Refs, Starters, Starter, Stoppers, Stops, Running, Living, Waiting
<1>2. ASSUME NEW c \in Caller, Proceed(c)
      PROVE  PoolIInv'
  <2>1. CASE (\E s \in Slot : Peek(c, s)) \/ Inspect(c) \/ NoneLive(c)
    BY <1>t, <2>1, ScanKeeps
  <2>2. CASE Share(c) \/ DropSuperseded(c)
    BY <1>t, <2>2, HandleKeeps
  <2>3. CASE Supersede(c) \/ Claim(c) \/ Wait(c)
    BY <1>t, <2>3, SupersedeKeeps, ClaimKeeps, WaitKeeps
  <2>4. CASE (\E g \in Server : Spawn(c, g)) \/ SpawnFails(c) \/ ProbeFails(c)
    BY <1>t, <2>4, SpawnKeeps, SpawnFailsKeeps, ProbeFailsKeeps
  <2>5. CASE Started(c) \/ StartFails(c)
    BY <1>t, <2>5, StartedKeeps, StartFailsKeeps
  <2>6. CASE Teardown(c) \/ Stopped(c) \/ Reaped(c)
    BY <1>t, <2>6, TeardownKeeps, StoppedKeeps, ReapedKeeps
  <2>7. QED
    BY <1>2, <2>1, <2>2, <2>3, <2>4, <2>5, <2>6 DEF Proceed
<1>3. ASSUME NEW c \in Caller, AnyLive(c) \/ SpuriousWakeup(c) \/ DropHandle(c)
      PROVE  PoolIInv'
  BY <1>t, <1>3, ScanKeeps, HandleKeeps
<1>4. ASSUME NEW c \in Caller, (\E s \in Slot : Acquire(c, s)) \/ (\E d \in Caller : Clone(c, d))
      PROVE  PoolIInv'
  BY <1>t, <1>4, HandleKeeps
<1>5. ASSUME NEW g \in Server, Exits(g)
      PROVE  PoolIInv'
  BY <1>t, <1>5, ExitsKeeps
<1>6. QED
  BY <1>1, <1>2, <1>3, <1>4, <1>5 DEF PoolNext

LEMMA PoolSound == ASSUME ServerAssumption PROVE PoolSpec => []PoolIInv
<1>1. QED
  BY PoolInitIInv, PoolNextIInv, PTL DEF PoolSpec

\* Whatever threads call, clone and drop, and whenever processes die, the
\* state of the pool is well formed (opencode_pool.rs, deepseek_pool.rs).
THEOREM PoolTyped == ASSUME ServerAssumption PROVE PoolSpec => []PoolTypeOK
<1>1. PoolIInv => PoolTypeOK
  BY DEF PoolIInv
<1>2. QED
  BY <1>1, PoolSound, PTL

\* The pool serialises starts and the last teardown: no two processes of one
\* slot live at the same time.
THEOREM OneServerPerSlot == ASSUME ServerAssumption PROVE PoolSpec => []OneServer
<1>1. ASSUME PoolIInv
      PROVE  OneServer
  <2> SUFFICES ASSUME NEW g \in Server, NEW h \in Server, g # h, proc[g] = "alive", proc[h] = "alive",
                      NEW s \in Slot, home[g] = s, home[h] = s
               PROVE  FALSE
    BY <1>1 DEF OneServer, PoolIInv, PoolTypeOK
  <2>1. \A d \in Caller : ref[d] \in {g, h} /\ pc[d] = "probe" => Starter(d, s)
    BY <1>1 DEF PoolIInv, PoolTypeOK, Refs, Bound, Starter
  <2>2. \A d \in Caller : ref[d] \in {g, h} /\ pc[d] = "stopping" => Stops(d, s)
    BY DEF Stops
  <2>3. /\ state[s] = g \/ \E d \in Caller : ref[d] = g /\ (Starter(d, s) \/ Stops(d, s))
        /\ state[s] = h \/ \E d \in Caller : ref[d] = h /\ (Starter(d, s) \/ Stops(d, s))
    BY <1>1, <2>1, <2>2 DEF PoolIInv, Living
  <2>4. \A d \in Caller : (Starter(d, s) => state[s] = "starting") /\ (Stops(d, s) => state[s] = "stopping")
    BY <1>1 DEF PoolIInv, Starters, Stoppers
  <2>5. \A c, d \in Caller : /\ Starter(c, s) /\ Starter(d, s) => c = d
                             /\ Stops(c, s) /\ Stops(d, s) => c = d
    BY <1>1 DEF PoolIInv, Starters, Stoppers
  <2>6. {g, h} \cap {"starting", "stopping"} = {}
    OBVIOUS
  <2>7. CASE state[s] \in {g, h}
    BY <2>3, <2>4, <2>6, <2>7
  <2>8. CASE state[s] \notin {g, h}
    <3>1. PICK c \in Caller : ref[c] = g /\ (Starter(c, s) \/ Stops(c, s))
      BY <2>3, <2>8
    <3>2. PICK d \in Caller : ref[d] = h /\ (Starter(d, s) \/ Stops(d, s))
      BY <2>3, <2>8
    <3>3. ASSUME Starter(c, s)
          PROVE  c = d
      <4>1. Starter(d, s)
        BY <2>4, <3>2, <3>3
      <4>2. QED
        BY <2>5, <3>3, <4>1
    <3>4. ASSUME Stops(c, s)
          PROVE  c = d
      <4>1. Stops(d, s)
        BY <2>4, <3>2, <3>4
      <4>2. QED
        BY <2>5, <3>4, <4>1
    <3>5. c = d
      BY <3>1, <3>3, <3>4
    <3>6. QED
      BY <3>1, <3>2, <3>5
  <2>9. QED
    BY <2>7, <2>8
<1>2. QED
  BY <1>1, PoolSound, PTL

\* A handle of a live process is a handle of the slot's current one: the
\* destructor of an earlier generation compares identities and leaves it.
THEOREM HandlesAreCurrent == ASSUME ServerAssumption PROVE PoolSpec => []HeldIsCurrent
<1>1. ASSUME PoolIInv
      PROVE  HeldIsCurrent
  <2> SUFFICES ASSUME NEW c \in Caller, pc[c] = "holding", proc[ref[c]] = "alive"
               PROVE  state[home[ref[c]]] = ref[c]
    BY DEF HeldIsCurrent
  <2>1. ref[c] \in Server
    BY <1>1 DEF PoolIInv, Refs, Bound
  <2>2. \A d \in Caller : pc[d] \in {"probe", "stopping"} => ref[d] # ref[c]
    BY <1>1 DEF PoolIInv, Refs, Alone
  <2>3. QED
    BY <1>1, <2>1, <2>2 DEF PoolIInv, Living
<1>2. QED
  BY <1>1, PoolSound, PTL

\* Every way out of starting or of stopping notifies: a thread that waits has
\* another one that will wake it.
THEOREM NoLostWakeup == ASSUME ServerAssumption PROVE PoolSpec => []WaitersAreWoken
<1>1. ASSUME PoolIInv
      PROVE  WaitersAreWoken
  <2> SUFFICES ASSUME NEW c \in Caller, pc[c] = "wait"
               PROVE  \E d \in Caller : WillNotify(d, at[c])
    BY DEF WaitersAreWoken
  <2>1. at[c] \in Slot
    BY <1>1 DEF PoolIInv, PoolTypeOK
  <2>2. CASE state[at[c]] = "starting"
    BY <1>1, <2>1, <2>2 DEF PoolIInv, Starters, Starter, WillNotify
  <2>3. CASE state[at[c]] = "stopping"
    BY <1>1, <2>1, <2>3 DEF PoolIInv, Stoppers, Stops, WillNotify
  <2>4. CASE \E d \in Caller : pc[d] = "drop" /\ ref[d] = state[at[c]]
    BY <2>4 DEF WillNotify
  <2>5. QED
    BY <1>1, <2>2, <2>3, <2>4 DEF PoolIInv, Waiting
<1>2. QED
  BY <1>1, PoolSound, PTL
==============================================================================

------------------------ MODULE RuntimeMailbox_proofs ------------------------
(***************************************************************************)
(* Machine-checked proofs about the mailboxes of the desktop daemon, for    *)
(* every number of sessions, runtimes, requests, mailboxes and panics; and, *)
(* after them, about the event stream to its desktops.                      *)
(***************************************************************************)
EXTENDS RuntimeMailbox, RuntimeStream, SequenceTheorems, WellFoundedInduction, TLAPS

BoxType == [session : Session \cup {NoSession}, queue : Seq(Call), pc : PC,
            cur : Call \cup {NoCall}, result : {"none", "ok", "error", "skipped"},
            found : MaybeRuntime, active : MaybeRuntime \cup {NilRuntime}]

\* What the worker of a mailbox knows about the tables while it serves.
Knows(m) ==
  LET s == box[m].session
      c == box[m].cur
  IN  /\ box[m].pc \in {"begun", "cleared"} => c.kind = "start"
      /\ box[m].pc = "begun" => hub[s] = c.runtime /\ c.runtime \in Runtime
      /\ box[m].pc = "cleared" =>
           hub[s] = c.runtime /\ c.runtime \in Runtime /\ live[s] = NoRuntime
      /\ box[m].pc = "handled" /\ c.kind = "start" /\ box[m].result = "error" =>
           live[s] = NoRuntime
      /\ box[m].pc \in {"handled", "settled"} /\ c.kind = "close" /\ box[m].result = "ok" =>
           live[s] # c.runtime
      /\ box[m].pc \in {"handled", "settled"} /\ c.kind = "remove" /\ box[m].result = "ok" =>
           live[s] = NoRuntime

LEMMA BlankOK ==
  ASSUME NEW s \in Session \cup {NoSession}, NEW queue \in Seq(Call), NEW pc \in PC \ Serving,
         pc \in Alive => s \in Session,
         \A i \in DOMAIN queue : queue[i].session = s
  PROVE  BoxOK(Blank(s, queue, pc))
<1>1. Blank(s, queue, pc) \in BoxType
  BY DEF Blank, BoxType, MaybeRuntime
<1>2. QED
  BY <1>1 DEF BoxOK, BoxType, Blank

\* A command joins a mailbox.
LEMMA AppendOK ==
  ASSUME NEW b, BoxOK(b), NEW c \in Call, c.session = b.session
  PROVE  BoxOK([b EXCEPT !.queue = Append(@, c)])
<1> DEFINE q == Append(b.queue, c)
<1>1. b \in BoxType /\ b.queue \in Seq(Call)
  BY DEF BoxOK, BoxType
<1>2. q \in Seq(Call) /\ \A i \in DOMAIN q : q[i].session = b.session
  BY <1>1, AppendProperties DEF BoxOK
<1>3. QED
  BY <1>1, <1>2 DEF BoxOK, BoxType

\* The oldest command is taken in hand.
LEMMA PullOK ==
  ASSUME NEW b, BoxOK(b), b.pc \in {"idle", "deciding"}, b.queue # <<>>
  PROVE  /\ Head(b.queue) \in Call
         /\ Head(b.queue).session = b.session
         /\ BoxOK([b EXCEPT !.pc = "taken", !.cur = Head(b.queue), !.queue = Tail(@),
                            !.result = "none"])
<1>1. /\ Head(b.queue) \in Call /\ Tail(b.queue) \in Seq(Call)
      /\ Head(b.queue) = b.queue[1] /\ 1 \in DOMAIN b.queue
      /\ \A i \in DOMAIN Tail(b.queue) : Tail(b.queue)[i].session = b.session
  BY HeadTailProperties DEF BoxOK, BoxType
<1>2. QED
  BY <1>1, CallAssumption DEF BoxOK, BoxType, PC, Alive, Serving

\* A worker goes on with the command in hand.
LEMMA GoOnOK ==
  ASSUME NEW b, BoxOK(b), b.pc \in Serving, NEW pc \in Serving,
         NEW result \in {"none", "ok", "error", "skipped"}, NEW found \in MaybeRuntime
  PROVE  /\ BoxOK([b EXCEPT !.pc = pc])
         /\ BoxOK([b EXCEPT !.pc = pc, !.result = result])
         /\ BoxOK([b EXCEPT !.pc = pc, !.result = result, !.found = found])
<1>1. b \in BoxType /\ pc \in PC /\ pc \in Alive /\ b.pc \in Alive
  BY DEF BoxOK, BoxType, PC, Alive
<1>2. QED
  BY <1>1 DEF BoxOK, BoxType

\* A worker is done with the command in hand.
LEMMA DoneOK ==
  ASSUME NEW b, BoxOK(b), b.pc \in Serving, NEW pc \in {"idle", "deciding"},
         NEW active \in MaybeRuntime \cup {NilRuntime}
  PROVE  BoxOK([b EXCEPT !.active = active, !.cur = NoCall, !.result = "none",
                         !.found = NoRuntime, !.pc = pc])
<1>1. b \in BoxType /\ pc \in PC /\ pc \in Alive /\ b.pc \in Alive /\ pc \notin Serving
  BY DEF BoxOK, BoxType, PC, Alive, Serving
<1>2. QED
  BY <1>1 DEF BoxOK, BoxType, MaybeRuntime

\* A worker leaves with nothing queued.
LEMMA RetireOK ==
  ASSUME NEW b, BoxOK(b), b.pc = "deciding"
  PROVE  BoxOK([b EXCEPT !.pc = "retired"])
<1>1. b \in BoxType /\ "retired" \in PC /\ "retired" \notin Alive /\ "retired" \notin Serving
  BY DEF BoxOK, BoxType, PC, Alive, Serving
<1>2. b.cur = NoCall
  BY DEF BoxOK, Serving
<1>3. QED
  BY <1>1, <1>2 DEF BoxOK, BoxType

-----------------------------------------------------------------------------
(* What a step of a worker does to its mailbox.                             *)

\* The mailbox of m becomes b, and no other changes.
Becomes(m, b) ==
  /\ BoxOK(b)
  /\ box' = [box EXCEPT ![m] = b]
  /\ b.session = box[m].session

\* The ways a step of worker m can leave its mailbox and the registry.
Stays(m, b) == b.pc \in Alive /\ registry' = registry
Leaves(m, b) ==
  /\ b.pc \in {"retired", "dead"}
  /\ b.queue = <<>>
  /\ b.cur = NoCall
  /\ \/ b.pc = "dead" /\ registry' = registry
     \/ /\ b.pc = "retired"
        /\ registry' = IF registry[box[m].session] = m
                       THEN [registry EXCEPT ![box[m].session] = NoBox] ELSE registry

\* Changing one mailbox changes one mailbox.
LEMMA OneBox ==
  ASSUME TypeOK, NEW n \in Mailbox, NEW b, BoxOK(b), box' = [box EXCEPT ![n] = b]
  PROVE  /\ box'[n] = b
         /\ \A k \in Mailbox : k # n => box'[k] = box[k]
         /\ box' = [k \in Mailbox |-> box'[k]]
         /\ \A k \in Mailbox : BoxOK(box'[k])
<1>1. box = [k \in Mailbox |-> box[k]] /\ \A k \in Mailbox : BoxOK(box[k])
  BY DEF TypeOK
<1>2. box'[n] = b /\ (\A k \in Mailbox : k # n => box'[k] = box[k])
      /\ box' = [k \in Mailbox |-> box'[k]]
  BY <1>1
<1>3. QED
  BY <1>1, <1>2

LEMMA PullBox ==
  ASSUME TypeOK, NEW m \in Mailbox, box[m].pc \in {"idle", "deciding"}, box[m].queue # <<>>,
         Pull(m), registry' = registry
  PROVE  \E b : Becomes(m, b) /\ Stays(m, b)
<1> DEFINE b == [box[m] EXCEPT !.pc = "taken", !.cur = Head(box[m].queue),
                               !.queue = Tail(@), !.result = "none"]
<1>1. BoxOK(box[m])
  BY DEF TypeOK
<1>2. BoxOK(b)
  BY <1>1, PullOK
<1>3. box' = [box EXCEPT ![m] = b] /\ b.session = box[m].session /\ b.pc = "taken"
  BY <1>1 DEF Pull, TypeOK, BoxOK
<1>4. QED
  BY <1>2, <1>3 DEF Becomes, Stays, Alive, Serving

LEMMA GotoBox ==
  ASSUME TypeOK, NEW m \in Mailbox, box[m].pc \in Serving, NEW pc \in Serving,
         NEW result \in {"none", "ok", "error", "skipped"}, NEW found \in MaybeRuntime,
         \/ Goto(m, pc)
         \/ box' = [box EXCEPT ![m].pc = pc, ![m].result = result]
         \/ box' = [box EXCEPT ![m].pc = pc, ![m].result = result, ![m].found = found],
         registry' = registry
  PROVE  \E b : Becomes(m, b) /\ Stays(m, b)
<1>1. BoxOK(box[m]) /\ box[m] \in BoxType
  BY DEF TypeOK, BoxOK, BoxType
<1>2. pc \in Alive
  BY DEF Alive
<1>3. CASE Goto(m, pc)
  <2> DEFINE b == [box[m] EXCEPT !.pc = pc]
  <2>1. box' = [box EXCEPT ![m] = b] /\ b.session = box[m].session /\ b.pc = pc
    BY <1>1, <1>3 DEF Goto, TypeOK, BoxType
  <2>2. BoxOK(b)
    BY <1>1, GoOnOK
  <2>3. QED
    BY <1>2, <2>1, <2>2 DEF Becomes, Stays
<1>4. CASE box' = [box EXCEPT ![m].pc = pc, ![m].result = result]
  <2> DEFINE b == [box[m] EXCEPT !.pc = pc, !.result = result]
  <2>1. box' = [box EXCEPT ![m] = b] /\ b.session = box[m].session /\ b.pc = pc
    BY <1>1, <1>4 DEF TypeOK, BoxType
  <2>2. BoxOK(b)
    BY <1>1, GoOnOK
  <2>3. QED
    BY <1>2, <2>1, <2>2 DEF Becomes, Stays
<1>5. CASE box' = [box EXCEPT ![m].pc = pc, ![m].result = result, ![m].found = found]
  <2> DEFINE b == [box[m] EXCEPT !.pc = pc, !.result = result, !.found = found]
  <2>1. box' = [box EXCEPT ![m] = b] /\ b.session = box[m].session /\ b.pc = pc
    BY <1>1, <1>5 DEF TypeOK, BoxType
  <2>2. BoxOK(b)
    BY <1>1, GoOnOK
  <2>3. QED
    BY <1>2, <2>1, <2>2 DEF Becomes, Stays
<1>6. QED
  BY <1>3, <1>4, <1>5

\* What the worker may come to believe is a runtime or none.
LEMMA BeliefType ==
  ASSUME TypeOK, NEW m \in Mailbox, box[m].pc = "settled"
  PROVE  Belief(m) \in MaybeRuntime \cup {NilRuntime}
<1>1. box[m].cur \in Call /\ box[m] \in BoxType
  BY DEF TypeOK, BoxOK, BoxType, Serving
<1>2. QED
  BY <1>1 DEF Belief, Call, MaybeRuntime, BoxType

LEMMA WorkerBox ==
  ASSUME TypeOK, NEW m \in Mailbox, Worker(m) \/ Panic(m)
  PROVE  /\ box[m].pc \in Alive
         /\ \E b : Becomes(m, b) /\ (Stays(m, b) \/ Leaves(m, b))
<1> USE DEF Serving
<1>0. BoxOK(box[m])
  BY DEF TypeOK
<1>1. CASE Take(m)
  BY <1>1, PullBox DEF Take, Alive
<1>2. CASE Repeat(m)
  <2>1. NoRuntime \in MaybeRuntime
    BY DEF MaybeRuntime
  <2>2. QED
    BY <1>2, <2>1, GotoBox DEF Repeat, Alive
<1>3. CASE Begin(m) \/ Clear(m) \/ Settle(m)
  <2>1. NoRuntime \in MaybeRuntime
    BY DEF MaybeRuntime
  <2>2. QED
    BY <1>3, <2>1, GotoBox DEF Begin, Fresh, Clear, Settle, Alive
<1>4. CASE Launch(m) \/ LaunchFails(m)
  <2>1. NoRuntime \in MaybeRuntime
    BY DEF MaybeRuntime
  <2>2. QED
    BY <1>4, <2>1, GotoBox DEF Launch, LaunchFails, Alive
<1>5. CASE Execute(m)
  <2>1. PICK outcome \in Outcomes(box[m].cur) :
          box' = [box EXCEPT ![m].pc = "handled", ![m].result = outcome,
                    ![m].found = IF box[m].cur.kind = "attach" THEN live[box[m].session]
                                                               ELSE NoRuntime]
    BY <1>5 DEF Execute
  <2>2. outcome \in {"none", "ok", "error", "skipped"}
    BY DEF Outcomes
  <2>3. box[m].pc = "taken" /\ box[m].pc \in Alive /\ box[m].session \in Session
    BY <1>0, <1>5 DEF Execute, Fresh, Alive, BoxOK
  <2>4. (IF box[m].cur.kind = "attach" THEN live[box[m].session] ELSE NoRuntime) \in MaybeRuntime
    BY <2>3 DEF TypeOK, MaybeRuntime
  <2>5. registry' = registry
    BY <1>5 DEF Execute
  <2>6. QED
    BY <2>1, <2>2, <2>3, <2>4, <2>5, GotoBox
<1>6. CASE Conclude(m)
  <2> DEFINE pc == IF Belief(m) = NoRuntime THEN "deciding" ELSE "idle"
             b == [box[m] EXCEPT !.active = Belief(m), !.cur = NoCall, !.result = "none",
                                 !.found = NoRuntime, !.pc = pc]
  <2>1. box[m].pc = "settled" /\ box[m].pc \in Serving /\ box[m].pc \in Alive /\ pc \in Alive
    BY <1>6 DEF Conclude, Alive
  <2>2. BoxOK(b)
    BY <1>0, <2>1, BeliefType, DoneOK
  <2>3. box' = [box EXCEPT ![m] = b] /\ b.session = box[m].session /\ b.pc = pc
    BY <1>0, <1>6 DEF Conclude, TypeOK, BoxOK
  <2>4. registry' = registry
    BY <1>6 DEF Conclude
  <2>5. QED
    BY <2>1, <2>2, <2>3, <2>4 DEF Becomes, Stays
<1>7. CASE Decide(m)
  <2>1. box[m].pc = "deciding" /\ box[m].pc \in Alive
    BY <1>7 DEF Decide, Alive
  <2>2. CASE box[m].queue # <<>>
    BY <1>7, <2>1, <2>2, PullBox DEF Decide
  <2>3. CASE box[m].queue = <<>>
    <3> DEFINE b == [box[m] EXCEPT !.pc = "retired"]
    <3>1. box' = [box EXCEPT ![m] = b] /\ b.session = box[m].session
          /\ b.queue = <<>> /\ b.pc = "retired" /\ b.cur = NoCall
      BY <1>0, <1>7, <2>1, <2>3 DEF Decide, Goto, TypeOK, BoxOK
    <3>2. BoxOK(b)
      BY <1>0, <2>1, RetireOK
    <3>3. registry' = IF registry[box[m].session] = m
                      THEN [registry EXCEPT ![box[m].session] = NoBox] ELSE registry
      BY <1>7, <2>3 DEF Decide
    <3>4. QED
      BY <2>1, <3>1, <3>2, <3>3 DEF Becomes, Leaves
  <2>4. QED
    BY <2>2, <2>3
<1>8. CASE Panic(m)
  <2> DEFINE b == Blank(box[m].session, <<>>, "dead")
  <2>1. box[m].pc \in {"taken", "cleared"} /\ box[m].pc \in Alive /\ box[m].session \in Session
    BY <1>0, <1>8 DEF Panic, Fresh, Alive, BoxOK
  <2>2. <<>> \in Seq(Call) /\ DOMAIN <<>> = {} /\ "dead" \in PC \ Serving /\ "dead" \notin Alive
    BY EmptySeq DEF PC, Alive
  <2>3. BoxOK(b)
    BY <2>1, <2>2, BlankOK
  <2>4. b.session = box[m].session /\ b.queue = <<>> /\ b.pc = "dead" /\ b.cur = NoCall
    BY DEF Blank
  <2>5. box' = [box EXCEPT ![m] = b] /\ registry' = registry
    BY <1>8 DEF Panic
  <2>6. QED
    BY <2>1, <2>3, <2>4, <2>5 DEF Becomes, Leaves
<1>9. QED
  BY <1>1, <1>2, <1>3, <1>4, <1>5, <1>6, <1>7, <1>8 DEF Worker

\* How a dispatched command reaches a mailbox.
Joins(c) ==
  LET m == registry[c.session]
  IN  /\ m \in Mailbox /\ box[m].pc \in Alive
      /\ registry' = registry
      /\ box' = [box EXCEPT ![m] = [box[m] EXCEPT !.queue = Append(@, c)]]
Opens(c, n) ==
  /\ registry[c.session] # NoBox => box[registry[c.session]].pc \notin Alive
  /\ box[n].pc = "unborn"
  /\ box' = [box EXCEPT ![n] = Blank(c.session, <<c>>, "idle")]
  /\ registry' = [registry EXCEPT ![c.session] = n]

LEMMA EnqueueBox ==
  ASSUME TypeOK, NEW c \in Call, Enqueue(c)
  PROVE  Joins(c) \/ \E n \in Mailbox : Opens(c, n)
<1>0. c.session \in Session /\ registry[c.session] \in Mailbox \cup {NoBox}
  BY DEF Call, TypeOK
<1>1. CASE registry[c.session] # NoBox /\ box[registry[c.session]].pc \in Alive
  BY <1>0, <1>1 DEF Enqueue, Joins, TypeOK
<1>2. CASE ~(registry[c.session] # NoBox /\ box[registry[c.session]].pc \in Alive)
  <2>1. NewMailbox \in Mailbox /\ box[NewMailbox].pc = "unborn"
    BY <1>2 DEF Enqueue, NewMailbox
  <2>2. Opens(c, NewMailbox)
    BY <1>2, <2>1 DEF Enqueue, Opens
  <2>3. QED
    BY <2>1, <2>2
<1>3. QED
  BY <1>1, <1>2

LEMMA OpenedOK ==
  ASSUME NEW c \in Call
  PROVE  /\ BoxOK(Blank(c.session, <<c>>, "idle"))
         /\ Blank(c.session, <<c>>, "idle").session = c.session
         /\ Blank(c.session, <<c>>, "idle").pc = "idle"
         /\ Blank(c.session, <<c>>, "idle").cur = NoCall
<1>1. c.session \in Session /\ "idle" \in PC \ Serving
  BY DEF Call, PC, Alive, Serving
<1>2. <<c>> \in Seq(Call) /\ DOMAIN <<c>> = {1} /\ <<c>>[1] = c
  OBVIOUS
<1>3. BoxOK(Blank(c.session, <<c>>, "idle"))
  BY <1>1, <1>2, BlankOK
<1>4. QED
  BY <1>3 DEF Blank

LEMMA JoinedOK ==
  ASSUME TypeOK, OneWorker, NEW c \in Call, Joins(c)
  PROVE  LET m == registry[c.session]
             b == [box[m] EXCEPT !.queue = Append(@, c)]
         IN  BoxOK(b) /\ b.pc = box[m].pc /\ b.session = c.session /\ b.cur = box[m].cur
             /\ box[m].session = c.session /\ b.queue = Append(box[m].queue, c)
             /\ b.result = box[m].result
<1> DEFINE m == registry[c.session]
<1>1. c.session \in Session /\ m \in Mailbox /\ m # NoBox
  BY NoneAssumption DEF Call, Joins
<1>2. BoxOK(box[m]) /\ box[m].session = c.session /\ box[m] \in BoxType
  BY <1>1 DEF TypeOK, OneWorker, BoxOK, BoxType
<1>3. BoxOK([box[m] EXCEPT !.queue = Append(@, c)])
  BY <1>2, AppendOK
<1>4. QED
  BY <1>2, <1>3 DEF BoxType

\* A registered worker that goes on, or dies where it stands, keeps the order.
LEMMA KeepsOne ==
  ASSUME TypeOK, OneWorker, NEW m \in Mailbox, box[m].pc \in Alive, NEW b,
         b.session = box[m].session,
         b.pc \in Alive \/ (b.pc = "dead" /\ b.queue = <<>>),
         box'[m] = b, \A k \in Mailbox : k # m => box'[k] = box[k],
         registry' = registry
  PROVE  OneWorker'
<1>1. box[m].session \in Session /\ registry[box[m].session] = m
  BY DEF TypeOK, BoxOK, OneWorker
<1>2. \A k \in Mailbox : box'[k].session = box[k].session
  OBVIOUS
<1>3. \A k \in Mailbox : box'[k].pc \in Alive => box[k].pc \in Alive
  OBVIOUS
<1>4. \A k \in Mailbox : box'[k].pc \in Alive => registry'[box'[k].session] = k
  BY <1>2, <1>3 DEF OneWorker
<1>5. \A k \in Mailbox : box'[k].pc \notin Alive => box'[k].queue = <<>>
  BY DEF OneWorker
<1>6. ASSUME NEW s \in Session, registry'[s] # NoBox
      PROVE  box'[registry'[s]].session = s /\ box'[registry'[s]].pc \in Alive \cup {"dead"}
  <2>1. registry[s] \in Mailbox /\ registry[s] # NoBox
    BY <1>6 DEF TypeOK
  <2>2. box[registry[s]].session = s /\ box[registry[s]].pc \in Alive \cup {"dead"}
    BY <2>1 DEF OneWorker
  <2>3. box'[registry[s]].session = s
    BY <1>2, <2>1, <2>2
  <2>4. box'[registry[s]].pc \in Alive \cup {"dead"}
    BY <2>1, <2>2
  <2>5. QED
    BY <2>3, <2>4
<1>7. QED
  BY <1>4, <1>5, <1>6 DEF OneWorker

\* A dispatch keeps at most one worker per session, all commands queued with it.
LEMMA DispatchWorker ==
  ASSUME TypeOK, OneWorker, NEW c \in Call, Enqueue(c) \/ SpawnFails(c)
  PROVE  /\ OneWorker'
         /\ registry' \in [Session -> Mailbox \cup {NoBox}]
         /\ box' = [m \in Mailbox |-> box'[m]]
         /\ \A m \in Mailbox : BoxOK(box'[m])
<1>0. c.session \in Session
  BY DEF Call
<1>1. CASE Joins(c)
  <2> DEFINE m == registry[c.session]
             b == [box[m] EXCEPT !.queue = Append(@, c)]
  <2>1. BoxOK(b) /\ b.pc = box[m].pc /\ b.session = box[m].session
    BY <1>1, JoinedOK
  <2>2. m \in Mailbox /\ box[m].pc \in Alive /\ registry' = registry /\ box' = [box EXCEPT ![m] = b]
    BY <1>1 DEF Joins
  <2> HIDE DEF b, m
  <2>3. /\ box'[m] = b /\ (\A k \in Mailbox : k # m => box'[k] = box[k])
        /\ box' = [k \in Mailbox |-> box'[k]]
        /\ \A k \in Mailbox : BoxOK(box'[k])
    BY <2>1, <2>2, OneBox
  <2>4. OneWorker'
    BY <2>1, <2>2, <2>3, KeepsOne
  <2>5. QED
    BY <2>2, <2>3, <2>4 DEF TypeOK
<1>2. CASE \E n \in Mailbox : Opens(c, n)
  <2>1. PICK n \in Mailbox : Opens(c, n)
    BY <1>2
  <2> DEFINE b == Blank(c.session, <<c>>, "idle")
  <2>2. BoxOK(b) /\ b.session = c.session /\ b.pc = "idle" /\ b.pc \in Alive
    BY OpenedOK DEF Alive
  <2>3. /\ registry[c.session] # NoBox => box[registry[c.session]].pc \notin Alive
        /\ box[n].pc = "unborn" /\ "unborn" \notin Alive /\ "unborn" # "dead"
        /\ box' = [box EXCEPT ![n] = b]
        /\ registry' = [registry EXCEPT ![c.session] = n]
    BY <2>1 DEF Opens, Alive, Serving
  <2>4. \A k \in Mailbox : box[k].pc \in Alive => box[k].session # c.session
    BY <2>3, NoneAssumption DEF OneWorker
  <2>5. \A s \in Session : registry[s] # n
    BY <2>3, NoneAssumption DEF OneWorker
  <2> HIDE DEF b
  <2>6. /\ box'[n] = b /\ (\A k \in Mailbox : k # n => box'[k] = box[k])
        /\ box' = [k \in Mailbox |-> box'[k]]
        /\ \A k \in Mailbox : BoxOK(box'[k])
    BY <2>2, <2>3, OneBox
  <2>7. registry' \in [Session -> Mailbox \cup {NoBox}]
    BY <1>0, <2>3 DEF TypeOK
  <2>8. \A s \in Session : registry'[s] = IF s = c.session THEN n ELSE registry[s]
    BY <1>0, <2>3 DEF TypeOK
  <2>9. \A k \in Mailbox : box'[k].pc \in Alive => registry'[box'[k].session] = k
    <3>1. ASSUME NEW k \in Mailbox, k # n, box'[k].pc \in Alive
          PROVE  registry'[box'[k].session] = k
      <4>1. box'[k] = box[k] /\ box[k].session \in Session /\ box[k].session # c.session
        BY <2>4, <2>6, <3>1 DEF TypeOK, BoxOK
      <4>2. QED
        BY <2>8, <3>1, <4>1 DEF OneWorker
    <3>2. registry'[box'[n].session] = n
      BY <1>0, <2>2, <2>6, <2>8
    <3>3. QED
      BY <3>1, <3>2
  <2>10. \A k \in Mailbox : box'[k].pc \notin Alive => box'[k].queue = <<>>
    BY <2>2, <2>6 DEF OneWorker
  <2>11. \A s \in Session : registry'[s] # NoBox =>
           (box'[registry'[s]].session = s /\ box'[registry'[s]].pc \in Alive \cup {"dead"})
    <3>1. ASSUME NEW s \in Session, s # c.session, registry[s] # NoBox
          PROVE  box'[registry[s]].session = s /\ box'[registry[s]].pc \in Alive \cup {"dead"}
      <4>1. registry[s] \in Mailbox /\ registry[s] # n
        BY <2>5, <3>1 DEF TypeOK
      <4>2. QED
        BY <2>6, <3>1, <4>1 DEF OneWorker
    <3>2. QED
      BY <2>2, <2>6, <2>8, <3>1
  <2>12. QED
    BY <2>6, <2>7, <2>9, <2>10, <2>11 DEF OneWorker
<1>3. CASE SpawnFails(c)
  <2>1. \A k \in Mailbox : box[k].pc \in Alive => box[k].session # c.session
    BY <1>3, NoneAssumption DEF SpawnFails, OneWorker
  <2>2. box' = box /\ registry' = [registry EXCEPT ![c.session] = NoBox]
    BY <1>3 DEF SpawnFails
  <2>3. \A s \in Session : registry'[s] = IF s = c.session THEN NoBox ELSE registry[s]
    BY <1>0, <2>2 DEF TypeOK
  <2>4. \A k \in Mailbox : box[k].pc \in Alive => box[k].session \in Session
    BY DEF TypeOK, BoxOK
  <2>5. OneWorker'
    BY <2>1, <2>2, <2>3, <2>4 DEF OneWorker
  <2>6. QED
    BY <1>0, <2>2, <2>5 DEF TypeOK
<1>4. QED
  BY <1>1, <1>2, <1>3, EnqueueBox

LEMMA StepWorker ==
  ASSUME TypeOK, OneWorker, NEW m \in Mailbox, Worker(m) \/ Panic(m)
  PROVE  /\ OneWorker'
         /\ registry' \in [Session -> Mailbox \cup {NoBox}]
         /\ box' = [n \in Mailbox |-> box'[n]]
         /\ \A n \in Mailbox : BoxOK(box'[n])
<1>1. PICK b : Becomes(m, b) /\ (Stays(m, b) \/ Leaves(m, b))
  BY WorkerBox
<1>2. box[m].pc \in Alive /\ box[m].session \in Session /\ registry[box[m].session] = m
  BY WorkerBox DEF TypeOK, BoxOK, OneWorker
<1>3. box' = [box EXCEPT ![m] = b] /\ BoxOK(b) /\ b.session = box[m].session
  BY <1>1 DEF Becomes
<1>31. /\ box'[m] = b /\ (\A k \in Mailbox : k # m => box'[k] = box[k])
       /\ box' = [k \in Mailbox |-> box'[k]]
       /\ \A k \in Mailbox : BoxOK(box'[k])
  BY <1>3, OneBox
<1>32. \A k \in Mailbox : box[k].pc \in Alive => box[k].session \in Session
  BY DEF TypeOK, BoxOK
<1>4. CASE Stays(m, b)
  <2>1. b.pc \in Alive /\ registry' = registry
    BY <1>4 DEF Stays
  <2>2. OneWorker'
    BY <1>2, <1>3, <1>31, <2>1, KeepsOne
  <2>3. QED
    BY <1>31, <2>1, <2>2 DEF TypeOK
<1>5. CASE Leaves(m, b) /\ b.pc = "dead"
  <2>1. b.pc \notin Alive /\ registry' = registry /\ b.queue = <<>>
    BY <1>5 DEF Leaves, Alive, Serving
  <2>2. OneWorker'
    BY <1>2, <1>3, <1>31, <1>5, <2>1, KeepsOne
  <2>3. QED
    BY <1>31, <2>1, <2>2 DEF TypeOK
<1>6. CASE Leaves(m, b) /\ b.pc = "retired"
  <2>1. b.pc \notin Alive /\ registry' = [registry EXCEPT ![box[m].session] = NoBox] /\ b.queue = <<>>
    BY <1>2, <1>6 DEF Leaves, Alive, Serving
  <2>2. \A k \in Mailbox : (k # m /\ box[k].pc \in Alive) => (box[k].session # box[m].session)
    BY <1>2 DEF OneWorker
  <2>3. \A s \in Session : registry'[s] = IF s = box[m].session THEN NoBox ELSE registry[s]
    BY <1>2, <2>1 DEF TypeOK
  <2>4. \A s \in Session : s # box[m].session => registry[s] # m
    BY <1>2, NoneAssumption DEF OneWorker
  <2>41. \A k \in Mailbox : box'[k].pc \in Alive => registry'[box'[k].session] = k
    <3>1. ASSUME NEW k \in Mailbox, box'[k].pc \in Alive
          PROVE  registry'[box'[k].session] = k
      <4>1. k # m
        BY <1>31, <2>1, <3>1
      <4>2. box'[k] = box[k] /\ box[k].session \in Session /\ box[k].session # box[m].session
        BY <1>31, <1>32, <2>2, <3>1, <4>1
      <4>3. QED
        BY <2>3, <3>1, <4>2 DEF OneWorker
    <3>2. QED
      BY <3>1
  <2>42. \A k \in Mailbox : box'[k].pc \notin Alive => box'[k].queue = <<>>
    BY <1>31, <2>1 DEF OneWorker
  <2>43. ASSUME NEW s \in Session, registry'[s] # NoBox
         PROVE  box'[registry'[s]].session = s /\ box'[registry'[s]].pc \in Alive \cup {"dead"}
    <3>1. s # box[m].session /\ registry'[s] = registry[s] /\ registry[s] # m
          /\ registry[s] \in Mailbox
      BY <2>3, <2>4, <2>43 DEF TypeOK
    <3>2. QED
      BY <1>31, <2>43, <3>1 DEF OneWorker
  <2>5. OneWorker'
    BY <2>41, <2>42, <2>43 DEF OneWorker
  <2>6. registry' \in [Session -> Mailbox \cup {NoBox}]
    BY <1>2, <2>1 DEF TypeOK
  <2>7. QED
    BY <1>31, <2>5, <2>6
<1>7. QED
  BY <1>1, <1>4, <1>5, <1>6 DEF Leaves

-----------------------------------------------------------------------------
(* Types of the tables, and the two invariants so far.                      *)

TablesOK ==
  /\ hub \in [Session -> MaybeRuntime]
  /\ live \in [Session -> MaybeRuntime]
  /\ proc \in [Runtime -> {"none", "running", "exited"}]
  /\ home \in [Runtime -> Session \cup {NoSession}]
  /\ cache \subseteq Request
  /\ issued \in [Request -> Call \cup {NoCall}]
  /\ resent \subseteq Request
  /\ \A q \in Request : issued[q] # NoCall => issued[q].id = q

\* A dispatch caches at most its own request.
LEMMA DispatchCache ==
  ASSUME TypeOK, NEW c \in Call, Enqueue(c) \/ SpawnFails(c)
  PROVE  cache' \subseteq Request
<1>1. CASE Enqueue(c)
  BY <1>1 DEF Enqueue, TypeOK
<1>2. CASE SpawnFails(c)
  BY <1>2 DEF SpawnFails, Remember, TypeOK, Call
<1>3. QED
  BY <1>1, <1>2

LEMMA DispatchTables ==
  ASSUME TypeOK, NEW c \in Call, Dispatch(c)
  PROVE  TablesOK'
<1>1. NewRequest \in Request /\ c.id = NewRequest
  BY DEF Dispatch, NewRequest
<1>2. issued' \in [Request -> Call \cup {NoCall}]
      /\ \A q \in Request : issued'[q] # NoCall => issued'[q].id = q
  BY <1>1 DEF Dispatch, TypeOK
<1>3. home' \in [Runtime -> Session \cup {NoSession}]
  BY DEF Dispatch, TypeOK, Call
<1>4. cache' \subseteq Request
  BY DispatchCache DEF Dispatch
<1>5. QED
  BY <1>2, <1>3, <1>4 DEF Dispatch, TypeOK, TablesOK

LEMMA WorkerTables ==
  ASSUME TypeOK, NEW m \in Mailbox, Knows(m), Worker(m) \/ Panic(m)
  PROVE  TablesOK'
<1>0. BoxOK(box[m]) /\ box[m].session \in Session
  BY WorkerBox DEF TypeOK, BoxOK
<1> USE DEF Serving
<1>1. CASE Take(m) \/ Repeat(m) \/ Decide(m) \/ Panic(m)
  BY <1>1 DEF Take, Repeat, Decide, Panic, TypeOK, TablesOK
<1>2. CASE Begin(m)
  <2>1. box[m].cur \in Call /\ box[m].cur.runtime \in Runtime
    BY <1>0, <1>2 DEF Begin, Fresh, BoxOK, Call
  <2>2. hub' \in [Session -> MaybeRuntime]
    BY <1>0, <1>2, <2>1 DEF Begin, TypeOK, MaybeRuntime
  <2>3. QED
    BY <1>2, <2>2 DEF Begin, TypeOK, TablesOK
<1>3. CASE Clear(m)
  <2>1. live' \in [Session -> MaybeRuntime]
    BY <1>0, <1>3 DEF Clear, TypeOK, MaybeRuntime
  <2>2. QED
    BY <1>3, <2>1 DEF Clear, TypeOK, TablesOK
<1>4. ASSUME box[m].cur \in Call
      PROVE  Remember(box[m].cur) \subseteq Request
  BY <1>4 DEF Remember, TypeOK, Call
<1>5. ASSUME box[m].pc \in Serving
      PROVE  box[m].cur \in Call
  BY <1>0, <1>5 DEF BoxOK
<1>6. CASE Launch(m)
  <2>1. box[m].cur.runtime \in Runtime /\ box[m].cur \in Call
    BY <1>5, <1>6 DEF Launch, Knows
  <2>2. live' \in [Session -> MaybeRuntime] /\ proc' \in [Runtime -> {"none", "running", "exited"}]
    BY <1>0, <1>6, <2>1 DEF Launch, TypeOK, MaybeRuntime
  <2>3. QED
    BY <1>4, <1>6, <2>1, <2>2 DEF Launch, TypeOK, TablesOK
<1>7. CASE LaunchFails(m)
  BY <1>4, <1>5, <1>7 DEF LaunchFails, TypeOK, TablesOK
<1>8. CASE Execute(m)
  <2>1. live' \in [Session -> MaybeRuntime]
    BY <1>0, <1>8 DEF Execute, TypeOK, MaybeRuntime
  <2>2. cache' \subseteq Request
    BY <1>4, <1>5, <1>8 DEF Execute, Fresh
  <2>3. QED
    BY <1>8, <2>1, <2>2 DEF Execute, TypeOK, TablesOK
<1>9. CASE Settle(m) \/ Conclude(m)
  <2>1. \A r : Ended(box[m].session, r) \in [Session -> MaybeRuntime]
    BY <1>0 DEF Ended, TypeOK, MaybeRuntime
  <2>2. hub' \in [Session -> MaybeRuntime]
    BY <1>9, <2>1 DEF Settle, Conclude, TypeOK
  <2>3. QED
    BY <1>9, <2>2 DEF Settle, Conclude, TypeOK, TablesOK
<1>10. QED
  BY <1>1, <1>2, <1>3, <1>6, <1>7, <1>8, <1>9 DEF Worker

LEMMA ExitTables ==
  ASSUME TypeOK, NEW r \in Runtime, Exit(r)
  PROVE  TablesOK'
<1>1. live' \in [Session -> MaybeRuntime]
  BY DEF Exit, TypeOK, MaybeRuntime
<1>2. QED
  BY <1>1 DEF Exit, TypeOK, TablesOK

-----------------------------------------------------------------------------
(* What a worker knows stays true: only it installs drivers of its session. *)

\* The part of Knows that speaks of the tables.
LEMMA KnowsOfOthers ==
  ASSUME TypeOK, OneWorker, NEW m \in Mailbox, NEW n \in Mailbox, n # m,
         Worker(m) \/ Panic(m), box[n].pc \in Alive, Knows(n), box'[n] = box[n]
  PROVE  Knows(n)'
<1>1. box[m].session \in Session /\ box[n].session \in Session
      /\ box[m].session # box[n].session
  BY WorkerBox DEF TypeOK, BoxOK, OneWorker
<1>2. hub'[box[n].session] = hub[box[n].session]
  BY <1>1 DEF Worker, Take, Repeat, Begin, Clear, Launch, LaunchFails, Execute, Settle,
              Conclude, Decide, Panic, Ended, TypeOK
<1>3. live'[box[n].session] = live[box[n].session]
  BY <1>1 DEF Worker, Take, Repeat, Begin, Clear, Launch, LaunchFails, Execute, Settle,
              Conclude, Decide, Panic, TypeOK
<1>4. QED
  BY <1>2, <1>3 DEF Knows

LEMMA KnowsOfItself ==
  ASSUME TypeOK, OneWorker, NEW m \in Mailbox, Worker(m) \/ Panic(m), Knows(m)
  PROVE  Knows(m)'
<1> DEFINE s == box[m].session
           c == box[m].cur
<1>0. BoxOK(box[m]) /\ s \in Session
  BY WorkerBox DEF TypeOK, BoxOK
<1>00. box' = [n \in Mailbox |-> box'[n]] /\ box = [n \in Mailbox |-> box[n]]
  BY StepWorker DEF TypeOK
<1>1. CASE Take(m) \/ Decide(m)
  <2>1. box'[m].pc \in {"taken", "retired"}
    BY <1>00, <1>0, <1>1 DEF Take, Decide, Pull, Goto, BoxOK
  <2>2. QED
    BY <2>1 DEF Knows
<1>2. CASE Repeat(m)
  <2>1. box'[m].pc = "settled" /\ box'[m].result = "skipped"
    BY <1>00, <1>0, <1>2 DEF Repeat, BoxOK
  <2>2. QED
    BY <2>1 DEF Knows
<1>3. CASE Begin(m)
  <2>1. c \in Call /\ c.runtime \in Runtime /\ c.kind = "start"
    BY <1>0, <1>3 DEF Begin, Fresh, BoxOK, Call, Serving
  <2>2. box'[m].pc = "begun" /\ box'[m].session = s /\ box'[m].cur = c
    BY <1>00, <1>0, <1>3 DEF Begin, Goto, BoxOK
  <2>3. hub'[s] = c.runtime
    BY <1>0, <1>3 DEF Begin, TypeOK
  <2>4. QED
    BY <2>1, <2>2, <2>3 DEF Knows
<1>4. CASE Clear(m)
  <2>1. box'[m].pc = "cleared" /\ box'[m].session = s /\ box'[m].cur = c
    BY <1>00, <1>0, <1>4 DEF Clear, Goto, BoxOK
  <2>2. live'[s] = NoRuntime
    BY <1>0, <1>4 DEF Clear, TypeOK
  <2>3. c.kind = "start" /\ hub'[s] = c.runtime /\ c.runtime \in Runtime
    BY <1>4 DEF Clear, Knows
  <2>4. QED
    BY <2>1, <2>2, <2>3 DEF Knows
<1>5. CASE Launch(m)
  <2>1. box'[m].pc = "handled" /\ box'[m].cur = c /\ box'[m].result = "ok"
    BY <1>00, <1>0, <1>5 DEF Launch, BoxOK
  <2>2. c.kind = "start"
    BY <1>5 DEF Launch, Knows
  <2>3. QED
    BY <2>1, <2>2 DEF Knows
<1>51. CASE LaunchFails(m)
  <2>1. box'[m].pc = "handled" /\ box'[m].session = s /\ box'[m].cur = c
        /\ box'[m].result = "error"
    BY <1>00, <1>0, <1>51 DEF LaunchFails, BoxOK
  <2>2. c.kind = "start" /\ live'[s] = NoRuntime
    BY <1>51 DEF LaunchFails, Knows
  <2>3. QED
    BY <2>1, <2>2 DEF Knows
<1>6. CASE Execute(m)
  <2>1. PICK outcome \in Outcomes(c) :
          /\ \/ live' = IF Dismisses(c, outcome) THEN [live EXCEPT ![s] = NoRuntime] ELSE live
             \/ Rewound(c) /\ live' = [live EXCEPT ![s] = NoRuntime]
          /\ box' = [box EXCEPT ![m].pc = "handled", ![m].result = outcome,
                       ![m].found = IF c.kind = "attach" THEN live[s] ELSE NoRuntime]
    BY <1>6 DEF Execute
  <2>2. box'[m].pc = "handled" /\ box'[m].session = s /\ box'[m].cur = c
        /\ box'[m].result = outcome
    BY <1>00, <1>0, <2>1 DEF BoxOK
  <2>3. c \in Call /\ c.session = s /\ c.kind # "start"
    BY <1>0, <1>6 DEF Execute, Fresh, BoxOK, Serving
  <2>4. outcome = "ok" /\ c.kind = "close" => live'[s] # c.runtime
    <3>1. c.kind = "close" => c.runtime # NoRuntime
      BY <2>3, NoneAssumption DEF Call
    <3>2. QED
      BY <1>0, <2>1, <2>3, <3>1 DEF Dismisses, Rewound, TypeOK
  <2>5. outcome = "ok" /\ c.kind = "remove" => live'[s] = NoRuntime
    BY <1>0, <2>1, <2>3 DEF Dismisses, Rewound, TypeOK
  <2>6. QED
    BY <2>2, <2>3, <2>4, <2>5 DEF Knows
<1>7. CASE Settle(m)
  <2>1. box'[m].pc = "settled" /\ box'[m].session = s /\ box'[m].cur = c
        /\ box'[m].result = box[m].result
    BY <1>00, <1>0, <1>7 DEF Settle, Goto, BoxOK
  <2>2. live' = live /\ box[m].pc = "handled"
    BY <1>7 DEF Settle
  <2>3. QED
    BY <2>1, <2>2 DEF Knows
<1>8. CASE Conclude(m)
  <2>1. box'[m].pc \in {"idle", "deciding"}
    BY <1>00, <1>0, <1>8 DEF Conclude, BoxOK
  <2>2. QED
    BY <2>1 DEF Knows
<1>9. CASE Panic(m)
  <2>1. box'[m].pc = "dead"
    BY <1>00, <1>9 DEF Panic, Blank
  <2>2. QED
    BY <2>1 DEF Knows
<1>10. QED
  BY <1>1, <1>2, <1>3, <1>4, <1>5, <1>51, <1>6, <1>7, <1>8, <1>9 DEF Worker

\* A mailbox whose worker is not serving knows nothing.
LEMMA IdleKnows ==
  ASSUME NEW m, box[m].pc \notin Serving
  PROVE  Knows(m)
  BY DEF Knows, Serving

IInv == TypeOK /\ OneWorker /\ LiveIsHeard /\ \A m \in Mailbox : Knows(m)

LEMMA BeginsIInv == Init => IInv
<1> SUFFICES ASSUME Init PROVE IInv
  OBVIOUS
<1>1. <<>> \in Seq(Call) /\ DOMAIN <<>> = {} /\ "unborn" \in PC \ Serving /\ "unborn" \notin Alive
  BY EmptySeq DEF PC, Alive, Serving
<1>2. BoxOK(Blank(NoSession, <<>>, "unborn"))
  BY <1>1, BlankOK
<1>3. \A m \in Mailbox : box[m] = Blank(NoSession, <<>>, "unborn")
  BY DEF Init
<1>4. \A m \in Mailbox : box[m].pc = "unborn" /\ box[m].queue = <<>>
  BY <1>3 DEF Blank
<1>5. TypeOK
  BY <1>2, <1>3 DEF Init, TypeOK, MaybeRuntime
<1>6. OneWorker
  BY <1>1, <1>4 DEF Init, OneWorker
<1>7. LiveIsHeard
  BY DEF Init, LiveIsHeard
<1>8. \A m \in Mailbox : Knows(m)
  BY <1>1, <1>4, IdleKnows
<1>9. QED
  BY <1>5, <1>6, <1>7, <1>8 DEF IInv

LEMMA EnqueueKeeps ==
  ASSUME IInv, NEW c \in Call, Enqueue(c) \/ SpawnFails(c), hub' = hub, live' = live
  PROVE  LiveIsHeard' /\ \A m \in Mailbox : Knows(m)'
<1>1. ASSUME NEW m \in Mailbox
      PROVE  \/ /\ box'[m].pc = box[m].pc /\ box'[m].session = box[m].session
                /\ box'[m].cur = box[m].cur /\ box'[m].result = box[m].result
             \/ box[m].pc = "unborn" /\ box'[m].pc = "idle"
  <2>1. CASE Joins(c)
    <3> DEFINE n == registry[c.session]
               b == [box[n] EXCEPT !.queue = Append(@, c)]
    <3>1. /\ n \in Mailbox /\ b.pc = box[n].pc /\ b.session = box[n].session
          /\ b.cur = box[n].cur /\ b.result = box[n].result /\ BoxOK(b)
      BY <2>1, JoinedOK DEF IInv, Joins
    <3>2. box' = [box EXCEPT ![n] = b]
      BY <2>1 DEF Joins
    <3> HIDE DEF b, n
    <3>3. box'[n] = b /\ \A k \in Mailbox : k # n => box'[k] = box[k]
      BY <3>1, <3>2, OneBox DEF IInv
    <3>4. QED
      BY <3>1, <3>3
  <2>2. CASE \E n \in Mailbox : Opens(c, n)
    <3>1. PICK n \in Mailbox : Opens(c, n)
      BY <2>2
    <3> DEFINE b == Blank(c.session, <<c>>, "idle")
    <3>2. BoxOK(b) /\ b.pc = "idle" /\ box[n].pc = "unborn" /\ box' = [box EXCEPT ![n] = b]
      BY <3>1, OpenedOK DEF Opens
    <3> HIDE DEF b
    <3>3. box'[n] = b /\ \A k \in Mailbox : k # n => box'[k] = box[k]
      BY <3>2, OneBox DEF IInv
    <3>4. QED
      BY <3>2, <3>3
  <2>3. CASE SpawnFails(c)
    BY <2>3 DEF SpawnFails
  <2>4. QED
    BY <2>1, <2>2, <2>3, EnqueueBox DEF IInv
<1>2. \A m \in Mailbox : Knows(m)'
  <2>1. ASSUME NEW m \in Mailbox
        PROVE  Knows(m)'
    <3>1. Knows(m)
      BY DEF IInv
    <3>2. CASE box'[m].pc = "idle"
      BY <3>2 DEF Knows
    <3>3. CASE box'[m].pc # "idle"
      <4>1. box'[m].pc = box[m].pc /\ box'[m].session = box[m].session
            /\ box'[m].cur = box[m].cur /\ box'[m].result = box[m].result
        BY <1>1, <3>3
      <4>2. QED
        BY <3>1, <4>1 DEF Knows
    <3>4. QED
      BY <3>2, <3>3
  <2>2. QED
    BY <2>1
<1>3. LiveIsHeard'
  BY <1>1 DEF IInv, LiveIsHeard
<1>4. QED
  BY <1>2, <1>3

LEMMA WorkerKeeps ==
  ASSUME IInv, NEW m \in Mailbox, Worker(m) \/ Panic(m)
  PROVE  LiveIsHeard' /\ \A n \in Mailbox : Knows(n)'
<1> DEFINE s == box[m].session
           c == box[m].cur
<1>0. BoxOK(box[m]) /\ s \in Session /\ TypeOK /\ OneWorker /\ LiveIsHeard /\ Knows(m)
      /\ box[m].pc \in Alive
  BY WorkerBox DEF TypeOK, BoxOK, IInv
<1>1. PICK b : Becomes(m, b) /\ (Stays(m, b) \/ Leaves(m, b))
  BY <1>0, WorkerBox
<1>2. box'[m] = b /\ b.session = s /\ \A k \in Mailbox : k # m => box'[k] = box[k]
  BY <1>0, <1>1, OneBox DEF Becomes
<1>3. ASSUME NEW n \in Mailbox
      PROVE  Knows(n)'
  <2>1. CASE n = m
    BY <1>0, <2>1, KnowsOfItself
  <2>2. CASE n # m /\ box[n].pc \in Alive
    BY <1>0, <1>2, <2>2, KnowsOfOthers DEF IInv
  <2>3. CASE n # m /\ box[n].pc \notin Alive
    <3>1. box'[n].pc \notin Serving
      BY <1>2, <2>3 DEF Alive
    <3>2. QED
      BY <3>1 DEF Knows, Serving
  <2>4. QED
    BY <2>1, <2>2, <2>3
<1>4. ASSUME NEW t \in Session, t # s
      PROVE  hub'[t] = hub[t] /\ live'[t] = live[t]
  BY <1>0, <1>4 DEF Worker, Take, Repeat, Begin, Clear, Launch, LaunchFails, Execute, Settle,
              Conclude, Decide, Panic, Ended, TypeOK
<1>5. ASSUME NEW t \in Session, t # s, live'[t] # NoRuntime
      PROVE  hub'[t] = live'[t] \/ \E k \in Mailbox : box'[k].pc = "begun" /\ box'[k].session = t
  BY <1>0, <1>2, <1>4, <1>5 DEF LiveIsHeard
<1>6. box[m].pc # "begun" /\ live[s] # NoRuntime => hub[s] = live[s]
  <2>1. \A k \in Mailbox : (box[k].pc = "begun" /\ box[k].session = s) => k = m
    BY <1>0 DEF OneWorker, Alive, Serving
  <2>2. QED
    BY <1>0, <2>1 DEF LiveIsHeard
<1>7. live'[s] # NoRuntime => (hub'[s] = live'[s] \/ box'[m].pc = "begun")
  <2>1. CASE Take(m) \/ Repeat(m) \/ Decide(m) \/ Panic(m) \/ LaunchFails(m)
    BY <1>6, <2>1 DEF Take, Repeat, Decide, Panic, Fresh, LaunchFails
  <2>2. CASE Begin(m)
    BY <1>0, <1>2, <2>2 DEF Begin, Goto, TypeOK, BoxOK
  <2>3. CASE Clear(m)
    BY <1>0, <2>3 DEF Clear, TypeOK
  <2>4. CASE Launch(m)
    BY <1>0, <2>4 DEF Launch, Knows, TypeOK
  <2>5. CASE Execute(m)
    <3>1. live'[s] \in {NoRuntime, live[s]} /\ hub' = hub /\ box[m].pc = "taken"
      BY <1>0, <2>5 DEF Execute, Fresh, TypeOK
    <3>2. QED
      BY <1>6, <3>1
  <2>6. CASE Settle(m)
    <3>1. live' = live /\ box[m].pc = "handled"
      BY <2>6 DEF Settle
    <3>2. CASE c.kind = "start" /\ box[m].result = "error"
      BY <1>0, <3>1, <3>2 DEF Knows
    <3>3. CASE ~(c.kind = "start" /\ box[m].result = "error")
      BY <1>6, <2>6, <3>1, <3>3 DEF Settle
    <3>4. QED
      BY <3>2, <3>3
  <2>7. CASE Conclude(m)
    <3>1. live' = live /\ box[m].pc = "settled"
      BY <2>7 DEF Conclude
    <3>2. CASE c.kind \notin {"close", "remove"} \/ ~Closes(m)
      BY <1>6, <2>7, <3>1, <3>2 DEF Conclude
    <3>3. CASE c.kind = "remove" /\ Closes(m)
      BY <1>0, <3>1, <3>3 DEF Knows, Closes
    <3>4. CASE c.kind = "close" /\ Closes(m)
      <4>1. live[s] # c.runtime /\ hub' = Ended(s, c.runtime)
        BY <1>0, <2>7, <3>1, <3>4 DEF Conclude, Knows, Closes
      <4>2. CASE hub[s] = c.runtime
        BY <1>6, <3>1, <4>1, <4>2
      <4>3. CASE hub[s] # c.runtime
        BY <1>6, <3>1, <4>1, <4>3 DEF Ended
      <4>4. QED
        BY <4>2, <4>3
    <3>5. QED
      BY <3>2, <3>3, <3>4
  <2>8. QED
    BY <2>1, <2>2, <2>3, <2>4, <2>5, <2>6, <2>7 DEF Worker
<1>8. LiveIsHeard'
  BY <1>2, <1>5, <1>7 DEF LiveIsHeard
<1>9. QED
  BY <1>3, <1>8

LEMMA ExitKeeps ==
  ASSUME IInv, NEW r \in Runtime, Exit(r)
  PROVE  LiveIsHeard' /\ \A n \in Mailbox : Knows(n)'
<1>1. box' = box /\ hub' = hub
  BY DEF Exit
<1>2. \A s \in Session : live'[s] \in {live[s], NoRuntime}
  BY DEF Exit, IInv, TypeOK
<1>3. LiveIsHeard'
  BY <1>1, <1>2 DEF IInv, LiveIsHeard
<1>4. ASSUME NEW n \in Mailbox
      PROVE  Knows(n)'
  <2>1. Knows(n) /\ BoxOK(box[n])
    BY DEF IInv, TypeOK
  <2>2. CASE box[n].pc \notin Serving
    BY <1>1, <2>2 DEF Knows, Serving
  <2>3. CASE box[n].pc \in Serving
    <3>1. box[n].session \in Session /\ box[n].cur \in Call
      BY <2>1, <2>3 DEF BoxOK, Alive
    <3>2. live'[box[n].session] \in {live[box[n].session], NoRuntime}
      BY <1>2, <3>1
    <3>3. box[n].cur.kind = "close" => box[n].cur.runtime # NoRuntime
      BY <3>1, NoneAssumption DEF Call
    <3>4. QED
      BY <1>1, <2>1, <3>2, <3>3 DEF Knows
  <2>4. QED
    BY <2>2, <2>3
<1>5. QED
  BY <1>3, <1>4

LEMMA NextKeepsIInv == IInv /\ [Next]_vars => IInv'
<1> SUFFICES ASSUME IInv, [Next]_vars PROVE IInv'
  OBVIOUS
<1>0. TypeOK /\ OneWorker /\ \A m \in Mailbox : Knows(m)
  BY DEF IInv
<1>1. ASSUME NEW c \in Call, Dispatch(c)
      PROVE  IInv'
  <2>1. (Enqueue(c) \/ SpawnFails(c)) /\ hub' = hub /\ live' = live
    BY <1>1 DEF Dispatch
  <2>2. TablesOK'
    BY <1>0, <1>1, DispatchTables
  <2>3. QED
    BY <1>0, <2>1, <2>2, DispatchWorker, EnqueueKeeps DEF IInv, TypeOK, TablesOK
<1>2. ASSUME NEW q \in Request, Resend(q)
      PROVE  IInv'
  <2>1. issued[q] \in Call /\ (Enqueue(issued[q]) \/ SpawnFails(issued[q])) /\ hub' = hub /\ live' = live
    BY <1>0, <1>2 DEF Resend, TypeOK
  <2>2. cache' \subseteq Request
    BY <1>0, <2>1, DispatchCache
  <2>21. TablesOK'
    BY <1>0, <1>2, <2>2 DEF Resend, TypeOK, TablesOK
  <2>3. QED
    BY <1>0, <2>1, <2>21, DispatchWorker, EnqueueKeeps DEF IInv, TypeOK, TablesOK
<1>3. ASSUME NEW m \in Mailbox, Worker(m) \/ Panic(m)
      PROVE  IInv'
  <2>1. TablesOK'
    BY <1>0, <1>3, WorkerTables
  <2>2. QED
    BY <1>0, <1>3, <2>1, StepWorker, WorkerKeeps DEF IInv, TypeOK, TablesOK
<1>4. ASSUME NEW r \in Runtime, Exit(r)
      PROVE  IInv'
  <2>1. registry' = registry /\ box' = box
    BY <1>4 DEF Exit
  <2>2. TablesOK'
    BY <1>0, <1>4, ExitTables
  <2>3. OneWorker'
    BY <1>0, <2>1 DEF OneWorker
  <2>4. QED
    BY <1>0, <1>4, <2>1, <2>2, <2>3, ExitKeeps DEF IInv, TypeOK, TablesOK
<1>5. CASE UNCHANGED vars
  <2>1. TypeOK'
    BY <1>0, <1>5 DEF vars, TypeOK
  <2>2. OneWorker' /\ LiveIsHeard'
    BY <1>5 DEF vars, IInv, OneWorker, LiveIsHeard
  <2>3. \A m \in Mailbox : Knows(m)'
    BY <1>0, <1>5 DEF vars, Knows
  <2>4. QED
    BY <2>1, <2>2, <2>3 DEF IInv
<1>6. QED
  BY <1>1, <1>2, <1>3, <1>4, <1>5 DEF Next

-----------------------------------------------------------------------------
(* Theorems.                                                                *)

LEMMA InvariantHolds == Spec => []IInv
  BY BeginsIInv, NextKeepsIInv, PTL DEF Spec

\* Registry, mailboxes and the three tables stay well formed, and no command
\* reaches the mailbox of another session, however dispatches, workers,
\* panics and exits interleave.
THEOREM MailboxTypes == Spec => []TypeOK
<1>1. IInv => TypeOK
  BY DEF IInv
<1>2. QED
  BY <1>1, InvariantHolds, PTL

\* At any time at most one worker serves a session, and it is the one the
\* registry sends commands to: a retiring worker never races a dispatch.
THEOREM OneWorkerPerSession == Spec => []OneWorker
<1>1. IInv => OneWorker
  BY DEF IInv
<1>2. QED
  BY <1>1, InvariantHolds, PTL

\* The backend never holds the driver of a runtime the hub does not broadcast.
THEOREM LiveRuntimesAreHeard == Spec => []LiveIsHeard
<1>1. IInv => LiveIsHeard
  BY DEF IInv
<1>2. QED
  BY <1>1, InvariantHolds, PTL

-----------------------------------------------------------------------------
(* The mailboxes implement one actor per session.                           *)

\* The line and the command in hand, seen through the registry.
LEMMA Seen ==
  ASSUME TypeOK, OneWorker
  PROVE  /\ Waiting = [s \in Session |-> Waiting[s]] /\ InHand = [s \in Session |-> InHand[s]]
         /\ \A s \in Session : (registry[s] = NoBox \/ box[registry[s]].pc \notin Alive)
              => (Waiting[s] = <<>> /\ InHand[s] = NoCall)
         /\ \A m \in Mailbox : box[m].pc \in Alive =>
              (Waiting[box[m].session] = box[m].queue /\ InHand[box[m].session] = box[m].cur)
<1>1. Waiting = [s \in Session |-> Waiting[s]] /\ InHand = [s \in Session |-> InHand[s]]
  BY DEF Waiting, InHand
<1>2. ASSUME NEW s \in Session, registry[s] # NoBox, box[registry[s]].pc \notin Alive
      PROVE  box[registry[s]].queue = <<>> /\ box[registry[s]].cur = NoCall
  <2>1. registry[s] \in Mailbox
    BY <1>2 DEF TypeOK
  <2>2. BoxOK(box[registry[s]])
    BY <2>1 DEF TypeOK
  <2>3. QED
    BY <1>2, <2>1, <2>2 DEF OneWorker, BoxOK, Alive
<1>3. ASSUME NEW m \in Mailbox, box[m].pc \in Alive
      PROVE  box[m].session \in Session /\ registry[box[m].session] = m /\ m # NoBox
  BY <1>3, NoneAssumption DEF TypeOK, BoxOK, OneWorker
<1>4. QED
  BY <1>1, <1>2, <1>3 DEF Waiting, InHand

\* A step inside a registered mailbox moves just its session.
LEMMA SeenStep ==
  ASSUME IInv, NEW m \in Mailbox, box[m].pc \in Alive, NEW b,
         box'[m] = b, \A k \in Mailbox : k # m => box'[k] = box[k],
         b.session = box[m].session,
         \/ registry' = registry
         \/ /\ registry' = [registry EXCEPT ![box[m].session] = NoBox]
            /\ b.queue = <<>>
            /\ b.cur = NoCall
  PROVE  /\ Waiting' = [Waiting EXCEPT ![box[m].session] = b.queue]
         /\ InHand' = [InHand EXCEPT ![box[m].session] = b.cur]
<1> DEFINE s == box[m].session
<1>1. s \in Session /\ registry[s] = m /\ m # NoBox
  BY NoneAssumption DEF IInv, TypeOK, BoxOK, OneWorker
<1>2. \A t \in Session : t # s => (registry'[t] = registry[t] /\ registry[t] # m)
  BY <1>1 DEF IInv, TypeOK, OneWorker
<1>3. \A t \in Session : registry[t] \in Mailbox \cup {NoBox}
  BY DEF IInv, TypeOK
<1>4. \A t \in Session : t # s => (Waiting'[t] = Waiting[t] /\ InHand'[t] = InHand[t])
  BY <1>2, <1>3 DEF Waiting, InHand
<1>5. registry'[s] \in {m, NoBox} /\ (registry'[s] = NoBox => (b.queue = <<>> /\ b.cur = NoCall))
  BY <1>1 DEF IInv, TypeOK
<1>6. Waiting'[s] = b.queue /\ InHand'[s] = b.cur
  BY <1>1, <1>5 DEF Waiting, InHand
<1> HIDE DEF s
<1>7. Waiting = [t \in Session |-> Waiting[t]] /\ InHand = [t \in Session |-> InHand[t]]
  BY DEF Waiting, InHand
<1>8. Waiting' = [t \in Session |-> Waiting'[t]] /\ InHand' = [t \in Session |-> InHand'[t]]
  BY DEF Waiting, InHand
<1>9. Waiting' = [Waiting EXCEPT ![s] = b.queue] /\ InHand' = [InHand EXCEPT ![s] = b.cur]
  BY <1>1, <1>4, <1>6, <1>7, <1>8
<1>10. QED
  BY <1>9 DEF s

LEMMA AcceptStep ==
  ASSUME IInv, NEW c \in Call, Enqueue(c) \/ SpawnFails(c)
  PROVE  Actor!Accept(c.session, c) \/ UNCHANGED Actor!vars
<1>0. c.session \in Session /\ TypeOK /\ OneWorker
  BY DEF Call, IInv
<1>1. CASE Joins(c)
  <2> DEFINE m == registry[c.session]
             b == [box[m] EXCEPT !.queue = Append(@, c)]
  <2>1. BoxOK(b) /\ b.session = box[m].session /\ b.cur = box[m].cur
        /\ b.queue = Append(box[m].queue, c) /\ box[m].session = c.session
    BY <1>0, <1>1, JoinedOK
  <2>2. m \in Mailbox /\ box[m].pc \in Alive /\ registry' = registry /\ box' = [box EXCEPT ![m] = b]
    BY <1>1 DEF Joins
  <2> HIDE DEF b, m
  <2>3. box'[m] = b /\ \A k \in Mailbox : k # m => box'[k] = box[k]
    BY <1>0, <2>1, <2>2, OneBox
  <2>4. /\ Waiting' = [Waiting EXCEPT ![c.session] = b.queue]
        /\ InHand' = [InHand EXCEPT ![c.session] = b.cur]
    BY <2>1, <2>2, <2>3, SeenStep
  <2>5. Waiting[c.session] = box[m].queue /\ InHand[c.session] = box[m].cur
        /\ InHand = [s \in Session |-> InHand[s]]
    BY <1>0, <2>1, <2>2, Seen
  <2>6. InHand' = InHand
    BY <2>1, <2>4, <2>5
  <2>7. Waiting' = [Waiting EXCEPT ![c.session] = Append(@, c)]
    BY <2>1, <2>4, <2>5
  <2>8. QED
    BY <2>6, <2>7 DEF Actor!Accept
<1>2. CASE \E n \in Mailbox : Opens(c, n)
  <2>1. PICK n \in Mailbox : Opens(c, n)
    BY <1>2
  <2> DEFINE b == Blank(c.session, <<c>>, "idle")
  <2>2. BoxOK(b) /\ b.queue = <<c>> /\ b.cur = NoCall
    BY OpenedOK DEF Blank
  <2>3. /\ box[n].pc = "unborn" /\ box' = [box EXCEPT ![n] = b]
        /\ registry' = [registry EXCEPT ![c.session] = n]
        /\ registry[c.session] = NoBox \/ box[registry[c.session]].pc \notin Alive
    BY <2>1 DEF Opens
  <2> HIDE DEF b
  <2>4. box'[n] = b /\ \A k \in Mailbox : k # n => box'[k] = box[k]
    BY <1>0, <2>2, <2>3, OneBox
  <2>5. \A s \in Session : registry[s] # n /\ registry[s] \in Mailbox \cup {NoBox}
    <3> TAKE s \in Session
    <3>1. registry[s] \in Mailbox \cup {NoBox} /\ n # NoBox
      BY <1>0, NoneAssumption DEF TypeOK
    <3>2. registry[s] # NoBox => box[registry[s]].pc \in Alive \cup {"dead"}
      BY <1>0 DEF OneWorker
    <3>3. "unborn" \notin Alive \cup {"dead"}
      BY DEF Alive, Serving
    <3>4. QED
      BY <2>3, <3>1, <3>2, <3>3
  <2>6. \A s \in Session : registry'[s] = IF s = c.session THEN n ELSE registry[s]
    BY <1>0, <2>3 DEF TypeOK
  <2>7. \A s \in Session : s # c.session => (Waiting'[s] = Waiting[s] /\ InHand'[s] = InHand[s])
    BY <2>4, <2>5, <2>6 DEF Waiting, InHand
  <2>8. Waiting'[c.session] = <<c>> /\ InHand'[c.session] = NoCall
    BY <1>0, <2>2, <2>4, <2>6, NoneAssumption DEF Waiting, InHand
  <2>9. Waiting[c.session] = <<>> /\ InHand[c.session] = NoCall
        /\ Waiting = [s \in Session |-> Waiting[s]] /\ InHand = [s \in Session |-> InHand[s]]
    BY <1>0, <2>3, Seen
  <2>10. Waiting' = [s \in Session |-> Waiting'[s]] /\ InHand' = [s \in Session |-> InHand'[s]]
    BY DEF Waiting, InHand
  <2>11. InHand' = InHand
    BY <2>7, <2>8, <2>9, <2>10
  <2>12. Append(<<>>, c) = <<c>>
    OBVIOUS
  <2>13. Waiting' = [Waiting EXCEPT ![c.session] = Append(@, c)]
    BY <2>7, <2>8, <2>9, <2>10, <2>12
  <2>14. QED
    BY <2>11, <2>13 DEF Actor!Accept
<1>3. CASE SpawnFails(c)
  <2>1. box' = box /\ registry' = [registry EXCEPT ![c.session] = NoBox]
        /\ (registry[c.session] = NoBox \/ box[registry[c.session]].pc \notin Alive)
    BY <1>3 DEF SpawnFails
  <2>2. Waiting[c.session] = <<>> /\ InHand[c.session] = NoCall
    BY <1>0, <2>1, Seen
  <2>3. \A s \in Session : registry'[s] = IF s = c.session THEN NoBox ELSE registry[s]
    BY <1>0, <2>1 DEF TypeOK
  <2>4. \A s \in Session : Waiting'[s] = Waiting[s] /\ InHand'[s] = InHand[s]
    BY <2>1, <2>2, <2>3 DEF Waiting, InHand
  <2>5. Waiting' = Waiting /\ InHand' = InHand
    BY <2>4 DEF Waiting, InHand
  <2>6. QED
    BY <2>5 DEF Actor!vars
<1>4. QED
  BY <1>0, <1>1, <1>2, <1>3, EnqueueBox

\* A command taken in hand is taken by the actor.
LEMMA PullActs ==
  ASSUME IInv, NEW m \in Mailbox, box[m].pc \in {"idle", "deciding"}, box[m].queue # <<>>,
         Pull(m), registry' = registry
  PROVE  Actor!Take(box[m].session)
<1> DEFINE b == [box[m] EXCEPT !.pc = "taken", !.cur = Head(box[m].queue),
                               !.queue = Tail(@), !.result = "none"]
           s == box[m].session
<1>0. TypeOK /\ OneWorker /\ BoxOK(box[m]) /\ box[m].pc \in Alive /\ box[m].cur = NoCall
  BY DEF IInv, TypeOK, BoxOK, Alive, Serving
<1>1. BoxOK(b)
  BY <1>0, PullOK
<1>2. box' = [box EXCEPT ![m] = b] /\ b.session = s
      /\ b.queue = Tail(box[m].queue) /\ b.cur = Head(box[m].queue)
  BY <1>0 DEF Pull, TypeOK, BoxOK
<1> HIDE DEF b
<1>3. box'[m] = b /\ \A k \in Mailbox : k # m => box'[k] = box[k]
  BY <1>0, <1>1, <1>2, OneBox
<1>4. Waiting' = [Waiting EXCEPT ![s] = b.queue] /\ InHand' = [InHand EXCEPT ![s] = b.cur]
  BY <1>0, <1>2, <1>3, SeenStep
<1>5. Waiting[s] = box[m].queue /\ InHand[s] = NoCall
      /\ Waiting = [t \in Session |-> Waiting[t]]
  BY <1>0, Seen
<1>6. s \in Session
  BY <1>0 DEF BoxOK
<1> HIDE DEF s
<1>7. Waiting' = [Waiting EXCEPT ![s] = Tail(@)] /\ InHand' = [InHand EXCEPT ![s] = Head(Waiting[s])]
  BY <1>2, <1>4, <1>5, <1>6
<1>8. Waiting[s] # <<>> /\ InHand[s] = NoCall
  BY <1>5 DEF s
<1>9. Actor!Take(s)
  BY <1>7, <1>8 DEF Actor!Take
<1>10. QED
  BY <1>9 DEF s

\* A step that leaves the queue and the command in hand alone is not seen.
LEMMA QuietStep ==
  ASSUME IInv, NEW m \in Mailbox, box[m].pc \in Alive, NEW b,
         box'[m] = b, \A k \in Mailbox : k # m => box'[k] = box[k],
         b.session = box[m].session, b.queue = box[m].queue, b.cur = box[m].cur,
         \/ registry' = registry
         \/ /\ registry' = [registry EXCEPT ![box[m].session] = NoBox]
            /\ b.queue = <<>>
            /\ b.cur = NoCall
  PROVE  UNCHANGED Actor!vars
<1> DEFINE s == box[m].session
<1>1. TypeOK /\ OneWorker /\ s \in Session
  BY DEF IInv, TypeOK, BoxOK
<1>2. Waiting' = [Waiting EXCEPT ![s] = b.queue] /\ InHand' = [InHand EXCEPT ![s] = b.cur]
  BY SeenStep
<1>3. Waiting[s] = b.queue /\ InHand[s] = b.cur
      /\ Waiting = [t \in Session |-> Waiting[t]] /\ InHand = [t \in Session |-> InHand[t]]
  BY <1>1, Seen
<1> HIDE DEF s
<1>4. Waiting' = Waiting /\ InHand' = InHand
  BY <1>1, <1>2, <1>3
<1>5. QED
  BY <1>4 DEF Actor!vars

\* The steps of a worker between taking a command and concluding it.
Midway(m) ==
  Repeat(m) \/ Begin(m) \/ Clear(m) \/ Launch(m) \/ LaunchFails(m) \/ Execute(m) \/ Settle(m)

LEMMA MidwayBox ==
  ASSUME TypeOK, NEW m \in Mailbox, Midway(m)
  PROVE  /\ registry' = registry
         /\ box[m].pc \in Alive
         /\ \A k \in Mailbox : k # m => box'[k] = box[k]
         /\ box'[m].session = box[m].session
         /\ box'[m].queue = box[m].queue
         /\ box'[m].cur = box[m].cur
<1> USE DEF Serving, Alive
<1>1. box = [k \in Mailbox |-> box[k]] /\ box[m] \in BoxType
  BY DEF TypeOK, BoxOK, BoxType
<1>2. CASE Repeat(m)
  BY <1>1, <1>2 DEF Repeat, BoxType
<1>3. CASE Begin(m) \/ Clear(m) \/ Settle(m)
  BY <1>1, <1>3 DEF Begin, Clear, Settle, Fresh, Goto, BoxType
<1>4. CASE Launch(m) \/ LaunchFails(m)
  BY <1>1, <1>4 DEF Launch, LaunchFails, BoxType
<1>5. CASE Execute(m)
  BY <1>1, <1>5 DEF Execute, Fresh, BoxType
<1>6. QED
  BY <1>2, <1>3, <1>4, <1>5 DEF Midway

\* A command concluded is finished by the actor.
LEMMA ConcludeActs ==
  ASSUME IInv, NEW m \in Mailbox, Conclude(m)
  PROVE  Actor!Finish(box[m].session)
<1> DEFINE s == box[m].session
<1>1. TypeOK /\ OneWorker /\ BoxOK(box[m]) /\ box[m] \in BoxType
  BY DEF IInv, TypeOK, BoxOK, BoxType
<1>2. box[m].pc \in Alive /\ box[m].cur # NoCall /\ registry' = registry
  BY <1>1 DEF Conclude, BoxOK, Alive, Serving
<1>3. /\ \A k \in Mailbox : k # m => box'[k] = box[k]
      /\ box'[m].session = s /\ box'[m].queue = box[m].queue /\ box'[m].cur = NoCall
  BY <1>1 DEF Conclude, TypeOK, BoxType
<1>4. Waiting' = [Waiting EXCEPT ![s] = box[m].queue] /\ InHand' = [InHand EXCEPT ![s] = NoCall]
  <2>1. \A b : box'[m] = b =>
          (Waiting' = [Waiting EXCEPT ![s] = b.queue] /\ InHand' = [InHand EXCEPT ![s] = b.cur])
    BY <1>2, <1>3, SeenStep
  <2>2. QED
    BY <1>3, <2>1
<1>5. Waiting[s] = box[m].queue /\ InHand[s] = box[m].cur
      /\ Waiting = [t \in Session |-> Waiting[t]]
  BY <1>1, <1>2, Seen
<1>6. s \in Session
  BY <1>1, <1>2 DEF BoxOK
<1> HIDE DEF s
<1>7. Waiting' = Waiting
  BY <1>4, <1>5, <1>6
<1>8. Actor!Finish(s)
  BY <1>2, <1>4, <1>5, <1>7 DEF Actor!Finish
<1>9. QED
  BY <1>8 DEF s

\* A worker that panics is an actor that crashes.
LEMMA PanicActs ==
  ASSUME IInv, NEW m \in Mailbox, Panic(m)
  PROVE  Actor!Crash(box[m].session)
<1> DEFINE s == box[m].session
           b == Blank(s, <<>>, "dead")
<1>1. TypeOK /\ OneWorker /\ BoxOK(box[m])
  BY DEF IInv, TypeOK
<1>2. box[m].pc \in Alive /\ box[m].cur # NoCall /\ registry' = registry
  BY <1>1 DEF Panic, Fresh, BoxOK, Alive, Serving
<1>3. b.session = s /\ b.queue = <<>> /\ b.cur = NoCall
  BY DEF Blank
<1>4. box' = [box EXCEPT ![m] = b]
  BY DEF Panic
<1> HIDE DEF b
<1>5. box'[m] = b /\ \A k \in Mailbox : k # m => box'[k] = box[k]
  BY <1>1, <1>4 DEF TypeOK
<1>6. Waiting' = [Waiting EXCEPT ![s] = <<>>] /\ InHand' = [InHand EXCEPT ![s] = NoCall]
  BY <1>2, <1>3, <1>5, SeenStep
<1>7. InHand[s] # NoCall
  BY <1>1, <1>2, Seen
<1>8. QED
  BY <1>6, <1>7 DEF Actor!Crash

LEMMA WorkerActs ==
  ASSUME IInv, NEW m \in Mailbox, Worker(m) \/ Panic(m)
  PROVE  (\E s \in Session : Actor!Take(s) \/ Actor!Finish(s) \/ Actor!Crash(s))
         \/ UNCHANGED Actor!vars
<1>0. TypeOK /\ OneWorker /\ BoxOK(box[m]) /\ box[m].session \in Session
  BY WorkerBox DEF IInv, TypeOK, BoxOK
<1>1. CASE Take(m)
  <2>1. Actor!Take(box[m].session)
    BY <1>1, PullActs DEF Take
  <2>2. QED
    BY <1>0, <2>1
<1>2. CASE Midway(m)
  <2>1. \A b : box'[m] = b => UNCHANGED Actor!vars
    BY <1>0, <1>2, MidwayBox, QuietStep
  <2>2. QED
    BY <2>1
<1>3. CASE Conclude(m)
  BY <1>0, <1>3, ConcludeActs
<1>4. CASE Decide(m) /\ box[m].queue # <<>>
  <2>1. Actor!Take(box[m].session)
    BY <1>4, PullActs DEF Decide
  <2>2. QED
    BY <1>0, <2>1
<1>5. CASE Decide(m) /\ box[m].queue = <<>>
  <2>1. box[m].pc = "deciding" /\ box[m].pc \in Alive /\ box[m].cur = NoCall
    BY <1>0, <1>5 DEF Decide, BoxOK, Alive, Serving
  <2>2. /\ \A k \in Mailbox : k # m => box'[k] = box[k]
        /\ box'[m].session = box[m].session /\ box'[m].queue = <<>> /\ box'[m].cur = NoCall
    BY <1>0, <1>5, <2>1 DEF Decide, Goto, TypeOK, BoxOK
  <2>3. registry' = registry \/ registry' = [registry EXCEPT ![box[m].session] = NoBox]
    BY <1>5 DEF Decide
  <2>4. \A b : box'[m] = b => UNCHANGED Actor!vars
    BY <1>5, <2>1, <2>2, <2>3, QuietStep
  <2>5. QED
    BY <2>4
<1>6. CASE Panic(m)
  BY <1>0, <1>6, PanicActs
<1>7. QED
  BY <1>1, <1>2, <1>3, <1>4, <1>5, <1>6 DEF Worker, Midway

LEMMA BeginsActor == Init => Actor!Init
  BY DEF Init, Actor!Init, Waiting, InHand

LEMMA NextActs == IInv /\ [Next]_vars => [Actor!Next]_(Actor!vars)
<1> SUFFICES ASSUME IInv, [Next]_vars PROVE Actor!Next \/ UNCHANGED Actor!vars
  OBVIOUS
<1>1. ASSUME NEW c \in Call, Dispatch(c)
      PROVE  Actor!Next \/ UNCHANGED Actor!vars
  <2>1. Actor!Accept(c.session, c) \/ UNCHANGED Actor!vars
    BY <1>1, AcceptStep DEF Dispatch
  <2>2. QED
    BY <2>1 DEF Actor!Next, Call
<1>2. ASSUME NEW q \in Request, Resend(q)
      PROVE  Actor!Next \/ UNCHANGED Actor!vars
  <2>1. issued[q] \in Call /\ (Enqueue(issued[q]) \/ SpawnFails(issued[q]))
    BY <1>2 DEF Resend, IInv, TypeOK
  <2>2. Actor!Accept(issued[q].session, issued[q]) \/ UNCHANGED Actor!vars
    BY <2>1, AcceptStep
  <2>3. QED
    BY <2>1, <2>2 DEF Actor!Next, Call
<1>3. ASSUME NEW m \in Mailbox, Worker(m) \/ Panic(m)
      PROVE  Actor!Next \/ UNCHANGED Actor!vars
  BY <1>3, WorkerActs DEF Actor!Next
<1>4. ASSUME NEW r \in Runtime, Exit(r)
      PROVE  UNCHANGED Actor!vars
  BY <1>4 DEF Exit, Actor!vars, Waiting, InHand
<1>5. CASE UNCHANGED vars
  BY <1>5 DEF vars, Actor!vars, Waiting, InHand
<1>6. QED
  BY <1>1, <1>2, <1>3, <1>4, <1>5 DEF Next

\* Seen through the registry, the mailboxes that come and go are one actor per
\* session: commands are taken one at a time, in the order they were dispatched,
\* and only a panic loses the ones that waited.
THEOREM MailboxesAreActors == Spec => ImplementsActor
<1>1. Spec => []IInv
  BY InvariantHolds
<1>2. QED
  BY <1>1, BeginsActor, NextActs, PTL DEF Spec, ImplementsActor, Actor!Spec

-----------------------------------------------------------------------------
(* A worker that retires leaves nothing running: what it believes is what  *)
(* the hub and the backend have, unless a worker of the session panicked.  *)

Intact(s) == ~ \E m \in Mailbox : box[m].session = s /\ box[m].pc = "dead"

\* Runtime r is the only one that the hub or the backend may have for session s.
Near(s, r) == hub[s] \in {r, NoRuntime} /\ live[s] \in {r, NoRuntime}

\* The belief of a worker, or the runtime it is about to believe in.
Attuned(m) ==
  LET b == box[m]
      c == box[m].cur
      s == box[m].session
      ended == b.pc \in {"handled", "settled"}
  IN  /\ b.pc \in {"idle", "deciding", "taken"} => Near(s, b.active)
      /\ b.pc = "deciding" => b.active = NoRuntime
      /\ ended /\ (c.kind # "start" \/ b.result = "skipped") => Near(s, b.active)
      /\ ended /\ c.kind = "start" /\ b.result # "skipped" =>
           Near(s, c.runtime) /\ b.result \in {"ok", "error"}
      /\ b.pc = "settled" /\ c.kind = "start" /\ b.result = "error" => Near(s, NoRuntime)
      /\ ended /\ c.kind = "attach" /\ b.result # "skipped" => b.found \in {b.active, NoRuntime}

Faithful ==
  /\ \A m \in Mailbox : box[m].pc \in Alive /\ Intact(box[m].session) => Attuned(m)
  /\ QuietWhenRetired

\* A worker that panicked is never forgotten.
LEMMA IntactBefore ==
  ASSUME \A k \in Mailbox : box[k].pc = "dead" => box'[k] = box[k]
  PROVE  \A s : Intact(s)' => Intact(s)
  BY DEF Intact

\* A session without a worker, or one whose worker is no longer alive.
LEMMA Unserved ==
  ASSUME IInv, Faithful, NEW s \in Session, Intact(s), registry[s] # NoBox => box[registry[s]].pc \notin Alive
  PROVE  registry[s] = NoBox /\ Near(s, NoRuntime)
<1>1. ASSUME registry[s] # NoBox
      PROVE  FALSE
  <2>1. registry[s] \in Mailbox
    BY <1>1 DEF IInv, TypeOK
  <2>2. box[registry[s]].session = s /\ box[registry[s]].pc = "dead"
    BY <1>1 DEF IInv, OneWorker
  <2> QED
    BY <2>1, <2>2 DEF Intact
<1>2. live[s] = NoRuntime /\ hub[s] = NoRuntime
  BY <1>1 DEF Faithful, QuietWhenRetired, Intact
<1> QED
  BY <1>1, <1>2 DEF Near

LEMMA EnqueueFaithful ==
  ASSUME IInv, Faithful, NEW c \in Call, Enqueue(c) \/ SpawnFails(c), hub' = hub, live' = live
  PROVE  Faithful'
<1>0. TypeOK /\ OneWorker /\ c.session \in Session
  BY DEF IInv, Call
<1>1. CASE Joins(c)
  <2>1. PICK n, b : n = registry[c.session] /\ b = [box[n] EXCEPT !.queue = Append(@, c)]
    OBVIOUS
  <2>2. n \in Mailbox /\ BoxOK(b) /\ box' = [box EXCEPT ![n] = b] /\ registry' = registry
    BY <1>0, <1>1, <2>1, JoinedOK DEF Joins
  <2>3. box[n] \in BoxType
    BY <1>0, <2>2 DEF TypeOK, BoxOK, BoxType
  <2>4. /\ b.pc = box[n].pc /\ b.session = box[n].session /\ b.cur = box[n].cur
        /\ b.result = box[n].result /\ b.found = box[n].found /\ b.active = box[n].active
    BY <2>1, <2>3 DEF BoxType
  <2>5. box'[n] = b /\ \A k \in Mailbox : k # n => box'[k] = box[k]
    BY <1>0, <2>2, OneBox
  <2>6. \A k \in Mailbox : /\ box'[k].pc = box[k].pc /\ box'[k].session = box[k].session
                           /\ box'[k].cur = box[k].cur /\ box'[k].result = box[k].result
                           /\ box'[k].found = box[k].found /\ box'[k].active = box[k].active
    BY <2>4, <2>5
  <2>7. \A s : Intact(s)' <=> Intact(s)
    BY <2>6 DEF Intact
  <2>8. \A k \in Mailbox : Attuned(k) => Attuned(k)'
    BY <2>6 DEF Attuned, Near
  <2>9. QuietWhenRetired'
    BY <2>2, <2>6 DEF Faithful, QuietWhenRetired
  <2> QED
    BY <2>6, <2>7, <2>8, <2>9 DEF Faithful
<1>2. CASE \E n \in Mailbox : Opens(c, n)
  <2>1. PICK n \in Mailbox : Opens(c, n)
    BY <1>2
  <2>2. PICK b : b = Blank(c.session, <<c>>, "idle")
    OBVIOUS
  <2>3. /\ BoxOK(b) /\ b.pc = "idle" /\ b.session = c.session /\ b.active = NoRuntime
        /\ box[n].pc = "unborn" /\ box' = [box EXCEPT ![n] = b]
        /\ registry' = [registry EXCEPT ![c.session] = n]
        /\ registry[c.session] # NoBox => box[registry[c.session]].pc \notin Alive
    BY <2>1, <2>2, OpenedOK DEF Opens, Blank
  <2>4. box'[n] = b /\ \A k \in Mailbox : k # n => box'[k] = box[k]
    BY <1>0, <2>3, OneBox
  <2>5. \A s : Intact(s)' => Intact(s)
    BY <2>3, <2>4, IntactBefore
  <2>6. ASSUME NEW k \in Mailbox, box'[k].pc \in Alive, Intact(box[k].session)'
        PROVE  Attuned(k)'
    <3>1. CASE k = n
      <4>1. Intact(c.session)
        BY <2>3, <2>4, <2>5, <2>6, <3>1
      <4>2. Near(c.session, NoRuntime)
        BY <1>0, <2>3, <4>1, Unserved
      <4> QED
        BY <2>3, <2>4, <3>1, <4>2 DEF Attuned, Near
    <3>2. CASE k # n
      <4>0. PICK t : t = box[k].session
        OBVIOUS
      <4>1. box'[k] = box[k] /\ Intact(t)
        BY <2>4, <2>5, <2>6, <3>2, <4>0
      <4>2. Attuned(k)
        BY <2>6, <4>0, <4>1 DEF Faithful
      <4> QED
        BY <4>1, <4>2 DEF Attuned, Near
    <3> QED
      BY <3>1, <3>2
  <2>7. ASSUME NEW s \in Session, registry'[s] = NoBox, Intact(s)'
        PROVE  Near(s, NoRuntime)'
    <3>1. Intact(s)
      BY <2>5, <2>7
    <3>2. registry[s] = NoBox
      BY <1>0, <2>3, <2>7, NoneAssumption DEF TypeOK
    <3> QED
      BY <3>1, <3>2 DEF Faithful, QuietWhenRetired, Intact, Near
  <2>8. QuietWhenRetired'
    BY <2>7 DEF QuietWhenRetired, Intact, Near
  <2> QED
    BY <2>6, <2>8 DEF Faithful
<1>3. CASE SpawnFails(c)
  <2>1. /\ box' = box /\ registry' = [registry EXCEPT ![c.session] = NoBox]
        /\ registry[c.session] # NoBox => box[registry[c.session]].pc \notin Alive
    BY <1>3 DEF SpawnFails
  <2>2. \A s : Intact(s)' <=> Intact(s)
    BY <2>1 DEF Intact
  <2>3. \A k \in Mailbox : Attuned(k) => Attuned(k)'
    BY <2>1 DEF Attuned, Near
  <2>4. ASSUME NEW s \in Session, registry'[s] = NoBox, Intact(s)
        PROVE  Near(s, NoRuntime)
    <3>1. CASE s = c.session
      BY <2>1, <2>4, <3>1, Unserved
    <3>2. CASE s # c.session
      <4>1. registry[s] = NoBox
        BY <1>0, <2>1, <2>4, <3>2 DEF TypeOK
      <4> QED
        BY <2>4, <4>1 DEF Faithful, QuietWhenRetired, Intact, Near
    <3> QED
      BY <3>1, <3>2
  <2>5. QuietWhenRetired'
    BY <2>1, <2>2, <2>4 DEF QuietWhenRetired, Intact, Near
  <2> QED
    BY <2>1, <2>2, <2>3, <2>5 DEF Faithful
<1> QED
  BY <1>0, <1>1, <1>2, <1>3, EnqueueBox

\* What the worker believes after a command is what is left of the session.
LEMMA ConcludeAttuned ==
  ASSUME IInv, NEW m \in Mailbox, Conclude(m), Attuned(m)
  PROVE  /\ hub'[box[m].session] \in {Belief(m), NoRuntime}
         /\ live'[box[m].session] \in {Belief(m), NoRuntime}
<1> DEFINE s == box[m].session
           c == box[m].cur
           a == box[m].active
<1>0. BoxOK(box[m]) /\ box[m].pc = "settled" /\ TypeOK /\ Knows(m)
  BY DEF Conclude, IInv, TypeOK
<1>1. /\ s \in Session /\ c \in Call /\ c.kind \in Kind
      /\ c.kind = "close" => c.runtime \in Runtime
  BY <1>0 DEF BoxOK, Alive, Serving, Call
<1>2. PICK v : v = Belief(m)
  OBVIOUS
<1>3. /\ live' = live
      /\ hub' = IF c.kind \notin {"close", "remove"} \/ ~Closes(m) THEN hub
                ELSE Ended(s, IF c.kind = "remove" THEN hub[s] ELSE c.runtime)
  BY DEF Conclude
<1>4. hub \in [Session -> MaybeRuntime] /\ live \in [Session -> MaybeRuntime]
  BY <1>0 DEF TypeOK
<1>5. hub'[s] \in {v, NoRuntime} /\ live'[s] \in {v, NoRuntime}
  <2>1. CASE box[m].result = "skipped"
    <3>1. ~Closes(m)
      BY <2>1 DEF Closes
    <3>2. v = a /\ hub' = hub
      BY <1>2, <1>3, <2>1, <3>1 DEF Belief
    <3> QED
      BY <1>0, <1>3, <2>1, <3>2 DEF Attuned, Near
  <2>2. CASE box[m].result # "skipped" /\ c.kind = "start"
    <3>1. hub' = hub /\ v = IF box[m].result = "ok" THEN c.runtime ELSE NoRuntime
      BY <1>2, <1>3, <2>2 DEF Belief
    <3> QED
      BY <1>0, <1>3, <2>2, <3>1 DEF Attuned, Near
  <2>3. CASE box[m].result # "skipped" /\ c.kind = "attach"
    <3>1. hub' = hub /\ v = IF box[m].found # NoRuntime THEN box[m].found ELSE a
      BY <1>2, <1>3, <2>3 DEF Belief
    <3>2. v = a
      BY <1>0, <2>3, <3>1 DEF Attuned
    <3> QED
      BY <1>0, <1>3, <2>3, <3>1, <3>2 DEF Attuned, Near
  <2>4. CASE box[m].result # "skipped" /\ c.kind \in {"close", "remove"} /\ ~Closes(m)
    <3>1. hub' = hub /\ v = a
      BY <1>2, <1>3, <2>4 DEF Belief
    <3> QED
      BY <1>0, <1>3, <2>4, <3>1 DEF Attuned, Near
  <2>5. CASE box[m].result # "skipped" /\ c.kind = "remove" /\ Closes(m)
    <3>1. live[s] = NoRuntime
      BY <1>0, <2>5 DEF Knows, Closes
    <3>2. hub'[s] = NoRuntime
      BY <1>1, <1>3, <1>4, <2>5 DEF Ended
    <3> QED
      BY <1>3, <3>1, <3>2
  <2>6. CASE box[m].result # "skipped" /\ c.kind = "close" /\ Closes(m)
    <3>1. a = c.runtime /\ live[s] # c.runtime
      BY <1>0, <2>6 DEF Knows, Closes
    <3>2. hub[s] \in {c.runtime, NoRuntime} /\ live[s] = NoRuntime
      BY <1>0, <2>6, <3>1 DEF Attuned, Near
    <3>3. hub' = Ended(s, c.runtime)
      BY <1>3, <2>6
    <3>4. hub'[s] = NoRuntime
      BY <1>1, <1>4, <3>2, <3>3 DEF Ended
    <3> QED
      BY <1>3, <3>2, <3>4
  <2>7. CASE box[m].result # "skipped" /\ c.kind \in {"control", "edit"}
    <3>1. hub' = hub /\ v = IF a = NoRuntime /\ box[m].result = "ok" THEN c.runtime ELSE a
      BY <1>2, <1>3, <2>7 DEF Belief
    <3> QED
      BY <1>0, <1>3, <2>7, <3>1 DEF Attuned, Near
  <2> QED
    BY <1>1, <2>1, <2>2, <2>3, <2>4, <2>5, <2>6, <2>7 DEF Kind
<1> QED
  BY <1>2, <1>5

LEMMA AttunedItself ==
  ASSUME IInv, NEW m \in Mailbox, Worker(m), Attuned(m), box'[m].pc \in Alive
  PROVE  Attuned(m)'
<1> DEFINE s == box[m].session
           c == box[m].cur
           a == box[m].active
<1>0. BoxOK(box[m]) /\ s \in Session /\ TypeOK /\ OneWorker /\ Knows(m)
  BY WorkerBox DEF TypeOK, BoxOK, IInv
<1>00. box' = [n \in Mailbox |-> box'[n]] /\ box = [n \in Mailbox |-> box[n]]
  BY <1>0, StepWorker DEF TypeOK
<1>1. CASE Take(m) \/ Decide(m)
  <2>1. "retired" \notin Alive
    BY DEF Alive, Serving
  <2>2. box'[m].pc = "taken" /\ box'[m].session = s /\ box'[m].active = a
    BY <1>00, <1>0, <1>1, <2>1 DEF Take, Decide, Pull, Goto, BoxOK
  <2>3. hub' = hub /\ live' = live /\ box[m].pc \in {"idle", "deciding"}
    BY <1>1 DEF Take, Decide
  <2> QED
    BY <2>2, <2>3 DEF Attuned, Near
<1>2. CASE Repeat(m)
  <2>1. /\ box'[m].pc = "settled" /\ box'[m].session = s /\ box'[m].active = a
        /\ box'[m].result = "skipped"
    BY <1>00, <1>0, <1>2 DEF Repeat, BoxOK
  <2>2. hub' = hub /\ live' = live /\ box[m].pc = "taken"
    BY <1>2 DEF Repeat
  <2> QED
    BY <2>1, <2>2 DEF Attuned, Near
<1>3. CASE Begin(m) \/ Clear(m)
  <2>1. box'[m].pc \in {"begun", "cleared"}
    BY <1>00, <1>0, <1>3 DEF Begin, Clear, Goto, BoxOK
  <2> QED
    BY <2>1 DEF Attuned
<1>4. CASE Launch(m)
  <2>1. /\ box'[m].pc = "handled" /\ box'[m].session = s /\ box'[m].cur = c
        /\ box'[m].result = "ok"
    BY <1>00, <1>0, <1>4 DEF Launch, BoxOK
  <2>2. c.kind = "start" /\ hub'[s] = c.runtime /\ live'[s] = c.runtime
    BY <1>0, <1>4 DEF Launch, Knows, TypeOK
  <2> QED
    BY <2>1, <2>2 DEF Attuned, Near
<1>5. CASE LaunchFails(m)
  <2>1. /\ box'[m].pc = "handled" /\ box'[m].session = s /\ box'[m].cur = c
        /\ box'[m].result = "error"
    BY <1>00, <1>0, <1>5 DEF LaunchFails, BoxOK
  <2>2. c.kind = "start" /\ hub'[s] = c.runtime /\ live'[s] = NoRuntime
    BY <1>0, <1>5 DEF LaunchFails, Knows
  <2> QED
    BY <2>1, <2>2 DEF Attuned, Near
<1>6. CASE Execute(m)
  <2>1. PICK outcome \in Outcomes(c) :
          /\ \/ live' = IF Dismisses(c, outcome) THEN [live EXCEPT ![s] = NoRuntime] ELSE live
             \/ Rewound(c) /\ live' = [live EXCEPT ![s] = NoRuntime]
          /\ box' = [box EXCEPT ![m].pc = "handled", ![m].result = outcome,
                       ![m].found = IF c.kind = "attach" THEN live[s] ELSE NoRuntime]
    BY <1>6 DEF Execute
  <2>2. /\ box'[m].pc = "handled" /\ box'[m].session = s /\ box'[m].cur = c
        /\ box'[m].active = a
        /\ box'[m].found = IF c.kind = "attach" THEN live[s] ELSE NoRuntime
    BY <1>00, <1>0, <2>1 DEF BoxOK
  <2>3. hub' = hub /\ c.kind # "start" /\ box[m].pc = "taken"
    BY <1>6 DEF Execute, Fresh
  <2>4. live'[s] \in {live[s], NoRuntime}
    BY <1>0, <2>1 DEF TypeOK
  <2> QED
    BY <2>2, <2>3, <2>4 DEF Attuned, Near
<1>7. CASE Settle(m)
  <2>1. /\ box'[m].pc = "settled" /\ box'[m].session = s /\ box'[m].cur = c
        /\ box'[m].active = a /\ box'[m].result = box[m].result
        /\ box'[m].found = box[m].found
    BY <1>00, <1>0, <1>7 DEF Settle, Goto, BoxOK
  <2>2. /\ live' = live /\ box[m].pc = "handled"
        /\ hub' = IF c.kind = "start" /\ box[m].result = "error" THEN Ended(s, c.runtime) ELSE hub
    BY <1>7 DEF Settle
  <2>3. CASE c.kind = "start" /\ box[m].result = "error"
    <3>1. live[s] = NoRuntime /\ hub[s] \in {c.runtime, NoRuntime}
      BY <1>0, <2>2, <2>3 DEF Knows, Attuned, Near
    <3>2. hub'[s] = NoRuntime
      BY <1>0, <2>2, <2>3, <3>1 DEF Ended, TypeOK
    <3> QED
      BY <2>1, <2>2, <2>3, <3>1, <3>2 DEF Attuned, Near
  <2>4. CASE ~(c.kind = "start" /\ box[m].result = "error")
    <3>1. hub' = hub
      BY <2>2, <2>4
    <3> QED
      BY <2>1, <2>2, <2>4, <3>1 DEF Attuned, Near
  <2> QED
    BY <2>3, <2>4
<1>8. CASE Conclude(m)
  <2>1. PICK v : v = Belief(m)
    OBVIOUS
  <2>2. hub'[s] \in {v, NoRuntime} /\ live'[s] \in {v, NoRuntime}
    BY <1>8, <2>1, ConcludeAttuned
  <2>3. /\ box'[m].session = s /\ box'[m].active = v
        /\ box'[m].pc = IF v = NoRuntime THEN "deciding" ELSE "idle"
    BY <1>00, <1>0, <1>8, <2>1 DEF Conclude, BoxOK
  <2> QED
    BY <2>2, <2>3 DEF Attuned, Near
<1> QED
  BY <1>1, <1>2, <1>3, <1>4, <1>5, <1>6, <1>7, <1>8 DEF Worker

LEMMA WorkerFaithful ==
  ASSUME IInv, Faithful, NEW m \in Mailbox, Worker(m) \/ Panic(m)
  PROVE  Faithful'
<1> DEFINE s == box[m].session
<1>0. BoxOK(box[m]) /\ s \in Session /\ TypeOK /\ OneWorker /\ box[m].pc \in Alive
  BY WorkerBox DEF TypeOK, BoxOK, IInv
<1>1. PICK b : Becomes(m, b) /\ (Stays(m, b) \/ Leaves(m, b))
  BY <1>0, WorkerBox
<1>2. box'[m] = b /\ b.session = s /\ \A k \in Mailbox : k # m => box'[k] = box[k]
  BY <1>0, <1>1, OneBox DEF Becomes
<1>3. \A t : Intact(t)' => Intact(t)
  <2>1. "dead" \notin Alive
    BY DEF Alive, Serving
  <2> QED
    BY <1>0, <1>2, <2>1, IntactBefore
<1>4. \A t \in Session : t # s => hub'[t] = hub[t] /\ live'[t] = live[t]
  BY <1>0 DEF Worker, Take, Repeat, Begin, Clear, Launch, LaunchFails, Execute, Settle,
              Conclude, Decide, Panic, Ended, TypeOK
<1>5. ASSUME NEW k \in Mailbox, box'[k].pc \in Alive, Intact(box[k].session)'
      PROVE  Attuned(k)'
  <2>1. PICK t : t = box'[k].session
    OBVIOUS
  <2>2. box[k].pc \in Alive /\ box[k].session = t /\ Intact(t)
    BY <1>0, <1>2, <1>3, <1>5, <2>1
  <2>3. Attuned(k)
    BY <2>2 DEF Faithful
  <2>4. CASE k = m
    <3>1. ~Panic(m)
      BY <1>0, <1>5, <2>4 DEF Panic, Blank, TypeOK, Alive, Serving
    <3> QED
      BY <2>3, <2>4, <3>1, <1>5, AttunedItself
  <2>5. CASE k # m
    <3>1. t \in Session /\ t # s
      BY <1>0, <2>2, <2>5 DEF OneWorker, TypeOK, BoxOK
    <3>2. box'[k] = box[k] /\ hub'[t] = hub[t] /\ live'[t] = live[t]
      BY <1>2, <1>4, <2>5, <3>1
    <3> QED
      BY <2>2, <2>3, <3>2 DEF Attuned, Near
  <2> QED
    BY <2>4, <2>5
<1>6. ASSUME NEW t \in Session, registry'[t] = NoBox, Intact(t)'
      PROVE  live'[t] = NoRuntime /\ hub'[t] = NoRuntime
  <2>1. Intact(t) /\ registry[s] = m /\ m # NoBox
    BY <1>0, <1>3, <1>6, NoneAssumption DEF OneWorker
  <2>2. CASE t # s
    <3>1. registry[t] = NoBox
      BY <1>0, <1>1, <1>6, <2>2 DEF Stays, Leaves, TypeOK
    <3> QED
      BY <1>4, <2>1, <2>2, <3>1 DEF Faithful, QuietWhenRetired, Intact
  <2>3. CASE t = s
    <3>1. Decide(m)
      BY <1>6, <2>1, <2>3 DEF Worker, Take, Repeat, Begin, Clear, Launch, LaunchFails, Execute,
              Settle, Conclude, Panic
    <3>2. box[m].pc = "deciding" /\ hub' = hub /\ live' = live
      BY <3>1 DEF Decide
    <3>3. Attuned(m)
      BY <1>0, <2>1, <2>3 DEF Faithful
    <3> QED
      BY <2>3, <3>2, <3>3 DEF Attuned, Near
  <2> QED
    BY <2>2, <2>3
<1>7. QuietWhenRetired'
  BY <1>6 DEF QuietWhenRetired, Intact
<1> QED
  BY <1>5, <1>7 DEF Faithful

LEMMA ExitFaithful ==
  ASSUME IInv, Faithful, NEW r \in Runtime, Exit(r)
  PROVE  Faithful'
<1>1. box' = box /\ hub' = hub /\ registry' = registry
  BY DEF Exit
<1>2. \A s \in Session : live'[s] \in {live[s], NoRuntime}
  BY DEF Exit, IInv, TypeOK
<1>3. \A s : Intact(s)' <=> Intact(s)
  BY <1>1 DEF Intact
<1>4. ASSUME NEW k \in Mailbox, box[k].pc \in Alive, Attuned(k)
      PROVE  Attuned(k)'
  <2>1. box[k].session \in Session
    BY <1>4 DEF IInv, TypeOK, BoxOK
  <2>2. live'[box[k].session] \in {live[box[k].session], NoRuntime}
    BY <1>2, <2>1
  <2> QED
    BY <1>1, <1>4, <2>2 DEF Attuned, Near
<1>5. QuietWhenRetired'
  BY <1>1, <1>2 DEF Faithful, QuietWhenRetired
<1> QED
  BY <1>1, <1>3, <1>4, <1>5 DEF Faithful

LEMMA BeginsFaithful == Init => Faithful
<1> SUFFICES ASSUME Init PROVE Faithful
  OBVIOUS
<1>1. \A m \in Mailbox : box[m].pc \notin Alive
  BY DEF Init, Blank, Alive, Serving
<1>2. QuietWhenRetired
  BY DEF Init, QuietWhenRetired
<1> QED
  BY <1>1, <1>2 DEF Faithful

LEMMA NextFaithful == IInv /\ Faithful /\ [Next]_vars => Faithful'
<1> SUFFICES ASSUME IInv, Faithful, [Next]_vars PROVE Faithful'
  OBVIOUS
<1>1. ASSUME NEW c \in Call, Dispatch(c)
      PROVE  Faithful'
  BY <1>1, EnqueueFaithful DEF Dispatch
<1>2. ASSUME NEW q \in Request, Resend(q)
      PROVE  Faithful'
  <2>1. issued[q] \in Call
    BY <1>2 DEF Resend, IInv, TypeOK
  <2> QED
    BY <1>2, <2>1, EnqueueFaithful DEF Resend
<1>3. ASSUME NEW m \in Mailbox, Worker(m) \/ Panic(m)
      PROVE  Faithful'
  BY <1>3, WorkerFaithful
<1>4. ASSUME NEW r \in Runtime, Exit(r)
      PROVE  Faithful'
  BY <1>4, ExitFaithful
<1>5. CASE UNCHANGED vars
  BY <1>5 DEF vars, Faithful, QuietWhenRetired, Attuned, Near, Intact
<1> QED
  BY <1>1, <1>2, <1>3, <1>4, <1>5 DEF Next

\* A worker that retires loses track of no runtime: unless a worker of the
\* session panicked, a session without a mailbox has neither a driver in the
\* backend nor a journal in the hub, whatever starts that failed, closes of
\* another runtime, repeated requests and exits came before
\* (take_queued_request_or_retire, run_runtime_mailbox).
THEOREM RetiringLosesNothing == Spec => []QuietWhenRetired
<1>1. Spec => [](IInv /\ Faithful)
  BY InvariantHolds, BeginsFaithful, NextFaithful, PTL DEF Spec
<1>2. Faithful => QuietWhenRetired
  BY DEF Faithful
<1> QED
  BY <1>1, <1>2, PTL

-----------------------------------------------------------------------------
(* The event stream, RuntimeStream, for any number of desktops, events and  *)
(* connections and any capacities. It shares no state with the mailboxes.   *)

\* The numbers of s never exceed n; those of s come before those of t.
Upto(s, n) == \A i \in DOMAIN s : s[i] <= n
Before(s, t) == \A i \in DOMAIN s, j \in DOMAIN t : s[i] < t[j]

\* What an adapter may be.
AdapterType == [st : {"none", "hydrated", "attached", "follow", "await", "ask", "done"},
                on : Link \cup {0}, chan : Numbers, open : BOOLEAN, from : 0 .. MaxEvents]

\* A desktop's adapter a, the buffers K of its connections, the transcript g, the
\* cursor c and the newest connection n.
Shaped(a, K, g, c, n) ==
  /\ a \in AdapterType
  /\ K \in [Link -> Numbers]
  /\ g \in Numbers
  /\ c \in 0 .. MaxEvents
  /\ n \in Link
  /\ a.st \in {"attached", "follow", "await", "ask"} => a.on \in Link /\ a.on <= n

\* What it passed on comes before what it is being sent, and that before what
\* waits on later connections; none of it is above the cursor.
Placed(a, K, g, c, n) ==
  /\ a.st \in {"none", "hydrated"} => g = <<>> /\ a.chan = <<>>
  /\ Rising(g) /\ Upto(g, c) /\ \A i \in DOMAIN g : g[i] > a.from
  /\ Rising(a.chan) /\ Upto(a.chan, c) /\ Before(g, a.chan)
  /\ \A k \in Link :
       /\ Rising(K[k]) /\ Upto(K[k], c)
       /\ k > n => K[k] = <<>>
       /\ k > a.on \/ (k = a.on /\ a.st \in {"attached", "ask"}) => Before(g, K[k])
       /\ k > a.on => Before(a.chan, K[k])
  /\ \A j, k \in Link : j < k => Before(K[j], K[k])

\* Connections are left for those that broke, and for one more after a restart.
Spare(d) ==
  /\ link[d] <= MaxLinks[d] + 1
  /\ ~up[d] \/ life # "gone" => link[d] <= MaxLinks[d]
  /\ ~up[d] /\ life # "gone" => link[d] < MaxLinks[d]

\* Nobody ends before the runtime has, and nobody follows it before it began.
Lifetimes ==
  /\ exit = 0 => last < MaxEvents
  /\ exit # 0 => life \in {"exited", "gone"}
  /\ \A d \in Desktop :
       /\ adapter[d].st = "done" => life \in {"exited", "gone"}
       /\ life = "none" => adapter[d].st \in {"none", "hydrated"}

\* The daemon's side of the types, and the desktops' side with what is where.
Queues ==
  /\ life \in {"none", "live", "exited", "gone"}
  /\ heard \in BOOLEAN
  /\ last \in 0 .. MaxEvents
  /\ journal \in Numbers
  /\ exit \in 0 .. MaxEvents
  /\ link \in [Desktop -> Link]
  /\ up \in [Desktop -> BOOLEAN]
  /\ listed \in [Desktop -> BOOLEAN]
  /\ wire \in [Desktop -> Numbers]
  /\ saved \in 0 .. MaxEvents

Places ==
  /\ cursor \in [Desktop -> 0 .. MaxEvents]
  /\ kept \in [Desktop -> [Link -> Numbers]]
  /\ adapter \in [Desktop -> AdapterType]
  /\ got \in [Desktop -> Numbers]
  /\ \A d \in Desktop :
       /\ Shaped(adapter[d], kept[d], got[d], cursor[d], link[d])
       /\ Placed(adapter[d], kept[d], got[d], cursor[d], link[d])

\* The inductive invariant of the event stream.
StreamInv == Queues /\ Places /\ Lifetimes /\ \A d \in Desktop : Spare(d)

-----------------------------------------------------------------------------
(* Sequences of numbers.                                                    *)

\* Every number of t is one of s.
Within(t, s) == \A i \in DOMAIN t : \E j \in DOMAIN s : t[i] = s[j]

\* The bounds are positive numbers.
LEMMA Caps ==
  /\ MaxEvents \in Nat \ {0} /\ BufferCap \in Nat \ {0} /\ JournalCap \in Nat \ {0}
  /\ Event \subseteq Nat /\ Event = 1 .. MaxEvents
  /\ MaxLinks \in [Desktop -> Nat \ {0}]
  BY CapAssumption DEF Event

\* No events are a sequence of events.
LEMMA NoNumbers == <<>> \in Numbers
  BY DEF Numbers

\* The smallest of some numbers.
LEMMA Smallest ==
  ASSUME NEW S \in SUBSET Nat, S # {}
  PROVE  Min(S) \in S /\ \A y \in S : Min(S) <= y
<1>1. PICK x \in S : \A y \in S : ~ (<<y, x>> \in OpToRel(<, Nat))
  BY NatLessThanWellFounded, WFMin
<1>2. \A y \in S : ~ (y < x)
  BY <1>1, Zenon DEF OpToRel
<1>3. \A y \in S : x <= y
  BY <1>2
<1> QED
  BY <1>3 DEF Min

\* What replay sends of a journal is of the journal, ...
LEMMA AfterTyped ==
  ASSUME NEW s \in Numbers, NEW n \in Nat
  PROVE  After(s, n) \in Numbers
<1>1. PICK L : L = {i \in DOMAIN s : s[i] > n}
  OBVIOUS
<1>2. CASE L = {}
  BY <1>1, <1>2 DEF After, Numbers
<1>3. CASE L # {}
  <2>1. L \in SUBSET Nat
    BY <1>1 DEF Numbers
  <2>2. Min(L) \in L
    BY <1>3, <2>1, Smallest
  <2>3. Min(L) \in 1 .. Len(s)
    BY <1>1, <2>2 DEF Numbers
  <2>4. SubSeq(s, Min(L), Len(s)) \in Seq(Event)
    BY <2>3, SubSeqProperties DEF Numbers
  <2> QED
    BY <1>1, <1>3, <2>4 DEF After, Numbers
<1> QED
  BY <1>2, <1>3

\* ... and, where the journal rises, just what is above the cursor.
LEMMA AfterIsFilter ==
  ASSUME NEW s \in Numbers, Rising(s), NEW n \in Nat
  PROVE  /\ Rising(After(s, n))
         /\ \A e \in Event : (\E i \in DOMAIN After(s, n) : After(s, n)[i] = e)
                               <=> e > n /\ \E i \in DOMAIN s : s[i] = e
<1>0. DOMAIN s = 1 .. Len(s) /\ Len(s) \in Nat /\ \A i \in DOMAIN s : s[i] \in Nat
  BY Caps DEF Numbers
<1>1. PICK L : L = {i \in DOMAIN s : s[i] > n}
  OBVIOUS
<1>2. CASE L = {}
  <2>1. After(s, n) = <<>>
    BY <1>1, <1>2 DEF After
  <2> QED
    BY <1>1, <1>2, <2>1 DEF Rising
<1>3. CASE L # {}
  <2>1. PICK m : m = Min(L)
    OBVIOUS
  <2>2. L \in SUBSET Nat
    BY <1>0, <1>1
  <2>3. m \in L /\ \A y \in L : m <= y
    BY <1>3, <2>1, <2>2, Smallest
  <2>4. m \in 1 .. Len(s) /\ s[m] > n
    BY <1>0, <1>1, <2>3
  <2>5. After(s, n) = SubSeq(s, m, Len(s))
    BY <1>1, <1>3, <2>1 DEF After
  <2>6. PICK t : t = After(s, n)
    OBVIOUS
  <2>7. /\ DOMAIN t = 1 .. (Len(s) - m + 1)
        /\ \A i \in 1 .. (Len(s) - m + 1) : t[i] = s[m + i - 1]
    BY <1>0, <2>4, <2>5, <2>6, SubSeqProperties DEF Numbers
  <2>8. Rising(t)
    <3> SUFFICES ASSUME NEW i \in DOMAIN t, NEW j \in DOMAIN t, i < j
                 PROVE  t[i] < t[j]
      BY DEF Rising
    <3>1. i \in Nat /\ j \in Nat /\ m \in Nat /\ t[i] = s[m + i - 1] /\ t[j] = s[m + j - 1]
      <4>1. i \in 1 .. (Len(s) - m + 1) /\ j \in 1 .. (Len(s) - m + 1)
        BY <2>7
      <4>2. t[i] = s[m + i - 1] /\ t[j] = s[m + j - 1]
        BY <2>7, <4>1
      <4>3. m \in Nat /\ i \in Nat /\ j \in Nat
        BY <1>0, <2>4, <4>1
      <4> QED
        BY <4>2, <4>3
    <3>2. m + i - 1 \in DOMAIN s /\ m + j - 1 \in DOMAIN s /\ m + i - 1 < m + j - 1
      BY <1>0, <2>4, <2>7, <3>1
    <3> QED
      BY <3>1, <3>2 DEF Rising
  <2>9. ASSUME NEW i \in DOMAIN t
        PROVE  t[i] > n /\ \E j \in DOMAIN s : s[j] = t[i]
    <3>1. PICK j : j = m + i - 1
      OBVIOUS
    <3>2. j \in 1 .. Len(s) /\ t[i] = s[j] /\ (j = m \/ m < j)
      <4>1. i \in 1 .. (Len(s) - m + 1) /\ t[i] = s[j]
        BY <2>7, <3>1
      <4> QED
        BY <1>0, <2>4, <3>1, <4>1
    <3>3. s[m] <= s[j]
      BY <1>0, <2>4, <3>2 DEF Rising
    <3>4. s[j] \in Nat /\ s[m] \in Nat
      BY <1>0, <2>4, <3>2
    <3> QED
      BY <1>0, <2>4, <3>2, <3>3, <3>4
  <2>10. ASSUME NEW j \in DOMAIN s, s[j] > n
         PROVE  \E i \in DOMAIN t : t[i] = s[j]
    <3>1. m <= j
      BY <1>1, <2>3, <2>10
    <3>2. PICK i : i = j - m + 1
      OBVIOUS
    <3>3. i \in 1 .. (Len(s) - m + 1) /\ m + i - 1 = j
      BY <1>0, <2>4, <3>1, <3>2
    <3> QED
      BY <2>7, <3>3
  <2> QED
    BY <2>6, <2>8, <2>9, <2>10
<1> QED
  BY <1>2, <1>3

\* The newest of a sequence are some of it, in its order.
LEMMA NewestKeeps ==
  ASSUME NEW S, NEW s \in Seq(S), NEW n \in Nat
  PROVE  /\ Newest(s, n) \in Seq(S)
         /\ Within(Newest(s, n), s)
         /\ Rising(s) => Rising(Newest(s, n))
<1>1. CASE Len(s) > n
  <2>1. PICK m, t : m = Len(s) - n /\ t = Newest(s, n)
    OBVIOUS
  <2>2. m \in Nat /\ m > 0 /\ m <= Len(s) /\ Len(s) \in Nat /\ Len(s) - m = n
    BY <1>1, <2>1
  <2>3. t = SubSeq(s, m + 1, Len(s))
    BY <1>1, <2>1 DEF Newest
  <2>4. t \in Seq(S) /\ Len(t) = n /\ \A i \in 1 .. n : t[i] = s[m + 1 + i - 1]
    BY <2>2, <2>3, SubSeqProperties
  <2>5. DOMAIN t = 1 .. n /\ DOMAIN s = 1 .. Len(s) /\ \A i \in 1 .. n : t[i] = s[m + i] /\ m + i \in 1 .. Len(s)
    BY <2>2, <2>4
  <2>6. Within(t, s)
    BY <2>5 DEF Within
  <2>7. Rising(s) => Rising(t)
    BY <2>2, <2>5 DEF Rising
  <2> QED
    BY <2>1, <2>4, <2>6, <2>7
<1>2. CASE ~(Len(s) > n)
  <2>1. Newest(s, n) = s
    BY <1>2 DEF Newest
  <2> QED
    BY <2>1 DEF Within
<1> QED
  BY <1>1, <1>2

\* One more number, above all the others.
LEMMA AppendRises ==
  ASSUME NEW s \in Numbers, NEW e \in Event, NEW c \in Nat, Rising(s), Upto(s, c), c < e
  PROVE  /\ Append(s, e) \in Numbers /\ Rising(Append(s, e)) /\ Upto(Append(s, e), e)
         /\ \A i \in DOMAIN Append(s, e) : (i \in DOMAIN s /\ Append(s, e)[i] = s[i]) \/ Append(s, e)[i] = e
<1>1. PICK t : t = Append(s, e)
  OBVIOUS
<1>2. /\ t \in Numbers /\ DOMAIN s = 1 .. Len(s) /\ Len(s) \in Nat /\ DOMAIN t = 1 .. (Len(s) + 1)
      /\ \A i \in 1 .. Len(s) : t[i] = s[i] /\ s[i] \in Event
      /\ t[Len(s) + 1] = e
  <2>1. s \in Seq(Event) /\ Len(s) \in Nat
    BY DEF Numbers
  <2>2. /\ t \in Seq(Event) /\ Len(t) = Len(s) + 1 /\ t[Len(s) + 1] = e
        /\ \A i \in 1 .. Len(s) : t[i] = s[i]
    BY <1>1, <2>1, AppendProperties
  <2> QED
    BY <2>1, <2>2 DEF Numbers
<1>3. e \in Nat /\ \A i \in 1 .. Len(s) : s[i] \in Nat /\ s[i] <= c /\ s[i] < e
  BY <1>2, Caps DEF Upto
<1>4. \A i \in DOMAIN t : (i \in DOMAIN s /\ t[i] = s[i]) \/ (i = Len(s) + 1 /\ t[i] = e)
  BY <1>2
<1>5. Upto(t, e)
  BY <1>3, <1>4, <1>2 DEF Upto
<1>6. ASSUME NEW i \in DOMAIN t, NEW j \in DOMAIN t, i < j
      PROVE  t[i] < t[j]
  <2>1. i \in 1 .. Len(s) /\ t[i] = s[i]
    BY <1>2, <1>6
  <2>2. CASE j \in 1 .. Len(s)
    BY <1>2, <1>6, <2>1, <2>2 DEF Rising
  <2>3. CASE j = Len(s) + 1
    BY <1>2, <1>3, <2>1, <2>3
  <2> QED
    BY <1>2, <2>2, <2>3
<1>7. Rising(t)
  BY <1>6 DEF Rising
<1> QED
  BY <1>1, <1>2, <1>4, <1>5, <1>7

\* What holds of the numbers of a sequence holds of those within it.
LEMMA WithinUpto == ASSUME NEW s, NEW t, NEW n, Within(t, s), Upto(s, n) PROVE Upto(t, n)
  BY DEF Within, Upto
LEMMA WithinBefore ==
  ASSUME NEW s, NEW t, NEW r, Within(t, s)
  PROVE  (Before(r, s) => Before(r, t)) /\ (Before(s, r) => Before(t, r))
  BY DEF Within, Before

\* The first of a sequence, and the rest.
LEMMA HeadFirst ==
  ASSUME NEW s \in Numbers, s # <<>>
  PROVE  /\ Head(s) \in Event /\ Tail(s) \in Numbers
         /\ Within(Tail(s), s) /\ 1 \in DOMAIN s /\ Head(s) = s[1]
         /\ Rising(s) => Rising(Tail(s)) /\ \A i \in DOMAIN Tail(s) : Head(s) < Tail(s)[i]
<1>1. PICK t : t = Tail(s)
  OBVIOUS
<1>2. /\ Head(s) \in Event /\ t \in Numbers /\ Head(s) = s[1] /\ Len(s) \in Nat /\ Len(s) > 0
      /\ DOMAIN s = 1 .. Len(s) /\ DOMAIN t = 1 .. (Len(s) - 1)
      /\ \A i \in 1 .. (Len(s) - 1) : t[i] = s[i + 1] /\ i + 1 \in 1 .. Len(s)
  BY <1>1, HeadTailProperties DEF Numbers
<1>3. Within(t, s)
  BY <1>2 DEF Within
<1>4. ASSUME Rising(s)
      PROVE  Rising(t) /\ \A i \in DOMAIN t : Head(s) < t[i]
  <2>1. \A i, j \in 1 .. Len(s) : i < j => s[i] < s[j]
    BY <1>2, <1>4 DEF Rising
  <2>2. \A i, j \in 1 .. (Len(s) - 1) : i < j => t[i] < t[j]
    BY <1>2, <2>1
  <2>3. \A i \in 1 .. (Len(s) - 1) : s[1] < t[i]
    <3>1. \A i \in 1 .. (Len(s) - 1) : i + 1 \in 1 .. Len(s) /\ 1 \in 1 .. Len(s) /\ 1 < i + 1
      BY <1>2
    <3> QED
      BY <1>2, <2>1, <3>1
  <2> QED
    BY <1>2, <2>2, <2>3 DEF Rising
<1> QED
  BY <1>1, <1>2, <1>3, <1>4

-----------------------------------------------------------------------------
(* What the steps do with the numbers of one desktop.                        *)

\* The fields of an adapter, and the numbers of connections.
LEMMA AdapterFields ==
  ASSUME NEW a \in AdapterType
  PROVE  /\ a.st \in {"none", "hydrated", "attached", "follow", "await", "ask", "done"}
         /\ a.on \in Link \cup {0} /\ a.chan \in Numbers /\ a.open \in BOOLEAN
         /\ a.from \in 0 .. MaxEvents
  BY DEF AdapterType

LEMMA LinksAreNumbers == Link \subseteq Nat /\ \A n \in Link : n > 0 /\ 1 .. n \subseteq Link
<1>1. ASSUME NEW n \in Link
      PROVE  n \in Nat /\ n > 0 /\ 1 .. n \subseteq Link
  <2>1. PICK d \in Desktop : n \in 1 .. MaxLinks[d] + 1
    BY DEF Link
  <2>2. MaxLinks[d] \in Nat
    BY Caps
  <2>3. n \in Nat /\ n > 0 /\ 1 .. n \subseteq 1 .. MaxLinks[d] + 1
    BY <2>1, <2>2
  <2> QED
    BY <2>3 DEF Link
<1> QED
  BY <1>1

\* Only the state of the adapter changes, and it is no nearer to its subscription.
LEMMA StatusPlaced ==
  ASSUME NEW a, NEW K, NEW g, NEW c, NEW n, Shaped(a, K, g, c, n), Placed(a, K, g, c, n),
         NEW r \in AdapterType, r.on = a.on, r.chan = a.chan, r.from = a.from,
         r.st \in {"attached", "ask"} => a.st \in {"attached", "ask"},
         r.st \in {"none", "hydrated"} => a.st \in {"none", "hydrated"},
         r.st \in {"follow", "await"} => a.st \in {"attached", "follow", "await", "ask"}
  PROVE  Shaped(r, K, g, c, n) /\ Placed(r, K, g, c, n)
<1>1. Shaped(r, K, g, c, n)
  BY DEF Shaped
<1>2. Placed(r, K, g, c, n)
  BY DEF Placed
<1> QED
  BY <1>1, <1>2

\* Whatever an adapter becomes that has passed on nothing and has been sent nothing.
LEMMA FreshPlaced ==
  ASSUME NEW a, NEW K, NEW g, NEW c, NEW n, Shaped(a, K, g, c, n), Placed(a, K, g, c, n),
         a.st \in {"none", "hydrated"}, NEW r \in AdapterType, r.chan = <<>>,
         r.st \in {"attached", "follow", "await", "ask"} => r.on = n
  PROVE  Shaped(r, K, g, c, n) /\ Placed(r, K, g, c, n)
<1>1. g = <<>>
  BY DEF Placed
<1>2. n \in Nat
  BY LinksAreNumbers DEF Shaped
<1>3. Shaped(r, K, g, c, n)
  BY <1>2 DEF Shaped
<1>4. Rising(g) /\ Upto(g, c) /\ (\A i \in DOMAIN g : g[i] > r.from) /\ Rising(r.chan) /\ Upto(r.chan, c)
      /\ Before(g, r.chan) /\ \A k \in Link : Before(g, K[k]) /\ Before(r.chan, K[k])
  BY <1>1 DEF Rising, Upto, Before
<1>5. Placed(r, K, g, c, n)
  BY <1>1, <1>4 DEF Placed
<1> QED
  BY <1>3, <1>5

\* The adapter turns to the connection after its own.
LEMMA AdoptPlaced ==
  ASSUME NEW a, NEW K, NEW g, NEW c, NEW n, Shaped(a, K, g, c, n), Placed(a, K, g, c, n),
         a.st = "await", a.on < n, NEW r \in AdapterType, r.st = "ask", r.on = a.on + 1,
         r.chan = a.chan, r.from = a.from
  PROVE  Shaped(r, K, g, c, n) /\ Placed(r, K, g, c, n)
<1>1. a.on \in Nat /\ n \in Nat /\ n \in Link /\ a.on \in Link
  BY LinksAreNumbers DEF Shaped
<1>2. r.on \in Link /\ r.on <= n /\ r.on \in Nat
  BY <1>1, LinksAreNumbers
<1>3. Shaped(r, K, g, c, n)
  BY <1>2 DEF Shaped
<1>4. \A k \in Link : k > r.on \/ k = r.on => k > a.on
  BY <1>1, LinksAreNumbers
<1>5. Placed(r, K, g, c, n)
  BY <1>4 DEF Placed
<1> QED
  BY <1>3, <1>5

\* The client hands an event to its subscriber.
LEMMA SentPlaced ==
  ASSUME NEW a, NEW K, NEW g, NEW c, NEW n, Shaped(a, K, g, c, n), Placed(a, K, g, c, n),
         a.st = "follow", a.on = n, NEW e \in Event, e > c,
         NEW r \in AdapterType, r.st = a.st, r.on = a.on, r.from = a.from, r.chan = Append(a.chan, e)
  PROVE  Shaped(r, K, g, e, n) /\ Placed(r, K, g, e, n)
<1>1. a.chan \in Numbers /\ c \in Nat /\ c < e /\ e \in 0 .. MaxEvents /\ n \in Nat /\ e \in Nat
  BY AdapterFields, LinksAreNumbers, Caps DEF Shaped
<1>2. /\ Rising(r.chan) /\ Upto(r.chan, e)
      /\ \A i \in DOMAIN r.chan : (i \in DOMAIN a.chan /\ r.chan[i] = a.chan[i]) \/ r.chan[i] = e
  BY <1>1, AppendRises DEF Placed
<1>3. \A s \in Numbers : Upto(s, c) => Upto(s, e) /\ \A i \in DOMAIN s : s[i] < e
  <2> SUFFICES ASSUME NEW s \in Numbers, Upto(s, c), NEW i \in DOMAIN s
               PROVE  s[i] <= e /\ s[i] < e
    BY DEF Upto
  <2>1. s[i] \in Nat /\ s[i] <= c
    BY Caps DEF Numbers, Upto
  <2> QED
    BY <1>1, <2>1
<1>4. g \in Numbers /\ Upto(g, c) /\ Before(g, a.chan)
  BY DEF Shaped, Placed
<1>5. Before(g, r.chan)
  BY <1>2, <1>3, <1>4 DEF Before
<1>6. ASSUME NEW k \in Link, k > n
      PROVE  Before(r.chan, K[k])
  <2>1. K[k] = <<>>
    BY <1>6 DEF Placed
  <2> QED
    BY <2>1 DEF Before
<1>7. \A k \in Link : Upto(K[k], e)
  BY <1>3 DEF Shaped, Placed
<1>8. Shaped(r, K, g, e, n)
  BY <1>1 DEF Shaped
<1>9. Placed(r, K, g, e, n)
  BY <1>2, <1>3, <1>4, <1>5, <1>6, <1>7 DEF Placed
<1> QED
  BY <1>8, <1>9

\* The client keeps an event until somebody subscribes.
LEMMA KeptPlaced ==
  ASSUME NEW a, NEW K, NEW g, NEW c, NEW n, Shaped(a, K, g, c, n), Placed(a, K, g, c, n),
         NEW e \in Event, e > c, NEW q, q = Newest(Append(K[n], e), BufferCap),
         NEW L, L = [K EXCEPT ![n] = q]
  PROVE  Shaped(a, L, g, e, n) /\ Placed(a, L, g, e, n)
<1>1. /\ a.chan \in Numbers /\ g \in Numbers /\ K[n] \in Numbers /\ n \in Link /\ n \in Nat
      /\ c \in Nat /\ c < e /\ e \in 0 .. MaxEvents /\ e \in Nat
  BY AdapterFields, LinksAreNumbers, Caps DEF Shaped
<1>2. \A s \in Numbers : Upto(s, c) => Upto(s, e) /\ \A i \in DOMAIN s : s[i] < e
  <2> SUFFICES ASSUME NEW s \in Numbers, Upto(s, c), NEW i \in DOMAIN s
               PROVE  s[i] <= e /\ s[i] < e
    BY DEF Upto
  <2>1. s[i] \in Nat /\ s[i] <= c
    BY Caps DEF Numbers, Upto
  <2> QED
    BY <1>1, <2>1
<1>3. PICK p : p = Append(K[n], e)
  OBVIOUS
<1>4. /\ p \in Numbers /\ Rising(p) /\ Upto(p, e)
      /\ \A i \in DOMAIN p : (i \in DOMAIN K[n] /\ p[i] = K[n][i]) \/ p[i] = e
  <2>1. Rising(K[n]) /\ Upto(K[n], c)
    BY <1>1 DEF Placed
  <2> QED
    BY <1>1, <1>3, <2>1, AppendRises
<1>5. q \in Numbers /\ Rising(q) /\ Within(q, p) /\ Upto(q, e)
  <2>1. q \in Numbers /\ Rising(q) /\ Within(q, p)
    BY <1>3, <1>4, NewestKeeps, Caps DEF Numbers
  <2> QED
    BY <1>4, <2>1, WithinUpto
<1>6. \A s \in Numbers : Upto(s, c) /\ Before(s, K[n]) => Before(s, q)
  <2> SUFFICES ASSUME NEW s \in Numbers, Upto(s, c), Before(s, K[n])
               PROVE  Before(s, q)
    OBVIOUS
  <2>1. Before(s, p)
    BY <1>2, <1>4 DEF Before
  <2> QED
    BY <1>5, <2>1, WithinBefore
<1>7. L \in [Link -> Numbers] /\ L[n] = q /\ \A k \in Link : k # n => L[k] = K[k]
  BY <1>1, <1>5 DEF Shaped
<1>8. Shaped(a, L, g, e, n)
  BY <1>1, <1>7 DEF Shaped
<1>9. ASSUME NEW k \in Link
      PROVE  /\ Rising(L[k]) /\ Upto(L[k], e)
             /\ k > n => L[k] = <<>>
             /\ k > a.on \/ (k = a.on /\ a.st \in {"attached", "ask"}) => Before(g, L[k])
             /\ k > a.on => Before(a.chan, L[k])
  <2>1. /\ Rising(K[k]) /\ Upto(K[k], c) /\ K[k] \in Numbers
        /\ k > n => K[k] = <<>>
        /\ k > a.on \/ (k = a.on /\ a.st \in {"attached", "ask"}) => Before(g, K[k])
        /\ k > a.on => Before(a.chan, K[k])
        /\ Upto(g, c) /\ Upto(a.chan, c)
    BY DEF Shaped, Placed
  <2>2. CASE k = n
    BY <1>1, <1>5, <1>6, <1>7, <2>1, <2>2
  <2>3. CASE k # n
    BY <1>2, <1>7, <2>1, <2>3
  <2> QED
    BY <2>2, <2>3
<1>10. ASSUME NEW j \in Link, NEW k \in Link, j < k
       PROVE  Before(L[j], L[k])
  <2>1. Before(K[j], K[k]) /\ K[j] \in Numbers /\ Upto(K[j], c) /\ j \in Nat /\ k \in Nat
    BY <1>10, LinksAreNumbers DEF Shaped, Placed
  <2>2. CASE k = n
    BY <1>6, <1>7, <1>10, <2>1, <2>2
  <2>3. CASE j = n
    <3>1. L[k] = <<>>
      BY <1>7, <1>9, <1>10, <2>1, <2>3
    <3> QED
      BY <3>1 DEF Before
  <2>4. CASE j # n /\ k # n
    BY <1>7, <2>1, <2>4
  <2> QED
    BY <2>2, <2>3, <2>4
<1>11. Upto(g, e) /\ Upto(a.chan, e)
  BY <1>1, <1>2 DEF Placed
<1>12. Placed(a, L, g, e, n)
  BY <1>9, <1>10, <1>11 DEF Placed
<1> QED
  BY <1>8, <1>12

\* What a connection kept is dropped, or its number grows.
LEMMA DroppedPlaced ==
  ASSUME NEW a, NEW K, NEW g, NEW c, NEW n, Shaped(a, K, g, c, n), Placed(a, K, g, c, n),
         NEW k \in Link, NEW L, L = [K EXCEPT ![k] = <<>>]
  PROVE  Shaped(a, L, g, c, n) /\ Placed(a, L, g, c, n)
<1>1. /\ L \in [Link -> Numbers] /\ L[k] = <<>>
      /\ \A j \in Link : L[j] = K[j] \/ L[j] = <<>>
  <2>1. <<>> \in Numbers
    BY DEF Numbers
  <2> QED
    BY <2>1 DEF Shaped
<1>2. Shaped(a, L, g, c, n)
  BY <1>1 DEF Shaped
<1>3. /\ Rising(<<>>) /\ Upto(<<>>, c)
      /\ \A s : Before(s, <<>>) /\ Before(<<>>, s)
  BY DEF Rising, Upto, Before
<1>4. Placed(a, L, g, c, n)
  BY <1>1, <1>3 DEF Placed
<1> QED
  BY <1>2, <1>4

\* The desktop has a newer connection, on which nothing is kept yet.
LEMMA NewerPlaced ==
  ASSUME NEW a, NEW K, NEW g, NEW c, NEW n, Shaped(a, K, g, c, n), Placed(a, K, g, c, n),
         n + 1 \in Link
  PROVE  Shaped(a, K, g, c, n + 1) /\ Placed(a, K, g, c, n + 1)
<1>1. n \in Nat /\ \A k \in Link : k \in Nat /\ (k > n + 1 => k > n)
  BY LinksAreNumbers DEF Shaped
<1>2. a.on \in Link => a.on \in Nat
  BY LinksAreNumbers
<1>3. Shaped(a, K, g, c, n + 1)
  BY <1>1, <1>2 DEF Shaped
<1>4. Placed(a, K, g, c, n + 1)
  BY <1>1 DEF Placed
<1> QED
  BY <1>3, <1>4

\* A subscription takes over what its connection kept.
LEMMA SubscribedPlaced ==
  ASSUME NEW a, NEW K, NEW g, NEW c, NEW n, Shaped(a, K, g, c, n), Placed(a, K, g, c, n),
         a.st = "attached", NEW r \in AdapterType, r.st = "follow", r.on = a.on, r.from = a.from,
         r.chan = K[a.on], NEW L, L = [K EXCEPT ![a.on] = <<>>]
  PROVE  Shaped(r, L, g, c, n) /\ Placed(r, L, g, c, n)
<1>1. a.on \in Link /\ a.on <= n /\ a.on \in Nat
  BY LinksAreNumbers DEF Shaped
<1>2. Shaped(a, L, g, c, n) /\ Placed(a, L, g, c, n)
  BY <1>1, DroppedPlaced
<1>3. /\ Rising(r.chan) /\ Upto(r.chan, c) /\ Before(g, r.chan)
  BY <1>1 DEF Placed
<1>4. ASSUME NEW k \in Link, k > r.on
      PROVE  Before(r.chan, L[k])
  <2>1. Before(K[a.on], K[k]) /\ k # a.on
    BY <1>1, <1>4, LinksAreNumbers DEF Placed
  <2> QED
    BY <2>1 DEF Shaped
<1>5. Shaped(r, L, g, c, n)
  BY <1>1, <1>2 DEF Shaped
<1>6. Placed(r, L, g, c, n)
  BY <1>2, <1>3, <1>4 DEF Placed
<1> QED
  BY <1>5, <1>6

\* The adapter passes an event on, unless its session had it.
LEMMA ForwardPlaced ==
  ASSUME NEW a, NEW K, NEW g, NEW c, NEW n, Shaped(a, K, g, c, n), Placed(a, K, g, c, n),
         a.st = "follow", a.chan # <<>>, NEW r \in AdapterType, r.st \in {"follow", "done"},
         r.on = a.on, r.from = a.from, r.chan = Tail(a.chan),
         NEW h, h = IF Head(a.chan) <= a.from THEN g ELSE Append(g, Head(a.chan))
  PROVE  Shaped(r, K, h, c, n) /\ Placed(r, K, h, c, n)
<1>1. a.chan \in Numbers /\ g \in Numbers /\ a.from \in Nat /\ c \in Nat
  BY AdapterFields, Caps DEF Shaped
<1>2. PICK e : e = Head(a.chan)
  OBVIOUS
<1>3. /\ e \in Event /\ e \in Nat /\ Within(r.chan, a.chan) /\ 1 \in DOMAIN a.chan /\ e = a.chan[1]
      /\ Rising(r.chan) /\ \A i \in DOMAIN r.chan : e < r.chan[i]
  BY <1>1, <1>2, HeadFirst, Caps DEF Placed
<1>4. /\ Upto(r.chan, c) /\ e <= c /\ Before(g, r.chan) /\ \A i \in DOMAIN g : g[i] < e
  <2>1. Upto(a.chan, c) /\ Before(g, a.chan)
    BY DEF Placed
  <2>2. e <= c /\ \A i \in DOMAIN g : g[i] < e
    BY <1>3, <2>1 DEF Upto, Before
  <2> QED
    BY <1>3, <2>1, <2>2, WithinUpto, WithinBefore
<1>5. \A k \in Link : k > a.on => Before(r.chan, K[k]) /\ \A j \in DOMAIN K[k] : e < K[k][j]
  <2> SUFFICES ASSUME NEW k \in Link, k > a.on
               PROVE  Before(r.chan, K[k]) /\ \A j \in DOMAIN K[k] : e < K[k][j]
    OBVIOUS
  <2>1. Before(a.chan, K[k])
    BY DEF Placed
  <2>2. \A j \in DOMAIN K[k] : e < K[k][j]
    BY <1>3, <2>1 DEF Before
  <2> QED
    BY <1>3, <2>1, <2>2, WithinBefore
<1>6. CASE e <= a.from
  <2>1. h = g
    BY <1>2, <1>6
  <2>2. Shaped(r, K, g, c, n)
    BY DEF Shaped
  <2>3. Placed(r, K, g, c, n)
    BY <1>3, <1>4, <1>5 DEF Placed
  <2> QED
    BY <2>1, <2>2, <2>3
<1>7. CASE ~(e <= a.from)
  <2>1. h = Append(g, e) /\ e > a.from
    BY <1>1, <1>2, <1>3, <1>7
  <2>2. PICK m : m = Len(g)
    OBVIOUS
  <2>3. /\ h \in Numbers /\ m \in Nat /\ DOMAIN g = 1 .. m /\ DOMAIN h = 1 .. (m + 1)
        /\ h[m + 1] = e /\ \A i \in 1 .. m : h[i] = g[i]
    BY <1>1, <1>3, <2>1, <2>2, AppendProperties DEF Numbers
  <2>4. \A i \in DOMAIN h : (i \in DOMAIN g /\ h[i] = g[i]) \/ (i = m + 1 /\ h[i] = e)
    BY <2>3
  <2>5. Upto(h, c) /\ (\A i \in DOMAIN h : h[i] > a.from) /\ Before(h, r.chan)
    <3>1. Upto(g, c) /\ \A i \in DOMAIN g : g[i] > a.from
      BY DEF Placed
    <3> QED
      BY <1>3, <1>4, <2>1, <2>4, <3>1 DEF Upto, Before
  <2>6. Rising(h)
    <3> SUFFICES ASSUME NEW i \in DOMAIN h, NEW j \in DOMAIN h, i < j
                 PROVE  h[i] < h[j]
      BY DEF Rising
    <3>1. i \in DOMAIN g /\ h[i] = g[i] /\ i \in Nat /\ j \in Nat
      BY <2>3, <2>4
    <3>2. CASE j \in DOMAIN g
      <4>1. h[j] = g[j]
        BY <2>3, <3>2
      <4> QED
        BY <3>1, <3>2, <4>1 DEF Placed, Rising
    <3>3. CASE j = m + 1
      BY <1>4, <2>3, <3>1, <3>3
    <3> QED
      BY <2>4, <3>2, <3>3
  <2>7. \A k \in Link : k > a.on => Before(h, K[k])
    <3> SUFFICES ASSUME NEW k \in Link, k > a.on
                 PROVE  Before(h, K[k])
      OBVIOUS
    <3>1. Before(g, K[k]) /\ \A j \in DOMAIN K[k] : e < K[k][j]
      BY <1>5 DEF Placed
    <3> QED
      BY <2>4, <3>1 DEF Before
  <2>8. Shaped(r, K, h, c, n)
    BY <2>3 DEF Shaped
  <2>9. Placed(r, K, h, c, n)
    BY <1>3, <1>4, <1>5, <2>5, <2>6, <2>7 DEF Placed
  <2> QED
    BY <2>8, <2>9
<1> QED
  BY <1>6, <1>7

-----------------------------------------------------------------------------
(* The steps.                                                               *)

\* The desktop d's part of a variable becomes v.
Sets(f, g, d, v) == g = [f EXCEPT ![d] = v] \/ (g = f /\ v = f[d])

\* A step that moves the events of one desktop keeps Places if it does for that one; a
\* step that moves none keeps it.
LEMMA PlacesKept ==
  ASSUME Places, link \in [Desktop -> Link], NEW d \in Desktop, NEW r, NEW K, NEW g, NEW c, NEW n,
         Sets(adapter, adapter', d, r), Sets(kept, kept', d, K), Sets(got, got', d, g),
         Sets(cursor, cursor', d, c), Sets(link, link', d, n),
         Shaped(r, K, g, c, n), Placed(r, K, g, c, n)
  PROVE  Places'
<1>1. r \in AdapterType /\ K \in [Link -> Numbers] /\ g \in Numbers /\ c \in 0 .. MaxEvents /\ n \in Link
  BY DEF Shaped
<1>2. /\ cursor' \in [Desktop -> 0 .. MaxEvents] /\ kept' \in [Desktop -> [Link -> Numbers]]
      /\ adapter' \in [Desktop -> AdapterType] /\ got' \in [Desktop -> Numbers]
  BY <1>1 DEF Places, Sets
<1>3. /\ adapter'[d] = r /\ kept'[d] = K /\ got'[d] = g /\ cursor'[d] = c /\ link'[d] = n
      /\ \A x \in Desktop : x # d => /\ adapter'[x] = adapter[x] /\ kept'[x] = kept[x] /\ got'[x] = got[x]
                                     /\ cursor'[x] = cursor[x] /\ link'[x] = link[x]
  BY DEF Places, Sets
<1>4. ASSUME NEW x \in Desktop
      PROVE  /\ Shaped(adapter'[x], kept'[x], got'[x], cursor'[x], link'[x])
             /\ Placed(adapter'[x], kept'[x], got'[x], cursor'[x], link'[x])
  <2>1. CASE x = d
    BY <1>3, <2>1
  <2>2. CASE x # d
    BY <1>3, <2>2 DEF Places
  <2> QED
    BY <2>1, <2>2
<1> QED
  BY <1>2, <1>4 DEF Places, Shaped, Placed

LEMMA PlacesStill ==
  ASSUME Places, UNCHANGED <<cursor, kept, adapter, got, link>>
  PROVE  Places'
  BY DEF Places, Shaped, Placed

\* What Places says of one desktop.
LEMMA PlaceOf ==
  ASSUME Places, NEW d \in Desktop
  PROVE  /\ Shaped(adapter[d], kept[d], got[d], cursor[d], link[d])
         /\ Placed(adapter[d], kept[d], got[d], cursor[d], link[d])
         /\ adapter[d] \in AdapterType /\ kept[d] \in [Link -> Numbers] /\ got[d] \in Numbers
         /\ cursor[d] \in 0 .. MaxEvents
  BY DEF Places

\* Hub.emit keeps the queues, while a number is left.
LEMMA PublishTyped ==
  ASSUME Queues, Publish, last < MaxEvents
  PROVE  /\ last' = last + 1 /\ last' \in 0 .. MaxEvents /\ journal' \in Numbers
         /\ wire' \in [Desktop -> Numbers] /\ listed' \in [Desktop -> BOOLEAN]
<1>1. PICK e : e = last + 1
  OBVIOUS
<1>2. last \in Nat /\ MaxEvents \in Nat
  BY Caps DEF Queues
<1>3. e \in Event /\ last' = e /\ e \in 0 .. MaxEvents
  BY <1>1, <1>2, Caps DEF Publish
<1>4. journal' \in Numbers
  <2>1. Append(journal, e) \in Seq(Event)
    BY <1>3, AppendProperties DEF Queues, Numbers
  <2>2. journal' = Newest(Append(journal, e), JournalCap)
    BY <1>1 DEF Publish
  <2> QED
    BY <2>1, <2>2, NewestKeeps, Caps DEF Numbers
<1>5. \A d \in Desktop : wire[d] \in Numbers /\ Append(wire[d], e) \in Numbers
  BY <1>3, AppendProperties DEF Queues, Numbers
<1>6. wire' \in [Desktop -> Numbers] /\ listed' \in [Desktop -> BOOLEAN]
  BY <1>1, <1>5 DEF Publish
<1> QED
  BY <1>1, <1>3, <1>4, <1>6

\* Every step of the daemon keeps the invariant.
LEMMA EmitSafe == ASSUME StreamInv, Emit PROVE StreamInv'
<1>1. /\ life = "live" /\ last + 1 < MaxEvents /\ Publish
      /\ UNCHANGED <<life, heard, exit, link, up, cursor, kept, adapter, saved, got>>
  BY DEF Emit
<1>2. last < MaxEvents
  BY <1>1, Caps DEF StreamInv, Queues
<1>3. Queues'
  BY <1>1, <1>2, PublishTyped DEF StreamInv, Queues
<1>4. Places'
  BY <1>1, PlacesStill DEF StreamInv
<1>5. Lifetimes'
  BY <1>1, <1>2, PublishTyped DEF StreamInv, Lifetimes
<1>6. \A d \in Desktop : Spare(d)'
  BY <1>1 DEF StreamInv, Spare
<1> QED
  BY <1>3, <1>4, <1>5, <1>6 DEF StreamInv

LEMMA DriverEndsSafe == ASSUME StreamInv, DriverEnds PROVE StreamInv'
<1>1. /\ life = "live" /\ life' = "exited"
      /\ UNCHANGED <<heard, last, journal, exit, link, up, listed, wire, cursor, kept, adapter, saved, got>>
  BY DEF DriverEnds, linkVars
<1>2. Queues'
  BY <1>1 DEF StreamInv, Queues
<1>3. Places'
  BY <1>1, PlacesStill DEF StreamInv
<1>4. Lifetimes' /\ \A d \in Desktop : Spare(d)'
  BY <1>1 DEF StreamInv, Lifetimes, Spare
<1> QED
  BY <1>2, <1>3, <1>4 DEF StreamInv

LEMMA EmitExitSafe == ASSUME StreamInv, EmitExit PROVE StreamInv'
<1>1. /\ life = "exited" /\ exit = 0 /\ exit' = last + 1 /\ Publish
      /\ UNCHANGED <<life, heard, link, up, cursor, kept, adapter, saved, got>>
  BY DEF EmitExit
<1>2. last < MaxEvents /\ last \in Nat
  BY <1>1, Caps DEF StreamInv, Queues, Lifetimes
<1>3. /\ last' = last + 1 /\ last' \in 0 .. MaxEvents /\ journal' \in Numbers
      /\ wire' \in [Desktop -> Numbers] /\ listed' \in [Desktop -> BOOLEAN]
  BY <1>1, <1>2, PublishTyped DEF StreamInv
<1>4. Queues'
  BY <1>1, <1>3 DEF StreamInv, Queues
<1>5. Places'
  BY <1>1, PlacesStill DEF StreamInv
<1>6. Lifetimes' /\ \A d \in Desktop : Spare(d)'
  BY <1>1, <1>2 DEF StreamInv, Lifetimes, Spare
<1> QED
  BY <1>4, <1>5, <1>6 DEF StreamInv

LEMMA SilenceSafe == ASSUME StreamInv, Silence PROVE StreamInv'
<1>1. /\ heard' = FALSE /\ journal' = <<>>
      /\ UNCHANGED <<life, last, exit, link, up, listed, wire, cursor, kept, adapter, saved, got>>
  BY DEF Silence, linkVars
<1>2. Queues'
  BY <1>1, NoNumbers DEF StreamInv, Queues
<1>3. Places'
  BY <1>1, PlacesStill DEF StreamInv
<1>4. Lifetimes' /\ \A d \in Desktop : Spare(d)'
  BY <1>1 DEF StreamInv, Lifetimes, Spare
<1> QED
  BY <1>2, <1>3, <1>4 DEF StreamInv

\* What the end of its connection makes of an adapter.
LEMMA CutOffIs ==
  ASSUME Places, NEW d \in Desktop
  PROVE  /\ \E r \in AdapterType :
              /\ Sets(adapter, CutOff(d), d, r)
              /\ r.st = adapter[d].st /\ r.on = adapter[d].on /\ r.chan = adapter[d].chan
              /\ r.from = adapter[d].from
         /\ CutOff(d) \in [Desktop -> AdapterType]
<1>1. PICK r : r = IF adapter[d].st = "follow" /\ adapter[d].on = link[d]
                   THEN [adapter[d] EXCEPT !.open = FALSE] ELSE adapter[d]
  OBVIOUS
<1>2. adapter \in [Desktop -> AdapterType] /\ adapter[d] \in AdapterType
  BY DEF Places
<1>3. /\ r \in AdapterType
      /\ r.st = adapter[d].st /\ r.on = adapter[d].on /\ r.chan = adapter[d].chan
      /\ r.from = adapter[d].from
  BY <1>1, <1>2 DEF AdapterType
<1>4. Sets(adapter, CutOff(d), d, r)
  BY <1>1, <1>2 DEF CutOff, Sets
<1>5. CutOff(d) \in [Desktop -> AdapterType]
  BY <1>2, <1>3, <1>4 DEF Sets
<1> QED
  BY <1>3, <1>4, <1>5

\* Connections break, are made again, and the daemon restarts.
LEMMA BreakSafe == ASSUME StreamInv, NEW d \in Desktop, Break(d) PROVE StreamInv'
<1>1. /\ link[d] < MaxLinks[d] /\ up' = [up EXCEPT ![d] = FALSE] /\ listed' = [listed EXCEPT ![d] = FALSE]
      /\ wire' = [wire EXCEPT ![d] = <<>>] /\ adapter' = CutOff(d)
      /\ UNCHANGED <<life, heard, last, journal, exit, link, cursor, kept, saved, got>>
  BY DEF Break, daemonVars
<1>2. Queues /\ Places /\ Lifetimes
  BY DEF StreamInv
<1>3. PICK r \in AdapterType :
        /\ Sets(adapter, adapter', d, r)
        /\ r.st = adapter[d].st /\ r.on = adapter[d].on /\ r.chan = adapter[d].chan
        /\ r.from = adapter[d].from
  BY <1>1, <1>2, CutOffIs
<1>4. Shaped(r, kept[d], got[d], cursor[d], link[d]) /\ Placed(r, kept[d], got[d], cursor[d], link[d])
  <2>1. adapter[d].st = "follow" => adapter[d].st \in {"attached", "follow", "await", "ask"}
    OBVIOUS
  <2> QED
    BY <1>2, <1>3, PlaceOf, StatusPlaced
<1>5. Places'
  BY <1>1, <1>2, <1>3, <1>4, PlacesKept DEF Sets, Queues
<1>6. Queues'
  BY <1>1, <1>2, NoNumbers DEF Queues
<1>7. Lifetimes'
  BY <1>1, <1>2, <1>3 DEF Lifetimes, Sets, Places
<1>8. \A x \in Desktop : Spare(x)'
  <2> SUFFICES ASSUME NEW x \in Desktop
               PROVE  Spare(x)'
    OBVIOUS
  <2>1. CASE x = d
    <3>1. link[d] \in Nat /\ MaxLinks[d] \in Nat
      BY <1>2, LinksAreNumbers, Caps DEF Queues
    <3> QED
      BY <1>1, <2>1, <3>1 DEF Spare
  <2>2. CASE x # d
    BY <1>1, <1>2, <2>2 DEF StreamInv, Spare, Queues
  <2> QED
    BY <2>1, <2>2
<1> QED
  BY <1>5, <1>6, <1>7, <1>8 DEF StreamInv

LEMMA ReconnectSafe == ASSUME StreamInv, NEW d \in Desktop, Reconnect(d) PROVE StreamInv'
<1>1. /\ ~up[d] /\ link' = [link EXCEPT ![d] = link[d] + 1] /\ up' = [up EXCEPT ![d] = TRUE]
      /\ listed' = [listed EXCEPT ![d] = TRUE]
      /\ wire' = [wire EXCEPT ![d] = After(journal, cursor[d])] /\ LetGo(d)
      /\ UNCHANGED <<life, heard, last, journal, exit, cursor, adapter, saved, got>>
  BY DEF Reconnect, daemonVars
<1>2. Queues /\ Places /\ Lifetimes /\ Spare(d)
  BY DEF StreamInv
<1>3. link[d] \in Link /\ link[d] \in Nat /\ MaxLinks[d] \in Nat
  BY <1>2, LinksAreNumbers, Caps DEF Queues
<1>4. link[d] <= MaxLinks[d] /\ (life # "gone" => link[d] < MaxLinks[d])
  BY <1>1, <1>2 DEF Spare
<1>5. link[d] + 1 \in Link
  BY <1>3, <1>4 DEF Link
<1>6. PICK n : n = link[d] + 1
  OBVIOUS
<1>7. /\ Shaped(adapter[d], kept[d], got[d], cursor[d], n)
      /\ Placed(adapter[d], kept[d], got[d], cursor[d], n)
  BY <1>2, <1>5, <1>6, PlaceOf, NewerPlaced
<1>8. PICK K : K = IF adapter[d].st = "attached" THEN kept[d] ELSE [kept[d] EXCEPT ![link[d]] = <<>>]
  OBVIOUS
<1>9. Shaped(adapter[d], K, got[d], cursor[d], n) /\ Placed(adapter[d], K, got[d], cursor[d], n)
  BY <1>3, <1>7, <1>8, DroppedPlaced
<1>10. Sets(kept, kept', d, K)
  BY <1>1, <1>2, <1>8 DEF LetGo, Sets, Places
<1>11. Places'
  BY <1>1, <1>2, <1>6, <1>9, <1>10, PlacesKept DEF Sets, Queues
<1>12. Queues'
  <2>1. cursor[d] \in Nat
    BY <1>2, Caps DEF Places
  <2>2. After(journal, cursor[d]) \in Numbers
    BY <1>2, <2>1, AfterTyped DEF Queues
  <2> QED
    BY <1>1, <1>2, <1>5, <2>2 DEF Queues
<1>13. Lifetimes'
  BY <1>1, <1>2 DEF Lifetimes
<1>14. \A x \in Desktop : Spare(x)'
  <2> SUFFICES ASSUME NEW x \in Desktop
               PROVE  Spare(x)'
    OBVIOUS
  <2>1. CASE x = d
    <3>1. link'[d] = link[d] + 1 /\ up'[d] = TRUE /\ life' = life
      BY <1>1, <1>2 DEF Queues
    <3> QED
      BY <1>3, <1>4, <2>1, <3>1 DEF Spare
  <2>2. CASE x # d
    BY <1>1, <1>2, <2>2 DEF StreamInv, Spare, Queues
  <2> QED
    BY <2>1, <2>2
<1> QED
  BY <1>11, <1>12, <1>13, <1>14 DEF StreamInv

LEMMA RestartSafe == ASSUME StreamInv, Restart PROVE StreamInv'
<1>1. /\ life \in {"live", "exited"} /\ life' = "gone" /\ heard' = FALSE /\ journal' = <<>>
      /\ up' = [d \in Desktop |-> FALSE] /\ listed' = [d \in Desktop |-> FALSE]
      /\ wire' = [d \in Desktop |-> <<>>] /\ adapter' = [d \in Desktop |-> CutOff(d)[d]]
      /\ UNCHANGED <<last, exit, link, cursor, kept, saved, got>>
  BY DEF Restart
<1>2. Queues /\ Places /\ Lifetimes
  BY DEF StreamInv
<1>3. ASSUME NEW d \in Desktop
      PROVE  /\ adapter'[d] \in AdapterType /\ adapter'[d].st = adapter[d].st
             /\ Shaped(adapter'[d], kept[d], got[d], cursor[d], link[d])
             /\ Placed(adapter'[d], kept[d], got[d], cursor[d], link[d])
  <2>1. PICK r \in AdapterType :
          /\ Sets(adapter, CutOff(d), d, r)
          /\ r.st = adapter[d].st /\ r.on = adapter[d].on /\ r.chan = adapter[d].chan
          /\ r.from = adapter[d].from
    BY <1>2, CutOffIs
  <2>2. adapter'[d] = r
    BY <1>1, <1>2, <2>1 DEF Sets, Places
  <2>3. Shaped(r, kept[d], got[d], cursor[d], link[d]) /\ Placed(r, kept[d], got[d], cursor[d], link[d])
    BY <1>2, <2>1, PlaceOf, StatusPlaced
  <2> QED
    BY <2>1, <2>2, <2>3
<1>4. Places'
  BY <1>1, <1>2, <1>3 DEF Places, Shaped, Placed
<1>5. Queues'
  BY <1>1, <1>2, NoNumbers DEF Queues
<1>6. Lifetimes'
  BY <1>1, <1>2, <1>3 DEF Lifetimes
<1>7. \A d \in Desktop : Spare(d)'
  BY <1>1 DEF StreamInv, Spare
<1> QED
  BY <1>4, <1>5, <1>6, <1>7 DEF StreamInv

\* The adapter of d moves, with what is kept for it and what it passed on.
LEMMA AdapterSafe ==
  ASSUME StreamInv, NEW d \in Desktop, NEW r, NEW K, NEW g,
         Sets(adapter, adapter', d, r), Sets(kept, kept', d, K), Sets(got, got', d, g),
         UNCHANGED <<daemonVars, linkVars, saved>>,
         Shaped(r, K, g, cursor[d], link[d]), Placed(r, K, g, cursor[d], link[d]),
         r.st = "done" => life \in {"exited", "gone"},
         life = "none" => r.st \in {"none", "hydrated"}
  PROVE  StreamInv'
<1>1. UNCHANGED <<life, heard, last, journal, exit, link, up, listed, wire, cursor, saved>>
  BY DEF daemonVars, linkVars
<1>2. Queues /\ Places /\ Lifetimes
  BY DEF StreamInv
<1>3. Places'
  BY <1>1, <1>2, PlacesKept DEF Sets, Queues
<1>4. Queues'
  BY <1>1, <1>2 DEF Queues
<1>5. Lifetimes'
  <2>1. \A x \in Desktop : adapter'[x] = adapter[x] \/ adapter'[x] = r
    BY <1>2 DEF Sets, Places
  <2> QED
    BY <1>1, <1>2, <2>1 DEF Lifetimes
<1>6. \A x \in Desktop : Spare(x)'
  BY <1>1 DEF StreamInv, Spare
<1> QED
  BY <1>3, <1>4, <1>5, <1>6 DEF StreamInv

\* The client thread, and the steps of adapters.
LEMMA ClientReadSafe == ASSUME StreamInv, NEW d \in Desktop, ClientRead(d) PROVE StreamInv'
<1>1. PICK e : e = Head(wire[d])
  OBVIOUS
<1>2. /\ wire[d] # <<>> /\ wire' = [wire EXCEPT ![d] = Tail(wire[d])]
      /\ UNCHANGED <<life, heard, last, journal, exit, link, up, listed, saved, got>>
  BY DEF ClientRead, daemonVars
<1>3. Queues /\ Places /\ Lifetimes
  BY DEF StreamInv
<1>4. wire[d] \in Numbers /\ link[d] \in Link
  BY <1>3 DEF Queues
<1>5. e \in Event /\ Tail(wire[d]) \in Numbers
  BY <1>1, <1>2, <1>4, HeadFirst
<1>6. Queues'
  BY <1>2, <1>3, <1>5 DEF Queues
<1>7. \A x \in Desktop : Spare(x)'
  BY <1>2 DEF StreamInv, Spare
<1>8. PICK a, K, c, n : a = adapter[d] /\ K = kept[d] /\ c = cursor[d] /\ n = link[d]
  OBVIOUS
<1>9. /\ Shaped(a, K, got[d], c, n) /\ Placed(a, K, got[d], c, n)
      /\ a \in AdapterType /\ K \in [Link -> Numbers] /\ c \in Nat
  BY <1>3, <1>8, PlaceOf, Caps
<1>10. CASE e <= c
  <2>1. UNCHANGED <<cursor, kept, adapter>>
    BY <1>1, <1>8, <1>10 DEF ClientRead
  <2>2. Places' /\ Lifetimes'
    BY <1>2, <1>3, <2>1, PlacesStill DEF Lifetimes
  <2> QED
    BY <1>6, <1>7, <2>2 DEF StreamInv
<1>11. CASE ~(e <= c) /\ a.st = "follow" /\ a.on = n
  <2>1. e > c
    BY <1>5, <1>9, <1>11, Caps
  <2>2. PICK r : r = [a EXCEPT !.chan = Append(a.chan, e)]
    OBVIOUS
  <2>3. cursor' = [cursor EXCEPT ![d] = e] /\ kept' = kept /\ adapter' = [adapter EXCEPT ![d] = r]
    BY <1>1, <1>3, <1>8, <1>11, <2>2 DEF ClientRead, Places
  <2>4. a.chan \in Numbers /\ Append(a.chan, e) \in Numbers
    BY <1>5, <1>9, AdapterFields, AppendProperties DEF Numbers
  <2>5. /\ r \in AdapterType /\ r.st = a.st /\ r.on = a.on /\ r.from = a.from
        /\ r.chan = Append(a.chan, e)
    BY <1>9, <2>2, <2>4 DEF AdapterType
  <2>6. Shaped(r, K, got[d], e, n) /\ Placed(r, K, got[d], e, n)
    BY <1>5, <1>9, <1>11, <2>1, <2>5, SentPlaced
  <2>7. Places'
    BY <1>2, <1>3, <1>8, <2>3, <2>6, PlacesKept DEF Sets, Queues
  <2>8. Lifetimes'
    BY <1>2, <1>3, <1>8, <2>3, <2>5 DEF Lifetimes, Places
  <2> QED
    BY <1>6, <1>7, <2>7, <2>8 DEF StreamInv
<1>12. CASE ~(e <= c) /\ ~(a.st = "follow" /\ a.on = n)
  <2>1. e > c
    BY <1>5, <1>9, <1>12, Caps
  <2>2. PICK q, L : q = Newest(Append(K[n], e), BufferCap) /\ L = [K EXCEPT ![n] = q]
    OBVIOUS
  <2>3. cursor' = [cursor EXCEPT ![d] = e] /\ adapter' = adapter /\ kept' = [kept EXCEPT ![d] = L]
    <3>1. cursor' = [cursor EXCEPT ![d] = e] /\ adapter' = adapter
          /\ kept' = [kept EXCEPT ![d][n] = Newest(Append(@, e), BufferCap)]
      BY <1>1, <1>8, <1>12 DEF ClientRead
    <3> QED
      BY <1>3, <1>4, <1>8, <2>2, <3>1 DEF Places
  <2>4. Shaped(a, L, got[d], e, n) /\ Placed(a, L, got[d], e, n)
    BY <1>5, <1>9, <2>1, <2>2, KeptPlaced
  <2>5. Places'
    BY <1>2, <1>3, <1>8, <2>3, <2>4, PlacesKept DEF Sets, Queues
  <2>6. Lifetimes'
    BY <1>2, <1>3, <2>3 DEF Lifetimes
  <2> QED
    BY <1>6, <1>7, <2>5, <2>6 DEF StreamInv
<1> QED
  BY <1>10, <1>11, <1>12

LEMMA StartSafe == ASSUME StreamInv, NEW d \in Desktop, Start(d) PROVE StreamInv'
<1>1. /\ life = "none" /\ adapter[d].st = "none" /\ up[d] /\ life' = "live" /\ heard' = TRUE
      /\ UNCHANGED <<last, journal, exit, link, up, listed, wire, cursor, kept, saved, got>>
  BY DEF Start, linkVars
<1>2. Queues /\ Places /\ Lifetimes
  BY DEF StreamInv
<1>3. link[d] \in Link
  BY <1>2 DEF Queues
<1>4. PICK r : /\ Sets(adapter, adapter', d, r) /\ r \in AdapterType /\ r.st # "done"
               /\ Shaped(r, kept[d], got[d], cursor[d], link[d])
               /\ Placed(r, kept[d], got[d], cursor[d], link[d])
  <2>1. CASE adapter' = adapter
    <3>1. Sets(adapter, adapter', d, adapter[d]) /\ adapter[d].st # "done"
      BY <1>1, <2>1 DEF Sets
    <3> QED
      BY <1>2, <3>1, PlaceOf
  <2>2. CASE adapter' = [adapter EXCEPT ![d] = [Idle EXCEPT !.st = "attached", !.on = link[d]]]
    <3>1. PICK r : r = [Idle EXCEPT !.st = "attached", !.on = link[d]]
      OBVIOUS
    <3>2. 0 \in 0 .. MaxEvents
      BY Caps
    <3>3. r \in AdapterType /\ r.st = "attached" /\ r.on = link[d] /\ r.chan = <<>>
      BY <1>3, <3>1, <3>2, NoNumbers DEF Idle, AdapterType
    <3>4. /\ Shaped(r, kept[d], got[d], cursor[d], link[d])
          /\ Placed(r, kept[d], got[d], cursor[d], link[d])
      BY <1>1, <1>2, <3>3, PlaceOf, FreshPlaced
    <3> QED
      BY <2>2, <3>1, <3>3, <3>4 DEF Sets
  <2> QED
    BY <2>1, <2>2 DEF Start
<1>5. Places'
  BY <1>1, <1>2, <1>4, PlacesKept DEF Sets, Queues
<1>6. Queues'
  BY <1>1, <1>2 DEF Queues
<1>7. Lifetimes'
  <2>1. \A x \in Desktop : adapter'[x] = adapter[x] \/ adapter'[x] = r
    BY <1>2, <1>4 DEF Sets, Places
  <2> QED
    BY <1>1, <1>2, <1>4, <2>1 DEF Lifetimes
<1>8. \A x \in Desktop : Spare(x)'
  BY <1>1 DEF StreamInv, Spare
<1> QED
  BY <1>5, <1>6, <1>7, <1>8 DEF StreamInv

LEMMA HydrateSafe == ASSUME StreamInv, NEW d \in Desktop, Hydrate(d) PROVE StreamInv'
<1>1. PICK r : r = [Idle EXCEPT !.st = "hydrated", !.from = saved]
  OBVIOUS
<1>2. /\ adapter[d].st = "none" /\ adapter' = [adapter EXCEPT ![d] = r]
      /\ UNCHANGED <<daemonVars, linkVars, kept, saved, got>>
  BY <1>1 DEF Hydrate
<1>3. saved \in 0 .. MaxEvents
  BY DEF StreamInv, Queues
<1>4. r \in AdapterType /\ r.st = "hydrated" /\ r.chan = <<>>
  BY <1>1, <1>3, NoNumbers DEF Idle, AdapterType
<1>5. /\ Shaped(r, kept[d], got[d], cursor[d], link[d])
      /\ Placed(r, kept[d], got[d], cursor[d], link[d])
  BY <1>2, <1>4, PlaceOf, FreshPlaced DEF StreamInv
<1> QED
  BY <1>2, <1>4, <1>5, AdapterSafe DEF Sets

LEMMA AttachSafe == ASSUME StreamInv, NEW d \in Desktop, Attach(d) PROVE StreamInv'
<1>0. Queues /\ Places
  BY DEF StreamInv
<1>1. PICK a : a = adapter[d]
  OBVIOUS
<1>2. PICK r : r = IF up[d] /\ life = "live" THEN [a EXCEPT !.st = "attached", !.on = link[d]] ELSE Idle
  OBVIOUS
<1>3. /\ a.st = "hydrated" /\ adapter' = [adapter EXCEPT ![d] = r]
      /\ UNCHANGED <<daemonVars, linkVars, kept, saved, got>>
  BY <1>0, <1>1, <1>2 DEF Attach, Places
<1>4. a \in AdapterType /\ link[d] \in Link /\ 0 \in 0 .. MaxEvents
  BY <1>0, <1>1, PlaceOf, Caps DEF Queues
<1>5. a.chan = <<>>
  BY <1>0, <1>1, <1>3 DEF Places, Placed
<1>6. /\ r \in AdapterType /\ r.chan = <<>> /\ r.st \in {"attached", "none"}
      /\ r.st = "attached" => r.on = link[d] /\ life = "live"
  BY <1>2, <1>4, <1>5, NoNumbers DEF Idle, AdapterType
<1>7. /\ Shaped(r, kept[d], got[d], cursor[d], link[d])
      /\ Placed(r, kept[d], got[d], cursor[d], link[d])
  BY <1>0, <1>1, <1>3, <1>6, PlaceOf, FreshPlaced
<1> QED
  BY <1>3, <1>6, <1>7, AdapterSafe DEF Sets

LEMMA SubscribeSafe == ASSUME StreamInv, NEW d \in Desktop, Subscribe(d) PROVE StreamInv'
<1>0. Queues /\ Places /\ Lifetimes
  BY DEF StreamInv
<1>1. PICK a, K : a = adapter[d] /\ K = kept[d]
  OBVIOUS
<1>2. /\ a \in AdapterType /\ K \in [Link -> Numbers] /\ a.st = "attached"
      /\ Shaped(a, K, got[d], cursor[d], link[d]) /\ Placed(a, K, got[d], cursor[d], link[d])
  BY <1>0, <1>1, PlaceOf DEF Subscribe
<1>3. a.on \in Link
  BY <1>2 DEF Shaped
<1>4. PICK r, L : /\ r = [a EXCEPT !.st = "follow", !.open = TRUE, !.chan = K[a.on]]
                  /\ L = [K EXCEPT ![a.on] = <<>>]
  OBVIOUS
<1>5. adapter' = [adapter EXCEPT ![d] = r] /\ kept' = [kept EXCEPT ![d] = L]
      /\ UNCHANGED <<daemonVars, linkVars, saved, got>>
  <2>1. /\ adapter' = [adapter EXCEPT ![d].st = "follow", ![d].open = TRUE, ![d].chan = K[a.on]]
        /\ kept' = [kept EXCEPT ![d][a.on] = <<>>]
        /\ UNCHANGED <<daemonVars, linkVars, saved, got>>
    BY <1>1 DEF Subscribe
  <2> QED
    BY <1>0, <1>1, <1>3, <1>4, <2>1 DEF Places
<1>6. r \in AdapterType /\ r.st = "follow" /\ r.on = a.on /\ r.from = a.from /\ r.chan = K[a.on]
  BY <1>2, <1>3, <1>4 DEF AdapterType
<1>7. Shaped(r, L, got[d], cursor[d], link[d]) /\ Placed(r, L, got[d], cursor[d], link[d])
  BY <1>2, <1>4, <1>6, SubscribedPlaced
<1>8. life # "none"
  BY <1>0, <1>1, <1>2 DEF Lifetimes
<1> QED
  BY <1>5, <1>6, <1>7, <1>8, AdapterSafe DEF Sets

LEMMA ForwardSafe == ASSUME StreamInv, NEW d \in Desktop, Forward(d) PROVE StreamInv'
<1>0. Queues /\ Places /\ Lifetimes
  BY DEF StreamInv
<1>1. PICK a, e, g : a = adapter[d] /\ e = Head(a.chan) /\ g = got[d]
  OBVIOUS
<1>2. /\ a \in AdapterType /\ a.st = "follow" /\ a.chan # <<>> /\ g \in Numbers
      /\ Shaped(a, kept[d], g, cursor[d], link[d]) /\ Placed(a, kept[d], g, cursor[d], link[d])
  BY <1>0, <1>1, PlaceOf DEF Forward
<1>3. PICK r, h : /\ r = [a EXCEPT !.chan = Tail(a.chan),
                                   !.st = IF e = exit /\ ~(e <= a.from) THEN "done" ELSE "follow"]
                  /\ h = IF e <= a.from THEN g ELSE Append(g, e)
  OBVIOUS
<1>4. adapter' = [adapter EXCEPT ![d] = r] /\ UNCHANGED <<daemonVars, linkVars, kept, saved>>
  <2>1. /\ adapter' = [adapter EXCEPT ![d].chan = Tail(@),
                                      ![d].st = IF e = exit /\ ~(e <= a.from) THEN "done" ELSE "follow"]
        /\ UNCHANGED <<daemonVars, linkVars, kept, saved>>
    BY <1>1 DEF Forward
  <2> QED
    BY <1>0, <1>1, <1>3, <2>1 DEF Places
<1>5. Sets(got, got', d, h)
  BY <1>0, <1>1, <1>3 DEF Forward, Sets, Places
<1>6. e \in Event /\ Tail(a.chan) \in Numbers /\ a.from \in Nat /\ e > 0
  BY <1>1, <1>2, AdapterFields, HeadFirst, Caps
<1>7. /\ r \in AdapterType /\ r.on = a.on /\ r.from = a.from /\ r.chan = Tail(a.chan)
      /\ r.st \in {"follow", "done"} /\ (r.st = "done" => e = exit)
  BY <1>2, <1>3, <1>6 DEF AdapterType
<1>8. Shaped(r, kept[d], h, cursor[d], link[d]) /\ Placed(r, kept[d], h, cursor[d], link[d])
  BY <1>1, <1>2, <1>3, <1>7, ForwardPlaced
<1>9. life # "none" /\ (r.st = "done" => life \in {"exited", "gone"})
  BY <1>0, <1>1, <1>2, <1>6, <1>7 DEF Lifetimes
<1> QED
  BY <1>4, <1>5, <1>7, <1>8, <1>9, AdapterSafe DEF Sets

LEMMA NoticeSafe == ASSUME StreamInv, NEW d \in Desktop, Notice(d) PROVE StreamInv'
<1>0. Queues /\ Places /\ Lifetimes
  BY DEF StreamInv
<1>1. PICK a, r : a = adapter[d] /\ r = [a EXCEPT !.st = "await"]
  OBVIOUS
<1>2. /\ a.st = "follow" /\ adapter' = [adapter EXCEPT ![d] = r]
      /\ UNCHANGED <<daemonVars, linkVars, kept, saved, got>>
  BY <1>0, <1>1 DEF Notice, Places
<1>3. a \in AdapterType
  BY <1>0, <1>1, PlaceOf
<1>4. r \in AdapterType /\ r.st = "await" /\ r.on = a.on /\ r.chan = a.chan /\ r.from = a.from
  BY <1>1, <1>3 DEF AdapterType
<1>5. /\ Shaped(r, kept[d], got[d], cursor[d], link[d])
      /\ Placed(r, kept[d], got[d], cursor[d], link[d])
  BY <1>0, <1>1, <1>2, <1>4, PlaceOf, StatusPlaced
<1>6. life # "none"
  BY <1>0, <1>1, <1>2 DEF Lifetimes
<1> QED
  BY <1>2, <1>4, <1>5, <1>6, AdapterSafe DEF Sets

LEMMA AdoptSafe == ASSUME StreamInv, NEW d \in Desktop, Adopt(d) PROVE StreamInv'
<1>0. Queues /\ Places /\ Lifetimes
  BY DEF StreamInv
<1>1. PICK a, r : a = adapter[d] /\ r = [a EXCEPT !.st = "ask", !.on = a.on + 1]
  OBVIOUS
<1>2. /\ a.st = "await" /\ link[d] > a.on /\ adapter' = [adapter EXCEPT ![d] = r]
      /\ UNCHANGED <<daemonVars, linkVars, kept, saved, got>>
  BY <1>0, <1>1 DEF Adopt, Places
<1>3. /\ a \in AdapterType /\ Shaped(a, kept[d], got[d], cursor[d], link[d])
      /\ Placed(a, kept[d], got[d], cursor[d], link[d]) /\ link[d] \in Link
  BY <1>0, <1>1, PlaceOf DEF Queues
<1>4. a.on < link[d] /\ a.on + 1 \in Link
  <2>1. a.on \in Link
    BY <1>2, <1>3 DEF Shaped
  <2>2. a.on \in Nat /\ link[d] \in Nat /\ 1 .. link[d] \subseteq Link
    BY <1>3, <2>1, LinksAreNumbers
  <2> QED
    BY <1>2, <2>2
<1>5. r \in AdapterType /\ r.st = "ask" /\ r.on = a.on + 1 /\ r.chan = a.chan /\ r.from = a.from
  BY <1>1, <1>3, <1>4 DEF AdapterType
<1>6. /\ Shaped(r, kept[d], got[d], cursor[d], link[d])
      /\ Placed(r, kept[d], got[d], cursor[d], link[d])
  BY <1>2, <1>3, <1>4, <1>5, AdoptPlaced
<1>7. life # "none"
  BY <1>0, <1>1, <1>2 DEF Lifetimes
<1> QED
  BY <1>2, <1>5, <1>6, <1>7, AdapterSafe DEF Sets

LEMMA AskSafe == ASSUME StreamInv, NEW d \in Desktop, Ask(d) PROVE StreamInv'
<1>0. Queues /\ Places /\ Lifetimes
  BY DEF StreamInv
<1>1. PICK a : a = adapter[d]
  OBVIOUS
<1>2. PICK s : s = IF ~(up[d] /\ link[d] = a.on) THEN "await"
                   ELSE IF life = "live" THEN "attached" ELSE "done"
  OBVIOUS
<1>3. PICK r : r = [a EXCEPT !.st = s]
  OBVIOUS
<1>4. /\ a.st = "ask" /\ adapter' = [adapter EXCEPT ![d] = r]
      /\ UNCHANGED <<daemonVars, linkVars, kept, saved, got>>
  BY <1>0, <1>1, <1>2, <1>3 DEF Ask, Places
<1>5. a \in AdapterType /\ s \in {"await", "attached", "done"} /\ (s = "done" => life # "live")
  BY <1>0, <1>1, <1>2, PlaceOf
<1>6. r \in AdapterType /\ r.st = s /\ r.on = a.on /\ r.chan = a.chan /\ r.from = a.from
  BY <1>3, <1>5 DEF AdapterType
<1>7. /\ Shaped(r, kept[d], got[d], cursor[d], link[d])
      /\ Placed(r, kept[d], got[d], cursor[d], link[d])
  BY <1>0, <1>1, <1>4, <1>5, <1>6, PlaceOf, StatusPlaced
<1>8. life # "none" /\ life \in {"none", "live", "exited", "gone"}
  BY <1>0, <1>1, <1>4 DEF Lifetimes, Queues
<1> QED
  BY <1>4, <1>5, <1>6, <1>7, <1>8, AdapterSafe DEF Sets

LEMMA SaveSafe == ASSUME StreamInv, NEW d \in Desktop, Save(d) PROVE StreamInv'
<1>1. /\ got[d] # <<>> /\ saved' = Last(got[d])
      /\ UNCHANGED <<life, heard, last, journal, exit, link, up, listed, wire, cursor, kept, adapter, got>>
  BY DEF Save, daemonVars, linkVars
<1>2. saved' \in 0 .. MaxEvents
  <2>1. got[d] \in Seq(Event)
    BY PlaceOf DEF StreamInv, Numbers
  <2>2. Len(got[d]) \in DOMAIN got[d]
    BY <1>1, <2>1
  <2>3. Last(got[d]) \in Event
    BY <2>1, <2>2 DEF Last
  <2> QED
    BY <1>1, <2>3, Caps
<1>3. Queues'
  BY <1>1, <1>2 DEF StreamInv, Queues
<1>4. Places'
  BY <1>1, PlacesStill DEF StreamInv
<1>5. Lifetimes' /\ \A x \in Desktop : Spare(x)'
  BY <1>1 DEF StreamInv, Lifetimes, Spare
<1> QED
  BY <1>3, <1>4, <1>5 DEF StreamInv

\* The invariant holds at the start and is kept by every step.
LEMMA BeginsStream == StreamInit => StreamInv
<1> SUFFICES ASSUME StreamInit PROVE StreamInv
  OBVIOUS
<1>1. (1 \in Link /\ 0 \in 0 .. MaxEvents) \/ Desktop = {}
  <2>1. ASSUME NEW d \in Desktop
        PROVE  1 \in Link
    <3>1. MaxLinks[d] \in Nat /\ 1 \in 1 .. MaxLinks[d] + 1
      BY Caps
    <3> QED
      BY <3>1 DEF Link
  <2> QED
    BY <2>1, Caps
<1>2. 0 \in 0 .. MaxEvents /\ <<>> \in Numbers
  BY Caps, NoNumbers
<1>3. Idle \in AdapterType /\ Idle.st = "none" /\ Idle.chan = <<>>
  BY <1>2 DEF Idle, AdapterType
<1>4. PICK K : K = [k \in Link |-> <<>>]
  OBVIOUS
<1>5. /\ adapter = [d \in Desktop |-> Idle] /\ kept = [d \in Desktop |-> K] /\ got = [d \in Desktop |-> <<>>]
      /\ cursor = [d \in Desktop |-> 0] /\ link = [d \in Desktop |-> 1] /\ up = [d \in Desktop |-> TRUE]
  BY <1>4 DEF StreamInit
<1>6. /\ Rising(<<>>) /\ Upto(<<>>, 0) /\ Before(<<>>, <<>>)
  BY DEF Rising, Upto, Before
<1>7. \A d \in Desktop : Shaped(Idle, K, <<>>, 0, 1) /\ Placed(Idle, K, <<>>, 0, 1)
  BY <1>1, <1>2, <1>3, <1>4, <1>6 DEF Shaped, Placed
<1>8. Places
  BY <1>2, <1>3, <1>4, <1>5, <1>7 DEF Places
<1>9. Queues
  BY <1>1, <1>2, <1>5 DEF StreamInit, Queues
<1>10. Lifetimes
  BY <1>3, <1>5, Caps DEF StreamInit, Lifetimes
<1>11. \A d \in Desktop : Spare(d)
  <2> SUFFICES ASSUME NEW d \in Desktop
               PROVE  Spare(d)
    OBVIOUS
  <2>1. MaxLinks[d] \in Nat \ {0} /\ link[d] = 1 /\ up[d] = TRUE
    BY <1>5, Caps
  <2> QED
    BY <2>1 DEF Spare
<1> QED
  BY <1>8, <1>9, <1>10, <1>11 DEF StreamInv

LEMMA NextStream == StreamInv /\ [StreamNext]_streamVars => StreamInv'
<1> SUFFICES ASSUME StreamInv, [StreamNext]_streamVars PROVE StreamInv'
  OBVIOUS
<1>1. CASE UNCHANGED streamVars
  <2>1. UNCHANGED <<life, heard, last, journal, exit, link, up, listed, wire, cursor, kept, adapter, saved, got>>
    BY <1>1 DEF streamVars
  <2>2. Places'
    BY <2>1, PlacesStill DEF StreamInv
  <2>3. Queues' /\ Lifetimes' /\ \A d \in Desktop : Spare(d)'
    BY <2>1 DEF StreamInv, Queues, Lifetimes, Spare
  <2> QED
    BY <2>2, <2>3 DEF StreamInv
<1>2. CASE Emit \/ DriverEnds \/ EmitExit \/ Silence \/ Restart
  BY <1>2, EmitSafe, DriverEndsSafe, EmitExitSafe, SilenceSafe, RestartSafe
<1>3. ASSUME NEW d \in Desktop, Break(d) \/ Reconnect(d) \/ ClientRead(d)
                                \/ Start(d) \/ Hydrate(d) \/ Save(d)
      PROVE  StreamInv'
  BY <1>3, BreakSafe, ReconnectSafe, ClientReadSafe, StartSafe, HydrateSafe, SaveSafe
<1>4. ASSUME NEW d \in Desktop, Adapter(d)
      PROVE  StreamInv'
  <2>1. Attach(d) \/ Subscribe(d) \/ Forward(d) \/ Notice(d) \/ Adopt(d) \/ Ask(d)
    BY <1>4 DEF Adapter
  <2> QED
    BY <2>1, AttachSafe, SubscribeSafe, ForwardSafe, NoticeSafe, AdoptSafe, AskSafe
<1> QED
  BY <1>1, <1>2, <1>3, <1>4 DEF StreamNext

LEMMA StreamInvHolds == StreamSpec => []StreamInv
  BY BeginsStream, NextStream, PTL DEF StreamSpec

\* Connections, queues, journals, buffers and cursors stay well formed for any numbers of
\* desktops, events and connections and any capacities (Hub.emit, run_client).
THEOREM StreamTypes == StreamSpec => []StreamTypeOK
<1>1. StreamInv => StreamTypeOK
  BY DEF StreamInv, Queues, Places, AdapterType, StreamTypeOK
<1> QED
  BY <1>1, StreamInvHolds, PTL

\* A transcript receives every event once at most and in the order of the daemon, and
\* none that its session had when it was attached, whichever connections broke while
\* events were queued, replayed, kept for a subscriber or handed to one (Hub.subscribe,
\* run_client, DaemonClient::subscribe, the adapter of connect_remote).
THEOREM TranscriptsAreInOrder == StreamSpec => []InOrder
<1>1. StreamInv => InOrder
  BY DEF StreamInv, Places, Placed, InOrder
<1> QED
  BY <1>1, StreamInvHolds, PTL

\* An adapter ends only when the provider has: a lost connection, a failed question or a
\* closed channel is never taken for the end of a runtime that goes on (connect_remote,
\* remove_finished_runtime).
THEOREM NoOneExitsEarly == StreamSpec => []NoFalseExit
<1>1. StreamInv => NoFalseExit
  BY DEF StreamInv, Lifetimes, NoFalseExit
<1> QED
  BY <1>1, StreamInvHolds, PTL
=============================================================================

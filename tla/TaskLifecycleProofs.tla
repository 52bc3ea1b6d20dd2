------------------------- MODULE TaskLifecycleProofs -------------------------
(* Proofs about TaskLifecycle for any number of tasks, workers, approvals  *)
(* and crashes.                                                            *)
EXTENDS TaskLifecycle, TLAPS

(* What the steps of a handler and of a worker find in their frames.       *)
Request == [op : {"none", "invoke", "resume"},
            pc : {"idle", "create", "check", "load", "store", "enqueue", "pending"},
            task : Tasks \cup {None}, about : 0 .. MaxApprovals, row : Row \cup {None}]

Job == [kind : {"none", "invoke", "resume"}, task : Tasks \cup {None},
        about : 0 .. MaxApprovals,
        pc : {"idle", "load", "store", "graph", "load_result", "store_result", "task_key"},
        row : Row \cup {None}, outcome : Row \cup {None}]

RequestOK(f) ==
    /\ f.op = "none" <=> f.pc = "idle"
    /\ f.pc # "idle" => f.task \in Tasks
    /\ f.pc = "store" => f.row \in Row

JobOK(f) ==
    /\ f.kind = "none" <=> f.pc = "idle"
    /\ f.pc # "idle" => f.task \in Tasks
    /\ f.pc = "store" => f.row \in Row
    /\ f.pc \in {"load_result", "store_result", "task_key"} => f.outcome \in Row

FramesOK ==
    /\ request \in [Tabs -> [Calls -> Request]]
    /\ job \in [Workers -> Job]
    /\ \A b \in Tabs : tab[b].task = None => tab[b].status = "idle"
    /\ \A b \in Tabs, k \in Calls : RequestOK(request[b][k])
    /\ \A w \in Workers : JobOK(job[w])

TypeInv == TypeOK /\ FramesOK

-----------------------------------------------------------------------------

LEMMA NoFrames ==
    /\ NoRequest \in Request /\ NoRequest.op = "none" /\ NoRequest.pc = "idle"
    /\ RequestOK(NoRequest)
    /\ NoJob \in Job /\ NoJob.pc = "idle" /\ JobOK(NoJob)
  BY BoundAssumption DEF NoRequest, NoJob, Request, Job, RequestOK, JobOK, NoApproval

LEMMA InitTypes == Init => TypeInv
<1> SUFFICES ASSUME Init PROVE TypeInv
  OBVIOUS
<1>1. TypeOK
  BY BoundAssumption DEF Init, TypeOK, NoApproval, Status, Active, NoRequest, NoJob, Calls
<1>2. FramesOK
  BY NoFrames DEF Init, FramesOK
<1> QED
  BY <1>1, <1>2 DEF TypeInv

(* Stamping a row keeps the list of recent tasks a list of tasks.          *)
LEMMA TouchType ==
    ASSUME recent \in Seq(Tasks), NEW t \in Tasks, Touch(t)
    PROVE  recent' \in Seq(Tasks)
<1>1. CASE Ranks(t) = {}
  BY <1>1 DEF Touch
<1>2. CASE Ranks(t) # {}
  <2>1. PICK i \in 1 .. Len(recent) :
          recent' = SubSeq(recent, 1, i - 1) \o SubSeq(recent, i + 1, Len(recent)) \o <<t>>
    BY <1>2 DEF Touch, Ranks
  <2>2. SubSeq(recent, 1, i - 1) \in Seq(Tasks)
    OBVIOUS
  <2>3. SubSeq(recent, i + 1, Len(recent)) \in Seq(Tasks)
    OBVIOUS
  <2> QED
    BY <2>1, <2>2, <2>3
<1> QED
  BY <1>1, <1>2

(* The steps of the browser: the tab and its request.                      *)
LEMMA TabTypes ==
    ASSUME TypeInv, NEW b \in Tabs, Human(b) \/ Poll(b) \/ PollLate(b)
    PROVE  TypeInv'
<1> USE NoFrames
<1>0. NoApproval \in 0 .. MaxApprovals /\ Settled \subseteq Status /\ Active \subseteq Status
  BY BoundAssumption DEF NoApproval, Status
<1>1. ASSUME NEW k \in Calls, NEW op \in {"invoke", "resume"}, NEW t \in Tasks,
             NEW pc \in {"create", "check"}, Send(b, k, op, t, pc)
      PROVE  /\ request' \in [Tabs -> [Calls -> Request]]
             /\ \A a \in Tabs, j \in Calls : RequestOK(request'[a][j])
             /\ \A a \in Tabs, j \in Calls : request'[a][j].op \in {"none", "invoke", "resume"}
             /\ overlaps' \in 0 .. MaxOverlaps
  <2> DEFINE f == [NoRequest EXCEPT !.op = op, !.pc = pc, !.task = t, !.about = tab[b].shows]
  <2>1. f \in Request /\ RequestOK(f)
    BY DEF Request, RequestOK, TypeInv, TypeOK
  <2>2. request' = [request EXCEPT ![b][k] = f]
    BY <1>1 DEF Send
  <2> HIDE DEF f
  <2>3. /\ request' \in [Tabs -> [Calls -> Request]]
        /\ \A a \in Tabs, j \in Calls : RequestOK(request'[a][j])
    BY <2>1, <2>2 DEF TypeInv, FramesOK
  <2>4. overlaps' \in 0 .. MaxOverlaps
    BY <1>1, BoundAssumption DEF Send, TypeInv, TypeOK
  <2> QED
    BY <2>3, <2>4 DEF Request
<1>2. ASSUME NEW t \in Tasks \cup {None}, NEW intime \in BOOLEAN, Look(b, t, intime)
      PROVE  TypeInv'
  <2> DEFINE s == [task |-> t, status |-> session[t].status, shows |-> session[t].shows,
                   polling |-> intime /\ session[t].status \in Active]
  <2>1. t \in Tasks /\ session[t] \in Row
    BY <1>2 DEF Look, TypeInv, TypeOK
  <2>2. s.task = t /\ s \in [task : Tasks \cup {None}, status : Status,
                              shows : 0 .. MaxApprovals, polling : BOOLEAN]
    BY <2>1 DEF Row
  <2>3. tab' = [tab EXCEPT ![b] = s]
        /\ UNCHANGED <<store, inbox, graph, request, job, crashes, overlaps>>
    BY <1>2 DEF Look
  <2> HIDE DEF s
  <2>4. TypeOK'
    BY <2>2, <2>3 DEF TypeInv, TypeOK, store, graph
  <2>5. FramesOK'
    BY <2>1, <2>2, <2>3, NoneAssumption DEF TypeInv, TypeOK, FramesOK
  <2> QED
    BY <2>4, <2>5 DEF TypeInv
<1>3. CASE Open(b)
  <2>1. PICK i \in 1 .. Len(recent) : Look(b, recent[i], TRUE)
    BY <1>3 DEF Open
  <2>2. recent[i] \in Tasks \cup {None}
    BY DEF TypeInv, TypeOK
  <2> QED
    BY <1>2, <2>1, <2>2
<1>4. CASE Poll(b) \/ PollLate(b) \/ Refresh(b)
  <2>1. tab[b].task \in Tasks \cup {None}
    BY DEF TypeInv, TypeOK
  <2> QED
    BY <1>2, <1>4, <2>1 DEF Poll, PollLate, Refresh
<1>5. ASSUME NEW k \in Decisions, Decide(b, k) PROVE TypeInv'
  <2>1. tab[b].task \in Tasks /\ k \in Calls
    BY <1>5 DEF Decide, Calls, TypeInv, TypeOK, FramesOK
  <2>2. Send(b, k, "resume", tab[b].task, "check")
        /\ UNCHANGED <<store, inbox, graph, tab, job, crashes>>
    BY <1>5 DEF Decide
  <2> QED
    BY <1>1, <2>1, <2>2 DEF TypeInv, TypeOK, FramesOK, store, graph
<1>6. ASSUME NEW t \in Tasks, Submit(b, t) PROVE TypeInv'
  <2> DEFINE s == [task |-> t, status |-> "pending", shows |-> NoApproval, polling |-> TRUE]
  <2>1. s.task = t /\ s \in [task : Tasks \cup {None}, status : Status,
                              shows : 0 .. MaxApprovals, polling : BOOLEAN]
    BY <1>0 DEF Status, Active
  <2>2. tab' = [tab EXCEPT ![b] = s] /\ "submit" \in Calls
        /\ Send(b, "submit", "invoke", t, "create")
        /\ UNCHANGED <<store, inbox, graph, job, crashes>>
    BY <1>6 DEF Submit, Calls
  <2> HIDE DEF s
  <2>3. TypeOK'
    BY <1>1, <2>1, <2>2 DEF TypeInv, TypeOK, store, graph
  <2>4. FramesOK'
    BY <1>1, <2>1, <2>2, NoneAssumption DEF TypeInv, TypeOK, FramesOK
  <2> QED
    BY <2>3, <2>4 DEF TypeInv
<1> QED
  BY <1>3, <1>4, <1>5, <1>6 DEF Human

(* The steps of the API's handlers.                                        *)
LEMMA HandlerTypes ==
    ASSUME TypeInv, NEW b \in Tabs, NEW k \in Calls, Handler(b, k)
    PROVE  TypeInv'
<1> USE NoFrames
<1> DEFINE c == request[b][k]
           t == c.task
           OpsOK == \A a \in Tabs, j \in Calls : request[a][j].op \in {"none", "invoke", "resume"}
<1>0. c \in Request /\ RequestOK(c)
  BY DEF TypeInv, FramesOK
<1>1. ASSUME NEW f \in Request, RequestOK(f), request' = [request EXCEPT ![b][k] = f],
             UNCHANGED <<tab, job>>
      PROVE  FramesOK' /\ OpsOK'
  BY <1>1 DEF TypeInv, FramesOK, Request
<1>2. ASSUME NEW pc \in {"load", "enqueue", "pending"}, Goto(b, k, pc), UNCHANGED <<tab, job>>,
             c.pc # "idle"
      PROVE  FramesOK' /\ OpsOK'
  <2> DEFINE f == [c EXCEPT !.pc = pc]
  <2>1. f \in Request /\ RequestOK(f) /\ request' = [request EXCEPT ![b][k] = f]
    BY <1>0, <1>2 DEF Goto, Request, RequestOK, TypeInv, FramesOK
  <2> HIDE DEF f
  <2> QED
    BY <1>1, <1>2, <2>1
<1>3. ASSUME Reply(b, k), UNCHANGED <<tab, job>>
      PROVE  FramesOK' /\ OpsOK'
  BY <1>1, <1>3 DEF Reply
<1>4. CASE CreateSession(b, k)
  <2>1. t \in Tasks
    BY <1>0, <1>4 DEF CreateSession, RequestOK
  <2>2. session' \in [Tasks -> Row \cup {None}] /\ recent' \in Seq(Tasks)
    <3>1. PICK row : row = [status |-> "idle", shows |-> NoApproval]
      OBVIOUS
    <3>2. row \in Row
      BY <3>1, BoundAssumption DEF Row, Status, Active, NoApproval
    <3>3. \/ session' = [session EXCEPT ![t] = row] /\ Touch(t)
          \/ UNCHANGED <<session, recent>>
      BY <1>4, <3>1 DEF CreateSession
    <3>4. session \in [Tasks -> Row \cup {None}] /\ recent \in Seq(Tasks)
      BY DEF TypeInv, TypeOK
    <3>5. CASE session' = [session EXCEPT ![t] = row] /\ Touch(t)
      <4>1. recent' \in Seq(Tasks)
        BY <2>1, <3>4, <3>5, TouchType
      <4> QED
        BY <3>2, <3>4, <3>5, <4>1
    <3> QED
      BY <3>3, <3>4, <3>5
  <2>3. FramesOK' /\ OpsOK'
    BY <1>2, <1>4 DEF CreateSession
  <2> QED
    BY <1>4, <2>2, <2>3 DEF CreateSession, TypeInv, TypeOK, graph
<1>5. CASE CheckInterrupted(b, k)
  <2>1. FramesOK' /\ OpsOK'
    BY <1>2, <1>3, <1>5 DEF CheckInterrupted
  <2> QED
    BY <1>5, <2>1 DEF CheckInterrupted, TypeInv, TypeOK, graph, store
<1>6. CASE LoadSession(b, k)
  <2> DEFINE f == [c EXCEPT !.pc = IF session[t] = None THEN "enqueue" ELSE "store",
                            !.row = session[t]]
  <2>1. t \in Tasks /\ session[t] \in Row \cup {None}
    BY <1>0, <1>6 DEF LoadSession, RequestOK, TypeInv, TypeOK
  <2>2. f \in Request /\ RequestOK(f)
    BY <1>0, <1>6, <2>1 DEF LoadSession, Request, RequestOK
  <2>3. request' = [request EXCEPT ![b][k] = f]
    BY <1>6 DEF LoadSession, TypeInv, FramesOK
  <2> HIDE DEF f
  <2>4. FramesOK' /\ OpsOK'
    BY <1>1, <1>6, <2>2, <2>3 DEF LoadSession
  <2> QED
    BY <1>6, <2>4 DEF LoadSession, TypeInv, TypeOK, graph, store
<1>7. CASE StoreRunning(b, k)
  <2>1. t \in Tasks /\ c.row \in Row
    BY <1>0, <1>7 DEF StoreRunning, RequestOK
  <2>2. [c.row EXCEPT !.status = "running", !.shows = NoApproval] \in Row
    <3>1. "running" \in Status /\ NoApproval \in 0 .. MaxApprovals
      BY BoundAssumption DEF Status, Active, NoApproval
    <3> QED
      BY <2>1, <3>1 DEF Row
  <2>3. session' \in [Tasks -> Row \cup {None}] /\ recent' \in Seq(Tasks)
    BY <1>7, <2>1, <2>2, TouchType DEF StoreRunning, TypeInv, TypeOK
  <2> DEFINE f == [c EXCEPT !.pc = "enqueue", !.row = None]
  <2>4. f \in Request /\ RequestOK(f)
    BY <1>0, <1>7, <2>1 DEF StoreRunning, Request, RequestOK
  <2>5. request' = [request EXCEPT ![b][k] = f]
    BY <1>7 DEF StoreRunning, TypeInv, FramesOK
  <2> HIDE DEF f
  <2>6. FramesOK' /\ OpsOK'
    BY <1>1, <1>7, <2>4, <2>5 DEF StoreRunning
  <2> QED
    BY <1>7, <2>3, <2>6 DEF StoreRunning, TypeInv, TypeOK, graph
<1>8. CASE Enqueue(b, k)
  <2>1. [kind |-> c.op, task |-> t, about |-> c.about] \in Message
    BY <1>0, <1>8 DEF Enqueue, RequestOK, Request, Message
  <2>2. inbox' \in Seq(Message)
    BY <1>8, <2>1 DEF Enqueue, TypeInv, TypeOK
  <2>3. FramesOK' /\ OpsOK'
    BY <1>2, <1>8 DEF Enqueue
  <2> QED
    BY <1>8, <2>2, <2>3 DEF Enqueue, TypeInv, TypeOK, graph, store
<1>9. CASE MarkPending(b, k)
  <2> DEFINE s == [task |-> t, status |-> "pending", shows |-> NoApproval, polling |-> TRUE]
  <2>1. t \in Tasks /\ taskkey' \in [Tasks -> Status \cup {None}]
    BY <1>0, <1>9 DEF MarkPending, RequestOK, TypeInv, TypeOK, Status, Active
  <2>2. s.task = t /\ s \in [task : Tasks \cup {None}, status : Status,
                              shows : 0 .. MaxApprovals, polling : BOOLEAN]
    BY <2>1, BoundAssumption DEF Status, Active, NoApproval
  <2>3. tab' = [tab EXCEPT ![b] = s] /\ request' = [request EXCEPT ![b][k] = NoRequest]
        /\ UNCHANGED <<session, recent, inbox, graph, job, crashes, overlaps>>
    BY <1>9 DEF MarkPending, Reply
  <2> HIDE DEF s
  <2>4. request' \in [Tabs -> [Calls -> Request]]
        /\ \A a \in Tabs, j \in Calls : RequestOK(request'[a][j])
    BY <2>3 DEF TypeInv, FramesOK
  <2>5. OpsOK'
    BY <2>4 DEF Request
  <2>6. TypeOK'
    BY <2>1, <2>2, <2>3, <2>5 DEF TypeInv, TypeOK, graph
  <2>7. FramesOK'
    BY <2>1, <2>2, <2>3, <2>4, NoneAssumption DEF TypeInv, TypeOK, FramesOK
  <2> QED
    BY <2>6, <2>7 DEF TypeInv
<1> QED
  BY <1>4, <1>5, <1>6, <1>7, <1>8, <1>9 DEF Handler

(* The steps of a worker.                                                  *)
LEMMA WorkTypes ==
    ASSUME TypeInv, NEW w \in Workers, Work(w)
    PROVE  TypeInv'
<1> USE NoFrames
<1> DEFINE f == job[w]
<1>0. f \in Job /\ JobOK(f)
  BY DEF TypeInv, FramesOK
<1>1. ASSUME NEW g \in Job, JobOK(g), job' = [job EXCEPT ![w] = g], UNCHANGED <<tab, request>>
      PROVE  FramesOK' /\ \A v \in Workers : job'[v].task \in Tasks \cup {None}
  BY <1>1 DEF TypeInv, FramesOK, Job
<1>2. ASSUME NEW pc \in {"store_result", "task_key"}, Advance(w, pc), f.pc # "idle",
             f.outcome \in Row, UNCHANGED <<tab, request>>
      PROVE  FramesOK' /\ \A v \in Workers : job'[v].task \in Tasks \cup {None}
  <2> DEFINE g == [f EXCEPT !.pc = pc]
  <2>1. g \in Job /\ JobOK(g) /\ job' = [job EXCEPT ![w] = g]
    BY <1>0, <1>2 DEF Advance, Job, JobOK, TypeInv, FramesOK
  <2> HIDE DEF g
  <2> QED
    BY <1>1, <1>2, <2>1
<1>3. ASSUME NEW row \in Row, f.task \in Tasks, Touch(f.task),
             session' = [session EXCEPT ![f.task] = row]
      PROVE  session' \in [Tasks -> Row \cup {None}] /\ recent' \in Seq(Tasks)
  BY <1>3, TouchType DEF TypeInv, TypeOK
<1>4. CASE Take(w)
  <2>1. PICK m : m = Head(inbox)
    OBVIOUS
  <2> DEFINE g == [NoJob EXCEPT !.kind = m.kind, !.task = m.task, !.about = m.about,
                                !.pc = IF m.kind = "invoke" THEN "load" ELSE "graph"]
  <2>2. m \in Message /\ Tail(inbox) \in Seq(Message)
    BY <1>4, <2>1 DEF Take, TypeInv, TypeOK
  <2>3. g \in Job /\ JobOK(g)
    BY <2>2 DEF Job, JobOK, NoJob, Message
  <2>4. job' = [job EXCEPT ![w] = g] /\ inbox' = Tail(inbox)
        /\ UNCHANGED <<store, graph, tab, request, crashes, overlaps>>
    BY <1>4, <2>1 DEF Take
  <2> HIDE DEF g
  <2>5. FramesOK' /\ \A v \in Workers : job'[v].task \in Tasks \cup {None}
    BY <1>1, <2>3, <2>4
  <2> QED
    BY <2>2, <2>4, <2>5 DEF TypeInv, TypeOK, store, graph
<1>5. CASE LoadForRun(w)
  <2>1. PICK row : row = session[f.task]
    OBVIOUS
  <2> DEFINE g == [f EXCEPT !.pc = IF row = None THEN "graph" ELSE "store", !.row = row]
  <2>2. f.task \in Tasks /\ row \in Row \cup {None}
    BY <1>0, <1>5, <2>1 DEF LoadForRun, JobOK, TypeInv, TypeOK
  <2>3. g \in Job /\ JobOK(g)
    BY <1>0, <1>5, <2>2 DEF LoadForRun, Job, JobOK
  <2>4. job' = [job EXCEPT ![w] = g] /\ UNCHANGED <<store, inbox, graph, tab, request, crashes, overlaps>>
    BY <1>5, <2>1 DEF LoadForRun, TypeInv, FramesOK
  <2> HIDE DEF g
  <2>5. FramesOK' /\ \A v \in Workers : job'[v].task \in Tasks \cup {None}
    BY <1>1, <2>3, <2>4
  <2> QED
    BY <2>4, <2>5 DEF TypeInv, TypeOK, store, graph
<1>6. CASE StoreForRun(w)
  <2>1. f.task \in Tasks /\ f.row \in Row
    BY <1>0, <1>6 DEF StoreForRun, JobOK
  <2>2. [f.row EXCEPT !.status = "running"] \in Row
    <3>1. "running" \in Status
      BY DEF Status, Active
    <3> QED
      BY <2>1, <3>1 DEF Row
  <2>3. session' \in [Tasks -> Row \cup {None}] /\ recent' \in Seq(Tasks)
    BY <1>3, <1>6, <2>1, <2>2 DEF StoreForRun
  <2> DEFINE g == [f EXCEPT !.pc = "graph", !.row = None]
  <2>4. g \in Job /\ JobOK(g) /\ job' = [job EXCEPT ![w] = g]
    BY <1>0, <1>6 DEF StoreForRun, Job, JobOK, TypeInv, FramesOK
  <2> HIDE DEF g
  <2>5. FramesOK' /\ \A v \in Workers : job'[v].task \in Tasks \cup {None}
    BY <1>1, <1>6, <2>4 DEF StoreForRun
  <2> QED
    BY <1>6, <2>3, <2>5 DEF StoreForRun, TypeInv, TypeOK, graph
<1>7. CASE RunGraph(w)
  <2>1. PICK out \in Outcomes(w) :
          /\ thread' = IF job[w].kind = "resume" /\ thread.at = "new" THEN thread
                       ELSE [at |-> out,
                             task |-> IF job[w].kind = "invoke" THEN job[w].task
                                      ELSE thread.task,
                             approval |-> IF out = "interrupted" THEN asked + 1
                                          ELSE NoApproval]
          /\ asked' = IF out = "interrupted" THEN asked + 1 ELSE asked
          /\ job' = [job EXCEPT ![w].pc = "load_result",
                                ![w].outcome = [status |-> Reported(out),
                                                shows |-> thread'.approval]]
    BY <1>7 DEF RunGraph
  <2>2. f.task \in Tasks /\ UNCHANGED <<store, inbox, tab, request, crashes, overlaps>>
    BY <1>0, <1>7 DEF RunGraph, JobOK
  <2>3. /\ out \in {"interrupted", "completed", "error", "raised"}
        /\ out = "interrupted" => asked < MaxApprovals
        /\ asked \in Nat /\ asked <= MaxApprovals /\ MaxApprovals \in Nat
    BY BoundAssumption DEF Outcomes, TypeInv, TypeOK
  <2>4. asked' \in 0 .. MaxApprovals
    BY <2>1, <2>3
  <2>5. thread' \in [at : {"new", "interrupted", "completed", "error", "raised"},
                     task : Tasks \cup {None}, approval : 0 .. MaxApprovals]
    <3>1. (IF out = "interrupted" THEN asked + 1 ELSE NoApproval) \in 0 .. MaxApprovals
      BY <2>3 DEF NoApproval
    <3>2. thread \in [at : {"new", "interrupted", "completed", "error", "raised"},
                      task : Tasks \cup {None}, approval : 0 .. MaxApprovals]
      BY DEF TypeInv, TypeOK
    <3>3. (IF job[w].kind = "invoke" THEN job[w].task ELSE thread.task) \in Tasks \cup {None}
      BY <2>2, <3>2
    <3> QED
      BY <2>1, <2>3, <3>1, <3>2, <3>3
  <2>6. PICK o : o = [status |-> Reported(out), shows |-> thread'.approval]
    OBVIOUS
  <2>7. o \in Row
    <3>1. Reported(out) \in Status /\ thread'.approval \in 0 .. MaxApprovals
      BY <2>3, <2>5 DEF Reported, Status, Settled
    <3> QED
      BY <2>6, <3>1 DEF Row
  <2> DEFINE g == [f EXCEPT !.pc = "load_result", !.outcome = o]
  <2>8. g \in Job /\ JobOK(g)
    BY <1>0, <1>7, <2>7 DEF RunGraph, Job, JobOK
  <2>9. job' = [job EXCEPT ![w] = g]
    BY <2>1, <2>6 DEF TypeInv, FramesOK
  <2> HIDE DEF g
  <2>10. FramesOK' /\ \A v \in Workers : job'[v].task \in Tasks \cup {None}
    BY <1>1, <2>2, <2>8, <2>9
  <2> QED
    BY <2>2, <2>4, <2>5, <2>10 DEF TypeInv, TypeOK, store
<1>8. CASE LoadResult(w)
  <2>1. FramesOK' /\ \A v \in Workers : job'[v].task \in Tasks \cup {None}
    <3>1. f.outcome \in Row /\ f.pc # "idle"
      BY <1>0, <1>8 DEF LoadResult, JobOK
    <3> QED
      BY <1>2, <1>8, <3>1 DEF LoadResult
  <2> QED
    BY <1>8, <2>1 DEF LoadResult, TypeInv, TypeOK, store, graph
<1>9. CASE StoreResult(w)
  <2>1. f.task \in Tasks /\ f.outcome \in Row /\ f.pc # "idle"
    BY <1>0, <1>9 DEF StoreResult, JobOK
  <2>2. session' \in [Tasks -> Row \cup {None}] /\ recent' \in Seq(Tasks)
    BY <1>3, <1>9, <2>1 DEF StoreResult
  <2>3. FramesOK' /\ \A v \in Workers : job'[v].task \in Tasks \cup {None}
    BY <1>2, <1>9, <2>1 DEF StoreResult
  <2> QED
    BY <1>9, <2>2, <2>3 DEF StoreResult, TypeInv, TypeOK, graph
<1>10. CASE StoreTaskKey(w)
  <2>1. f.task \in Tasks /\ f.outcome \in Row
    BY <1>0, <1>10 DEF StoreTaskKey, JobOK
  <2>2. taskkey' \in [Tasks -> Status \cup {None}]
    BY <1>10, <2>1 DEF StoreTaskKey, Row, TypeInv, TypeOK
  <2>3. FramesOK' /\ \A v \in Workers : job'[v].task \in Tasks \cup {None}
    BY <1>1, <1>10 DEF StoreTaskKey
  <2> QED
    BY <1>10, <2>2, <2>3 DEF StoreTaskKey, TypeInv, TypeOK, graph
<1> QED
  BY <1>4, <1>5, <1>6, <1>7, <1>8, <1>9, <1>10 DEF Work

LEMMA CrashTypes ==
    ASSUME TypeInv, NEW w \in Workers, Crash(w)
    PROVE  TypeInv'
<1>1. job' = [job EXCEPT ![w] = NoJob] /\ UNCHANGED <<store, inbox, asked, tab, request, overlaps>>
  BY DEF Crash
<1>2. crashes' \in 0 .. MaxCrashes
  BY BoundAssumption DEF Crash, TypeInv, TypeOK
<1>3. thread' \in [at : {"new", "interrupted", "completed", "error", "raised"},
                   task : Tasks \cup {None}, approval : 0 .. MaxApprovals]
  <2>1. NoApproval \in 0 .. MaxApprovals /\ job[w].task \in Tasks \cup {None}
    BY BoundAssumption DEF NoApproval, TypeInv, TypeOK
  <2>2. thread \in [at : {"new", "interrupted", "completed", "error", "raised"},
                    task : Tasks \cup {None}, approval : 0 .. MaxApprovals]
    BY DEF TypeInv, TypeOK
  <2>3. CASE UNCHANGED thread
    BY <2>2, <2>3
  <2>4. CASE thread' = [at |-> "raised", task |-> job[w].task, approval |-> NoApproval]
    BY <2>1, <2>4
  <2>5. CASE thread' = [thread EXCEPT !.at = "raised", !.approval = NoApproval]
    BY <2>1, <2>2, <2>5
  <2> QED
    BY <2>3, <2>4, <2>5 DEF Crash
<1>4. FramesOK'
  BY <1>1, NoFrames DEF TypeInv, FramesOK
<1>5. \A v \in Workers : job'[v].task \in Tasks \cup {None}
  BY <1>1 DEF NoJob, TypeInv, TypeOK, FramesOK
<1> QED
  BY <1>1, <1>2, <1>3, <1>4, <1>5 DEF TypeInv, TypeOK, store

LEMMA TypeStep == TypeInv /\ [Next]_vars => TypeInv'
<1> SUFFICES ASSUME TypeInv, [Next]_vars PROVE TypeInv'
  OBVIOUS
<1>1. CASE Next
  BY <1>1, TabTypes, HandlerTypes, WorkTypes, CrashTypes DEF Next
<1>2. CASE UNCHANGED vars
  BY <1>2 DEF vars, store, graph, TypeInv, TypeOK, FramesOK
<1> QED
  BY <1>1, <1>2

(* Every row, message, request and job keeps its type, whatever the tabs   *)
(* and workers do: TypeOK holds of every state the system can reach, for   *)
(* any tabs, tasks, workers, approvals and crashes.                        *)
THEOREM LifecycleTypes == Spec => [](TypeOK /\ FramesOK)
  BY InitTypes, TypeStep, PTL DEF Spec, TypeInv

-----------------------------------------------------------------------------
(* One tab, one call at a time.  A session that is open in a single tab    *)
(* and sends no call while another is on its way never has two turns under *)
(* way, so a row that asks for a decision, the card the tab shows and the  *)
(* approval the thread waits for are always the same one.                  *)

Running(w) == job[w].pc \notin {"idle", "task_key"}

Underway == inbox # <<>> \/ \E w \in Workers : Running(w)

(* The steps of an API call that come before its message is sent.          *)
Early == {"create", "check", "load", "store", "enqueue"}

(* A tab has at most one call on its way, and it is the one in hand.       *)
Single(b) ==
    /\ \A j, k \in Calls : OnItsWay(b, j) /\ OnItsWay(b, k) => j = k
    /\ \A k \in Decisions : request[b][k].op # "invoke"

InHand(b) ==
    IF \E k \in Calls : OnItsWay(b, k)
    THEN request[b][CHOOSE k \in Calls : OnItsWay(b, k)]
    ELSE NoRequest

Waiting(t, n) == thread = [at |-> "interrupted", task |-> t, approval |-> n]

OneAtATime(b) ==
    /\ inbox = <<>> \/ \E m \in Message : inbox = <<m>>
    /\ inbox # <<>> => \A w \in Workers : ~Running(w)
    /\ \A v, w \in Workers : Running(v) /\ Running(w) => v = w
    /\ InHand(b).pc \in Early => ~Underway
    /\ Single(b) /\ (InHand(b).op # "none" => InHand(b).task = tab[b].task)

(* A tab that shows an answer shows the row, and nothing is under way.     *)
TabIsTrue(b) ==
    InHand(b).op = "none" =>
        IF tab[b].task = None THEN ~Underway /\ recent = <<>>
        ELSE /\ taskkey[tab[b].task] # None
             /\ tab[b].status \in Settled =>
                    /\ ~Underway
                    /\ session[tab[b].task] = [status |-> tab[b].status, shows |-> tab[b].shows]

(* The tab has moved on from every other task.                             *)
OthersAreDone(b) ==
    \A t \in Tasks \ {tab[b].task} :
        session[t] # None => session[t].status \in {"completed", "error"}

(* The row of the tab's task, while a call or a run is about it.           *)
RowOfTask(b) ==
    LET t == tab[b].task
        r == InHand(b)
    IN  /\ Underway \/ r.pc \in {"enqueue", "pending"} \/ (t # None /\ r.op = "none")
               => t \in Tasks /\ session[t] # None
        /\ Underway \/ r.pc = "enqueue" => session[t].status \in {"idle", "running"}
        /\ r.pc = "create" => session[t] = None /\ r.op = "invoke"
        /\ r.pc \in {"check", "load", "store"} =>
               session[t] = [status |-> "interrupted", shows |-> r.about]
        /\ r.op = "resume" => taskkey[t] # None

NewestIsShown(b) ==
    tab[b].task # None /\ InHand(b).pc # "create" =>
        recent # <<>> /\ recent[Len(recent)] = tab[b].task

RowsWait ==
    \A t \in Tasks :
        session[t] # None /\ session[t].status = "interrupted" => Waiting(t, session[t].shows)

(* A resumption carries the approval the thread waits for, from the call   *)
(* to the graph, and an approval asked for is reported with its own number.*)
JobsWait(b) ==
    LET t == tab[b].task
    IN  /\ InHand(b).pc = "enqueue" /\ InHand(b).op = "resume" => Waiting(t, InHand(b).about)
        /\ \A m \in Message : inbox = <<m>> =>
               m.task = t /\ (m.kind = "resume" => Waiting(t, m.about))
        /\ \A w \in Workers : Running(w) =>
               /\ job[w].task = t
               /\ job[w].kind = "resume" => job[w].pc \notin {"load", "store"}
               /\ job[w].kind = "resume" /\ job[w].pc = "graph" => Waiting(t, job[w].about)
               /\ job[w].pc \in {"load_result", "store_result"}
                      /\ job[w].outcome.status = "interrupted"
                  => Waiting(t, job[w].outcome.shows)

TabInv(b) ==
    /\ TypeInv
    /\ OneAtATime(b) /\ TabIsTrue(b) /\ OthersAreDone(b) /\ RowOfTask(b)
    /\ NewestIsShown(b) /\ RowsWait /\ JobsWait(b)

LEMMA InHandIs ==
    ASSUME TypeInv, NEW b \in Tabs, Single(b)
    PROVE  /\ InHand(b) \in Request /\ RequestOK(InHand(b))
           /\ \A k \in Calls : OnItsWay(b, k) => InHand(b) = request[b][k]
           /\ \A k \in Calls : OnItsWay(b, k) => InHand(b).op # "none"
           /\ (\A k \in Calls : ~OnItsWay(b, k)) => InHand(b) = NoRequest
<1>1. CASE \A k \in Calls : ~OnItsWay(b, k)
  BY <1>1, NoFrames DEF InHand
<1>2. ASSUME NEW k \in Calls, OnItsWay(b, k)
      PROVE  InHand(b) = request[b][k]
  <2> DEFINE j == CHOOSE i \in Calls : OnItsWay(b, i)
  <2>1. j \in Calls /\ OnItsWay(b, j)
    BY <1>2
  <2>2. j = k
    BY <1>2, <2>1 DEF Single
  <2> QED
    BY <1>2, <2>2 DEF InHand
<1>3. ASSUME NEW k \in Calls, OnItsWay(b, k)
      PROVE  request[b][k] \in Request /\ RequestOK(request[b][k]) /\ request[b][k].op # "none"
  BY <1>3 DEF TypeInv, FramesOK, OnItsWay
<1> QED
  BY <1>1, <1>2, <1>3

(* The call of one listener begins, moves on or returns, and no other one  *)
(* is on its way.                                                          *)
LEMMA InHandMoves ==
    ASSUME TypeInv, NEW b \in Tabs, Single(b), NEW k \in Calls,
           \A j \in Calls : OnItsWay(b, j) => j = k,
           NEW f, request' = [request EXCEPT ![b][k] = f], f = NoRequest \/ f.op # "none",
           k \in Decisions => f.op # "invoke"
    PROVE  Single(b)' /\ InHand(b)' = f
<1>1. request' \in [Tabs -> [Calls -> Request \cup {f}]] /\ request'[b][k] = f
      /\ \A j \in Calls : j # k => request'[b][j] = request[b][j]
  BY DEF TypeInv, FramesOK
<1>2. \A j \in Calls : OnItsWay(b, j)' => j = k
  BY <1>1 DEF OnItsWay
<1>3. Single(b)'
  <2>1. \A j \in Decisions : request'[b][j].op # "invoke"
    BY <1>1 DEF Single, Calls
  <2> QED
    BY <1>2, <2>1 DEF Single
<1>4. CASE f.op # "none"
  <2>1. OnItsWay(b, k)'
    BY <1>1, <1>4 DEF OnItsWay
  <2>2. PICK j : j = CHOOSE i \in Calls : OnItsWay(b, i)'
    OBVIOUS
  <2>3. j \in Calls /\ OnItsWay(b, j)'
    BY <2>1, <2>2
  <2>4. j = k
    BY <1>2, <2>3
  <2> QED
    BY <1>1, <1>3, <2>1, <2>2, <2>4 DEF InHand
<1>5. CASE f = NoRequest
  <2>1. \A j \in Calls : ~OnItsWay(b, j)'
    BY <1>1, <1>2, <1>5, NoFrames DEF OnItsWay
  <2> QED
    BY <1>3, <1>5, <2>1 DEF InHand
<1> QED
  BY <1>4, <1>5

LEMMA InHandStays ==
    ASSUME NEW b, UNCHANGED request
    PROVE  InHand(b)' = InHand(b) /\ (Single(b)' <=> Single(b))
  BY DEF InHand, Single, OnItsWay

LEMMA TouchLast ==
    ASSUME recent \in Seq(Tasks), NEW t \in Tasks, Touch(t)
    PROVE  recent' # <<>> /\ recent'[Len(recent')] = t
<1>1. CASE Ranks(t) = {}
  BY <1>1 DEF Touch
<1>2. CASE Ranks(t) # {}
  <2>1. PICK i \in 1 .. Len(recent) :
          recent' = SubSeq(recent, 1, i - 1) \o SubSeq(recent, i + 1, Len(recent)) \o <<t>>
    BY <1>2 DEF Touch, Ranks
  <2>2. SubSeq(recent, 1, i - 1) \in Seq(Tasks) /\ SubSeq(recent, i + 1, Len(recent)) \in Seq(Tasks)
    OBVIOUS
  <2>3. PICK p, q : p = SubSeq(recent, 1, i - 1) /\ q = SubSeq(recent, i + 1, Len(recent))
    OBVIOUS
  <2>4. recent' = (p \o q) \o <<t>> /\ p \o q \in Seq(Tasks)
    BY <2>1, <2>2, <2>3
  <2>5. Len(recent') = Len(p \o q) + 1 /\ recent'[Len(p \o q) + 1] = t
    BY <2>4
  <2> QED
    BY <2>4, <2>5
<1> QED
  BY <1>1, <1>2

LEMMA InitTab ==
    ASSUME NEW b, Tabs = {b}, Init
    PROVE  TabInv(b)
<1>1. \A w \in Workers : ~Running(w)
  BY DEF Init, Running, NoJob
<1>2. TypeInv
  BY InitTypes
<1>3. tab[b].task = None /\ inbox = <<>> /\ ~Underway
      /\ \A k \in Calls : ~OnItsWay(b, k)
  BY <1>1 DEF Init, Underway, OnItsWay, NoRequest
<1>8. InHand(b) = NoRequest /\ Single(b)
  BY <1>3 DEF InHand, Single, Init, Calls, NoRequest
<1>4. OneAtATime(b) /\ TabIsTrue(b)
  BY <1>1, <1>3, <1>8 DEF OneAtATime, TabIsTrue, Init, NoRequest, Early
<1>5. OthersAreDone(b) /\ RowsWait /\ NewestIsShown(b)
  BY <1>3, <1>8 DEF OthersAreDone, RowsWait, NewestIsShown, Init
<1>6. RowOfTask(b)
  BY <1>3, <1>8 DEF RowOfTask, NoRequest
<1>7. JobsWait(b)
  BY <1>1, <1>3, <1>8 DEF JobsWait, NoRequest
<1> QED
  BY <1>2, <1>4, <1>5, <1>6, <1>7 DEF TabInv

(* While a worker runs, nothing else is under way and no row asks.         *)
LEMMA RunsAlone ==
    ASSUME NEW b, TabInv(b), NEW w \in Workers, Running(w)
    PROVE  /\ inbox = <<>> /\ InHand(b).pc \notin Early
           /\ \A v \in Workers : v # w => ~Running(v)
           /\ job[w].task = tab[b].task /\ tab[b].task \in Tasks
           /\ session[tab[b].task] # None
           /\ session[tab[b].task].status \in {"idle", "running"}
           /\ \A t \in Tasks : session[t] # None => session[t].status # "interrupted"
           /\ InHand(b).op = "none" => tab[b].status \notin Settled
<1>1. Underway
  BY DEF Underway
<1>2. inbox = <<>> /\ InHand(b).pc \notin Early /\ \A v \in Workers : v # w => ~Running(v)
  BY <1>1 DEF TabInv, OneAtATime
<1>3. job[w].task = tab[b].task
  BY DEF TabInv, JobsWait
<1>4. tab[b].task \in Tasks /\ session[tab[b].task] # None
      /\ session[tab[b].task].status \in {"idle", "running"}
  BY <1>1 DEF TabInv, RowOfTask
<1>5. \A t \in Tasks : session[t] # None => session[t].status # "interrupted"
  BY <1>4 DEF TabInv, OthersAreDone
<1>6. InHand(b).op = "none" => tab[b].status \notin Settled
  BY <1>1, <1>4, NoneAssumption DEF TabInv, TabIsTrue
<1> QED
  BY <1>2, <1>3, <1>4, <1>5, <1>6

(* A step of the worker that runs: it moves on with its task, leaves the   *)
(* browser alone, and the row it writes is not an approval nobody waits    *)
(* for.                                                                    *)
LEMMA RunningStep ==
    ASSUME NEW b, Tabs = {b}, TabInv(b), TypeInv', NEW w \in Workers, Running(w),
           UNCHANGED <<inbox, tab, request, taskkey>>,
           \A v \in Workers : v # w => job'[v] = job[v],
           NEW row \in Row,
           \/ session' = session /\ recent' = recent /\ row = session[tab[b].task]
           \/ session' = [session EXCEPT ![tab[b].task] = row] /\ Touch(tab[b].task),
           row.status = "interrupted" => thread' = [at |-> "interrupted", task |-> tab[b].task,
                                                    approval |-> row.shows],
           job'[w].pc \notin {"idle", "task_key"} =>
             /\ row.status \in {"idle", "running"}
             /\ job'[w].task = tab[b].task
             /\ job'[w].kind = "resume" => job'[w].pc \notin {"load", "store", "graph"}
             /\ job'[w].pc \in {"load_result", "store_result"}
                  /\ job'[w].outcome.status = "interrupted"
                => thread' = [at |-> "interrupted", task |-> tab[b].task,
                              approval |-> job'[w].outcome.shows]
    PROVE  TabInv(b)'
<1> DEFINE t == tab[b].task
<1>0. /\ inbox = <<>> /\ InHand(b).pc \notin Early
      /\ \A v \in Workers : v # w => ~Running(v)
      /\ t \in Tasks /\ session[t] # None
      /\ \A u \in Tasks : session[u] # None => session[u].status # "interrupted"
      /\ InHand(b).op = "none" => tab[b].status \notin Settled
  BY RunsAlone
<1>a. InHand(b)' = InHand(b) /\ (Single(b)' <=> Single(b))
  BY InHandStays
<1>1. \A v \in Workers : v # w => ~Running(v)'
  BY <1>0 DEF Running
<1>2. session'[t] = row /\ (\A u \in Tasks \ {t} : session'[u] = session[u])
  BY <1>0 DEF TabInv, TypeInv, TypeOK
<1>3. row # None
  BY <1>2, NoneAssumption, BoundAssumption DEF Row
<1>4. OneAtATime(b)'
  <2>1. inbox' = <<>> /\ InHand(b)'.pc \notin Early
    BY <1>0, <1>a
  <2>2. \A u, v \in Workers : Running(u)' /\ Running(v)' => u = v
    BY <1>1
  <2> QED
    BY <1>a, <2>1, <2>2 DEF TabInv, OneAtATime
<1>5. TabIsTrue(b)'
  BY <1>0, <1>a, NoneAssumption DEF TabInv, TabIsTrue, RowOfTask
<1>6. OthersAreDone(b)'
  BY <1>2 DEF TabInv, OthersAreDone
<1>7. RowOfTask(b)'
  <2>1. Underway' => job'[w].pc \notin {"idle", "task_key"}
    BY <1>0, <1>1 DEF Underway, Running
  <2> QED
    BY <1>0, <1>a, <1>2, <1>3, <2>1 DEF TabInv, RowOfTask, Early
<1>8. NewestIsShown(b)'
  <2>1. recent \in Seq(Tasks)
    BY DEF TabInv, TypeInv, TypeOK
  <2>2. recent' = recent \/ (recent' # <<>> /\ recent'[Len(recent')] = t)
    BY <1>0, <2>1, TouchLast
  <2> QED
    BY <1>0, <1>a, <2>2 DEF TabInv, NewestIsShown, Early
<1>9. RowsWait'
  BY <1>0, <1>2 DEF RowsWait, Waiting
<1>10. JobsWait(b)'
  BY <1>0, <1>a, <1>1 DEF JobsWait, Running, Waiting, Early
<1> QED
  BY <1>4, <1>5, <1>6, <1>7, <1>8, <1>9, <1>10 DEF TabInv

LEMMA WorkTab ==
    ASSUME NEW b, Tabs = {b}, TabInv(b), NEW w \in Workers, Work(w)
    PROVE  TabInv(b)'
<1> DEFINE t == tab[b].task
           f == job[w]
<1>0. TypeInv /\ TypeInv' /\ f \in Job /\ JobOK(f) /\ job \in [Workers -> Job]
  BY WorkTypes DEF TabInv, TypeInv, FramesOK
<1>a. InHand(b)' = InHand(b) /\ (Single(b)' <=> Single(b))
  BY InHandStays DEF Work, Take, LoadForRun, StoreForRun, RunGraph, LoadResult, StoreResult,
                     StoreTaskKey
<1>1. ASSUME Running(w)
      PROVE  /\ f.task = t /\ t \in Tasks /\ session[t] # None /\ session[t] \in Row
             /\ session[t].status \in {"idle", "running"}
             /\ f.kind = "resume" => f.pc \notin {"load", "store"}
             /\ f.kind = "resume" /\ f.pc = "graph" => Waiting(t, f.about)
             /\ f.pc \in {"load_result", "store_result"} /\ f.outcome.status = "interrupted"
                => Waiting(t, f.outcome.shows)
  BY <1>0, <1>1, RunsAlone DEF TabInv, TypeInv, TypeOK, JobsWait
<1>2. CASE Take(w)
  <2>1. PICK m \in Message : inbox = <<m>>
    BY <1>2 DEF Take, TabInv, OneAtATime
  <2>2. /\ m.task = t /\ (m.kind = "resume" => Waiting(t, m.about))
        /\ Underway /\ (\A v \in Workers : ~Running(v))
    BY <2>1 DEF Underway, TabInv, OneAtATime, JobsWait
  <2>3. m = Head(inbox) /\ Tail(inbox) = <<>>
    BY <2>1
  <2>4. /\ job'[w].task = t /\ job'[w].kind = m.kind /\ job'[w].about = m.about
        /\ job'[w].pc = IF m.kind = "invoke" THEN "load" ELSE "graph"
        /\ \A v \in Workers : v # w => job'[v] = job[v]
    BY <1>0, <1>2, <2>2, <2>3 DEF Take, NoJob
  <2>5. inbox' = <<>> /\ UNCHANGED <<store, graph, tab, request, crashes>>
    BY <1>2, <2>3 DEF Take
  <2>6. \A v \in Workers : v # w => ~Running(v)'
    BY <2>2, <2>4 DEF Running
  <2>7. InHand(b).pc \notin Early
    BY <2>2 DEF TabInv, OneAtATime
  <2>8. OneAtATime(b)'
    <3>1. \A u, v \in Workers : Running(u)' /\ Running(v)' => u = v
      BY <2>6
    <3> QED
      BY <1>a, <2>5, <2>7, <3>1 DEF TabInv, OneAtATime
  <2>9. TabIsTrue(b)' /\ OthersAreDone(b)' /\ RowOfTask(b)' /\ NewestIsShown(b)' /\ RowsWait'
    <3>1. TabIsTrue(b)'
      BY <1>a, <2>2, <2>5 DEF TabInv, TabIsTrue, store
    <3>2. RowOfTask(b)'
      BY <1>a, <2>2, <2>5 DEF TabInv, RowOfTask, store
    <3> QED
      BY <1>a, <2>5, <3>1, <3>2
         DEF TabInv, OthersAreDone, NewestIsShown, RowsWait, Waiting, store, graph
  <2>10. JobsWait(b)'
    <3>1. \A v \in Workers : Running(v)' => v = w
      BY <2>6
    <3>2. m.kind \in {"invoke", "resume"}
      BY <2>1 DEF Message
    <3> QED
      BY <1>a, <2>2, <2>4, <2>5, <2>7, <3>1, <3>2 DEF JobsWait, Waiting, graph, Early
  <2> QED
    BY <1>0, <2>8, <2>9, <2>10 DEF TabInv
<1>3. CASE LoadForRun(w)
  <2>1. Running(w)
    BY <1>3 DEF LoadForRun, Running
  <2>2. /\ job'[w].pc = "store" /\ job'[w].task = t /\ job'[w].kind = f.kind
        /\ \A v \in Workers : v # w => job'[v] = job[v]
    BY <1>0, <1>1, <1>3, <2>1 DEF LoadForRun, Job
  <2>3. f.kind # "resume"
    BY <1>1, <1>3, <2>1 DEF LoadForRun
  <2>4. UNCHANGED <<inbox, tab, request, taskkey, session, recent>>
    BY <1>3 DEF LoadForRun, store
  <2>5. PICK row \in Row : row = session[t]
    BY <1>1, <2>1
  <2> QED
    BY <1>0, <1>1, <2>1, <2>2, <2>3, <2>4, <2>5, RunningStep
<1>4. CASE StoreForRun(w)
  <2>1. Running(w)
    BY <1>4 DEF StoreForRun, Running
  <2>2. /\ job'[w].pc = "graph" /\ job'[w].task = t /\ job'[w].kind = f.kind
        /\ \A v \in Workers : v # w => job'[v] = job[v]
    BY <1>0, <1>1, <1>4, <2>1 DEF StoreForRun, Advance, Job
  <2>3. f.kind # "resume" /\ f.row \in Row
    BY <1>0, <1>1, <1>4, <2>1 DEF StoreForRun, JobOK
  <2>4. UNCHANGED <<inbox, tab, request, taskkey>> /\ Touch(t)
    BY <1>1, <1>4, <2>1 DEF StoreForRun, store
  <2>5. PICK row : row = [f.row EXCEPT !.status = "running"]
    OBVIOUS
  <2>6. row \in Row /\ row.status = "running"
    <3>1. "running" \in Status
      BY DEF Status, Active
    <3> QED
      BY <2>3, <2>5, <3>1 DEF Row
  <2>7. session' = [session EXCEPT ![t] = row]
    BY <1>1, <1>4, <2>1, <2>5 DEF StoreForRun
  <2> QED
    BY <1>0, <2>1, <2>2, <2>3, <2>4, <2>6, <2>7, RunningStep
<1>5. CASE RunGraph(w)
  <2>1. Running(w)
    BY <1>5 DEF RunGraph, Running
  <2>2. PICK out \in Outcomes(w) :
          /\ thread' = IF job[w].kind = "resume" /\ thread.at = "new" THEN thread
                       ELSE [at |-> out,
                             task |-> IF job[w].kind = "invoke" THEN job[w].task
                                      ELSE thread.task,
                             approval |-> IF out = "interrupted" THEN asked + 1
                                          ELSE NoApproval]
          /\ job' = [job EXCEPT ![w].pc = "load_result",
                                ![w].outcome = [status |-> Reported(out),
                                                shows |-> thread'.approval]]
    BY <1>5 DEF RunGraph
  <2>3. f.kind = "resume" => thread.at = "interrupted" /\ thread.task = t
    BY <1>1, <1>5, <2>1 DEF RunGraph, Waiting
  <2>4. f.kind \in {"invoke", "resume"}
    BY <1>0, <1>5 DEF RunGraph, Job, JobOK
  <2>5. thread' = [at |-> out, task |-> t,
                   approval |-> IF out = "interrupted" THEN asked + 1 ELSE NoApproval]
    BY <1>1, <2>1, <2>2, <2>3, <2>4
  <2>6. /\ job'[w].pc = "load_result" /\ job'[w].task = t /\ job'[w].kind = f.kind
        /\ job'[w].outcome = [status |-> Reported(out), shows |-> thread'.approval]
        /\ \A v \in Workers : v # w => job'[v] = job[v]
    <3>1. PICK o : o = [status |-> Reported(out), shows |-> thread'.approval]
      OBVIOUS
    <3>2. job' = [job EXCEPT ![w].pc = "load_result", ![w].outcome = o]
      BY <2>2, <3>1
    <3>3. /\ job'[w].pc = "load_result" /\ job'[w].task = t /\ job'[w].kind = f.kind
          /\ job'[w].outcome = o
          /\ \A v \in Workers : v # w => job'[v] = job[v]
      BY <1>0, <1>1, <2>1, <3>2 DEF Job
    <3> QED
      BY <3>1, <3>3
  <2>7. job'[w].outcome.status = "interrupted" =>
          thread' = [at |-> "interrupted", task |-> t, approval |-> job'[w].outcome.shows]
    <3>1. job'[w].outcome.status = Reported(out) /\ job'[w].outcome.shows = thread'.approval
      BY <2>6
    <3>2. Reported(out) = "interrupted" => out = "interrupted"
      BY DEF Reported
    <3> QED
      BY <2>5, <3>1, <3>2
  <2>8. UNCHANGED <<inbox, tab, request, taskkey, session, recent>>
    BY <1>5 DEF RunGraph, store
  <2>9. PICK row \in Row : row = session[t]
    BY <1>1, <2>1
  <2>10. row.status \in {"idle", "running"}
    BY <1>1, <2>1, <2>9
  <2> QED
    BY <1>0, <2>1, <2>6, <2>7, <2>8, <2>9, <2>10, RunningStep
<1>6. CASE LoadResult(w)
  <2>1. Running(w)
    BY <1>6 DEF LoadResult, Running
  <2>2. /\ job'[w].pc = "store_result" /\ job'[w].task = t /\ job'[w].kind = f.kind
        /\ job'[w].outcome = f.outcome
        /\ \A v \in Workers : v # w => job'[v] = job[v]
    BY <1>0, <1>1, <1>6, <2>1 DEF LoadResult, Advance, Job
  <2>3. UNCHANGED <<inbox, tab, request, taskkey, session, recent, thread>>
    BY <1>6 DEF LoadResult, store, graph
  <2>4. PICK row \in Row : row = session[t]
    BY <1>1, <2>1
  <2>5. row.status \in {"idle", "running"}
    BY <1>1, <2>1, <2>4
  <2>6. f.outcome.status = "interrupted" =>
          thread' = [at |-> "interrupted", task |-> t, approval |-> f.outcome.shows]
    BY <1>1, <1>6, <2>1, <2>3 DEF LoadResult, Waiting
  <2> QED
    BY <1>0, <2>1, <2>2, <2>3, <2>4, <2>5, <2>6, RunningStep
<1>7. CASE StoreResult(w)
  <2>1. Running(w)
    BY <1>7 DEF StoreResult, Running
  <2>2. job'[w].pc = "task_key" /\ (\A v \in Workers : v # w => job'[v] = job[v])
    BY <1>0, <1>7 DEF StoreResult, Advance, Job
  <2>3. UNCHANGED <<inbox, tab, request, taskkey, thread>> /\ Touch(t)
    BY <1>1, <1>7, <2>1 DEF StoreResult, store, graph
  <2>4. PICK row \in Row : row = f.outcome
    BY <1>0, <1>7 DEF StoreResult, JobOK
  <2>5. session' = [session EXCEPT ![t] = row]
    BY <1>1, <1>7, <2>1, <2>4 DEF StoreResult
  <2>6. row.status = "interrupted" =>
          thread' = [at |-> "interrupted", task |-> t, approval |-> row.shows]
    BY <1>1, <1>7, <2>1, <2>3, <2>4 DEF StoreResult, Waiting
  <2> QED
    BY <1>0, <2>1, <2>2, <2>3, <2>5, <2>6, RunningStep
<1>8. CASE StoreTaskKey(w)
  <2>1. /\ f.outcome.status # None /\ f.task \in Tasks
    <3>1. f.outcome \in Row /\ f.task \in Tasks
      BY <1>0, <1>8 DEF StoreTaskKey, JobOK
    <3> QED
      BY <3>1, NoneAssumption DEF Row
  <2>2. UNCHANGED <<session, recent, inbox, graph, tab, request, crashes>>
        /\ \A u \in Tasks : taskkey[u] # None => taskkey'[u] # None
    BY <1>8, <2>1 DEF StoreTaskKey, TabInv, TypeInv, TypeOK
  <2>3. \A v \in Workers : IF v = w THEN ~Running(v) /\ ~Running(v)' ELSE job'[v] = job[v]
    BY <1>0, <1>8 DEF StoreTaskKey, Running, NoJob
  <2>4. \A v \in Workers : Running(v)' <=> Running(v)
    BY <2>3 DEF Running
  <2>5. Underway' <=> Underway
    BY <2>2, <2>4 DEF Underway
  <2>6. OneAtATime(b)'
    BY <1>a, <2>2, <2>4, <2>5 DEF TabInv, OneAtATime
  <2>7. t \in Tasks \cup {None}
    BY <1>0 DEF TypeInv, TypeOK
  <2>8. TabIsTrue(b)'
    BY <1>a, <2>2, <2>5, <2>7 DEF TabInv, TabIsTrue
  <2>9. RowOfTask(b)'
    <3>1. InHand(b).op = "resume" => t \in Tasks
      BY <1>0, InHandIs DEF TabInv, OneAtATime, RequestOK
    <3> QED
      BY <1>a, <2>2, <2>5, <3>1 DEF TabInv, RowOfTask
  <2>10. OthersAreDone(b)' /\ NewestIsShown(b)' /\ RowsWait'
    BY <1>a, <2>2 DEF TabInv, OthersAreDone, NewestIsShown, RowsWait, Waiting, graph
  <2>11. JobsWait(b)'
    BY <1>a, <2>2, <2>3, <2>4 DEF TabInv, JobsWait, Waiting, graph
  <2> QED
    BY <1>0, <2>6, <2>8, <2>9, <2>10, <2>11 DEF TabInv
<1> QED
  BY <1>2, <1>3, <1>4, <1>5, <1>6, <1>7, <1>8 DEF Work

LEMMA CrashTab ==
    ASSUME NEW b, Tabs = {b}, TabInv(b), NEW w \in Workers, Crash(w)
    PROVE  TabInv(b)'
<1> DEFINE t == tab[b].task
<1>0. TypeInv /\ TypeInv' /\ job \in [Workers -> Job]
  BY CrashTypes DEF TabInv, TypeInv, FramesOK
<1>1. UNCHANGED <<session, recent, taskkey, inbox, asked, tab, request>>
  BY DEF Crash, store
<1>a. InHand(b)' = InHand(b) /\ (Single(b)' <=> Single(b))
  BY <1>1, InHandStays
<1>2. ~Running(w)' /\ \A v \in Workers : v # w => job'[v] = job[v]
  BY <1>0 DEF Crash, Running, NoJob
<1>3. \A v \in Workers : Running(v)' => Running(v) /\ v # w
  BY <1>2 DEF Running
<1>4. Underway' => Underway
  BY <1>1, <1>3 DEF Underway
<1>5. UNCHANGED thread \/ (job[w].pc = "graph" /\ Running(w))
  BY DEF Crash, Running
<1>6. OneAtATime(b)'
  BY <1>a, <1>1, <1>3, <1>4 DEF TabInv, OneAtATime
<1>7. t \in Tasks \cup {None}
  BY <1>0 DEF TypeInv, TypeOK
<1>8. TabIsTrue(b)'
  BY <1>a, <1>1, <1>4 DEF TabInv, TabIsTrue
<1>9. RowOfTask(b)'
  BY <1>a, <1>1, <1>4 DEF TabInv, RowOfTask
<1>10. OthersAreDone(b)' /\ NewestIsShown(b)'
  BY <1>a, <1>1 DEF TabInv, OthersAreDone, NewestIsShown
<1>11. RowsWait' /\ JobsWait(b)'
  <2>1. CASE UNCHANGED thread
    <3>1. RowsWait'
      BY <1>1, <2>1 DEF TabInv, RowsWait, Waiting
    <3>2. JobsWait(b)'
      BY <1>a, <1>1, <1>2, <1>3, <2>1 DEF TabInv, JobsWait, Waiting
    <3> QED
      BY <3>1, <3>2
  <2>2. CASE Running(w)
    <3>1. /\ inbox = <<>> /\ InHand(b).pc \notin Early
          /\ \A v \in Workers : v # w => ~Running(v)
          /\ \A u \in Tasks : session[u] # None => session[u].status # "interrupted"
      BY <2>2, RunsAlone
    <3>2. RowsWait'
      BY <1>1, <3>1 DEF RowsWait
    <3>3. JobsWait(b)'
      BY <1>a, <1>1, <1>3, <3>1 DEF JobsWait, Early
    <3> QED
      BY <3>2, <3>3
  <2> QED
    BY <1>5, <2>1, <2>2
<1> QED
  BY <1>0, <1>6, <1>8, <1>9, <1>10, <1>11 DEF TabInv

(* What the tab shows is only refreshed from the row of its own task.      *)
LEMMA LookTab ==
    ASSUME NEW b, Tabs = {b}, TabInv(b), TypeInv', NEW intime,
           tab[b].task # None, Look(b, tab[b].task, intime),
           taskkey[tab[b].task] # None
    PROVE  TabInv(b)'
<1> DEFINE t == tab[b].task
<1>1. /\ tab'[b].task = t
      /\ tab'[b].status = session[t].status /\ tab'[b].shows = session[t].shows
      /\ t \in Tasks /\ session[t] \in Row
      /\ UNCHANGED <<session, recent, taskkey, inbox, thread, request, job>>
  BY DEF Look, TabInv, TypeInv, TypeOK, store, graph
<1>a. InHand(b)' = InHand(b) /\ (Single(b)' <=> Single(b))
  BY <1>1, InHandStays
<1>2. session[t] = [status |-> session[t].status, shows |-> session[t].shows]
  BY <1>1 DEF Row
<1>3. (Underway' <=> Underway) /\ \A w \in Workers : Running(w)' <=> Running(w)
  BY <1>1 DEF Underway, Running
<1>4. InHand(b).op = "none" /\ session[t].status \in Settled => ~Underway
  BY DEF Settled, TabInv, RowOfTask
<1>5. TabIsTrue(b)'
  BY <1>a, <1>1, <1>2, <1>3, <1>4 DEF TabIsTrue
<1>6. OneAtATime(b)' /\ OthersAreDone(b)' /\ NewestIsShown(b)' /\ RowsWait'
  BY <1>a, <1>1, <1>3 DEF TabInv, OneAtATime, OthersAreDone, NewestIsShown, RowsWait, Waiting
<1>7. RowOfTask(b)'
  BY <1>a, <1>1, <1>3 DEF TabInv, RowOfTask
<1>8. JobsWait(b)'
  BY <1>a, <1>1, <1>3 DEF TabInv, JobsWait, Waiting
<1> QED
  BY <1>5, <1>6, <1>7, <1>8 DEF TabInv

LEMMA BrowserTab ==
    ASSUME NEW b, Tabs = {b}, TabInv(b), Human(b) \/ Poll(b) \/ PollLate(b),
           overlaps = 0, overlaps' = 0
    PROVE  TabInv(b)'
<1> DEFINE t == tab[b].task
<1>0. TypeInv /\ TypeInv' /\ b \in Tabs
  BY TabTypes DEF TabInv
<1>5. ASSUME NEW k \in Calls, NEW op \in {"invoke", "resume"}, NEW u \in Tasks, NEW pc,
             Send(b, k, op, u, pc), k \in Decisions => op # "invoke"
      PROVE  /\ \A j \in Calls : ~OnItsWay(b, j)
             /\ InHand(b) = NoRequest /\ Single(b)'
             /\ InHand(b)'.op = op /\ InHand(b)'.pc = pc /\ InHand(b)'.task = u
             /\ InHand(b)'.about = tab[b].shows
  <2> DEFINE f == [NoRequest EXCEPT !.op = op, !.pc = pc, !.task = u, !.about = tab[b].shows]
  <2>1. \A j \in Calls : ~OnItsWay(b, j)
    BY <1>5 DEF Send, SomeOnItsWay
  <2>2. InHand(b) = NoRequest
    BY <2>1 DEF InHand
  <2>3. request' = [request EXCEPT ![b][k] = f]
    BY <1>5 DEF Send
  <2>4. f.op = op /\ f.pc = pc /\ f.task = u /\ f.about = tab[b].shows /\ op # "none"
    BY DEF NoRequest
  <2> HIDE DEF f
  <2>5. Single(b)' /\ InHand(b)' = f
    BY <1>0, <1>5, <2>1, <2>3, <2>4, InHandMoves DEF TabInv, OneAtATime
  <2> QED
    BY <2>1, <2>2, <2>4, <2>5
<1>6. /\ InHand(b).op = "none" <=> InHand(b).pc = "idle"
      /\ InHand(b).op # "none" => t \in Tasks /\ InHand(b).task = t
  BY <1>0, InHandIs DEF TabInv, OneAtATime, RequestOK
<1>1. ASSUME NEW u \in Tasks, Submit(b, u) PROVE TabInv(b)'
  <2>0. /\ "submit" \in Calls /\ Send(b, "submit", "invoke", u, "create")
        /\ "submit" \notin Decisions
    BY <1>1, DecisionsAssumption DEF Submit, Calls
  <2>1. /\ InHand(b).op = "none" /\ session[u] = None /\ u # t
        /\ t = None \/ tab[b].status \in {"completed", "error"}
    <3>1. tab[b].status \in Status
      BY <1>0 DEF TypeInv, TypeOK
    <3>2. InHand(b).op = "none"
      BY <1>5, <2>0, NoFrames
    <3> QED
      BY <1>0, <1>1, <3>1, <3>2 DEF Submit, Status, Active, Settled
  <2>2. /\ tab'[b].task = u /\ InHand(b)'.op = "invoke" /\ InHand(b)'.pc = "create"
        /\ UNCHANGED <<session, recent, taskkey, inbox, thread, job>>
    BY <1>0, <1>1, <1>5, <2>0 DEF Submit, TypeInv, TypeOK, store, graph
  <2>3. ~Underway /\ (t # None => session[t].status \in {"completed", "error"})
    BY <2>1 DEF TabInv, TabIsTrue, Settled
  <2>4. ~Underway' /\ \A w \in Workers : ~Running(w)'
    BY <2>2, <2>3 DEF Underway, Running
  <2>5. inbox' = <<>>
    BY <2>4 DEF Underway
  <2>6. OneAtATime(b)'
    BY <1>5, <2>0, <2>2, <2>4, <2>5 DEF OneAtATime
  <2>7. TabIsTrue(b)'
    BY <2>2 DEF TabIsTrue
  <2>8. OthersAreDone(b)'
    BY <2>2, <2>3, NoneAssumption DEF TabInv, OthersAreDone
  <2>9. RowOfTask(b)'
    BY <2>1, <2>2, <2>4 DEF RowOfTask
  <2>10. NewestIsShown(b)' /\ RowsWait'
    BY <2>2 DEF TabInv, NewestIsShown, RowsWait, Waiting
  <2>11. JobsWait(b)'
    BY <2>2, <2>4, <2>5 DEF JobsWait
  <2> QED
    BY <1>0, <2>6, <2>7, <2>8, <2>9, <2>10, <2>11 DEF TabInv
<1>4. ASSUME ~OnItsWay(b, "submit")
      PROVE  InHand(b).op = "none" \/ InHand(b).op = "resume"
  <2>1. CASE \A k \in Calls : ~OnItsWay(b, k)
    BY <1>0, <2>1, InHandIs, NoFrames DEF TabInv, OneAtATime
  <2>2. ASSUME NEW k \in Calls, OnItsWay(b, k)
        PROVE  InHand(b).op = "resume"
    <3>1. k \in Decisions
      BY <1>4, <2>2 DEF Calls
    <3>2. request[b][k].op # "invoke" /\ InHand(b) = request[b][k]
      BY <1>0, <2>2, <3>1, InHandIs DEF TabInv, OneAtATime, Single
    <3> QED
      BY <1>0, <2>2, <3>2 DEF TypeInv, TypeOK, OnItsWay
  <2> QED
    BY <2>1, <2>2
<1>2. CASE Open(b)
  <2>1. PICK i \in 1 .. Len(recent) :
          /\ taskkey[recent[i]] # None
          /\ \A j \in i + 1 .. Len(recent) : taskkey[recent[j]] = None
          /\ Look(b, recent[i], TRUE)
    BY <1>2 DEF Open
  <2>2. InHand(b).op = "none" \/ InHand(b).op = "resume"
    BY <1>4, <2>1 DEF Look
  <2>7. InHand(b).pc # "create"
    BY <1>6, <2>2 DEF TabInv, RowOfTask
  <2>3. recent \in Seq(Tasks)
    BY <1>0 DEF TypeInv, TypeOK
  <2>4. t # None
    BY <1>6, <2>1, <2>2, <2>3, NoneAssumption DEF TabInv, TabIsTrue
  <2>5. recent[Len(recent)] = t /\ taskkey[t] # None
    BY <2>2, <2>4, <2>7 DEF TabInv, TabIsTrue, NewestIsShown, RowOfTask
  <2>6. i = Len(recent)
    BY <2>1, <2>3, <2>5
  <2> QED
    BY <1>0, <2>1, <2>4, <2>5, <2>6, LookTab
<1>3. CASE Poll(b) \/ PollLate(b) \/ Refresh(b)
  <2>1. PICK intime : Look(b, t, intime)
    BY <1>3 DEF Poll, PollLate, Refresh
  <2>2. InHand(b).op = "none" \/ InHand(b).op = "resume"
    BY <1>4, <2>1 DEF Look
  <2>3. t # None /\ taskkey[t] # None
    BY <2>1, <2>2 DEF Look, TabInv, TabIsTrue, RowOfTask
  <2> QED
    BY <1>0, <2>1, <2>3, LookTab
<1>7. ASSUME NEW k \in Decisions, Decide(b, k) PROVE TabInv(b)'
  <2>0. k \in Calls /\ t \in Tasks /\ Send(b, k, "resume", t, "check")
    BY <1>0, <1>7 DEF Decide, Calls, TypeInv, TypeOK, FramesOK
  <2>1. /\ InHand(b).op = "none" /\ InHand(b).pc = "idle"
        /\ tab[b].status = "interrupted" /\ t \in Tasks
    BY <1>5, <1>7, <2>0, NoFrames DEF Decide
  <2>2. /\ InHand(b)'.op = "resume" /\ InHand(b)'.pc = "check"
        /\ InHand(b)'.about = tab[b].shows
        /\ UNCHANGED <<session, recent, taskkey, inbox, thread, job, tab>>
    BY <1>5, <1>7, <2>0 DEF Decide, store, graph
  <2>3. /\ ~Underway /\ taskkey[t] # None
        /\ session[t] = [status |-> "interrupted", shows |-> tab[b].shows]
    BY <2>1, NoneAssumption DEF TabInv, TabIsTrue, Settled
  <2>4. ~Underway' /\ \A w \in Workers : ~Running(w)'
    BY <2>2, <2>3 DEF Underway, Running
  <2>5. inbox' = <<>>
    BY <2>4 DEF Underway
  <2>6. OneAtATime(b)'
    BY <1>5, <2>0, <2>2, <2>4, <2>5 DEF OneAtATime
  <2>7. TabIsTrue(b)'
    BY <2>2 DEF TabIsTrue
  <2>8. RowOfTask(b)'
    BY <2>2, <2>3, <2>4 DEF RowOfTask
  <2>9. OthersAreDone(b)' /\ RowsWait'
    BY <2>2 DEF TabInv, OthersAreDone, RowsWait, Waiting
  <2>10. NewestIsShown(b)'
    BY <2>1, <2>2 DEF TabInv, NewestIsShown
  <2>11. JobsWait(b)'
    BY <2>2, <2>4, <2>5 DEF JobsWait
  <2> QED
    BY <1>0, <2>6, <2>7, <2>8, <2>9, <2>10, <2>11 DEF TabInv
<1> QED
  BY <1>1, <1>2, <1>3, <1>7 DEF Human

(* A step of an API call before its message is sent: nothing else moves.   *)
LEMMA EarlyStep ==
    ASSUME NEW b, Tabs = {b}, TabInv(b), TypeInv', InHand(b).pc \in Early,
           UNCHANGED <<taskkey, inbox, thread, tab, job>>,
           Single(b)', InHand(b)'.task = InHand(b).task,
           InHand(b)'.op = InHand(b).op, InHand(b)'.about = InHand(b).about,
           InHand(b)'.pc \in {"load", "store", "enqueue"},
           NEW row \in Row,
           \/ session' = session /\ recent' = recent /\ row = session[tab[b].task]
              /\ InHand(b).pc # "create"
           \/ session' = [session EXCEPT ![tab[b].task] = row] /\ Touch(tab[b].task),
           InHand(b)'.pc \in {"load", "store"} =>
               session' = session /\ row = [status |-> "interrupted", shows |-> InHand(b).about],
           InHand(b)'.pc = "enqueue" =>
               /\ row.status \in {"idle", "running"}
               /\ InHand(b).op = "resume" => Waiting(tab[b].task, InHand(b).about)
    PROVE  TabInv(b)'
<1> DEFINE t == tab[b].task
<1>1. t \in Tasks /\ InHand(b).op # "none" /\ InHand(b)'.op # "none"
  BY InHandIs DEF Early, TabInv, OneAtATime, RequestOK
<1>2. ~Underway' /\ \A w \in Workers : ~Running(w)'
  BY DEF Underway, Running, TabInv, OneAtATime
<1>3. inbox' = <<>>
  BY <1>2 DEF Underway
<1>4. session'[t] = row /\ (\A u \in Tasks \ {t} : session'[u] = session[u])
  BY <1>1 DEF TabInv, TypeInv, TypeOK
<1>5. row # None
  BY <1>4, NoneAssumption, BoundAssumption DEF Row
<1>6. OneAtATime(b)'
  BY <1>1, <1>2, <1>3 DEF TabInv, OneAtATime
<1>7. TabIsTrue(b)'
  BY <1>1 DEF TabIsTrue
<1>8. OthersAreDone(b)'
  BY <1>4 DEF TabInv, OthersAreDone
<1>9. RowOfTask(b)'
  BY <1>1, <1>2, <1>4, <1>5 DEF TabInv, RowOfTask
<1>10. NewestIsShown(b)'
  <2>1. recent \in Seq(Tasks)
    BY DEF TabInv, TypeInv, TypeOK
  <2>2. CASE Touch(t)
    BY <1>1, <2>1, <2>2, TouchLast DEF NewestIsShown
  <2>3. CASE recent' = recent /\ InHand(b).pc # "create"
    BY <2>3 DEF TabInv, NewestIsShown
  <2> QED
    BY <2>2, <2>3
<1>11. RowsWait'
  <2>1. CASE session' = session
    BY <2>1 DEF TabInv, RowsWait, Waiting
  <2>2. CASE row.status \in {"idle", "running"}
    BY <1>4, <2>2 DEF TabInv, RowsWait, Waiting
  <2> QED
    BY <2>1, <2>2
<1>12. JobsWait(b)'
  BY <1>2, <1>3 DEF JobsWait, Waiting
<1> QED
  BY <1>6, <1>7, <1>8, <1>9, <1>10, <1>11, <1>12 DEF TabInv

LEMMA HandlerTab ==
    ASSUME NEW b, Tabs = {b}, TabInv(b), NEW k \in Calls, Handler(b, k)
    PROVE  TabInv(b)'
<1> DEFINE t == tab[b].task
           c == InHand(b)
<1>a. /\ TypeInv /\ TypeInv' /\ b \in Tabs /\ Single(b)
      /\ request \in [Tabs -> [Calls -> Request]] /\ RequestOK(request[b][k])
  BY HandlerTypes DEF TabInv, TypeInv, FramesOK, OneAtATime
<1>b. OnItsWay(b, k) /\ request[b][k].pc # "idle"
  BY <1>a DEF Handler, CreateSession, CheckInterrupted, LoadSession, StoreRunning, Enqueue,
              MarkPending, OnItsWay, RequestOK
<1>c. /\ InHand(b) = request[b][k] /\ (\A j \in Calls : OnItsWay(b, j) => j = k)
      /\ k \in Decisions => request[b][k].op # "invoke"
  BY <1>a, <1>b, InHandIs DEF Single
<1>0. /\ TypeInv /\ TypeInv' /\ b \in Tabs /\ c \in Request /\ RequestOK(c)
      /\ request[b][k] = c /\ c.task = t /\ c.op # "none"
  BY <1>a, <1>b, <1>c DEF TabInv, OneAtATime, OnItsWay
<1>d. ASSUME NEW f, request' = [request EXCEPT ![b][k] = f], f.op = c.op
      PROVE  Single(b)' /\ InHand(b)' = f
  BY <1>a, <1>0, <1>c, <1>d, InHandMoves
<1>1. NoApproval \in 0 .. MaxApprovals /\ "running" \in Status /\ "idle" \in Status
  BY BoundAssumption DEF NoApproval, Status, Active
<1>2. ASSUME NEW pc, Goto(b, k, pc)
      PROVE  /\ InHand(b)'.pc = pc /\ InHand(b)'.op = c.op /\ InHand(b)'.about = c.about
             /\ InHand(b)'.task = c.task /\ Single(b)'
  <2> DEFINE f == [c EXCEPT !.pc = pc]
  <2>1. request' = [request EXCEPT ![b][k] = f]
    BY <1>a, <1>0, <1>2 DEF Goto
  <2>2. f.pc = pc /\ f.op = c.op /\ f.about = c.about /\ f.task = c.task
    BY <1>0 DEF Request
  <2> HIDE DEF f
  <2> QED
    BY <1>d, <2>1, <2>2
<1>3. c.pc \in Early => t \in Tasks /\ session[t] \in Row \cup {None}
  BY <1>0 DEF Early, RequestOK, TypeInv, TypeOK
<1>4. c.pc \in {"check", "load", "store"} =>
        /\ session[t] = [status |-> "interrupted", shows |-> c.about]
        /\ session[t] \in Row /\ Waiting(t, c.about)
  <2> SUFFICES ASSUME c.pc \in {"check", "load", "store"}
               PROVE  /\ session[t] = [status |-> "interrupted", shows |-> c.about]
                      /\ session[t] \in Row /\ Waiting(t, c.about)
    OBVIOUS
  <2>1. session[t] = [status |-> "interrupted", shows |-> c.about] /\ t \in Tasks
    BY <1>3 DEF TabInv, RowOfTask, Early
  <2>2. c.about \in 0 .. MaxApprovals /\ "interrupted" \in Status
    BY <1>0 DEF Request, Status, Settled
  <2>3. session[t] \in Row
    BY <2>1, <2>2 DEF Row
  <2>4. session[t] # None
    BY <1>3, <2>3, NoneAssumption, BoundAssumption DEF Row
  <2>5. session[t].status = "interrupted" /\ session[t].shows = c.about
    BY <2>1
  <2>6. Waiting(t, c.about)
    BY <2>1, <2>4, <2>5 DEF TabInv, RowsWait
  <2> QED
    BY <2>1, <2>3, <2>6
<1>5. CASE CreateSession(b, k)
  <2>1. PICK row : row = [status |-> "idle", shows |-> NoApproval]
    OBVIOUS
  <2>2. row \in Row /\ row.status = "idle"
    BY <1>1, <2>1 DEF Row
  <2>3. c.pc = "create" /\ session[t] = None /\ c.op = "invoke"
    BY <1>0, <1>5 DEF CreateSession, TabInv, RowOfTask
  <2>4. /\ session' = [session EXCEPT ![t] = row] /\ Touch(t) /\ Goto(b, k, "enqueue")
        /\ UNCHANGED <<taskkey, inbox, thread, tab, job>>
    BY <1>0, <1>5, <2>1, <2>3 DEF CreateSession, graph
  <2> QED
    <3>1. /\ InHand(b)'.pc = "enqueue" /\ InHand(b)'.op = c.op /\ InHand(b)'.about = c.about
          /\ InHand(b)'.task = c.task /\ Single(b)'
      BY <1>2, <2>4
    <3> QED
      BY <1>0, <2>2, <2>3, <2>4, <3>1, EarlyStep DEF Early
<1>6. CASE CheckInterrupted(b, k)
  <2>1. c.pc = "check"
    BY <1>0, <1>6 DEF CheckInterrupted
  <2>2. Goto(b, k, "load")
    BY <1>0, <1>4, <1>6, <2>1, NoneAssumption DEF CheckInterrupted, Row
  <2>3. UNCHANGED <<session, recent, taskkey, inbox, thread, tab, job>>
    BY <1>6 DEF CheckInterrupted, store, graph
  <2>4. PICK row \in Row : row = session[t]
    BY <1>4, <2>1
  <2> QED
    BY <1>0, <1>2, <1>4, <2>1, <2>2, <2>3, <2>4, EarlyStep DEF Early
<1>7. CASE LoadSession(b, k)
  <2>1. c.pc = "load"
    BY <1>0, <1>7 DEF LoadSession
  <2>2. session[t] # None
    BY <1>4, <2>1, NoneAssumption, BoundAssumption DEF Row
  <2>3. /\ InHand(b)'.pc = "store" /\ InHand(b)'.op = c.op /\ InHand(b)'.about = c.about
        /\ InHand(b)'.task = c.task /\ Single(b)'
    <3> DEFINE f == [c EXCEPT !.pc = "store", !.row = session[t]]
    <3>1. request' = [request EXCEPT ![b][k] = f]
      BY <1>a, <1>0, <1>7, <2>2 DEF LoadSession
    <3>2. f.pc = "store" /\ f.op = c.op /\ f.about = c.about /\ f.task = c.task
      BY <1>0 DEF Request
    <3> HIDE DEF f
    <3> QED
      BY <1>d, <3>1, <3>2
  <2>4. UNCHANGED <<session, recent, taskkey, inbox, thread, tab, job>>
    BY <1>7 DEF LoadSession, store, graph
  <2>5. PICK row \in Row : row = session[t]
    BY <1>4, <2>1
  <2> QED
    BY <1>0, <1>4, <2>1, <2>3, <2>4, <2>5, EarlyStep DEF Early
<1>8. CASE StoreRunning(b, k)
  <2>1. c.pc = "store" /\ c.row \in Row
    BY <1>0, <1>8 DEF StoreRunning, RequestOK
  <2>2. PICK row : row = [c.row EXCEPT !.status = "running", !.shows = NoApproval]
    OBVIOUS
  <2>3. row \in Row /\ row.status = "running"
    BY <1>1, <2>1, <2>2 DEF Row
  <2>4. /\ session' = [session EXCEPT ![t] = row] /\ Touch(t)
        /\ UNCHANGED <<taskkey, inbox, thread, tab, job>>
    BY <1>0, <1>8, <2>2 DEF StoreRunning, graph
  <2> QED
    <3>1. /\ InHand(b)'.pc = "enqueue" /\ InHand(b)'.op = c.op /\ InHand(b)'.about = c.about
          /\ InHand(b)'.task = c.task /\ Single(b)'
      <4> DEFINE f == [c EXCEPT !.pc = "enqueue", !.row = None]
      <4>1. request' = [request EXCEPT ![b][k] = f]
        BY <1>a, <1>0, <1>8 DEF StoreRunning
      <4>2. f.pc = "enqueue" /\ f.op = c.op /\ f.about = c.about /\ f.task = c.task
        BY <1>0 DEF Request
      <4> HIDE DEF f
      <4> QED
        BY <1>d, <4>1, <4>2
    <3>2. Waiting(t, c.about)
      BY <1>4, <2>1
    <3> QED
      BY <1>0, <2>1, <2>3, <2>4, <3>1, <3>2, EarlyStep DEF Early
<1>9. CASE Enqueue(b, k)
  <2>1. PICK m : m = [kind |-> c.op, task |-> t, about |-> c.about]
    OBVIOUS
  <2>2. c.pc = "enqueue" /\ c.op # "none" /\ t \in Tasks
    BY <1>0, <1>9 DEF Enqueue, RequestOK
  <2>3. ~Underway /\ inbox = <<>> /\ \A w \in Workers : ~Running(w)
    BY <2>2 DEF TabInv, OneAtATime, Early, Underway
  <2>4. m \in Message /\ m.task = t /\ m.kind = c.op /\ m.about = c.about
    BY <1>0, <2>1, <2>2 DEF Message, Request
  <2>5. inbox' = <<m>>
    BY <1>0, <1>9, <2>1, <2>3 DEF Enqueue
  <2>6. /\ Goto(b, k, "pending")
        /\ UNCHANGED <<session, recent, taskkey, thread, tab, job>>
    BY <1>9 DEF Enqueue, store, graph
  <2>7. /\ InHand(b)'.pc = "pending" /\ InHand(b)'.op = c.op
        /\ InHand(b)'.task = c.task /\ Single(b)'
    BY <1>2, <2>6
  <2>8. \A w \in Workers : ~Running(w)'
    BY <2>3, <2>6 DEF Running
  <2>9. OneAtATime(b)'
    BY <1>0, <2>4, <2>5, <2>6, <2>7, <2>8 DEF OneAtATime, Early
  <2>10. TabIsTrue(b)'
    BY <2>2, <2>7 DEF TabIsTrue
  <2>11. RowOfTask(b)'
    BY <2>2, <2>6, <2>7 DEF TabInv, RowOfTask
  <2>12. OthersAreDone(b)' /\ NewestIsShown(b)' /\ RowsWait'
    BY <2>2, <2>6, <2>7 DEF TabInv, OthersAreDone, NewestIsShown, RowsWait, Waiting
  <2>13. JobsWait(b)'
    <3>1. m.kind = "resume" => Waiting(t, m.about)
      BY <2>2, <2>4 DEF TabInv, JobsWait
    <3>2. \A n \in Message : inbox' = <<n>> => n = m
      BY <2>4, <2>5
    <3> QED
      BY <2>4, <2>6, <2>7, <2>8, <3>1, <3>2 DEF JobsWait, Waiting
  <2> QED
    BY <1>0, <2>9, <2>10, <2>11, <2>12, <2>13 DEF TabInv
<1>10. CASE MarkPending(b, k)
  <2>1. c.pc = "pending" /\ t \in Tasks /\ c.op # "none"
    BY <1>0, <1>10 DEF MarkPending, RequestOK
  <2>2. /\ request' = [request EXCEPT ![b][k] = NoRequest] /\ tab'[b].task = t /\ tab'[b].status = "pending"
        /\ taskkey'[t] = "pending"
        /\ UNCHANGED <<session, recent, inbox, thread, job>>
    BY <1>0, <1>10, <2>1 DEF MarkPending, Reply, TypeInv, TypeOK, graph
  <2>3. InHand(b)'.op = "none" /\ InHand(b)'.pc = "idle" /\ Single(b)'
    BY <1>a, <1>c, <2>2, NoFrames, InHandMoves
  <2>4. t # None /\ "pending" # None /\ "pending" \notin Settled
    BY <2>1, NoneAssumption DEF Status, Active, Settled
  <2>5. (Underway' <=> Underway) /\ \A w \in Workers : Running(w)' <=> Running(w)
    BY <2>2 DEF Underway, Running
  <2>6. OneAtATime(b)'
    BY <2>2, <2>3, <2>5 DEF TabInv, OneAtATime, Early
  <2>7. TabIsTrue(b)'
    BY <1>0, <2>2, <2>4 DEF TabIsTrue
  <2>8. RowOfTask(b)'
    BY <2>1, <2>2, <2>3, <2>5 DEF TabInv, RowOfTask
  <2>9. OthersAreDone(b)' /\ NewestIsShown(b)' /\ RowsWait'
    BY <2>1, <2>2 DEF TabInv, OthersAreDone, NewestIsShown, RowsWait, Waiting
  <2>10. JobsWait(b)'
    BY <2>2, <2>3, <2>5 DEF TabInv, JobsWait, Waiting
  <2> QED
    BY <1>0, <2>6, <2>7, <2>8, <2>9, <2>10 DEF TabInv
<1> QED
  BY <1>5, <1>6, <1>7, <1>8, <1>9, <1>10 DEF Handler

LEMMA OverlapsGrow ==
    ASSUME TypeInv, [Next]_vars, overlaps' = 0
    PROVE  overlaps = 0
<1>1. overlaps \in Nat /\ (overlaps' = overlaps \/ overlaps' = overlaps + 1)
  <2>1. CASE UNCHANGED vars
    BY <2>1 DEF vars, TypeInv, TypeOK
  <2>2. ASSUME NEW b \in Tabs, Human(b) \/ Poll(b) \/ PollLate(b)
        PROVE  overlaps' = overlaps \/ overlaps' = overlaps + 1
    BY <2>2 DEF Human, Open, Refresh, Poll, PollLate, Look, Submit, Decide, Send
  <2>3. ASSUME NEW b \in Tabs, NEW k \in Calls, Handler(b, k)
        PROVE  overlaps' = overlaps
    BY <2>3 DEF Handler, CreateSession, CheckInterrupted, LoadSession, StoreRunning, Enqueue,
                MarkPending
  <2>4. ASSUME NEW w \in Workers, Work(w) \/ Crash(w)
        PROVE  overlaps' = overlaps
    BY <2>4 DEF Work, Take, LoadForRun, StoreForRun, RunGraph, LoadResult, StoreResult,
                StoreTaskKey, Crash
  <2>5. overlaps \in Nat
    BY BoundAssumption DEF TypeInv, TypeOK
  <2> QED
    BY <2>1, <2>2, <2>3, <2>4, <2>5 DEF Next
<1> QED
  BY <1>1

LoneInv(b) == TypeInv /\ (overlaps = 0 => TabInv(b))

LEMMA TabStep ==
    ASSUME NEW b, Tabs = {b}, LoneInv(b), [Next]_vars
    PROVE  LoneInv(b)'
<1> SUFFICES ASSUME overlaps = 0, overlaps' = 0, TabInv(b)
             PROVE  TabInv(b)'
  BY TypeStep, OverlapsGrow DEF LoneInv
<1>1. CASE Next
  BY <1>1, BrowserTab, HandlerTab, WorkTab, CrashTab DEF Next
<1>2. CASE UNCHANGED vars
  <2>1. UNCHANGED <<session, recent, taskkey, inbox, thread, tab, request, job>>
    BY <1>2 DEF vars, store, graph
  <2>2. TypeInv'
    BY TypeStep DEF LoneInv
  <2>3. InHand(b)' = InHand(b) /\ (Single(b)' <=> Single(b))
    BY <2>1, InHandStays
  <2>4. OneAtATime(b)' /\ TabIsTrue(b)' /\ RowOfTask(b)'
    BY <2>1, <2>3 DEF TabInv, OneAtATime, TabIsTrue, RowOfTask, Underway, Running
  <2>5. OthersAreDone(b)' /\ NewestIsShown(b)' /\ RowsWait' /\ JobsWait(b)'
    BY <2>1, <2>3 DEF TabInv, OthersAreDone, NewestIsShown, RowsWait, JobsWait, Waiting, Running
  <2> QED
    BY <2>2, <2>4, <2>5 DEF TabInv
<1> QED
  BY <1>1, <1>2

(* In a session that is open in one tab, and as long as no call is sent    *)
(* while another is on its way, an interrupted row always names the        *)
(* approval the checkpoint thread waits for, even while a turn is under    *)
(* way, however many workers run and crash: a human can resume it.         *)
THEOREM OneTabResumes ==
    ASSUME NEW b, Tabs = {b}
    PROVE  Spec => []InterruptedIsResumable
<1>1. Init => LoneInv(b)
  BY InitTab DEF LoneInv, TabInv
<1>2. LoneInv(b) /\ [Next]_vars => LoneInv(b)'
  BY TabStep
<1>3. LoneInv(b) => InterruptedIsResumable
  BY DEF LoneInv, TabInv, RowsWait, Waiting, InterruptedIsResumable
<1> QED
  BY <1>1, <1>2, <1>3, PTL DEF Spec

(* In a session that is open in one tab, and as long as no call is sent    *)
(* while another is on its way, the graph applies a human's decision to    *)
(* the approval that human was shown, and to no other.                     *)
THEOREM OneTabDecides ==
    ASSUME NEW b, Tabs = {b}
    PROVE  Spec => LoneDecidedAsShown
<1>1. Init => LoneInv(b)
  BY InitTab DEF LoneInv, TabInv
<1>2. LoneInv(b) /\ [Next]_vars => LoneInv(b)'
  BY TabStep
<1>3. LoneInv(b) => [overlaps = 0 => \A w \in Workers : AppliedAsShown(w)]_vars
  <2> SUFFICES ASSUME LoneInv(b), overlaps = 0, NEW w \in Workers, job[w].pc = "graph",
                      job[w].kind = "resume"
               PROVE  job[w].about = thread.approval
    BY DEF AppliedAsShown
  <2>1. Running(w)
    BY DEF Running
  <2> QED
    BY <2>1 DEF LoneInv, TabInv, JobsWait, Waiting
<1> QED
  BY <1>1, <1>2, <1>3, PTL DEF Spec, LoneDecidedAsShown

=============================================================================

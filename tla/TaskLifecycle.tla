---------------------------- MODULE TaskLifecycle ----------------------------
(***************************************************************************)
(* How a task travels between the browser (web/app.py), the API            *)
(* (application/services.py), Redis (infrastructure/redis_sessions.py),    *)
(* the Celery worker (workers/tasks.py, agent/runtime.py) and the graph's  *)
(* checkpoint thread, for one user and one session.                        *)
(*                                                                         *)
(* Every Redis command is one step: update_session is a GET and a SET, and *)
(* an API handler enqueues its message between two writes.  The graph is   *)
(* seen from outside: a run stops at a new approval, completes or fails.   *)
(***************************************************************************)
EXTENDS Integers, Sequences, FiniteSets

CONSTANTS
    Tabs,           \* browser tabs open on the session
    Decisions,      \* listeners of a tab that answer an approval: approve, reject, ...
    Tasks,          \* task ids (fresh uuids)
    Workers,        \* Celery workers, one task at a time each
    MaxApprovals,   \* bound: approvals the graph asks for
    MaxCrashes,     \* bound: worker crashes
    MaxOverlaps,    \* bound: API calls sent while another is on its way
    None            \* missing key, Python None

ASSUME BoundAssumption ==
    MaxApprovals \in Nat /\ MaxCrashes \in Nat /\ MaxOverlaps \in Nat
ASSUME DecisionsAssumption == "submit" \notin Decisions

VARIABLES
    session,    \* session:{user}:{session}:{task}: status and the approval shown
    recent,     \* the tasks with a session row, by last_updated, newest last
    taskkey,    \* task:{task}: status
    inbox,      \* messages on the broker
    thread,     \* the session's checkpoint: whose run, where it stands, its approval
    asked,      \* approvals asked for so far
    tab,        \* each tab: its task, the status and approval shown, the poll timer
    request,    \* the API calls each tab is waiting for, one of every listener
    job,        \* the message each worker is executing
    crashes,    \* crashes so far
    overlaps    \* history: API calls sent while another was still on its way

store == <<session, recent, taskkey>>
graph == <<thread, asked>>
vars  == <<store, inbox, graph, tab, request, job, crashes, overlaps>>

(* Every listener has a call of its own: submit_query, and each button     *)
(* that answers an approval.                                               *)
Calls == {"submit"} \cup Decisions

Active  == {"idle", "pending", "running"}
Settled == {"interrupted", "completed", "error"}
Status  == Active \cup Settled

NoApproval == 0

ASSUME NoneAssumption == None \notin Tasks \cup Status \cup [status : Status, shows : Nat]

Row     == [status : Status, shows : 0 .. MaxApprovals]
Message == [kind : {"invoke", "resume"}, task : Tasks, about : 0 .. MaxApprovals]

NoRequest == [op |-> "none", pc |-> "idle", task |-> None, about |-> NoApproval,
              row |-> None]
NoJob     == [kind |-> "none", task |-> None, about |-> NoApproval, pc |-> "idle",
              row |-> None, outcome |-> None]

(* A SET of a session row stamps it with last_updated.                     *)
Ranks(t) == {i \in 1 .. Len(recent) : recent[i] = t}

Touch(t) ==
    IF Ranks(t) = {}
    THEN recent' = Append(recent, t)
    ELSE \E i \in Ranks(t) :
           recent' = SubSeq(recent, 1, i - 1) \o SubSeq(recent, i + 1, Len(recent)) \o <<t>>

-----------------------------------------------------------------------------
(* The browser tab.                                                        *)

OnItsWay(b, k) == request[b][k].op # "none"

(* A callback of listener k calls the API; another listener's call may     *)
(* still be on its way.                                                    *)
SomeOnItsWay == \E b \in Tabs, k \in Calls : OnItsWay(b, k)

Send(b, k, op, t, pc) ==
    /\ ~OnItsWay(b, k)
    /\ IF SomeOnItsWay THEN overlaps < MaxOverlaps /\ overlaps' = overlaps + 1
       ELSE UNCHANGED overlaps
    /\ request' = [request EXCEPT ![b][k] = [NoRequest EXCEPT !.op = op, !.pc = pc, !.task = t,
                                                             !.about = tab[b].shows]]

(* submit_query: refused while the tab's task is active or interrupted.    *)
Submit(b, t) ==
    /\ tab[b].status \notin Active \cup {"interrupted"} \/ tab[b].task = None
    /\ session[t] = None /\ \A c \in Tabs : tab[c].task # t      \* a fresh uuid
    /\ \A c \in Tabs, k \in Calls : request[c][k].task # t
    /\ \A m \in 1 .. Len(inbox) : inbox[m].task # t
    /\ tab' = [tab EXCEPT ![b] = [task |-> t, status |-> "pending", shows |-> NoApproval,
                                  polling |-> TRUE]]
    /\ Send(b, "submit", "invoke", t, "create")
    /\ UNCHANGED <<store, inbox, graph, job, crashes>>

(* The tab copies the row of task t; the timer runs on while the task is   *)
(* active, until poll_timeout_seconds are over.  A submission shows its    *)
(* task from the start, so nobody looks while one is on its way.           *)
Look(b, t, intime) ==
    /\ ~OnItsWay(b, "submit")
    /\ t # None /\ session[t] # None
    /\ tab' = [tab EXCEPT ![b] =
           [task |-> t, status |-> session[t].status, shows |-> session[t].shows,
            polling |-> intime /\ session[t].status \in Active]]
    /\ UNCHANGED <<store, inbox, graph, request, job, crashes, overlaps>>

(* Opening the session shows the newest of the tasks that have a task key. *)
Open(b) ==
    \E i \in 1 .. Len(recent) :
        /\ taskkey[recent[i]] # None
        /\ \A j \in i + 1 .. Len(recent) : taskkey[recent[j]] = None
        /\ Look(b, recent[i], TRUE)

(* poll_status, by the timer and by the refresh button.                    *)
Poll(b)     == tab[b].polling /\ Look(b, tab[b].task, TRUE)
PollLate(b) == tab[b].polling /\ Look(b, tab[b].task, FALSE)
Refresh(b)  == \E intime \in BOOLEAN : Look(b, tab[b].task, intime)

(* resume_task: the human decides about the approval the tab shows.  The   *)
(* other buttons stay enabled until the call returns.                      *)
Decide(b, k) ==
    /\ k \in Decisions /\ tab[b].status = "interrupted"
    /\ Send(b, k, "resume", tab[b].task, "check")
    /\ UNCHANGED <<store, inbox, graph, tab, job, crashes>>

-----------------------------------------------------------------------------
(* The API handlers, of the call that listener k of tab b waits for.       *)

Goto(b, k, pc) == request' = [request EXCEPT ![b][k].pc = pc]
Reply(b, k)    == request' = [request EXCEPT ![b][k] = NoRequest]

(* invoke creates the session row of a task it has not seen.               *)
CreateSession(b, k) ==
    LET t == request[b][k].task
    IN  /\ request[b][k].pc = "create"
        /\ IF session[t] = None
           THEN /\ session' = [session EXCEPT ![t] = [status |-> "idle", shows |-> NoApproval]]
                /\ Touch(t)
           ELSE UNCHANGED <<session, recent>>
        /\ Goto(b, k, "enqueue")
        /\ UNCHANGED <<taskkey, inbox, graph, tab, job, crashes, overlaps>>

(* resume is refused unless the session is interrupted; the tab then keeps *)
(* its approval card.                                                      *)
CheckInterrupted(b, k) ==
    LET row == session[request[b][k].task]
    IN  /\ request[b][k].pc = "check"
        /\ IF row # None /\ row.status = "interrupted" THEN Goto(b, k, "load") ELSE Reply(b, k)
        /\ UNCHANGED <<store, inbox, graph, tab, job, crashes, overlaps>>

(* update_session: GET, then SET of the whole row, if there was one.       *)
LoadSession(b, k) ==
    LET row == session[request[b][k].task]
    IN  /\ request[b][k].pc = "load"
        /\ request' = [request EXCEPT ![b][k].pc = IF row = None THEN "enqueue" ELSE "store",
                                      ![b][k].row = row]
        /\ UNCHANGED <<store, inbox, graph, tab, job, crashes, overlaps>>

StoreKeepsStatusMutant(b, k) ==
    /\ request[b][k].pc = "store"
    /\ Goto(b, k, "enqueue")
    /\ UNCHANGED <<store, inbox, graph, tab, job, crashes, overlaps>>

StoreRunning(b, k) ==
    LET t == request[b][k].task
    IN  /\ request[b][k].pc = "store"
        /\ session' = [session EXCEPT ![t] = [request[b][k].row EXCEPT !.status = "running",
                                                                      !.shows = NoApproval]]
        /\ Touch(t)
        /\ request' = [request EXCEPT ![b][k].pc = "enqueue", ![b][k].row = None]
        /\ UNCHANGED <<taskkey, inbox, graph, tab, job, crashes, overlaps>>

Enqueue(b, k) ==
    LET r == request[b][k]
    IN  /\ r.pc = "enqueue"
        /\ inbox' = Append(inbox, [kind |-> r.op, task |-> r.task, about |-> r.about])
        /\ Goto(b, k, "pending")
        /\ UNCHANGED <<store, graph, tab, job, crashes, overlaps>>

(* set_task_status(PENDING), after the message is already on the broker;   *)
(* when the call returns, the tab goes back to its task and polls it.      *)
MarkPending(b, k) ==
    LET t == request[b][k].task
    IN  /\ request[b][k].pc = "pending"
        /\ taskkey' = [taskkey EXCEPT ![t] = "pending"]
        /\ tab' = [tab EXCEPT ![b] = [task |-> t, status |-> "pending", shows |-> NoApproval,
                                      polling |-> TRUE]]
        /\ Reply(b, k)
        /\ UNCHANGED <<session, recent, inbox, graph, job, crashes, overlaps>>

-----------------------------------------------------------------------------
(* The worker.                                                             *)

Advance(w, pc) == job' = [job EXCEPT ![w].pc = pc]

(* The message is acknowledged when the worker takes it.                   *)
Take(w) ==
    /\ job[w].kind = "none" /\ inbox # <<>>
    /\ LET m == Head(inbox)
       IN  job' = [job EXCEPT ![w] =
               [NoJob EXCEPT !.kind = m.kind, !.task = m.task, !.about = m.about,
                             !.pc = IF m.kind = "invoke" THEN "load" ELSE "graph"]]
    /\ inbox' = Tail(inbox)
    /\ UNCHANGED <<store, graph, tab, request, crashes, overlaps>>

(* invoke_agent_task marks the session RUNNING.                            *)
LoadForRun(w) ==
    LET row == session[job[w].task]
    IN  /\ job[w].pc = "load"
        /\ job' = [job EXCEPT ![w].pc = IF row = None THEN "graph" ELSE "store",
                              ![w].row = row]
        /\ UNCHANGED <<store, inbox, graph, tab, request, crashes, overlaps>>

StoreForRun(w) ==
    /\ job[w].pc = "store"
    /\ session' = [session EXCEPT ![job[w].task] = [job[w].row EXCEPT !.status = "running"]]
    /\ Touch(job[w].task)
    /\ job' = [job EXCEPT ![w].pc = "graph", ![w].row = None]
    /\ UNCHANGED <<taskkey, inbox, graph, tab, request, crashes, overlaps>>

(* ainvoke.  A new turn replaces whatever the thread was waiting for; a    *)
(* resumption answers the approval the thread waits for now.  Resuming a   *)
(* finished thread returns its last state; a failed one runs on.           *)
Outcomes(w) ==
    IF job[w].kind = "resume" /\ thread.at \in {"new", "completed", "error"}
    THEN {IF thread.at = "new" THEN "error" ELSE thread.at}
    ELSE {"completed", "error", "raised"}
             \cup (IF asked < MaxApprovals THEN {"interrupted"} ELSE {})

(* The status reported: the except branch of execute_agent turns whatever  *)
(* was raised into an error.                                               *)
ReportedMutant(out) == out

Reported(out) == IF out = "raised" THEN "error" ELSE out

RunGraph(w) ==
    /\ job[w].pc = "graph"
    /\ \E out \in Outcomes(w) :
         /\ thread' = IF job[w].kind = "resume" /\ thread.at = "new" THEN thread
                      ELSE [at |-> out,
                            task |-> IF job[w].kind = "invoke" THEN job[w].task
                                     ELSE thread.task,
                            approval |-> IF out = "interrupted" THEN asked + 1
                                         ELSE NoApproval]
         /\ asked' = IF out = "interrupted" THEN asked + 1 ELSE asked
         /\ job' = [job EXCEPT ![w].pc = "load_result",
                               ![w].outcome = [status |-> Reported(out),
                                               shows |-> thread'.approval]]
    /\ UNCHANGED <<store, inbox, tab, request, crashes, overlaps>>

(* The result, or the error of the except branch, goes to the session row  *)
(* and then to the task key.                                               *)
LoadResult(w) ==
    /\ job[w].pc = "load_result"
    /\ Advance(w, IF session[job[w].task] = None THEN "task_key" ELSE "store_result")
    /\ UNCHANGED <<store, inbox, graph, tab, request, crashes, overlaps>>

StoreResultMutant(w) ==
    /\ job[w].pc = "store_result"
    /\ session' = IF job[w].outcome.status = "error" THEN session
                  ELSE [session EXCEPT ![job[w].task] = job[w].outcome]
    /\ Touch(job[w].task)
    /\ Advance(w, "task_key")
    /\ UNCHANGED <<taskkey, inbox, graph, tab, request, crashes, overlaps>>

StoreResult(w) ==
    /\ job[w].pc = "store_result"
    /\ session' = [session EXCEPT ![job[w].task] = job[w].outcome]
    /\ Touch(job[w].task)
    /\ Advance(w, "task_key")
    /\ UNCHANGED <<taskkey, inbox, graph, tab, request, crashes, overlaps>>

StoreTaskKey(w) ==
    /\ job[w].pc = "task_key"
    /\ taskkey' = [taskkey EXCEPT ![job[w].task] = job[w].outcome.status]
    /\ job' = [job EXCEPT ![w] = NoJob]
    /\ UNCHANGED <<session, recent, inbox, graph, tab, request, crashes, overlaps>>

(* The worker process dies; inside the graph it may leave a half-run       *)
(* thread behind.                                                          *)
Crash(w) ==
    /\ job[w].kind # "none" /\ crashes < MaxCrashes
    /\ crashes' = crashes + 1
    /\ job' = [job EXCEPT ![w] = NoJob]
    /\ \/ UNCHANGED thread
       \/ /\ job[w].pc = "graph" /\ job[w].kind = "invoke"
          /\ thread' = [at |-> "raised", task |-> job[w].task, approval |-> NoApproval]
       \/ /\ job[w].pc = "graph" /\ thread.at = "interrupted"
          /\ thread' = [thread EXCEPT !.at = "raised", !.approval = NoApproval]
    /\ UNCHANGED <<store, inbox, asked, tab, request, overlaps>>

-----------------------------------------------------------------------------

Init ==
    /\ session = [t \in Tasks |-> None] /\ recent = <<>>
    /\ taskkey = [t \in Tasks |-> None]
    /\ inbox = <<>>
    /\ thread = [at |-> "new", task |-> None, approval |-> NoApproval] /\ asked = 0
    /\ tab = [b \in Tabs |-> [task |-> None, status |-> "idle", shows |-> NoApproval,
                            polling |-> FALSE]]
    /\ request = [b \in Tabs |-> [k \in Calls |-> NoRequest]]
    /\ job = [w \in Workers |-> NoJob]
    /\ crashes = 0 /\ overlaps = 0

Human(b) ==
    \/ Open(b) \/ Refresh(b)
    \/ \E t \in Tasks : Submit(b, t)
    \/ \E k \in Decisions : Decide(b, k)

Handler(b, k) ==
    \/ CreateSession(b, k) \/ CheckInterrupted(b, k) \/ LoadSession(b, k)
    \/ StoreRunning(b, k) \/ Enqueue(b, k) \/ MarkPending(b, k)

Work(w) ==
    \/ Take(w) \/ LoadForRun(w) \/ StoreForRun(w) \/ RunGraph(w)
    \/ LoadResult(w) \/ StoreResult(w) \/ StoreTaskKey(w)

Next ==
    \/ \E b \in Tabs : Human(b) \/ Poll(b) \/ PollLate(b) \/ \E k \in Calls : Handler(b, k)
    \/ \E w \in Workers : Work(w) \/ Crash(w)

Spec == Init /\ [][Next]_vars

(* The event loops of the API and of the workers run on, and timers tick.  *)
(* Humans owe nothing.                                                     *)
FairSpec ==
    /\ Spec
    /\ \A b \in Tabs : WF_vars(Poll(b)) /\ \A k \in Calls : WF_vars(Handler(b, k))
    /\ \A w \in Workers : WF_vars(Work(w))

-----------------------------------------------------------------------------
(* Properties.                                                             *)

(* The rows, messages and frames have their types.                         *)
TypeOK ==
    /\ session \in [Tasks -> Row \cup {None}]
    /\ recent \in Seq(Tasks)
    /\ taskkey \in [Tasks -> Status \cup {None}]
    /\ inbox \in Seq(Message)
    /\ thread \in [at : {"new", "interrupted", "completed", "error", "raised"},
                   task : Tasks \cup {None}, approval : 0 .. MaxApprovals]
    /\ asked \in 0 .. MaxApprovals
    /\ tab \in [Tabs -> [task : Tasks \cup {None}, status : Status,
                         shows : 0 .. MaxApprovals, polling : BOOLEAN]]
    /\ \A b \in Tabs, k \in Calls : request[b][k].op \in {"none", "invoke", "resume"}
    /\ \A w \in Workers : job[w].task \in Tasks \cup {None}
    /\ crashes \in 0 .. MaxCrashes /\ overlaps \in 0 .. MaxOverlaps

(* A human's decision is applied to the approval that human was shown, and *)
(* to no other: neither a later approval of the task nor another task's.   *)
AppliedAsShown(w) ==
    /\ job[w].pc = "graph" /\ job'[w].pc = "load_result"
    /\ job[w].kind = "resume" /\ thread.at = "interrupted"
    => job[w].about = thread.approval

DecidedAsShown == [][\A w \in Workers : AppliedAsShown(w)]_vars

(* The same as long as no API call of the session was sent while another   *)
(* was still on its way: no button was pressed before the last one's call  *)
(* had returned.                                                           *)
LoneDecidedAsShown == [][overlaps = 0 => \A w \in Workers : AppliedAsShown(w)]_vars

(* As long as no API call was sent while another was still on its way: an  *)
(* interrupted session for which nothing is under way can be resumed, the  *)
(* thread waits for the very approval that the session shows.              *)
Busy(t) ==
    \/ \E m \in 1 .. Len(inbox) : inbox[m].task = t
    \/ \E w \in Workers : job[w].task = t
    \/ \E b \in Tabs, k \in Calls : request[b][k].task = t

InterruptedIsResumable ==
    overlaps = 0 => \A t \in Tasks :
        /\ session[t] # None /\ session[t].status = "interrupted"
        /\ ~Busy(t)
        => thread = [at |-> "interrupted", task |-> t, approval |-> session[t].shows]

(* A task that is under way comes to rest with an answer for its tab,      *)
(* unless a worker died.                                                   *)
TaskSettles ==
    \A t \in Tasks :
        Busy(t) ~> (session[t] # None /\ session[t].status \in Settled) \/ crashes > 0

(* A tab that is waiting shows the answer, or says that it gave up.        *)
TabAnswered ==
    \A b \in Tabs :
        tab[b].status = "pending" ~>
            tab[b].status \in Settled \/ ~tab[b].polling \/ crashes > 0

=============================================================================

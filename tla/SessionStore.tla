----------------------------- MODULE SessionStore -----------------------------
(***************************************************************************)
(* The Redis keys of one user (infrastructure/redis_sessions.py) under the *)
(* API handlers (application/services.py) and the worker: a row per task,  *)
(* the index of the user, the index of each session, a key per task, and   *)
(* beside them the session's checkpoint and artifacts in Postgres.         *)
(*                                                                         *)
(* A handler is a program of Redis commands, and every command is a step:  *)
(* what todo[p] holds is what handler p still has to do.  Values of rows   *)
(* are in TaskLifecycle; here a key is its members and its time to live.   *)
(***************************************************************************)
EXTENDS Naturals, Sequences, SequencesExt

CONSTANTS
    Sessions,
    Tasks,
    Handlers,      \* API requests served at once
    Workers,       \* Celery workers
    SessionTTL,    \* session_ttl_seconds, in ticks
    TaskTTL,       \* task_ttl_seconds, in ticks
    Forever,       \* time to live of a key that was never given one
    None

ASSUME TTLAssumption ==
    SessionTTL \in Nat \ {0} /\ TaskTTL \in Nat \ {0} /\ Forever \notin Nat

ASSUME IdAssumption == None \notin Tasks \cup {"removal"} /\ "removal" \notin Tasks

VARIABLES
    home,        \* the session of each task
    row,         \* session:{user}:{session}:{task}: time to live, 0 if there is none
    taskkey,     \* task:{task}: time to live
    user,        \* user_sessions:{user}: the tasks it lists, its time to live
    mapping,     \* task_mapping:{user}:{session}: the same for each session
    thread,      \* sessions that have a checkpoint
    artifacts,   \* sessions that have artifacts
    queue,       \* messages on the broker
    todo,        \* commands each handler and worker has still to do
    serves,      \* what each is for: a task it writes, "removal", or None
    deleted,     \* sessions deleted and not asked for since
    crossed      \* tasks that were under way beside a removal

keys  == <<row, taskkey, user, mapping>>
saved == <<thread, artifacts>>
notes == <<deleted, crossed>>
vars  == <<home, keys, saved, queue, todo, serves, notes>>

Processes == Handlers \cup Workers

-----------------------------------------------------------------------------
(* Sets of Redis.  One that loses its last member is no longer there, and  *)
(* EXPIRE does nothing to a key that is not there.                         *)

NoKey == [has |-> {}, ttl |-> 0]

Sadd(key, t) ==
    IF key = NoKey THEN [has |-> {t}, ttl |-> Forever] ELSE [key EXCEPT !.has = @ \cup {t}]

Srem(key, t) ==
    IF key.has \subseteq {t} THEN NoKey ELSE [key EXCEPT !.has = @ \ {t}]

Expire(key, ttl) == IF key = NoKey THEN NoKey ELSE [key EXCEPT !.ttl = ttl]

Fade(key) ==
    IF key.ttl = Forever THEN key
    ELSE IF key.ttl <= 1 THEN NoKey ELSE [key EXCEPT !.ttl = @ - 1]

-----------------------------------------------------------------------------
(* Programs.                                                               *)

Command(do, on) == [do |-> do, on |-> on]

ForEach(order, do) == [i \in 1 .. Len(order) |-> Command(do, order[i])]

Create(t) ==
    <<Command("set_row", t), Command("sadd_user", t), Command("sadd_mapping", t),
      Command("expire_user", t), Command("expire_mapping", t)>>

(* update_session after its GET found a row.                               *)
StoreRowMutant(t) == <<Command("set_row", t), Command("expire_mapping", t)>>

StoreRow(t) ==
    <<Command("set_row", t), Command("expire_user", t), Command("expire_mapping", t)>>

UpdateSession(t) == <<Command("get_row", t)>>

SetTaskStatusMutant(t) == <<Command("set_task_key", t), Command("sadd_mapping", t)>>

SetTaskStatus(t) ==
    <<Command("set_task_key", t), Command("sadd_mapping", t),
      Command("expire_mapping_as_task", t)>>

CleanupUserTasks == <<Command("smembers_user", None)>>

Drop(t) == <<Command("srem_user", t), Command("srem_mapping", t), Command("del_task_key", t)>>

ScardUser == <<Command("scard_user", None)>>

(* What follows the deletion of a row and its task key.                   *)
UnlistMutant(t) == <<Command("srem_mapping", t)>>

Unlist(t) == <<Command("srem_user", t), Command("srem_mapping", t)>>

(* The service first looks for the session, cleaning up, and clears the    *)
(* stores of the graph before the keys.                                    *)
DeleteSession(s) ==
    <<Command("smembers_user", None), Command("stop_unless_mapping", s),
      Command("delete_thread", s), Command("delete_artifacts", s),
      Command("smembers_mapping", s), Command("scard_mapping", s),
      Command("scard_user", None), Command("reply_deleted", s)>>

DeleteTask(t) ==
    <<Command("stop_unless_row", t), Command("del_row_and_task_key", t),
      Command("scard_mapping", home[t]), Command("scard_user", None)>>

Invoke(t) == <<Command("create_unless_row", t), Command("enqueue_invoke", t)>> \o SetTaskStatus(t)

Resume(t) ==
    <<Command("stop_unless_row", t)>> \o UpdateSession(t) \o
    <<Command("enqueue_resume", t)>> \o SetTaskStatus(t)

Run(m) ==
    (IF m.do = "enqueue_invoke" THEN UpdateSession(m.on) ELSE <<>>)
    \o <<Command("run_graph", m.on)>> \o UpdateSession(m.on) \o SetTaskStatus(m.on)

-----------------------------------------------------------------------------
(* A request comes in.                                                     *)

UnderWay(t) ==
    \/ \E m \in queue : m.on = t
    \/ \E p \in Processes : serves[p] = t

Removing == \E p \in Processes : serves[p] = "removal"

Accept(h, for, program) ==
    /\ serves[h] = None
    /\ crossed = {}                            \* bound: nothing new after a crossing
    /\ todo' = [todo EXCEPT ![h] = program]
    /\ serves' = [serves EXCEPT ![h] = for]
    /\ crossed' = crossed \cup (IF for = "removal" THEN {t \in Tasks : UnderWay(t)}
                                ELSE IF Removing THEN {for} ELSE {})
    /\ UNCHANGED <<home, keys, saved, queue>>

(* Requests of one task come one after the other; see TaskLifecycle for    *)
(* those that do not.                                                      *)
AcceptInvoke(h, t) ==
    /\ ~UnderWay(t)
    /\ Accept(h, t, Invoke(t)) /\ deleted' = deleted \ {home[t]}

AcceptResume(h, t) ==
    /\ ~UnderWay(t)
    /\ Accept(h, t, Resume(t)) /\ UNCHANGED deleted

(* The listings and the counts all begin with the clean-up.                *)
AcceptListing(h) ==
    Accept(h, "removal", CleanupUserTasks) /\ UNCHANGED deleted

AcceptDeleteSession(h, s) ==
    Accept(h, "removal", DeleteSession(s)) /\ UNCHANGED deleted

AcceptDeleteTask(h, t) ==
    Accept(h, "removal", DeleteTask(t)) /\ UNCHANGED deleted

Take(w, m) ==
    /\ serves[w] = None /\ m \in queue
    /\ queue' = queue \ {m}
    /\ todo' = [todo EXCEPT ![w] = Run(m)]
    /\ serves' = [serves EXCEPT ![w] = m.on]
    /\ UNCHANGED <<home, keys, saved, notes>>

-----------------------------------------------------------------------------
(* Commands.                                                               *)

Do(p, commands) == todo[p] # <<>> /\ Head(todo[p]).do \in commands

On(p) == Head(todo[p]).on

(* The program goes on after its first command, or with more before that.  *)
Continue(p, more) ==
    LET rest == more \o Tail(todo[p])
    IN  /\ todo' = [todo EXCEPT ![p] = rest]
        /\ serves' = [serves EXCEPT ![p] = IF rest = <<>> THEN None ELSE @]

Stop(p) ==
    todo' = [todo EXCEPT ![p] = <<>>] /\ serves' = [serves EXCEPT ![p] = None]

(* EXISTS, GET and SCARD decide how the program goes on.                   *)
Test(p) ==
    /\ \/ /\ Do(p, {"create_unless_row"})
          /\ Continue(p, IF row[On(p)] = 0 THEN Create(On(p)) ELSE <<>>)
       \/ /\ Do(p, {"get_row"})
          /\ Continue(p, IF row[On(p)] = 0 THEN <<>> ELSE StoreRow(On(p)))
       \/ /\ Do(p, {"drop_unless_row"})
          /\ Continue(p, IF row[On(p)] = 0 THEN Drop(On(p)) ELSE <<>>)
       \/ /\ Do(p, {"stop_unless_row"})
          /\ IF row[On(p)] = 0 THEN Stop(p) ELSE Continue(p, <<>>)
       \/ /\ Do(p, {"stop_unless_mapping"})
          /\ IF mapping[On(p)] = NoKey THEN Stop(p) ELSE Continue(p, <<>>)
       \/ /\ Do(p, {"scard_user"})
          /\ Continue(p, IF user.has = {} THEN <<Command("del_user", None)>> ELSE <<>>)
       \/ /\ Do(p, {"scard_mapping"})
          /\ Continue(p, IF mapping[On(p)].has = {} THEN <<Command("del_mapping", On(p))>>
                         ELSE <<>>)
    /\ UNCHANGED <<home, keys, saved, queue, notes>>

(* SMEMBERS: the loop runs over the members there were, in any order.      *)
ReadMembers(p) ==
    /\ \/ /\ Do(p, {"smembers_user"})
          /\ \E order \in SetToSeqs(user.has) :
                Continue(p, ForEach(order, "drop_unless_row") \o ScardUser)
       \/ /\ Do(p, {"smembers_mapping"})
          /\ \E order \in SetToSeqs(mapping[On(p)].has) :
                Continue(p, ForEach(order, "del_row_and_task_key"))
    /\ UNCHANGED <<home, keys, saved, queue, notes>>

WriteRow(p) ==
    /\ \/ Do(p, {"set_row"}) /\ row' = [row EXCEPT ![On(p)] = SessionTTL] /\ UNCHANGED taskkey
       \/ Do(p, {"set_task_key"}) /\ taskkey' = [taskkey EXCEPT ![On(p)] = TaskTTL] /\ UNCHANGED row
       \/ Do(p, {"del_task_key"}) /\ taskkey' = [taskkey EXCEPT ![On(p)] = 0] /\ UNCHANGED row
    /\ Continue(p, <<>>)
    /\ UNCHANGED <<home, user, mapping, saved, queue, notes>>

DeleteRow(p) ==
    /\ Do(p, {"del_row_and_task_key"})
    /\ row' = [row EXCEPT ![On(p)] = 0] /\ taskkey' = [taskkey EXCEPT ![On(p)] = 0]
    /\ Continue(p, Unlist(On(p)))
    /\ UNCHANGED <<home, user, mapping, saved, queue, notes>>

WriteUser(p) ==
    /\ \/ Do(p, {"sadd_user"}) /\ user' = Sadd(user, On(p))
       \/ Do(p, {"srem_user"}) /\ user' = Srem(user, On(p))
       \/ Do(p, {"expire_user"}) /\ user' = Expire(user, SessionTTL)
       \/ Do(p, {"del_user"}) /\ user' = NoKey
    /\ Continue(p, <<>>)
    /\ UNCHANGED <<home, row, taskkey, mapping, saved, queue, notes>>

WriteMapping(p) ==
    /\ \/ /\ Do(p, {"sadd_mapping"})
          /\ mapping' = [mapping EXCEPT ![home[On(p)]] = Sadd(@, On(p))]
       \/ /\ Do(p, {"srem_mapping"})
          /\ mapping' = [mapping EXCEPT ![home[On(p)]] = Srem(@, On(p))]
       \/ /\ Do(p, {"expire_mapping"})
          /\ mapping' = [mapping EXCEPT ![home[On(p)]] = Expire(@, SessionTTL)]
       \/ /\ Do(p, {"expire_mapping_as_task"})
          /\ mapping' = [mapping EXCEPT ![home[On(p)]] = Expire(@, TaskTTL)]
       \/ /\ Do(p, {"del_mapping"})
          /\ mapping' = [mapping EXCEPT ![On(p)] = NoKey]
    /\ Continue(p, <<>>)
    /\ UNCHANGED <<home, row, taskkey, user, saved, queue, notes>>

Enqueue(p) ==
    /\ Do(p, {"enqueue_invoke", "enqueue_resume"})
    /\ queue' = queue \cup {Head(todo[p])}
    /\ Continue(p, <<>>)
    /\ UNCHANGED <<home, keys, saved, notes>>

(* A run writes checkpoints, and an artifact when a result is large.       *)
RunGraph(p) ==
    /\ Do(p, {"run_graph"})
    /\ thread' = thread \cup {home[On(p)]}
    /\ artifacts' \in {artifacts, artifacts \cup {home[On(p)]}}
    /\ Continue(p, <<>>)
    /\ UNCHANGED <<home, keys, queue, notes>>

ClearSession(p) ==
    /\ \/ Do(p, {"delete_thread"}) /\ thread' = thread \ {On(p)} /\ UNCHANGED artifacts
       \/ Do(p, {"delete_artifacts"}) /\ artifacts' = artifacts \ {On(p)} /\ UNCHANGED thread
    /\ Continue(p, <<>>)
    /\ UNCHANGED <<home, keys, queue, notes>>

ReplyDeleted(p) ==
    /\ Do(p, {"reply_deleted"})
    /\ deleted' = deleted \cup {On(p)}
    /\ Continue(p, <<>>)
    /\ UNCHANGED <<home, keys, saved, queue, crossed>>

(* Time passes while requests wait and graphs run: a handler is too quick  *)
(* for a key to expire between two of its commands.                        *)
Tick ==
    /\ \A p \in Processes : todo[p] = <<>> \/ Do(p, {"run_graph"})
    /\ row' = [t \in Tasks |-> IF row[t] = 0 THEN 0 ELSE row[t] - 1]
    /\ taskkey' = [t \in Tasks |-> IF taskkey[t] = 0 THEN 0 ELSE taskkey[t] - 1]
    /\ user' = Fade(user)
    /\ mapping' = [s \in Sessions |-> Fade(mapping[s])]
    /\ UNCHANGED <<home, saved, queue, todo, serves, notes>>

-----------------------------------------------------------------------------

Init ==
    /\ home \in [Tasks -> Sessions]
    /\ row = [t \in Tasks |-> 0] /\ taskkey = [t \in Tasks |-> 0]
    /\ user = NoKey /\ mapping = [s \in Sessions |-> NoKey]
    /\ thread = {} /\ artifacts = {}
    /\ queue = {}
    /\ todo = [p \in Processes |-> <<>>] /\ serves = [p \in Processes |-> None]
    /\ deleted = {} /\ crossed = {}

Request(h) ==
    \/ \E t \in Tasks : AcceptInvoke(h, t) \/ AcceptResume(h, t) \/ AcceptDeleteTask(h, t)
    \/ \E s \in Sessions : AcceptDeleteSession(h, s)
    \/ AcceptListing(h)

Execute(p) ==
    \/ Test(p) \/ ReadMembers(p) \/ WriteRow(p) \/ DeleteRow(p) \/ WriteUser(p)
    \/ WriteMapping(p) \/ Enqueue(p) \/ RunGraph(p) \/ ClearSession(p) \/ ReplyDeleted(p)

Next ==
    \/ \E h \in Handlers : Request(h)
    \/ \E w \in Workers : \E m \in queue : Take(w, m)
    \/ \E p \in Processes : Execute(p)
    \/ Tick

Spec == Init /\ [][Next]_vars

-----------------------------------------------------------------------------
(* Properties.                                                             *)

(* A row that lives can be found: both indices list its task for as long   *)
(* as it lives, unless a removal ran beside what wrote it.  It needs       *)
(* SessionTTL <= TaskTTL: whoever writes a mapping last decides how long   *)
(* it lives for all of its tasks.                                          *)
RowsAreListed ==
    \A t \in Tasks :
        row[t] > 0 /\ ~UnderWay(t) /\ t \notin crossed
        => t \in user.has /\ t \in mapping[home[t]].has

(* What a session leaves in the stores.                                    *)
Leftover(s) ==
    \/ s \in thread \cup artifacts \/ mapping[s] # NoKey
    \/ \E t \in Tasks : home[t] = s /\ (row[t] > 0 \/ taskkey[t] > 0 \/ t \in user.has)

(* A deleted session leaves nothing once all removals are through, unless  *)
(* it was under way meanwhile.  It needs SessionTTL = TaskTTL, as          *)
(* config.py:46-47 sets them: a task key is found through the mapping.     *)
DeletedIsGone ==
    ~Removing =>
      \A s \in deleted : (\A t \in crossed : home[t] # s) => ~Leftover(s)

(* No index outlives its users: whatever overlaps, an index without a time *)
(* to live is about to be given one.                                       *)
IndicesExpire ==
    /\ user.ttl = Forever =>
          \E p \in Processes : \E i \in 1 .. Len(todo[p]) : todo[p][i].do = "expire_user"
    /\ \A s \in Sessions : mapping[s].ttl = Forever =>
          \E p \in Processes : \E i \in 1 .. Len(todo[p]) :
              /\ todo[p][i].do \in {"expire_mapping", "expire_mapping_as_task"}
              /\ home[todo[p][i].on] = s

(* A deleted session stays deleted (docs/architecture.md:171).             *)
StaysDeleted == \A s \in deleted : ~Leftover(s)

=============================================================================

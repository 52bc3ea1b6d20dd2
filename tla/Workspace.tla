------------------------------- MODULE Workspace -------------------------------
(***************************************************************************)
(* The callbacks of one browser tab (web/app.py): each is given a snapshot *)
(* of the workspace state, calls the API, and its outputs replace the      *)
(* state and the components when it returns.  Different callbacks overlap. *)
(*                                                                         *)
(* The API and the workers are seen through the tasks they keep; of the    *)
(* chat, the state says whether it shows the outcome of its task.  The web *)
(* framework is outside: a callback reads the state when it starts and     *)
(* writes it when it ends, and a picker that changes calls load_session.   *)
(***************************************************************************)
EXTENDS Integers, Sequences, FiniteSets

CONSTANTS
    Sessions,      \* session ids (fresh uuids)
    Tasks,         \* task ids (fresh uuids)
    Decisions,     \* listeners that answer an approval: approve, reject, ...
    MaxInFlight,   \* bound: callbacks that overlap
    MaxEvents,     \* bound: approvals asked for and API calls that failed
    None,          \* Python None, a hidden card
    Keep           \* gr.skip(): the component stays as it is

ASSUME BoundAssumption == MaxInFlight \in Nat /\ MaxEvents \in Nat

VARIABLES
    task,      \* each task as the status API shows it
    recent,    \* every task that had a row, by last_updated, newest last
    known,     \* ids handed out, of sessions and of tasks
    ws,        \* workspace_state
    view,      \* what the tab shows: approval card, locked composer, timer, picker
    change,    \* the session a change of the picker is about to load, or None
    flight,    \* outputs[k]: what callback k will write, None when it is not running
    stale,     \* callbacks in flight whose snapshot is no longer the state
    raced,     \* some stale callback has returned
    mishaps    \* API calls that failed

server == <<task, recent>>
tab    == <<ws, view, change>>
races  == <<stale, raced>>
vars   == <<server, known, tab, flight, races, mishaps>>

OtherCallbacks == {"submit", "tick", "refresh", "load", "create", "delete"}

ASSUME DecisionsAssumption == Decisions \cap OtherCallbacks = {}

(* Every listener has a callback of its own, each of the buttons that      *)
(* answer an approval too.                                                 *)
Callbacks == Decisions \cup OtherCallbacks

(* The tab treats idle, pending and running alike: "active" is any of them. *)
Final  == {"completed", "error", "not_found"}
Status == {"active", "interrupted"} \cup Final

Card     == [task : Tasks, approval : Nat]
Snapshot == [session : Sessions, task : Tasks \cup {None}, status : Status,
             listed : BOOLEAN, shown : BOOLEAN, persisted : BOOLEAN]
Outputs  == [ws : Snapshot, card : Card \cup {None, Keep}, locked : BOOLEAN, timer : BOOLEAN,
             picker : Sessions \cup {Keep}]

ASSUME IdAssumption ==
    /\ Sessions # {}
    /\ None \notin Sessions \cup Tasks \cup Card \cup Outputs
    /\ Keep \notin Sessions \cup Card \cup {None}

NoTask    == [session |-> None, status |-> "not_found", approval |-> 0]

NewWorkspace(s) ==
    [session |-> s, task |-> None, status |-> "active",
     listed |-> FALSE, shown |-> FALSE, persisted |-> FALSE]

TaskIsActiveMutant(w) == w.status = "interrupted"

TaskIsActive(w) == w.task # None /\ w.status = "active"

(* uuids: which fresh one is drawn makes no difference.                    *)
FreshSession == CHOOSE s \in Sessions : s \notin known

FreshTask == CHOOSE t \in Tasks : t \notin known

Ranks(t) == {i \in 1 .. Len(recent) : recent[i] = t}

Touch(t) ==
    IF Ranks(t) = {}
    THEN recent' = Append(recent, t)
    ELSE \E i \in Ranks(t) :
           recent' = SubSeq(recent, 1, i - 1) \o SubSeq(recent, i + 1, Len(recent)) \o <<t>>

Latest(tasks) ==
    recent[CHOOSE i \in 1 .. Len(recent) :
             recent[i] \in tasks /\ \A j \in i + 1 .. Len(recent) : recent[j] \notin tasks]

-----------------------------------------------------------------------------
(* Outputs of a callback that has read the state w.                        *)

Output(next, card, locked, timer, picker) ==
    [ws |-> next, card |-> card, locked |-> locked, timer |-> timer, picker |-> picker]

CardOf(t) == [task |-> t, approval |-> task[t].approval]

FailedMutant(w) == Output([w EXCEPT !.status = "error"], None, TRUE, FALSE, Keep)

Failed(w) == Output([w EXCEPT !.status = "error"], None, FALSE, FALSE, Keep)

(* state_from_session: every task of the session counts as displayed.      *)
Kept == {t \in Tasks : task[t].status # "not_found"}

TasksOf(s) == {t \in Kept : task[t].session = s}

LatestOf(s) == Latest(TasksOf(s))

StateFromSession(s) ==
    IF TasksOf(s) = {} THEN NewWorkspace(s)
    ELSE [session |-> s, task |-> LatestOf(s), status |-> task[LatestOf(s)].status,
          listed |-> TRUE, shown |-> task[LatestOf(s)].status \in Final, persisted |-> TRUE]

LoadedKeepsCardMutant(w, picker) ==
    Output(w, IF w.status = "interrupted" THEN Keep ELSE None,
           TaskIsActive(w) \/ w.status = "interrupted", TaskIsActive(w), picker)

LoadedMutant(w, picker) ==
    Output(w, IF w.status = "interrupted" THEN CardOf(w.task) ELSE None,
           TaskIsActive(w) \/ w.status = "interrupted", FALSE, picker)

Loaded(w, picker) ==
    Output(w, IF w.status = "interrupted" THEN CardOf(w.task) ELSE None,
           TaskIsActive(w) \/ w.status = "interrupted", TaskIsActive(w), picker)

(* poll_status: the outputs it may have, by the status it was told.        *)
Polled ==
    LET t      == ws.task
        status == task[t].status
        w      == [ws EXCEPT !.status = status]
        news   == [w EXCEPT !.listed = TRUE, !.shown = @ \/ ~w.listed]
    IN  CASE status = "active" ->
               {Output(w, None, locked, locked, Keep) : locked \in BOOLEAN}
          [] status = "interrupted" -> {Output(w, CardOf(t), TRUE, FALSE, Keep)}
          [] OTHER -> {Output(news, None, FALSE, FALSE, p) : p \in {ws.session, Keep}}

-----------------------------------------------------------------------------
(* Callbacks start.                                                        *)

Starts(k) ==
    /\ flight[k] = None
    /\ Cardinality({j \in Callbacks : flight[j] # None}) < MaxInFlight   \* bound

Returns(k, output) == flight' = [flight EXCEPT ![k] = output]

Asked == {p \in Tasks \X (1 .. MaxEvents) : p[2] <= task[p[1]].approval}

MoreEvents == Cardinality(Asked) + mishaps < MaxEvents                 \* bound

(* An API call fails or times out.                                         *)
Mishap == MoreEvents /\ mishaps' = mishaps + 1

(* The API call creates the task; it may be lost, or its answer may be.    *)
Submit ==
    LET t    == FreshTask
        sent == [ws EXCEPT !.task = t, !.status = "active", !.listed = FALSE,
                           !.shown = FALSE, !.persisted = TRUE]
        Create == /\ task' = [task EXCEPT ![t] = [session |-> ws.session, status |-> "active",
                                                  approval |-> 0]]
                  /\ Touch(t)
    IN  /\ Starts("submit") /\ ~view.locked
        /\ ~TaskIsActive(ws) /\ ws.status # "interrupted"
        /\ Tasks \ known # {} /\ known' = known \cup {t}
        /\ \/ /\ Create /\ UNCHANGED mishaps
              /\ Returns("submit", Output(sent, None, TRUE, TRUE, ws.session))
           \/ /\ Create \/ UNCHANGED server
              /\ Mishap
              /\ Returns("submit", Output([sent EXCEPT !.status = "error"], None, FALSE, FALSE,
                                          ws.session))
        /\ UNCHANGED <<tab, races>>

(* poll_status, called by the timer and by the refresh button.             *)
Poll(k) ==
    /\ k = "tick" => view.timer
    /\ Starts(k) /\ ws.task # None
    /\ \/ (\E output \in Polled : Returns(k, output)) /\ UNCHANGED mishaps
       \/ Returns(k, Failed(ws)) /\ Mishap
    /\ UNCHANGED <<server, known, tab, races>>

(* resume_task, of any of the buttons: a refused or failed call changes    *)
(* nothing in the tab.                                                     *)
Resume(k) ==
    /\ k \in Decisions /\ Starts(k) /\ view.card # None
    /\ ws.status = "interrupted" /\ ws.task # None
    /\ task[ws.task].status = "interrupted"
    /\ task' = [task EXCEPT ![ws.task].status = "active"] /\ Touch(ws.task)
    /\ \/ /\ Returns(k, Output([ws EXCEPT !.status = "active"], None, TRUE, TRUE, Keep))
          /\ UNCHANGED mishaps
       \/ Mishap /\ UNCHANGED flight
    /\ UNCHANGED <<known, tab, races>>

(* The picker offers the sessions that have tasks, and the tab's own.      *)
PickSession(s) ==
    /\ s = ws.session \/ TasksOf(s) # {}
    /\ s # view.picker
    /\ view' = [view EXCEPT !.picker = s] /\ change' = s
    /\ UNCHANGED <<server, known, ws, flight, races, mishaps>>

(* load_session: an error puts the state it read back.                     *)
Load ==
    /\ Starts("load") /\ change # None
    /\ change' = None
    /\ \/ Returns("load", Loaded(StateFromSession(change), Keep)) /\ UNCHANGED mishaps
       \/ Returns("load", Output(ws, None, FALSE, FALSE, Keep)) /\ Mishap
    /\ UNCHANGED <<server, known, ws, view, races>>

CreateSession ==
    /\ Starts("create")
    /\ Sessions \ known # {} /\ known' = known \cup {FreshSession}
    /\ Returns("create", Output(NewWorkspace(FreshSession), None, FALSE, FALSE, FreshSession))
    /\ UNCHANGED <<server, tab, races, mishaps>>

(* delete_current_session asks the API only for a session it believes to   *)
(* be kept there, and does not touch the approval card.                    *)
DeleteCurrentSession ==
    LET gone == IF ws.persisted THEN TasksOf(ws.session) ELSE {}
    IN  /\ Starts("delete")
        /\ ws.persisted => gone # {}
        /\ task' = [t \in Tasks |-> IF t \in gone THEN [task[t] EXCEPT !.status = "not_found"]
                                    ELSE task[t]]
        /\ UNCHANGED recent
        /\ Sessions \ known # {}
        /\ \/ /\ known' = known \cup {FreshSession}
              /\ Returns("delete", Output(NewWorkspace(FreshSession), Keep, FALSE, FALSE,
                                          FreshSession))
              /\ UNCHANGED mishaps
           \/ ws.persisted /\ Mishap /\ UNCHANGED <<known, flight>>
        /\ UNCHANGED <<tab, races>>

(* A callback returns: its outputs replace what the tab has now.           *)
Deliver(k) ==
    /\ flight[k] # None
    /\ LET o == flight[k]
           Or(new, old) == IF new = Keep THEN old ELSE new
       IN  /\ ws' = o.ws
           /\ view' = [card |-> Or(o.card, view.card), locked |-> o.locked, timer |-> o.timer,
                       picker |-> Or(o.picker, view.picker)]
           /\ change' = IF view'.picker # view.picker THEN view'.picker ELSE change
    /\ stale' = {j \in Callbacks \ {k} : flight[j] # None}
    /\ raced' = (raced \/ k \in stale)
    /\ Returns(k, None)
    /\ UNCHANGED <<server, known, mishaps>>

(* initialize_user on a reloaded page: the session of the newest task, or  *)
(* a new one.  What the old page waited for is lost.                       *)
NewestSession ==
    IF Kept = {} THEN FreshSession ELSE task[Latest(Kept)].session

Reload ==
    LET s == NewestSession
        o == Loaded(StateFromSession(s), s)
    IN  /\ Kept = {} => Sessions \ known # {}
        /\ known' = known \cup {s}
        /\ ws' = o.ws
        /\ view' = [card |-> o.card, locked |-> o.locked, timer |-> o.timer, picker |-> s]
        /\ change' = s
        /\ flight' = [k \in Callbacks |-> None] /\ stale' = {}
        /\ UNCHANGED <<server, raced, mishaps>>

-----------------------------------------------------------------------------
(* The workers: a task runs until it asks for an approval or ends.         *)

Work(t) ==
    /\ task[t].status = "active"
    /\ \/ task' = [task EXCEPT ![t].status = "completed"]
       \/ /\ MoreEvents
          /\ task' = [task EXCEPT ![t].status = "interrupted", ![t].approval = @ + 1]
    /\ Touch(t)
    /\ UNCHANGED <<known, tab, flight, races, mishaps>>

Init ==
    /\ task = [t \in Tasks |-> NoTask] /\ recent = <<>>
    /\ LET s == CHOOSE s \in Sessions : TRUE
       IN  /\ known = {s} /\ ws = NewWorkspace(s)
           /\ view = [card |-> None, locked |-> FALSE, timer |-> FALSE, picker |-> s]
    /\ change = None
    /\ flight = [k \in Callbacks |-> None]
    /\ stale = {} /\ raced = FALSE /\ mishaps = 0

(* A picker that changed has its load called at once, unless one is still  *)
(* running: nobody is quicker.                                             *)
LoadIsCalled == change = None \/ flight["load"] # None

User ==
    /\ ~raced                                  \* bound: the user watches a race end
    /\ LoadIsCalled
    /\ \/ Submit
       \/ Poll("refresh") \/ \E k \in Decisions : Resume(k)
       \/ \E s \in Sessions : PickSession(s)
       \/ CreateSession \/ DeleteCurrentSession \/ Reload

Next ==
    \/ User \/ Load
    \/ LoadIsCalled /\ Poll("tick")
    \/ \E k \in Callbacks : Deliver(k)
    \/ \E t \in Tasks : Work(t)

Spec == Init /\ [][Next]_vars

(* The timer of the page ticks, callbacks return and workers work; users   *)
(* owe nothing.                                                            *)
FairSpec ==
    /\ Spec
    /\ WF_vars(LoadIsCalled /\ Poll("tick")) /\ WF_vars(Load)
    /\ WF_vars(\E k \in Callbacks : Deliver(k))
    /\ WF_vars(\E t \in Tasks : Work(t))

-----------------------------------------------------------------------------
(* Properties.                                                             *)

(* A locked composer has a way out, whatever overlapped or failed: the     *)
(* timer polls a task that the state knows, or the approval card of that   *)
(* task is there to be answered.                                           *)
LockedHasWayOut ==
    view.locked =>
      \/ view.timer /\ TaskIsActive(ws)
      \/ view.card # None /\ ws.status = "interrupted" /\ view.card.task = ws.task

(* As long as no call failed and no callback overwrote what it had not     *)
(* read, the decision of a human who has no other decision on its way      *)
(* reaches the approval on the card, however many approvals the task asks  *)
(* for.                                                                    *)
Deciding == \E k \in Decisions : flight[k] # None

DecidedAsShown ==
    [][\A t \in Tasks :
         /\ task[t].status = "interrupted" /\ task'[t].status = "active"
         /\ ~raced /\ mishaps = 0 /\ ~Deciding
         => view.card = CardOf(t)]_vars

(* As long as no call failed and no callback overwrote what it had not     *)
(* read, a session never has two tasks under way (app.py:669).             *)
OneTaskAtATime ==
    ~raced /\ mishaps = 0 =>
      \A s \in Sessions :
        Cardinality({t \in TasksOf(s) : task[t].status \in {"active", "interrupted"}}) <= 1

(* A locked tab is unlocked again or asks for a decision.                  *)
TabSettles == view.locked ~> ~view.locked \/ view.card # None

(* A tab at rest shows the outcome of the task it stands at.               *)
AnswerShown ==
    /\ \A k \in Callbacks : flight[k] = None
    /\ change = None /\ ~raced /\ mishaps = 0
    /\ ws.task # None /\ ws.status \in Final
    => ws.shown

=============================================================================

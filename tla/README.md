# Travel agent orchestrator: verification project

TLA+ models of `Millastar/travel-agent-orchestrator`, the TLC configurations
that check them on small instances, and TLAPS proofs of what holds for every
instance. Paths such as `travel/service.py` are relative to
`src/travel_agent_orchestrator/` of the repository; `README.md`, `docs/`, `tests/`
and `scripts/` are the repository's own.

Contents: 1 the system, 2 the modules, 3 the runs, 4 the proofs, 5 what the
checks found, 6 what is not modelled, 7 the plan, 8 running everything.

## 1 The system

A browser workspace (Gradio) talks to a FastAPI service, which keeps task state
in Redis and queues work for Celery workers. A worker runs a LangGraph workflow
of a supervisor and three specialists, whose state is saved in a PostgreSQL
checkpoint after every node. Specialists call tools; the tools that change
anything wait for a human's approval and then call the hotel sandbox, a domain
service over PostgreSQL tables.

    browser tab -> API handler -> Redis rows, broker -> worker -> graph -> tools
        ^                            |                    |                 |
        +----------- polls ----------+<---- result -------+         hotel sandbox

| Component | Source | State | Operations | Interacts with |
|---|---|---|---|---|
| Hotel service | `travel/service.py` | none of its own; a call's Python frame between awaits | create_quote, confirm_booking, change_dates, cancel_booking, request_refund, submit_complaint, search | repository, clock; called by tools |
| Repository | `travel/repository.py`, `schema.py` | quotes, orders with payments, daily inventory, refunds, complaints, traces | one transaction per method | PostgreSQL |
| Tools and policies | `travel/tools.py` | none | read, transaction, destructive and handoff tools per role | hotel service, graph |
| Agent graph | `agent/graph.py`, `state.py` | the channels of `AgentState`, checkpointed | nodes context, supervisor, specialist, prepare_tool, approval, execute, reject, feedback, finalize | models, tools, store, repository (traces) |
| Runtime | `agent/runtime.py`, `results.py` | none | begin a turn, resume an interruption, report | graph, session store |
| Context compression | `agent/context.py` | summary and its cursor | compact, keep pending turns | graph, summary model |
| Artifacts, MCP tools, memory | `agent/artifacts.py`, `tools.py`, `memory.py` | store entries | save, page, read | graph, MCP servers |
| Application service | `application/services.py` | none | invoke, resume, status and listings, deletions, memory | session store, broker, checkpoints |
| Session store | `infrastructure/redis_sessions.py` | session row, task key, user and mapping sets, with TTLs | create, update (GET, SET), set_task_status, listings, deletions | Redis |
| Workers | `workers/*.py` | the running task | invoke_agent_task, resume_agent_task | runtime |
| Web workspace | `web/*.py` | per tab: a workspace state (session, task, status), poll timer, approval card, picker | submit, poll, refresh, open, decide, create, delete, reload | API |
| Clock | `infrastructure/clock.py` | none | today, date ranges | service, prompt |
| HTTP routes, evaluation, observability, infrastructure, scripts | `api/`, `evaluation/`, `observability.py`, `infrastructure/`, `scripts/` | configuration, clients | delegation, offline scoring, redaction | all |

What makes it hard:

* **Sagas without a transaction.** A booking, a change, a cancellation and a
  refund are each several transactions. Anything may happen between two of them:
  another worker's call, an exception, the end of the process.
* **A human in the middle.** The graph stops at an approval with calls still
  queued; it is resumed by another process, perhaps with other arguments,
  perhaps by a new request instead.
* **Models as adversaries.** They may ask for several tools at once, for tools
  they were not given, and hand over or read for ever.
* **Two records of a task and a copy in every tab,** written by the API and by
  the worker with single Redis commands, while the checkpoint thread belongs to
  the session and not to the task.
* **Keys that die separately.** Rows, indices and task keys have times to live of
  their own; clean-up and deletion are loops of commands beside other requests.
* **Overlapping callbacks.** Each callback of a tab works on a snapshot of the
  workspace state and writes all of it back when it returns. The five buttons that
  answer an approval are five listeners (`web/app.py:1164-1180`), so two decisions
  about one card may be on their way at once.
* **A window that is too small.** The thread keeps every message; what the model
  sees is a summary and the messages after it, and must still be a legal
  exchange of calls and answers.

What makes each part correct:

* sandbox: payment agrees with status; inventory is neither promised twice nor lost;
  one order per task and quote; refunds within the total; final orders stay final;
  calls end and compensate;
* graph: no write without a human's agreement to just that write; nothing of an
  old message, agent, edit or turn is executed; reads are budgeted; turns end;
  failures are reported;
* context: the summary takes every old message once, whole turns only, and old turns
  make room before an input is refused; calls are answered once; pages of a result
  come in order; a date range means its nearest stay;
* lifecycle: a decision answers the approval that was shown; an interrupted task
  can be resumed; both until calls overlap; tasks settle and tabs are answered;
* store: what lives is listed, what was deleted is gone, and nothing is kept for
  ever by accident;
* workspace: a locked composer has a way out and is unlocked; one task of a
  session at a time; a tab shows the answer of the task it stands at.

`PROJECT.json` lists the hazards behind these, each at its line.

## 2 The modules

| Module | Models | Proofs |
|---|---|---|
| `HotelSandbox` | `travel/service.py` over `travel/repository.py` | `HotelSandboxProofs`, `HotelInventoryProofs` |
| `AgentGraph` | `agent/graph.py` with the input of `agent/runtime.py` | `AgentGraphProofs` |
| `ApprovalGate` | the abstract promise about writes that `AgentGraph` implements | |
| `Conversation` | the messages of a thread: `agent/graph.py` with `agent/context.py` | `ConversationProofs` |
| `ToolArtifacts` | `agent/artifacts.py`, the part of `Conversation` that holds large results | `ConversationProofs` |
| `TravelDates` | `infrastructure/clock.py`, as operators | `TravelDatesProofs` |
| `TaskLifecycle` | browser tabs, API handlers, Redis rows, worker, thread | `TaskLifecycleProofs` |
| `SessionStore` | every Redis key of a user, with indices, expiry, clean-up and deletion | `SessionStoreProofs` |
| `Workspace` | the overlapping callbacks of one tab, `web/app.py` | `WorkspaceProofs` |
| `MC...` | the instances TLC checks | |

The components meet at narrow interfaces, so each is checked against an
environment that does whatever the others may do: `HotelSandbox` takes any tool
call of any task (the graph's writes), `AgentGraph` records which writes it
asked for (`performed`), `TaskLifecycle` sees a graph run only by its outcome, and
`Workspace` sees the API and the workers only by the tasks they keep. Two parts
are modelled twice from different sides: the calls of a message are values in
`AgentGraph`, where approvals and budgets matter, and positions in
`Conversation`, where order and answers matter; a session row has its value in
`TaskLifecycle` and its lifetime in `SessionStore`.

Operators named `...Mutant` stand before the definition they vary. They are
plausible slips, used to confirm that each property can fail; no specification
uses them.

### HotelSandbox

| Model | Code |
|---|---|
| `quotes`, `orders`, `avail`, `refunds` | tables travel_quotes; travel_orders joined with travel_payments, which are always written together; travel_daily_inventory, whose missing rows count as full capacity; travel_refunds, reduced to count and sum |
| `call[w]` | the Python frame of the service call worker `w` executes: operation, next await, and the locals later steps use |
| `today` | `today_provider()`; a day at a time, up to `MaxDay` |
| `BeginX` | the call up to its first write: ownership, status and date checks |
| `PlaceOrder`, `ReplayOrder`, `SoldOut` | the three ways `create_order` ends |
| `Decline`, `Capture`, `RecordRefund`, `MarkRefunded`, `ReleaseInventory` | one `await` of the saga each |
| `Fail(w)` | the next await raises. Inside the `try` of change_dates and cancel_booking that leads to `Revert`, elsewhere the call ends |
| `Crash(w)` | the process dies; Celery acknowledged the message on receipt, so nothing is retried |

Each repository method is one transaction and one step. Two simplifications: a
booking whose key another worker inserts meanwhile ends as a replay, where
PostgreSQL would raise a unique violation (which is `Fail`); and a room type is
one room of a hotel, for inventory is kept per room type.

### AgentGraph and ApprovalGate

State follows `AgentState`: `queue` is `tool_call_queue`, `pending` is
`pending_approval`, `decision` is `approval_decision`, `history` and `counts` are
the fingerprints and counters of reads, `exhausted` is the workflow's
`tool_budget_exhausted_agent`. A message is its sequence of calls. One action per
node and outcome: `execute_tool_node` becomes `SkipRead`, `RunRead`, `HandOff`,
`HandoffLimit`, `RunWrite`, `BadEdit`; `WriteThenFail` is the tool that ran before
the trace event of its completion raised (`graph.py:664`; its result is saved inside
the `try`); `NodeFails` is any other exception.
`Invoke` resets what `runtime.py` resets, and may come while an approval waits.

`ApprovalGate` knows only the call shown to the human, the call agreed to and the
calls performed. The refinement mapping at the end of `AgentGraph` reads these
off `node`, `pending` and `decision`; `GateSpec` is the claim that every step of
the graph is a step of the gate or changes nothing the gate sees.

### TaskLifecycle

Every Redis command is a step: `update_session` is `Load...` (GET) and
`Store...` (SET of the whole row). `invoke` is CreateSession, Enqueue, MarkPending;
`resume` is CheckInterrupted, LoadSession, StoreRunning, Enqueue, MarkPending, in
the code's order. The worker takes a message, marks the session running (for
invoke), runs the graph, and writes the session row and then the task key.

`thread` is the checkpoint of the session, shared by its tasks: where it stands,
whose turn it is, and a number for the approval it waits for. Approvals are
numbered so that a decision can be compared with what was shown; the code sends
no such number. `RunGraph` is one step, its outcomes are those of
`build_agent_response` and of the `except` branch. `recent` orders the session's
rows by `last_updated`, which decides what opening the session shows; in both
modules that have it a task is moved to its end by every write of its row.

Tabs: `Submit`, `Decide`, `Open`, `Poll`, `PollLate` (the poll that finds its time
is up and stops the timer) and `Refresh`. A tab waits for one API call of every
listener, `request[b][k]`: of `submit_query`, to which the send button and the Enter
key share one function, and of every button in `Decisions`, which are listeners of
their own (`web/app.py:1164-1180`); the framework runs calls of one function one after
another. The buttons stay enabled until a call returns, so calls of different
listeners overlap. `overlaps` counts the calls sent while another was on its way; the
code does not record it.

### Conversation, ToolArtifacts and TravelDates

A message is its kind, the number of calls it asks for, the call it answers and its
size in tokens, any of `Sizes` whoever wrote it: the length of a question has no limit
(`domain/models.py:35`). `cursor` is the position of `summary_cursor` and `merged`
counts how often a message was given to the summariser, which the code does not
record. `Load` is `estimate_context_tokens` over `build_model_input`: what the prompts
(`prompt`), the summary (`summary`) and all the key facts (`facts`) take, and the
messages after the cursor. A digest replaces the summary by one of any size in
`Summaries` and adds its facts to those on file, without a limit but the bound
`MaxFacts` (`context.py:265-272`). A specialist's prompt and tools change the input by
one of `RoleExtras`, which the estimate of the supervisor's input does not know.
`badDigest` says that the summariser failed in this turn, `fresh` that no specialist
has spoken in it: the context is compressed at the start of a turn only, and what its
own tools add is not compressed before the next. Nodes are actions as in `AgentGraph`,
with budgets, roles and arguments left out: whether a call waits for approval,
succeeds or is skipped is open. `dropped` records the calls a handoff, a feedback, a
rejection or an aborted turn gives up.

`ToolArtifacts` is the outcome of an executed tool: inlined, persisted with its
first page shown, or a page or detail of an earlier result. `stored` is the store,
`refs` the references of the conversation with their last page; `seen` and
`turned` record which items were shown and whether the pages were turned one by
one as the prompt at `graph.py:50` asks.

`TravelDates` has no state. `ResolveDateRange` follows `resolve_date_range` after
its pattern match; `NearestStay` is the reference, the nearest of all dates with
the numbers of the request (`README.md:198`). A check-out in the year 0000, which
the pattern accepts, is none to the code (`values["year_out"] or check_in.year`): it
gets the year of the check-in and does not roll into the next.

### SessionStore

A handler is a program, the list of commands it has still to do (`todo`), and every
Redis command, every message to the broker and every clearing of a store is one step.
Commands that decide how a program goes on (GET, EXISTS, SCARD, SMEMBERS) put further
commands in front, so the loops run over the members there were. A key is its members
and its time to live; `Sadd`, `Srem` and `Expire` are what Redis does: a set that
loses its last member is gone, and EXPIRE does nothing to a key that is not there. A
deletion removes the row and the key of a task with one DEL and then takes it off both
lists (`DeleteRow`, `Unlist`). `Tick` takes one from every time to live; it happens
while nobody is between two commands, for requests take milliseconds and keys live for
an hour (`config.py:46`), but while graphs run. `crossed` records the tasks that were
under way beside a removal: there the properties say less, and after it the bound lets
no new request in.

### Workspace

A callback starts with a snapshot of `ws` and puts what it will write into
`flight`; `Deliver` writes it, all of it, as Gradio does. `stale` and `raced`
record that a callback returned whose snapshot was no longer the state. A picker
that changes calls load_session at once. The framework is not part of the
repository; this is what the listeners at the end of `web/app.py` rely on: inputs
are read when a callback starts, outputs written when it ends, a callback does
not overlap with itself. Each button in `Decisions` has a callback of its own, and two
of them may answer one card: `Resume(k)` needs only that callback `k` is not running
and a card is shown. `Mishap` is an `ApiClientError`: a call that did not get
through, or one that did and whose answer was lost to the timeout. `Reload` is
initialize_user on a reloaded page, which loses what the old page waited for; a call to
the API takes effect with the start of its callback, so a reload falls before or after
it. `MaxEvents` bounds approvals and failed calls together, in any mixture.

## 3 The runs

Deadlock is not checked in any run: users may stop asking, and the models' bounds
stop them.

| Run | Instance | Checks |
|---|---|---|
| SandboxSolo | 1 worker, 1 task, 2 quotes, 2 orders, 1 room; stays of two nights, each overlapping the next in one, and a reversed one; all payment modes; up to 2 refund rows per order; 1 fault anywhere; days 0 and 1; weakly fair calls | StatusPaymentAgree, InventoryCovered, FinalIsFinal, CallsEnd; without a fault also InventoryExact, PendingOnlyInFlight, RefundsWithinTotal, CompensationCompletes |
| SandboxWorkers | 2 workers, 2 users, 1 quote, 2 orders, 1 fault | TypeOK, OneOrderPerKey, RefundedHasRefundRow, ApartPaymentsAgree |
| GraphTurns | 2 specialists with handoffs both ways, 3 tools, 2 argument values, messages of up to 2 calls with forged writes among them, budget 2, 1 handoff, 1 agreed write, 2 turns, weakly fair graph | TypeOK, CallsAreCurrent, ReadsBounded, ReadsAsAsked, GateSpec, TurnEnds |
| Conversation | up to 7 messages of up to 2 calls, of size 1 or 4, prompts of 0 or 1 and 0 or 2 more for a role, summaries of 1 or 3, facts that grow by 0 or 2 up to 2, trigger at 5, limit at 7, the last 2 turns kept, digests that may fail; results of 1 or 5 items in pages of 2; 1152 date ranges on 5 days | MergedOnce, WholeTurns, CallsAnswered, OldTurnsMakeRoom, PagesInOrder, DatesNearest |
| LifecycleOneTab | 1 tab with 2 deciding buttons, 1 worker, 2 tasks, 2 approvals, 1 crash, 1 call sent while another is on its way, fair handlers, worker and timer | TypeOK, TaskSettles, TabAnswered; until calls overlap also InterruptedIsResumable, LoneDecidedAsShown |
| WorkspaceTab | 2 sessions, 2 tasks, 2 deciding buttons, 2 callbacks in flight, 2 approvals or lost calls in any mixture, fair timer, callbacks and workers | LockedHasWayOut, OneTaskAtATime, DecidedAsShown, TabSettles |
| SessionStore | 1 session with 2 tasks, 2 handlers, 1 worker, session and task keys that both live for 2 ticks | RowsAreListed, DeletedIsGone, IndicesExpire |

Runs expected to be violated, each a finding of section 5: SandboxOversell,
GraphHiddenFailure, LifecycleTwoDecisions, WorkspaceLostAnswer,
SessionStoreDeleteReturns.

**Why these bounds.** One room with capacity one and overlapping stays make every
booking contend, and two orders that fit beside each other make a date change sold
out; a third order adds only another contender (the oversell run uses it for its third
guest). A single fault reaches every half-finished saga; stays that start on days 1, 2
and 3, with a clock that goes from 0 to 1, reach both sides of the late-cancellation
boundary. SandboxSolo leaves one-night stays out on purpose: there the finding of
SandboxOversell also breaks InventoryCovered and FinalIsFinal. Two calls per message
are the least with a queue behind a pending call, two turns the least with an
abandoned approval; a budget of two reads is the least that a repeated read can waste.
With one handoff the first specialist does not come back; two are too many for the
run, and ReadsAreBounded covers any number. Seven messages are three turns, one of
them with a tool message, or more turns that failed: more than the two that are kept,
and enough for a summary that takes a tool message and for a second compression; one large message or question passes the trigger with a little beside it,
two pass the limit, and so do a large question and grown facts. Five items in pages of
two have a full page, a full last but one and a short one. The five days are the last
and first of a year, the days about a 29 February and one far from both. Two tasks and
two approvals give a task two approvals in a row, which is what an overlapping
decision needs, or a session two tasks with one each. Two callbacks overlap in every
pair, two decisions among them; with two events a card can be outdated by the next
approval of its task, or by a lost call. A second session in SessionStore was run by
hand with the same result. Session and task keys live equally long there because the
settings say so (`config.py:46-47`, `.env.example`: 3600). The code lets them differ,
and then RowsAreListed (task keys that live shorter) and DeletedIsGone (either way)
fail: every write of a mapping sets how long it lives for all of its tasks, so a task
key or a row can outlive the set that lists it. IndicesExpire holds for any lifetimes
that were tried.

**Workers.** StatusPaymentAgree, InventoryCovered and the others of SandboxSolo
are stated for one worker because the repository starts exactly one, with
`-P solo` (`scripts/start-worker.ps1:23`). SandboxWorkers checks what survives
several: ApartPaymentsAgree says that status and payment of an order part only after
two calls were at work on it at once, and not by what a call elsewhere, a failure or
a crash leaves behind. Two calls on one order do break it (section 5).

**Symmetry** is used for safety runs only: orders and quotes (SandboxOversell),
arguments (GraphHiddenFailure), handlers (SessionStore).

**Fairness.** `HotelSandbox`: the call in progress takes its next step, for the
worker has nothing else to do. `AgentGraph`: `ainvoke` runs nodes until the graph
ends, fails or is interrupted; a forged tool call makes the turn fail
(`RefuseTool`), which ends it as well. `TaskLifecycle`: API handlers and workers
continue, and timers tick while they are on. `Workspace`: callbacks return, a
changed picker is loaded, the timer ticks and workers work. No fairness is
assumed of humans, of requests, of the clock or of failures. TaskSettles and
TabAnswered except crashes in their statement, because a crashed task is never
picked up again; TabAnswered also lets a tab give up at its poll timeout.

## 4 The proofs

`HotelSandboxProofs` proves, for all users, workers, tasks, rooms, capacities,
stays, refund amounts, fault and day bounds:

| Theorem | Says |
|---|---|
| TypeCorrect | Spec => []TypeOK; availability stays between 0 and the capacity |
| BookingIsIdempotent | Spec => []OneOrderPerKey |
| RefundsAreRecorded | Spec => []RefundedHasRefundRow |
| ApartCallsAgree | Spec => ApartPaymentsAgree: as long as no two calls work on one order, []StatusPaymentAgree |
| SoloPaymentsAgree | with at most one worker, Spec => []StatusPaymentAgree |

Assumptions are the named ASSUMEs of `HotelSandbox`: the types of the constants, no
more. TypeOK is not inductive: a frame must also know that the quote or order it works
on exists and that its stay has nights. These facts form a conjunct `FrameOK` per
frame, and the invariant is TypeOK with all frames OK. The other invariants are proved
on top, one step lemma each; that an order has the owner and the total of its quote
(`OrderMatchesQuote`) is a part of the invariant that no run checks. ApartCallsAgree
needs the most: while a call runs, the payment it left behind must be the one its next
step expects (a frame at "mark_refunded" works on an order whose payment is still
captured; `SoloInv`), which another call on the same order could change.
SoloPaymentsAgree follows, for a single worker has no other call.

`AgentGraphProofs` proves, for all roles, toolboxes, handoff targets, arguments,
forged tools, budgets and message lengths:

| Theorem | Says |
|---|---|
| TypeCorrect | Spec => []TypeOK |
| NothingStaleIsExecuted | Spec => []CallsAreCurrent |
| ReadsRunAsAsked | Spec => ReadsAsAsked |
| ReadsAreBounded | Spec => []ReadsBounded |
| WritesPassTheGate | Spec => GateSpec: AgentGraph implements ApprovalGate |

The inductive invariant is TypeOK, CallsAreCurrent and `NodesOK`, which says what a
node may rely on: which nodes have a pending call, that nothing is queued when a
specialist speaks, that only writes wait for approval, and that a pending write is
at "execute" only with an agreement while any other call is there only without
one. The last point is what both ReadsRunAsAsked (no edit is applied to a read) and
the refinement (what is performed is what was granted) rest on. The refinement
splits the graph's steps into those that show, agree and perform, and the rest,
after which nothing is shown or granted.

`ConversationProofs` proves, for all windows, triggers, limits, sizes and bounds:

| Theorem | Says |
|---|---|
| ConversationTypes | Spec => []TypeOK |
| SummaryIsExact | Spec => []MergedOnce |
| SummaryTakesWholeTurns | Spec => []WholeTurns |
| ExchangeIsLegal | Spec => []CallsAnswered |

None of these is inductive. The cursor moves to the largest candidate, so that
every message below it is a candidate has to be known, and that holds because no
turn is pending when a context is compressed, because `Invoke` cleared the call in
hand. And that the answer of a call lies in the turn of its call, which
SummaryTakesWholeTurns rests on, holds because the calls in hand are always
calls of the present turn. The invariant `IInv` is the conjunction of TypeOK,
MergedOnce, WholeTurns and

* `AnswersOK`: a tool message answers an earlier call of its own turn, and no two
  answer the same;
* `PhasesOK`: which phases have a call in hand, and that nothing is queued when a
  context is compressed or a specialist speaks;
* `HandOK`: the call in hand and the calls queued behind it are unanswered calls
  of the present turn, each of them once;
* `AccountedOK`: a call without an answer is in hand, queued, about to be taken
  up, or given up.

The steps that append to the thread share the lemmas `Grow...`, which say what an
appended message leaves as it was: the earlier turns, the window, the answers.
Turns are counted with FiniteSetTheorems; that a set of numbers has a maximum,
which `Max` of the community modules assumes, is `MaxIsReached`.

And about inputs that do not fit:

| Theorem | Says |
|---|---|
| OnlyRecentTurnsAreRefused | if Trigger + extra <= MaxInput + 1 for every extra of RoleExtras, Spec => []OldTurnsMakeRoom |

OldTurnsMakeRoom does not say that an input fits. A question may be of any length and
the key facts only grow, so a thread can be refused turn after turn; `graph.py:361`
asks the user to shorten the input. It says that what is refused is nothing that
compression could have taken: the first model call of a turn whose digest did not fail
is refused only for the prompts, the summary, the facts and the last RecentTurns turns.
The hypothesis says that compression starts before the input is refused. It holds for
the defaults, which start at 0.7 of 32768, 22937 tokens, and refuse at 30720, unless a
role's prompt and tools take more than the difference; the settings do not enforce it
(`infrastructure/config.py:53-56`, `104-108` only compare the limit with the window). The
invariant, `CompressedOK`, says that until a specialist has spoken the context is
below the trigger, or holds recent turns only, or its digest failed. That an input is
a number at all needs an argument: `Load` sums with a fold of the community modules,
`SumFunctionOnSet`, and that its recursion has a solution (`SumHasSolution`, `SumIs`)
is proved by least counterexample, over sets of numbers (`LeastIsReached`), since the
induction theorems of the library cannot be instantiated.

And about `ToolArtifacts`, for all page sizes and results:

| Theorem | Says |
|---|---|
| PagesShowEveryItem | Spec => []PagesInOrder |

Its invariant, `ArtifactInv`, adds what is stored under an id (`StoreOK`), that every
reference of the conversation is to a stored result, and no two to the same
(`RefsOK`), and that a result whose pages were turned one by one has shown exactly the
items up to the page its reference stands at (`TurnedOK`).

`TravelDatesProofs` proves about dates:

| Theorem | Says |
|---|---|
| ResolutionIsNearest | for every request and every day of the calendar, 0001 to 9999, ResolvesNearest: the stay is the nearest one the request can mean, or a 29 February is left open |
| SpecDatesNearest | Spec => []DatesNearest, as an instance of it |

A request has any year but 0000 for its check-out. This is no invariant of a system but
an argument about the calendar: without a year the days a request can mean lie in a
row of years, of which the earliest is the nearest (`NearestIsFirst`); but for 29 February
a day is in every year or in none (`EveryYear`), so that whatever is not in this year or
the next is in none; and next year's day is always after this year's (`LaterYear`), so
that it never pays to look further. The one edge is the year 9999, which has no next.

`HotelInventoryProofs` proves about the sandbox, with the same assumptions and at most
one worker:

| Theorem | Says |
|---|---|
| RoomsAreCovered | Spec and no refund of a cancelled order => []InventoryCovered and []NoOversell, whatever fails or dies half-way |
| RoomsAreExact | under the same condition, []InventoryExact: until a call fails no night is lost |
| ClosedOrdersStayClosed | under the same condition, FinalIsFinal |
| RefundsStayWithinTotal | Spec => []RefundsWithinTotal |
| PendingIsWorkedOn | Spec => []PendingOnlyInFlight |
| LongStaysAreSafe | if every stay has at least two nights, Spec => []InventoryCovered, []NoOversell, []InventoryExact and FinalIsFinal |

"No refund of a cancelled order" is `[][~RefundOfCancelled]_vars`: no call begins a
refund of an order that is cancelled. The run SandboxOversell shows why it is
needed, RoomsAreCovered that nothing else is: the refund of section 5 is the only way
in which one worker can sell a night twice. LongStaysAreSafe removes the condition: only
a late cancellation of a single night leaves something to refund, so with longer stays
no such refund is possible.

The invariant behind the rooms, `RoomInv`, is one equation per night of a room: the
orders that occupy it, the calls that are about to release it, and what is on offer
add up to at most the capacity, and to exactly the capacity until a call fails. The
calls are what makes it inductive: between the write of a final status and the
release of its nights they are in the frame of the call only. It needs `SoloInv`
(what the frame of a call says of the order it works on) and `LiveInv` (while a call
is at work its order occupies its nights). A date change is the difficult step: it
frees the old nights and takes the new ones in one transaction, and the proof counts
the nights that both stays have. The steps of the model are grouped by what they do to
rows (`Opens`, `Goes`, `Writes`, `Places`, `Moves`, `Refunds`, `Releases`, `Breaks`,
and a lemma that says so, `NextKinds`), so that each invariant is proved once per kind.

`TaskLifecycleProofs` proves, for all tasks, workers, approvals and crashes:

| Theorem | Says |
|---|---|
| LifecycleTypes | Spec => [](TypeOK /\ FramesOK), for all tabs |
| OneTabResumes | with one tab, Spec => []InterruptedIsResumable |
| OneTabDecides | with one tab, Spec => LoneDecidedAsShown |

Both properties are about a session until a call is sent while another is on its way
(`overlaps = 0`). That is necessary, as LifecycleTwoDecisions shows: two buttons of
one tab are enough to answer an approval nobody has seen, and with a crash between the
two results the row stays interrupted over a finished thread. The invariant is
`LoneInv(b) == TypeInv /\ (overlaps = 0 => TabInv(b))`, and `TabInv` says what one
call at a time buys: it is the only one of the tab, there is at most one message or
running job, and none before the call has sent its own (`OneAtATime`, `Single`); a tab
that shows an answer shows the row, and then nothing is under way (`TabIsTrue`); the
other tasks are done (`OthersAreDone`); the row of the tab's task says where the work
is (`RowOfTask`) and is the newest, so that opening the session cannot lead elsewhere
(`NewestIsShown`); an interrupted row, and a resumption on its way, name the approval
the thread waits for (`RowsWait`, `JobsWait`). A crash is a step like any other: it
empties the job, and a row whose result was not written yet stays running, so that its
tab sends no other request.

`WorkspaceProofs` proves, for all sessions, tasks, approvals and overlapping callbacks:

| Theorem | Says |
|---|---|
| LocksHaveWaysOut | Spec => []LockedHasWayOut, whatever overlaps or fails |
| CalmTabsRunOneTask | Spec => []OneTaskAtATime |
| CalmTabsDecideAsShown | Spec => DecidedAsShown |

The first needs only `BaseInv`: every set of outputs that a callback may write, and
so the tab after it, has a way out, because outputs write the state, the lock, the timer
and the card together. (The one exception, the deletion that leaves the card alone,
unlocks.) The other two are about tabs in which nothing failed and no callback has
overwritten what it had not read (`Calm`), and the last about a decision sent while no
other is on its way: a second button pressed before the first one's callback returns
can answer the next approval. `CalmInv` then says of the tab and of
every callback in flight that is not stale that they stand at the task under way in
their session, if there is one that is not just being sent (`AllBelieve`); that one
which takes its live task for interrupted is right and has the card of the approval
the task waits for, unless a decision is in flight, whose return takes the card away
(`AllCurrent`); that what a submission or a decision in flight writes is an active task
(`SentAreActive`); and that a session has one live task, its newest (`OneLive`).
Opening a session shows its newest task: this is what `recent` is needed for.

`SessionStoreProofs` proves, for any number of tasks, sessions, handlers and workers:

| Theorem | Says |
|---|---|
| SpecIndicesExpire | Spec => []IndicesExpire, for any times to live |
| SpecRowsAreListed | Spec => []RowsAreListed, if SessionTTL <= TaskTTL |
| SpecDeletedIsGone | Spec => []DeletedIsGone, if SessionTTL = TaskTTL |

The conditions on the times to live hold for the defaults, an hour each
(`infrastructure/config.py:46-47`), and are what the arguments rest on. The index of a
session gets the time to live of whoever wrote to it last, a row or a task key: if
task keys lived shorter, it could expire before a row it lists. And if they lived
longer, a row could expire and the session be cleaned up while its task key remains.
Nothing in the configuration keeps the two equal.

A process is here a program, so the invariant is about programs. `ShapesOK` says which
command promises which later one: after an SADD comes the EXPIRE of the same index,
after SET of a task key the SADD to its mapping, and nothing between them stops the
program or waits for a graph (`Barriers`). A test puts commands in front of a program
and takes none away, so promises are kept (`ShapedJoins`). The steps are grouped by
what they do to programs (`Arrives`, `Runs`, `Stops`). On that rest three layers:

* `IndexInv`: an index without a time to live has somebody who is about to expire it
  (`ExpiryOK`);
* `RowsInv`: a row is listed by user and session at least as long as it lives, or
  somebody is about to add it (`RowsListed`); who is about to take a task off a list
  has seen that it has no row (`RowsRemoved`), and only a request that lists it again
  writes one (`RowsToSet`). Tasks under way beside a removal are excepted, for the
  removal may have looked before they wrote (`Crossing`);
* `KeysInv`: a task key that lives is in the index of its session or about to be
  deleted (`KeysListed`, `KeysRemoved`); each thing a deletion has to remove is gone,
  or left to a command that this or another removal still has to run (`DeletingOK`);
  and once it has replied, the same without it (`DeletedOK`). Other removals count
  because two deletions, or a deletion and a clean-up, share the work: whichever
  comes second finds the key gone, but not yet the entry in the index.

Assumptions of each module are the named ASSUMEs about its constants. `ToolOutcome`
enters `ConversationProofs` only as a step that leaves the thread alone.

Every invariant and every action property of the passing runs is stated by a theorem,
under the conditions named above. Only model-checked is liveness (CallsEnd,
CompensationCompletes, TurnEnds, TaskSettles, TabAnswered, TabSettles): fairness and
ENABLED are beyond the prover.

## 5 What the checks found

| Run | What the code does |
|---|---|
| SandboxOversell | `request_refund` looks only at the payment. A one-night order cancelled late keeps its payment captured, and refunding it releases its night again |
| GraphHiddenFailure | a failed write with another call queued behind it leaves no execution_error, and the task is reported completed, where `docs/architecture.md:48,60` sends every write to Finalize |
| LifecycleTwoDecisions | check and set of `resume` are separate commands: two resumptions of one interruption, by two buttons of one tab or by two tabs, are both queued, and the second answers the next approval unseen |
| WorkspaceLostAnswer | a session opened while its task runs counts the task as displayed (`web/service.py:81`); the poll that learns the answer does not add it to the chat |
| SessionStoreDeleteReturns | a session deleted while a worker runs it comes back: checkpoint, task key and mapping are written again |

Found by the models too and left without a run of their own:

* If the update after a recorded refund raises (`travel/service.py:257`), the order
  is confirmed again with its refund on file and can be refunded again. This is
  why RefundsWithinTotal is stated for runs without a fault.
* A process that dies between capture and compensation (`service.py:178`) leaves
  the money captured, and a replayed confirmation does not resume the saga;
  CompensationCompletes says so in its statement.
* A process that dies between a pending status and the step after it
  (`service.py:217`) leaves an order that can be neither changed nor cancelled, and a
  failure between the final status and the release (`service.py:260`) loses its nights:
  PendingOnlyInFlight and InventoryExact are stated for runs without a fault.
* Two workers on one order break StatusPaymentAgree and RefundsWithinTotal: a call goes
  on from the order it read, and `update_order` (`repository.py:417`) compares nothing.
  A date change that begins before a refund is recorded as such puts a refunded order
  into change_pending.
* A date change keeps the total of the old stay, however long the new one is
  (`repository.py:499`).
* An oversized question is part of the input for RecentTurns turns, and key facts for
  ever: either may block a thread (see OldTurnsMakeRoom).
* PENDING is written after the message is queued (`application/services.py:77`) and
  can overwrite the worker's result in the task key; the task listing then says
  pending until the key expires.
* Reading a detail sets the reference's last page to nothing (`agent/graph.py:695`),
  so the page the prompt at `graph.py:50` counts on is lost; PagesInOrder is about
  pages turned one by one.
* A 29 February without a year is not resolved when neither this year nor the next
  has one, nor when only the check-out's first year lacks it (`clock.py:65`,
  `clock.py:96`).

In the tab:

* a callback that returns after another one wrote the state puts its own snapshot
  back, and with it the old task or session (`raced` in the properties);
* a poll that fails marks the task as an error, which lets the user send a second
  request while the first still runs on the same thread (OneTaskAtATime holds
  only without mishaps);
* a session that fails to load leaves the picker on it and the chat on the old one;
* deleting a session leaves its approval card on the screen;
* a decision whose API call seems to fail leaves the card and the status as they
  were (`web/app.py:877`). The call may have been taken: sent again, the decision
  answers the next approval of the task, which nobody has seen, because
  `/agent/resume` does not name the approval (DecidedAsShown holds only without
  mishaps);
* nor does a second button pressed before the first callback returns: the card stays
  until then, and the second decision answers the next approval (DecidedAsShown is
  about decisions sent while no other is on its way).

In the store:

* once the rows of a session have expired, its checkpoint and artifacts can no
  longer be deleted: the deletion answers 404 first;
* a clean-up beside a deletion may leave a task key until it expires, and a run
  longer than the time to live writes a mapping without a row.

Seen while modelling and not stated as properties, for the repository's rules
leave room: a second task of the same user can confirm an accepted quote again
(its key differs); cancelling on the day before check-in always costs a night,
although the policy text names 18:00 (the code's clock has no hours); after a
write with calls queued behind it the specialist is asked to plan again
(`docs/architecture.md:60` says otherwise); with one-night stays an order goes from
cancelled to refunded, by the same cause as SandboxOversell; a worker's crash
leaves its session running for ever; the calls behind a handoff or a feedback
stay without a tool message when the model is called again (CallsAnswered allows
these and no others); a task id used for a second turn loses trace events, whose
sequence starts at one again.

## 6 What is not modelled

* `travel`: complaints and hotel search (an insert nothing reads, a query), trace
  events and metrics, the in-memory repository of the tests.
* graph: routing rules, prompts and workflow fields, which no property refers to;
  two workers on one checkpoint thread at once.
* context: texts, and with them the merging of equal key facts; the token estimate,
  which is a size per message, and its scaling by the usage a model reported.
* artifacts: the namespace of user and session in the store, which keeps other
  sessions' results out of reach (`artifacts.py`): one session is modelled.
* store: scans over all users, a process that dies between SADD and EXPIRE, and
  the clock skew between keys written in one tick.
* workspace: a reload between the start of a callback and what its API call does, the
  layout, the inspector, the memory form, switching users, the login that fails, more
  than one tab (for which see `TaskLifecycle`).
* long-term memory and the MCP client: one read or write of a namespace, and a
  library call.
* evaluation: an offline, sequential scorer over a fixed data set; observability:
  redaction of strings; infrastructure, scripts: configuration, pools and clients
  without a protocol of their own; HTTP routes: validation and response models.

## 7 The plan

1. `HotelSandbox`, because money and rooms are at stake. Done, with proofs.
2. `AgentGraph` with the abstract `ApprovalGate`. Done.
3. `TaskLifecycle`. Done for invoke, resume, polling and crashes.
4. Proofs about `AgentGraph`, with the refinement of `ApprovalGate`. Done.
5. `Conversation` with `ToolArtifacts` and `TravelDates`, and proofs about it. Done.
6. `SessionStore`: deletions racing a worker, expiry. Done.
7. `Workspace`: overlapping callbacks, lost API calls. Done.
8. Further proofs: rooms and refunds for one worker, `TaskLifecycle`, `Workspace`,
   `ToolArtifacts`, `SessionStore`, inputs that do not fit, dates, payments under
   several workers. Done.
9. `AgentGraph` under `TaskLifecycle`, for resumptions that run a failed node again.

## 8 Running everything

    tlc -workers 2 -config SandboxSolo.cfg MCHotelSandbox     (and so on)
    tlapm HotelSandboxProofs.tla
    tlapm AgentGraphProofs.tla
    tlapm ConversationProofs.tla      (and so on)

The longest runs, GraphTurns and WorkspaceTab, take two to three minutes, Conversation
and the others about one or less. The proofs of a module take from half a minute to
three minutes.

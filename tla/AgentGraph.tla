------------------------------ MODULE AgentGraph ------------------------------
(***************************************************************************)
(* The LangGraph workflow of agent/graph.py: one conversation thread,      *)
(* executed node by node, its state saved after each node.  A turn starts  *)
(* with the input of agent/runtime.py and ends, fails, or waits for a      *)
(* human in the approval node.                                             *)
(*                                                                         *)
(* The language model is an environment: it may ask for any calls of the   *)
(* tools it was given and for tools it made up.  Message text, workflow    *)
(* fields and trace events are left out; a message is the tool calls it    *)
(* asks for.                                                               *)
(***************************************************************************)
EXTENDS Integers, Sequences, FiniteSets

CONSTANTS
    Roles,        \* the specialists
    Reads,        \* read-only tools other than handoffs
    Writes,       \* transaction and destructive tools
    Handoffs,     \* handoff tools
    Toolbox,      \* Toolbox[r]: the tools of role r
    Target,       \* Target[h]: the role that handoff tool h leads to
    Args,         \* tool arguments
    Forged,       \* tools a model may ask for without having been given them
    MaxReads,     \* max_read_only_tool_calls_per_agent
    MaxHandoffs,  \* max_handoffs_per_task
    MaxCalls,     \* bound: calls per model message
    MaxWrites,    \* bound: writes a human agrees to
    MaxTurns,     \* bound: turns of the conversation
    None          \* Python None

Tools == Reads \cup Writes \cup Handoffs

ASSUME KindAssumption ==
    Reads \cap Writes = {} /\ Reads \cap Handoffs = {} /\ Writes \cap Handoffs = {}
ASSUME ToolboxAssumption == Toolbox \in [Roles -> SUBSET Tools]
ASSUME TargetAssumption  == Target \in [Handoffs -> Roles]
ASSUME ForgedAssumption  == Forged \subseteq Tools
ASSUME LimitAssumption   ==
    MaxReads \in Nat /\ MaxHandoffs \in Nat /\ MaxCalls \in Nat
    /\ MaxWrites \in Nat /\ MaxTurns \in Nat

VARIABLES
    node,       \* the node to execute next, or where the turn stopped
    active,     \* active_agent
    said,       \* the latest AI message: who wrote it, which calls it asks for
    queue,      \* tool_call_queue
    pending,    \* pending_approval: the call about to be executed, or None
    decision,   \* approval_decision
    history,    \* tool_call_history: fingerprints of the reads executed
    counts,     \* tool_call_counts
    handoffs,   \* Len(handoff_history)
    exhausted,  \* travel_workflow["tool_budget_exhausted_agent"], or None
    final,      \* final_response is set
    error,      \* execution_error is set
    performed,  \* the write calls the domain service was asked to perform
    failures,   \* how many of those raised
    turns       \* turns begun

flow   == <<active, said, queue, pending, decision>>
limits == <<history, counts, handoffs, exhausted>>
result == <<final, error>>
world  == <<performed, failures, turns>>
vars   == <<node, flow, limits, result, world>>

Call    == [tool : Tools, args : Args]
Pending == [tool : Tools, args : Args, role : Roles]
Read    == [role : Roles, tool : Tools, args : Args]

ASSUME NoneAssumption == None \notin Roles \cup Pending \cup Call \cup Args

Nodes   == {"context", "supervisor", "specialist", "prepare_tool", "approval",
            "execute", "reject", "feedback", "finalize", "end", "failed"}
Stopped == {"approval", "end", "failed"}

Undecided == [type |-> "internal", args |-> None]
Agreed    == {"accept", "edit"}

-----------------------------------------------------------------------------
(* A turn begins: runtime.py resets everything but the messages.  It may   *)
(* come while the previous turn still waits for its approval.              *)

InvokeKeepsQueueMutant ==
    /\ node \in Stopped /\ turns < MaxTurns
    /\ node' = "context" /\ active' = "supervisor"
    /\ pending' = None /\ decision' = Undecided
    /\ history' = <<>> /\ counts' = [r \in Roles |-> 0]
    /\ handoffs' = 0 /\ exhausted' = None
    /\ final' = FALSE /\ error' = FALSE
    /\ turns' = turns + 1
    /\ UNCHANGED <<said, queue, performed, failures>>

Invoke ==
    /\ node \in Stopped /\ turns < MaxTurns
    /\ node' = "context" /\ active' = "supervisor"
    /\ queue' = <<>> /\ pending' = None /\ decision' = Undecided
    /\ history' = <<>> /\ counts' = [r \in Roles |-> 0]
    /\ handoffs' = 0 /\ exhausted' = None
    /\ final' = FALSE /\ error' = FALSE
    /\ turns' = turns + 1
    /\ UNCHANGED <<said, performed, failures>>

Context ==
    /\ node = "context" /\ node' = "supervisor"
    /\ UNCHANGED <<flow, limits, result, world>>

(* The supervisor routes to a specialist, or answers itself.               *)
Supervisor ==
    /\ node = "supervisor"
    /\ \/ \E r \in Roles : active' = r /\ node' = "specialist" /\ UNCHANGED <<said, final>>
       \/ /\ active' = "direct" /\ node' = "finalize"
          /\ said' = [by |-> "direct", calls |-> <<>>] /\ final' = TRUE
    /\ UNCHANGED <<queue, pending, decision, limits, error, world>>

(* A specialist whose read budget is used up is only given its handoffs.   *)
OfferedMutant(r) == Toolbox[r]

Offered(r) == IF exhausted = r THEN Toolbox[r] \cap Handoffs ELSE Toolbox[r]

Messages(tools) ==
    UNION {[1 .. n -> [tool : tools, args : Args]] : n \in 0 .. MaxCalls}

Specialist ==
    /\ node = "specialist"
    /\ \E calls \in Messages(Offered(active) \cup Forged) :
         /\ said' = [by |-> active, calls |-> calls]
         /\ node' = IF calls = <<>> THEN "finalize" ELSE "prepare_tool"
         /\ final' = (final \/ calls = <<>>)
    /\ UNCHANGED <<active, queue, pending, decision, limits, error, world>>

-----------------------------------------------------------------------------
(* prepare_tool: the next call of the queue, or the first of the latest    *)
(* message.  A tool that is not the role's raises PermissionError.         *)

Todo == IF queue = <<>> THEN said.calls ELSE queue

RoutePreparedMutant(tool) == "execute"

RoutePrepared(tool) == IF tool \in Writes THEN "approval" ELSE "execute"

PrepareKeepsDecisionMutant ==
    /\ node = "prepare_tool" /\ Todo # <<>>
    /\ Head(Todo).tool \in Toolbox[active]
    /\ pending' = [tool |-> Head(Todo).tool, args |-> Head(Todo).args, role |-> active]
    /\ queue' = Tail(Todo)
    /\ node' = RoutePrepared(Head(Todo).tool)
    /\ UNCHANGED <<active, said, decision, limits, result, world>>

PrepareTool ==
    /\ node = "prepare_tool" /\ Todo # <<>>
    /\ Head(Todo).tool \in Toolbox[active]
    /\ pending' = [tool |-> Head(Todo).tool, args |-> Head(Todo).args, role |-> active]
    /\ queue' = Tail(Todo)
    /\ decision' = Undecided
    /\ node' = RoutePrepared(Head(Todo).tool)
    /\ UNCHANGED <<active, said, limits, result, world>>

RefuseTool ==
    /\ node = "prepare_tool" /\ Todo # <<>>
    /\ Head(Todo).tool \notin Toolbox[active]
    /\ node' = "failed"
    /\ UNCHANGED <<flow, limits, result, world>>

-----------------------------------------------------------------------------
(* approval: the graph waits for a human.  An edit carries new arguments;  *)
(* None stands for arguments that are not a JSON object.                   *)

RouteApproval(type) ==
    CASE type \in Agreed   -> "execute"
      [] type = "reject"   -> "reject"
      [] OTHER             -> "feedback"

Answer(type, args) ==
    /\ node = "approval"
    /\ type \in Agreed => Len(performed) < MaxWrites              \* bound
    /\ decision' = [type |-> type, args |-> args]
    /\ node' = RouteApproval(type)
    /\ UNCHANGED <<active, said, queue, pending, limits, result, world>>

Resume ==
    \/ \E type \in {"accept", "reject", "response"} : Answer(type, None)
    \/ \E args \in Args \cup {None} : Answer("edit", args)

-----------------------------------------------------------------------------
(* execute.                                                                *)

Effective == IF decision.type = "edit" THEN decision.args ELSE pending.args

Executing(kind) == node = "execute" /\ pending.tool \in kind

Fingerprint == [role |-> pending.role, tool |-> pending.tool, args |-> Effective]

DuplicateCallMutant == FALSE

DuplicateCall == \E i \in 1 .. Len(history) : history[i] = Fingerprint

BudgetExhaustedMutant == counts[pending.role] > MaxReads

BudgetExhausted == counts[pending.role] >= MaxReads

RouteAfterExecute(done, rest) ==
    IF done THEN "finalize" ELSE IF rest # <<>> THEN "prepare_tool" ELSE "specialist"

(* Edited arguments that are not an object raise ValueError.               *)
BadEdit ==
    /\ node = "execute" /\ Effective = None
    /\ node' = "failed"
    /\ UNCHANGED <<flow, limits, result, world>>

SkipRead ==
    /\ Executing(Reads) /\ Effective # None
    /\ DuplicateCall \/ BudgetExhausted
    /\ exhausted' = pending.role
    /\ pending' = None
    /\ node' = RouteAfterExecute(final, queue)
    /\ UNCHANGED <<active, said, queue, decision, history, counts, handoffs, result, world>>

(* A read that raises counts like one that succeeds.                       *)
RunRead ==
    /\ Executing(Reads) /\ Effective # None
    /\ ~DuplicateCall /\ ~BudgetExhausted
    /\ history' = Append(history, Fingerprint)
    /\ counts' = [counts EXCEPT ![pending.role] = @ + 1]
    /\ pending' = None
    /\ node' = RouteAfterExecute(final, queue)
    /\ UNCHANGED <<active, said, queue, decision, handoffs, exhausted, result, world>>

HandOff ==
    /\ Executing(Handoffs) /\ Effective # None
    /\ handoffs < MaxHandoffs
    /\ handoffs' = handoffs + 1
    /\ active' = Target[pending.tool]
    /\ pending' = None /\ queue' = <<>>
    /\ node' = RouteAfterExecute(final, <<>>)
    /\ UNCHANGED <<said, decision, history, counts, exhausted, result, world>>

HandoffLimit ==
    /\ Executing(Handoffs) /\ Effective # None
    /\ handoffs >= MaxHandoffs
    /\ said' = [by |-> pending.role, calls |-> <<>>]
    /\ final' = TRUE
    /\ pending' = None /\ queue' = <<>>
    /\ node' = RouteAfterExecute(TRUE, <<>>)
    /\ UNCHANGED <<active, decision, limits, error, world>>

(* A write ends the turn unless more calls are queued; only then is its    *)
(* failure kept as the turn's execution_error.                             *)
RunWrite(raised) ==
    LET last == queue = <<>>
    IN  /\ Executing(Writes) /\ Effective # None
        /\ performed' = Append(performed, [tool |-> pending.tool, args |-> Effective])
        /\ failures' = IF raised THEN failures + 1 ELSE failures
        /\ said' = IF last THEN [by |-> pending.role, calls |-> <<>>] ELSE said
        /\ final' = (final \/ last)
        /\ error' = IF last THEN raised ELSE error
        /\ pending' = None
        /\ node' = RouteAfterExecute(final', queue)
        /\ UNCHANGED <<active, queue, decision, limits, turns>>

(* The tool ran, and then writing the trace event of its completion raised *)
(* outside the try that turns a failing tool into a message.               *)
WriteThenFail ==
    /\ Executing(Writes) /\ Effective # None
    /\ performed' = Append(performed, [tool |-> pending.tool, args |-> Effective])
    /\ node' = "failed"
    /\ UNCHANGED <<flow, limits, result, failures, turns>>

-----------------------------------------------------------------------------

Reject ==
    /\ node = "reject"
    /\ said' = [by |-> pending.role, calls |-> <<>>]
    /\ pending' = None /\ queue' = <<>>
    /\ final' = TRUE
    /\ node' = "finalize"
    /\ UNCHANGED <<active, decision, limits, error, world>>

Feedback ==
    /\ node = "feedback"
    /\ pending' = None /\ queue' = <<>>
    /\ node' = "specialist"
    /\ UNCHANGED <<active, said, decision, limits, result, world>>

Finalize ==
    /\ node = "finalize" /\ node' = "end"
    /\ UNCHANGED <<flow, limits, result, world>>

(* A node raises before it changed anything: the model, the database, the  *)
(* context limit or the recursion limit of runtime.py.                     *)
NodeFails ==
    /\ node \notin Stopped /\ node' = "failed"
    /\ UNCHANGED <<flow, limits, result, world>>

-----------------------------------------------------------------------------

Init ==
    /\ node = "end" /\ active = "supervisor"
    /\ said = [by |-> "direct", calls |-> <<>>]
    /\ queue = <<>> /\ pending = None /\ decision = Undecided
    /\ history = <<>> /\ counts = [r \in Roles |-> 0]
    /\ handoffs = 0 /\ exhausted = None
    /\ final = FALSE /\ error = FALSE
    /\ performed = <<>> /\ failures = 0 /\ turns = 0

Execute ==
    \/ BadEdit \/ SkipRead \/ RunRead \/ HandOff \/ HandoffLimit
    \/ \E raised \in BOOLEAN : RunWrite(raised)

GraphStep ==
    \/ Context \/ Supervisor \/ Specialist
    \/ PrepareTool \/ RefuseTool
    \/ Execute
    \/ Reject \/ Feedback \/ Finalize

Next == Invoke \/ Resume \/ GraphStep \/ WriteThenFail \/ NodeFails

Spec == Init /\ [][Next]_vars

(* ainvoke runs the graph until it ends, fails or is interrupted.  Humans  *)
(* owe it neither answers nor new requests.                                *)
FairSpec == Spec /\ WF_vars(GraphStep)

-----------------------------------------------------------------------------
(* Properties.                                                             *)

(* Every channel of the graph state has its type.                          *)
TypeOK ==
    /\ node \in Nodes
    /\ active \in Roles \cup {"supervisor", "direct"}
    /\ said \in [by : Roles \cup {"direct"}, calls : Seq(Call)]
    /\ queue \in Seq(Call)
    /\ pending \in Pending \cup {None}
    /\ decision \in [type : {"internal", "accept", "edit", "reject", "response"},
                     args : Args \cup {None}]
    /\ history \in Seq(Read)
    /\ counts \in [Roles -> 0 .. MaxReads]
    /\ handoffs \in 0 .. MaxHandoffs
    /\ exhausted \in Roles \cup {None}
    /\ final \in BOOLEAN /\ error \in BOOLEAN
    /\ performed \in Seq(Call)
    /\ failures \in Nat /\ turns \in Nat

(* What is about to be executed, and what is queued behind it, comes from  *)
(* the latest message of the active agent: a handoff, a feedback or a new  *)
(* turn never leaves another agent's or an older message's calls behind.   *)
Outstanding ==
    IF pending = None THEN queue
    ELSE <<[tool |-> pending.tool, args |-> pending.args]>> \o queue

CallsAreCurrent ==
    /\ pending # None \/ queue # <<>> =>
         /\ said.by = active
         /\ \E n \in 0 .. Len(said.calls) :
              Outstanding = SubSeq(said.calls, n + 1, Len(said.calls))
    /\ pending # None => pending.role = active

(* No role executes the same read twice in a turn, and its counter is the  *)
(* number of reads it executed, which never exceeds the budget.            *)
ReadsBounded ==
    /\ \A i, j \in 1 .. Len(history) : history[i] = history[j] => i = j
    /\ \A r \in Roles :
         /\ counts[r] = Cardinality({i \in 1 .. Len(history) : history[i].role = r})
         /\ counts[r] <= MaxReads

(* A read runs with the arguments its agent asked for: an edit a human     *)
(* made to one call is never applied to the next one.                      *)
ReadsAsAsked ==
    [][history' # history /\ history' # <<>> =>
         LET r == history'[Len(history')]
         IN  r.role = said.by
             /\ \E i \in 1 .. Len(said.calls) :
                  said.calls[i] = [tool |-> r.tool, args |-> r.args]]_vars

(* Writes pass the approval gate: what the graph shows, has been granted   *)
(* and performs is a behaviour of ApprovalGate.                            *)
AsCall(args) == [tool |-> pending.tool, args |-> args]

Shown == IF node = "approval" THEN AsCall(pending.args) ELSE None

Agreement == IF decision.type = "accept" THEN pending.args ELSE decision.args

Granted ==
    IF /\ node = "execute" /\ pending.tool \in Writes
       /\ decision.type \in Agreed /\ Agreement # None
    THEN AsCall(Agreement) ELSE None

Gate == INSTANCE ApprovalGate
    WITH Tool <- Writes, Arg <- Args, shown <- Shown, granted <- Granted

GateSpec == Gate!Spec

(* Every turn ends, fails or asks a human, however long the models would   *)
(* like to go on: reads are budgeted and handoffs are counted.             *)
TurnEnds == node \notin Stopped ~> node \in Stopped

(* A write whose tool failed is not reported as a completed task.          *)
FailureReported == node = "end" /\ failures > 0 => error

=============================================================================

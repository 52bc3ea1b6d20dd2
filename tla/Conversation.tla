------------------------------ MODULE Conversation ------------------------------
(***************************************************************************)
(* The messages of one conversation thread: what agent/graph.py appends to *)
(* them, and how agent/context.py folds the older turns into a summary.    *)
(* The checkpoint keeps every message; the model is given the summary and  *)
(* the messages after the cursor.  Texts are left out: a message is its    *)
(* kind, the tool calls it asks for or the one it answers, and its size.   *)
(***************************************************************************)
EXTENDS ToolArtifacts, Functions

CONSTANTS
    RecentTurns,  \* context_recent_turns
    Trigger,      \* model_context_window_tokens * context_compression_ratio
    MaxInput,     \* model_max_input_tokens
    Prompts,      \* tokens of all that is not conversation: prompts, plan, tools
    RoleExtras,   \* what a role's prompt and tools add to that, or take off
    Sizes,        \* tokens a message may have
    Summaries,    \* tokens a summary may have
    NewFacts,     \* tokens that a digest may add to the key facts
    MaxFacts,     \* bound: tokens of the key facts
    MaxCalls,     \* bound: tool calls of a message
    MaxMessages   \* bound: messages of the thread

ASSUME RecentAssumption == RecentTurns \in Nat \ {0}
ASSUME SizeAssumption ==
    /\ Trigger \in Nat /\ MaxInput \in Nat /\ Prompts \subseteq Nat /\ RoleExtras \subseteq Int
    /\ Sizes \subseteq Nat /\ Summaries \subseteq Nat /\ NewFacts \subseteq Nat
    /\ MaxFacts \in Nat /\ MaxCalls \in Nat /\ MaxMessages \in Nat

VARIABLES
    messages,    \* every message of the thread, oldest first
    cursor,      \* summary_cursor: how many messages the summary stands for
    summary,     \* tokens of conversation_summary
    facts,       \* tokens of key_facts
    merged,      \* merged[i]: how often message i was given to the summariser
    pending,     \* pending_approval: the call being handled, or Unset
    queue,       \* tool_call_queue
    phase,       \* the node to run next, or where the turn stopped
    dropped,     \* calls given up by a handoff, a feedback or an aborted turn
    prompt,      \* tokens of all that is not conversation, in this turn
    badDigest,   \* the summariser failed in this turn
    fresh        \* no specialist has spoken in this turn

foldVars   == <<cursor, summary, facts>>
threadVars == <<messages, merged, foldVars>>
callVars   == <<pending, queue, dropped>>
turnVars   == <<prompt, badDigest, fresh>>
vars == <<threadVars, callVars, turnVars, phase, artifactVars>>

Call     == Nat \X Nat          \* <<i, k>>: the k-th call of message i
Message  == [kind : {"human", "ai", "tool"}, calls : Nat, answers : Call \cup {Unset},
             size : Nat]
Pending  == [call : Call, gated : BOOLEAN]
Stopped  == {"idle", "approval", "failed"}

ASSUME NoneAssumption == Unset \notin Call \cup Pending

Human(size)   == [kind |-> "human", calls |-> 0, answers |-> Unset, size |-> size]
Ai(n, size)   == [kind |-> "ai", calls |-> n, answers |-> Unset, size |-> size]
Tool(c, size) == [kind |-> "tool", calls |-> 0, answers |-> c, size |-> size]

Room(n) == Len(messages) + n <= MaxMessages                       \* bound

-----------------------------------------------------------------------------
(* context.py.  A turn begins at a human message, so a message is followed *)
(* by as many turns as human messages.                                     *)

HumansIn(from, to) == {i \in from .. to : messages[i].kind = "human"}

TurnsAfter(i) == Cardinality(HumansIn(i + 1, Len(messages)))

SameTurn(i, j) == HumansIn(Min({i, j}) + 1, Max({i, j})) = {}

Mentions(i, c) == messages[i].answers = c \/ (messages[i].kind = "ai" /\ i = c[1])

(* A turn that mentions the call under approval is left alone.             *)
TurnIsPending(i) ==
    /\ pending # Unset
    /\ \E j \in cursor + 1 .. Len(messages) : SameTurn(i, j) /\ Mentions(j, pending.call)

CandidatesSplitMutant == {i \in cursor + 1 .. Len(messages) : Len(messages) - i >= RecentTurns}

CandidatesLateMutant == {i \in cursor + 1 .. Len(messages) : TurnsAfter(i) > RecentTurns}

Candidates ==
    {i \in cursor + 1 .. Len(messages) : TurnsAfter(i) >= RecentTurns /\ ~TurnIsPending(i)}

(* Tokens of build_model_input: the summary, all the facts, and every      *)
(* message after the cursor.                                               *)
Load ==
    LET size == [i \in 1 .. Len(messages) |-> messages[i].size]
    IN  prompt + summary + facts + SumFunctionOnSet(size, cursor + 1 .. Len(messages))

Calls == UNION {{<<i, k>> : k \in 1 .. messages[i].calls} : i \in 1 .. Len(messages)}

Answers(c) == {i \in 1 .. Len(messages) : messages[i].answers = c}

Unanswered == {c \in Calls : Answers(c) = {}}

-----------------------------------------------------------------------------
(* A user's message starts a turn; runtime.py clears the calls in hand.  A *)
(* turn that waits for a human or failed is abandoned with its calls.      *)

StartTurn ==
    /\ phase \in Stopped /\ Room(1)
    /\ \E size \in Sizes : messages' = Append(messages, Human(size))
    /\ merged' = Append(merged, 0)
    /\ prompt' \in Prompts /\ badDigest' = FALSE /\ fresh' = TRUE
    /\ dropped' = IF phase = "idle" THEN dropped ELSE dropped \cup Unanswered
    /\ phase' = "context"
    /\ UNCHANGED <<foldVars, artifactVars>>

InvokeKeepsPendingMutant == StartTurn /\ queue' = <<>> /\ UNCHANGED pending

Invoke == StartTurn /\ pending' = Unset /\ queue' = <<>>

(* compress_context: below the trigger, with no old turn, or when the      *)
(* summariser fails, the context stays as it is.                           *)
KeepContext ==
    /\ phase = "context"
    /\ badDigest' = (Load >= Trigger /\ Candidates # {})
    /\ phase' = "supervisor"
    /\ UNCHANGED <<threadVars, callVars, prompt, fresh, artifactVars>>

(* A digest replaces the summary; its facts are added to those on file.    *)
CompressContext ==
    /\ phase = "context" /\ Load >= Trigger /\ Candidates # {}
    /\ cursor' = Max(Candidates)
    /\ summary' \in Summaries
    /\ \E new \in NewFacts : facts + new <= MaxFacts /\ facts' = facts + new   \* bound
    /\ merged' = [i \in 1 .. Len(messages) |->
                    IF i \in Candidates THEN merged[i] + 1 ELSE merged[i]]
    /\ phase' = "supervisor"
    /\ UNCHANGED <<messages, callVars, turnVars, artifactVars>>

Supervisor ==
    /\ phase = "supervisor"
    /\ \/ phase' = "specialist" /\ UNCHANGED <<messages, merged>>
       \/ /\ Room(1)
          /\ \E size \in Sizes : messages' = Append(messages, Ai(0, size))
          /\ merged' = Append(merged, 0)
          /\ phase' = "idle"
    /\ UNCHANGED <<foldVars, callVars, turnVars, artifactVars>>

(* ContextWindowExceeded: the input does not fit, the turn fails.          *)
DoesNotFit ==
    /\ phase = "specialist"
    /\ \E extra \in RoleExtras : Load + extra > MaxInput
    /\ phase' = "failed"
    /\ UNCHANGED <<threadVars, callVars, turnVars, artifactVars>>

Specialist ==
    /\ phase = "specialist" /\ Room(1)
    /\ \E extra \in RoleExtras : Load + extra <= MaxInput
    /\ \E n \in 0 .. MaxCalls, size \in Sizes :
         /\ messages' = Append(messages, Ai(n, size))
         /\ phase' = IF n = 0 THEN "idle" ELSE "prepare_tool"
    /\ merged' = Append(merged, 0)
    /\ fresh' = FALSE
    /\ UNCHANGED <<foldVars, callVars, prompt, badDigest, artifactVars>>

-----------------------------------------------------------------------------
(* The tool loop: the calls of the latest message, in order.               *)

LatestAi == Max({i \in 1 .. Len(messages) : messages[i].kind = "ai"})

LatestCalls == [k \in 1 .. messages[LatestAi].calls |-> <<LatestAi, k>>]

Todo == IF queue = <<>> THEN LatestCalls ELSE queue

(* Whether a call waits for a human depends on its tool only.              *)
PrepareTool ==
    /\ phase = "prepare_tool" /\ Todo # <<>>
    /\ \E gated \in BOOLEAN :
         /\ pending' = [call |-> Head(Todo), gated |-> gated]
         /\ phase' = IF gated THEN "approval" ELSE "execute"
    /\ queue' = Tail(Todo)
    /\ UNCHANGED <<threadVars, dropped, turnVars, artifactVars>>

Approve ==
    /\ phase = "approval" /\ phase' = "execute"
    /\ UNCHANGED <<threadVars, callVars, turnVars, artifactVars>>

(* The tool message of the call in hand, alone or with the closing answer, *)
(* which repeats it.                                                       *)
Answer(closing) ==
    \E size \in Sizes :
      LET tool == Tool(pending.call, size)
          new  == IF closing THEN <<tool, Ai(0, size)>> ELSE <<tool>>
      IN  /\ Room(Len(new))
          /\ messages' = messages \o new
          /\ merged' = merged \o [i \in 1 .. Len(new) |-> 0]
          /\ pending' = Unset

RouteAfterExecuteMutant(closing, rest) == IF closing THEN "idle" ELSE "specialist"

RouteAfterExecute(closing, rest) ==
    IF closing THEN "idle" ELSE IF rest = <<>> THEN "specialist" ELSE "prepare_tool"

(* A write ends the turn unless more calls are queued behind it.           *)
Execute ==
    /\ phase = "execute"
    /\ LET closing == pending.gated /\ queue = <<>>
       IN  Answer(closing) /\ phase' = RouteAfterExecute(closing, queue)
    /\ ToolOutcome(pending.gated)
    /\ UNCHANGED <<foldVars, queue, dropped, turnVars>>

(* The calls behind a handoff, a rejected call or a feedback are given up. *)
GiveUpQueue == queue' = <<>> /\ dropped' = dropped \cup {queue[k] : k \in 1 .. Len(queue)}

HandOff ==
    /\ phase = "execute" /\ ~pending.gated
    /\ \E limit \in BOOLEAN :
         Answer(limit) /\ phase' = RouteAfterExecute(limit, <<>>)
    /\ GiveUpQueue
    /\ UNCHANGED <<foldVars, turnVars, artifactVars>>

Reject ==
    /\ phase = "approval" /\ Answer(TRUE) /\ phase' = "idle"
    /\ GiveUpQueue
    /\ UNCHANGED <<foldVars, turnVars, artifactVars>>

Feedback ==
    /\ phase = "approval" /\ Answer(FALSE) /\ phase' = "specialist"
    /\ GiveUpQueue
    /\ UNCHANGED <<foldVars, turnVars, artifactVars>>

(* Any node may raise: the model, the database, a tool the role does not   *)
(* have.                                                                   *)
NodeFails ==
    /\ phase \notin Stopped /\ phase' = "failed"
    /\ UNCHANGED <<threadVars, callVars, turnVars, artifactVars>>

Init ==
    /\ messages = <<>> /\ merged = <<>> /\ cursor = 0 /\ summary = 0 /\ facts = 0
    /\ pending = Unset /\ queue = <<>> /\ phase = "idle" /\ dropped = {}
    /\ prompt = 0 /\ badDigest = FALSE /\ fresh = TRUE
    /\ ArtifactInit

Next ==
    \/ Invoke \/ KeepContext \/ CompressContext \/ Supervisor
    \/ DoesNotFit \/ Specialist
    \/ PrepareTool \/ Approve \/ Execute \/ HandOff \/ Reject \/ Feedback
    \/ NodeFails

Spec == Init /\ [][Next]_vars

-----------------------------------------------------------------------------
(* Properties.                                                             *)

TypeOK ==
    /\ messages \in Seq(Message)
    /\ cursor \in 0 .. Len(messages) /\ summary \in Nat /\ facts \in Nat
    /\ merged \in Seq(Nat) /\ Len(merged) = Len(messages)
    /\ pending \in Pending \cup {Unset} /\ queue \in Seq(Call)
    /\ phase \in Stopped \cup {"context", "supervisor", "specialist", "prepare_tool", "execute"}
    /\ dropped \subseteq Call
    /\ prompt \in Nat /\ badDigest \in BOOLEAN /\ fresh \in BOOLEAN

(* The summary stands for exactly the messages up to the cursor: none of   *)
(* them is missing from it and none was merged into it twice               *)
(* (docs/architecture.md).                                                 *)
MergedOnce == \A i \in 1 .. Len(messages) : merged[i] = IF i <= cursor THEN 1 ELSE 0

(* The summary never takes a call without its tool message or the reverse, *)
(* nor anything of the last RecentTurns turns                              *)
(* (test_compression_never_splits_tool_call_and_tool_message).             *)
WholeTurns ==
    /\ \A i \in 1 .. Len(messages) :
         messages[i].kind = "tool" => (i <= cursor <=> messages[i].answers[1] <= cursor)
    /\ cursor > 0 => TurnsAfter(cursor) >= RecentTurns

(* What the model is shown is a legal exchange: a call has at most one     *)
(* tool message, in its own turn, and has none only if it was given up.    *)
CallsAnswered ==
    /\ \A c \in Calls : Cardinality(Answers(c)) <= 1
    /\ \A i \in 1 .. Len(messages) :
         messages[i].kind = "tool" =>
           messages[i].answers \in Calls /\ messages[i].answers[1] < i
             /\ SameTurn(messages[i].answers[1], i)
    /\ phase = "specialist" => Unanswered \subseteq dropped

(* The first model call of a turn is refused only for what the compression *)
(* has to leave alone: unless its digest just failed, no message older     *)
(* than the last RecentTurns turns is still in an input that does not fit. *)
OldTurnsMakeRoom ==
    /\ phase = "specialist" /\ fresh /\ ~badDigest
    /\ \E extra \in RoleExtras : Load + extra > MaxInput
    => \A i \in cursor + 1 .. Len(messages) : TurnsAfter(i) < RecentTurns

=============================================================================

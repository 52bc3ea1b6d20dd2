-------------------------- MODULE AgentGraphProofs --------------------------
(* Proofs about AgentGraph for any roles, tools, budgets and messages.     *)
EXTENDS AgentGraph, SequenceTheorems, FiniteSetTheorems, TLAPS

(* What each node relies on: which nodes have a pending call, that nothing *)
(* is queued while a model or the supervisor is about to speak, that only  *)
(* a write waits for a human, and that only an agreed write is executed.   *)
Waiting == {"approval", "execute", "reject", "feedback"}

NodesOK ==
    /\ node \in Waiting => pending # None
    /\ node \in Nodes \ (Waiting \cup {"failed"}) => pending = None
    /\ node \in {"context", "supervisor", "specialist"} => queue = <<>>
    /\ node \in {"specialist", "prepare_tool"} => active \in Roles
    /\ node = "prepare_tool" => said.by = active
    /\ node = "approval" => pending.tool \in Writes
    /\ node = "execute" => decision.type \in Agreed \cup {"internal"}
    /\ node = "execute" => (pending.tool \in Writes <=> decision.type \in Agreed)

IInv == TypeOK /\ NodesOK /\ CallsAreCurrent

-----------------------------------------------------------------------------
(* Sequences of calls.                                                     *)

(* Taking the head off a sequence and putting it back.                     *)
LEMMA PutBackHead ==
    ASSUME NEW s \in Seq(Call), s # <<>>
    PROVE  /\ Head(s) \in Call /\ Tail(s) \in Seq(Call)
           /\ <<[tool |-> Head(s).tool, args |-> Head(s).args]>> \o Tail(s) = s
<1>1. /\ Head(s) \in Call /\ Tail(s) \in Seq(Call)
      /\ Len(Tail(s)) = Len(s) - 1 /\ Len(s) \in Nat \ {0}
      /\ \A i \in 1 .. Len(Tail(s)) : Tail(s)[i] = s[i + 1]
  BY HeadTailProperties, EmptySeq
<1>2. [tool |-> Head(s).tool, args |-> Head(s).args] = Head(s)
  BY <1>1 DEF Call
<1>3. Head(s) = s[1]
  BY <1>1
<1>4. <<Head(s)>> \in Seq(Call) /\ Len(<<Head(s)>>) = 1 /\ <<Head(s)>>[1] = Head(s)
  BY <1>1
<1> DEFINE t == <<Head(s)>> \o Tail(s)
<1>5. /\ t \in Seq(Call) /\ Len(t) = Len(s)
      /\ \A i \in 1 .. Len(s) : t[i] = IF i <= 1 THEN <<Head(s)>>[i] ELSE Tail(s)[i - 1]
  BY <1>1, <1>4, ConcatProperties
<1>6. \A i \in 1 .. Len(t) : t[i] = s[i]
  BY <1>1, <1>3, <1>4, <1>5
<1>7. t = s
  BY <1>5, <1>6, SeqEqual
<1> QED
  BY <1>1, <1>2, <1>7

(* The first call of a suffix is the message's next call, and the rest is  *)
(* a suffix too.                                                           *)
LEMMA RestOfSuffix ==
    ASSUME NEW c \in Seq(Call), NEW n \in 0 .. Len(c), NEW x \in Call, NEW q \in Seq(Call),
           <<x>> \o q = SubSeq(c, n + 1, Len(c))
    PROVE  /\ n + 1 \in 1 .. Len(c)
           /\ x = c[n + 1]
           /\ q = SubSeq(c, (n + 1) + 1, Len(c))
<1>1. Len(c) \in Nat /\ \A i \in 1 .. Len(c) : c[i] \in Call
  BY LenProperties, ElementOfSeq
<1>2. <<x>> \in Seq(Call) /\ Len(<<x>>) = 1 /\ <<x>>[1] = x
  OBVIOUS
<1> DEFINE t == SubSeq(c, n + 1, Len(c))
<1>3. /\ t \in Seq(Call)
      /\ Len(t) = 1 + Len(q)
      /\ \A i \in 1 .. 1 + Len(q) : t[i] = IF i <= 1 THEN <<x>>[i] ELSE q[i - 1]
  <2> DEFINE u == <<x>> \o q
  <2>1. /\ u \in Seq(Call)
        /\ Len(u) = Len(<<x>>) + Len(q)
        /\ \A i \in 1 .. Len(<<x>>) + Len(q) :
              u[i] = IF i <= Len(<<x>>) THEN <<x>>[i] ELSE q[i - Len(<<x>>)]
    BY <1>2, ConcatProperties
  <2>2. u = t
    OBVIOUS
  <2> HIDE DEF t, u
  <2> QED
    BY <2>1, <2>2, <1>2
<1>4. Len(q) \in Nat
  BY LenProperties
<1>5. /\ Len(t) = IF n + 1 <= Len(c) THEN Len(c) - (n + 1) + 1 ELSE 0
      /\ \A i \in 1 .. Len(c) - (n + 1) + 1 : t[i] = c[n + 1 + i - 1]
  BY <1>1, SubSeqProperties
<1>6. n + 1 \in 1 .. Len(c) /\ Len(q) = Len(c) - (n + 1)
  BY <1>1, <1>3, <1>4, <1>5
<1>7. x = c[n + 1]
  BY <1>1, <1>2, <1>3, <1>4, <1>5, <1>6
<1> DEFINE r == SubSeq(c, (n + 1) + 1, Len(c))
<1>8. /\ r \in Seq(Call)
      /\ Len(r) = IF (n + 1) + 1 <= Len(c) THEN Len(c) - ((n + 1) + 1) + 1 ELSE 0
      /\ \A i \in 1 .. Len(c) - ((n + 1) + 1) + 1 : r[i] = c[(n + 1) + 1 + i - 1]
  BY <1>1, SubSeqProperties
<1>9. \A i \in 1 .. Len(q) : q[i] = c[n + 1 + i]
  <2> HIDE DEF t
  <2> TAKE i \in 1 .. Len(q)
  <2>0. i + 1 \in 1 .. 1 + Len(q) /\ ~(i + 1 <= 1) /\ (i + 1) - 1 = i
    BY <1>4
  <2>1. t[i + 1] = q[i]
    BY <1>3, <2>0
  <2>2. t[i + 1] = c[n + 1 + (i + 1) - 1]
    BY <1>4, <1>5, <1>6
  <2> QED
    BY <2>1, <2>2, <1>4
<1>10. Len(q) = Len(r) /\ \A i \in 1 .. Len(q) : q[i] = r[i]
  BY <1>1, <1>4, <1>6, <1>8, <1>9
<1>11. q = r
  BY <1>8, <1>10, SeqEqual
<1> QED
  BY <1>6, <1>7, <1>11

(* The whole message is a suffix of itself.                                *)
LEMMA WholeIsSuffix ==
    ASSUME NEW c \in Seq(Call)
    PROVE  \E n \in 0 .. Len(c) : c = SubSeq(c, n + 1, Len(c))
  BY SubSeqFull, LenProperties

-----------------------------------------------------------------------------
(* The invariant.                                                          *)

(* The state a conversation and a turn begin in has the right types.       *)
LEMMA FreshTypes ==
    /\ [r \in Roles |-> 0] \in [Roles -> 0 .. MaxReads]
    /\ 0 \in 0 .. MaxHandoffs
    /\ \A S : <<>> \in Seq(S)
    /\ Undecided \in [type : {"internal", "accept", "edit", "reject", "response"},
                     args : Args \cup {None}]
  BY LimitAssumption DEF Undecided

LEMMA InitIInv == Init => IInv
<1> SUFFICES ASSUME Init PROVE IInv
  OBVIOUS
<1>1. TypeOK
  <2>1. said \in [by : Roles \cup {"direct"}, calls : Seq(Call)]
    BY FreshTypes DEF Init
  <2>2. queue \in Seq(Call) /\ history \in Seq(Read) /\ performed \in Seq(Call)
    BY FreshTypes DEF Init
  <2>3. counts \in [Roles -> 0 .. MaxReads] /\ handoffs \in 0 .. MaxHandoffs
    BY FreshTypes DEF Init
  <2> QED
    BY <2>1, <2>2, <2>3, FreshTypes DEF Init, TypeOK, Nodes
<1>2. NodesOK
  BY DEF Init, NodesOK, Waiting, Nodes
<1>3. CallsAreCurrent
  BY DEF Init, CallsAreCurrent
<1> QED
  BY <1>1, <1>2, <1>3 DEF IInv

(* A turn begins, or the supervisor decides.                               *)
LEMMA BeginStep ==
    ASSUME IInv, Invoke \/ Context \/ Supervisor
    PROVE  IInv'
<1>1. CASE Invoke
  <2>1. TypeOK'
    <3>1. /\ queue' \in Seq(Call) /\ history' \in Seq(Read)
          /\ counts' \in [Roles -> 0 .. MaxReads] /\ handoffs' \in 0 .. MaxHandoffs
          /\ decision' \in [type : {"internal", "accept", "edit", "reject", "response"},
                            args : Args \cup {None}]
      BY <1>1, FreshTypes DEF Invoke
    <3>2. said' = said /\ performed' = performed /\ failures' = failures /\ turns' \in Nat
      BY <1>1 DEF Invoke, IInv, TypeOK
    <3> QED
      BY <1>1, <3>1, <3>2 DEF IInv, TypeOK, Invoke, Nodes
  <2>2. NodesOK' /\ CallsAreCurrent'
    BY <1>1 DEF Invoke, NodesOK, CallsAreCurrent, Waiting, Nodes
  <2> QED
    BY <2>1, <2>2 DEF IInv
<1>2. CASE Context
  BY <1>2 DEF IInv, TypeOK, NodesOK, CallsAreCurrent, Outstanding, Context, Waiting, Nodes,
     flow, limits, result, world
<1>3. CASE Supervisor
  <2>0. node = "supervisor" /\ pending = None /\ queue = <<>>
    BY <1>3 DEF Supervisor, IInv, NodesOK, Waiting, Nodes
  <2>1. TypeOK'
    <3>1. /\ said' \in [by : Roles \cup {"direct"}, calls : Seq(Call)]
          /\ active' \in Roles \cup {"supervisor", "direct"}
          /\ node' \in Nodes /\ final' \in BOOLEAN
      <4>1. CASE \E r \in Roles :
                   active' = r /\ node' = "specialist" /\ UNCHANGED <<said, final>>
        BY <4>1 DEF IInv, TypeOK, Nodes
      <4>2. CASE /\ active' = "direct" /\ node' = "finalize"
                 /\ said' = [by |-> "direct", calls |-> <<>>] /\ final' = TRUE
        BY <4>2, FreshTypes DEF Nodes
      <4> QED
        BY <1>3, <4>1, <4>2 DEF Supervisor
    <3> QED
      BY <1>3, <3>1 DEF IInv, TypeOK, Supervisor, limits, world
  <2>2. NodesOK' /\ CallsAreCurrent'
    BY <1>3, <2>0 DEF Supervisor, NodesOK, CallsAreCurrent, Waiting, Nodes
  <2> QED
    BY <2>1, <2>2 DEF IInv
<1> QED
  BY <1>1, <1>2, <1>3

(* A specialist's message becomes the latest one, with nothing queued.     *)
LEMMA SpecialistStep ==
    ASSUME IInv, Specialist
    PROVE  IInv'
<1>1. node = "specialist" /\ pending = None /\ queue = <<>> /\ active \in Roles
  BY DEF Specialist, IInv, NodesOK, Waiting, Nodes
<1>2. PICK calls \in Messages(Offered(active) \cup Forged) :
        /\ said' = [by |-> active, calls |-> calls]
        /\ node' = IF calls = <<>> THEN "finalize" ELSE "prepare_tool"
        /\ final' = (final \/ calls = <<>>)
  BY DEF Specialist
<1>3. Offered(active) \cup Forged \subseteq Tools
  BY <1>1, ToolboxAssumption, ForgedAssumption DEF Offered
<1>4. calls \in Seq(Call)
  <2>1. PICK n \in 0 .. MaxCalls :
          calls \in [1 .. n -> [tool : Offered(active) \cup Forged, args : Args]]
    BY DEF Messages
  <2>2. calls \in [1 .. n -> Call] /\ n \in Nat
    BY <1>3, <2>1, LimitAssumption DEF Call
  <2> QED
    BY <2>2, SeqDef
<1>5. UNCHANGED <<active, queue, pending, decision, limits, error, world>>
  BY DEF Specialist
<1>6. TypeOK'
  BY <1>1, <1>2, <1>4, <1>5 DEF IInv, TypeOK, Nodes, limits, world
<1>7. NodesOK' /\ CallsAreCurrent'
  BY <1>1, <1>2, <1>5 DEF NodesOK, CallsAreCurrent, Waiting, Nodes
<1> QED
  BY <1>6, <1>7 DEF IInv

(* The next call becomes the pending one.                                  *)
LEMMA PrepareStep ==
    ASSUME IInv, PrepareTool \/ RefuseTool
    PROVE  IInv'
<1>1. CASE PrepareTool
  <2>1. /\ node = "prepare_tool" /\ Todo # <<>>
        /\ pending' = [tool |-> Head(Todo).tool, args |-> Head(Todo).args, role |-> active]
        /\ queue' = Tail(Todo) /\ decision' = Undecided
        /\ node' = RoutePrepared(Head(Todo).tool)
        /\ UNCHANGED <<active, said, limits, result, world>>
    BY <1>1 DEF PrepareTool
  <2>2. pending = None /\ active \in Roles /\ said.by = active
    BY <2>1 DEF IInv, NodesOK, Waiting, Nodes
  <2>3. Todo \in Seq(Call) /\ said.calls \in Seq(Call)
    BY DEF IInv, TypeOK, Todo
  <2>4. /\ Head(Todo) \in Call /\ Tail(Todo) \in Seq(Call)
        /\ <<[tool |-> Head(Todo).tool, args |-> Head(Todo).args]>> \o Tail(Todo) = Todo
    BY <2>1, <2>3, PutBackHead
  <2>5. pending' \in Pending /\ pending' # None
    BY <2>1, <2>2, <2>4, NoneAssumption DEF Pending, Call
  <2>6. \E n \in 0 .. Len(said.calls) : Todo = SubSeq(said.calls, n + 1, Len(said.calls))
    BY <2>2, <2>3, WholeIsSuffix DEF IInv, CallsAreCurrent, Outstanding, Todo
  <2>7. Outstanding' = Todo
    BY <2>1, <2>4, <2>5 DEF Outstanding
  <2>8. CallsAreCurrent'
    BY <2>1, <2>2, <2>6, <2>7 DEF CallsAreCurrent
  <2>9. TypeOK'
    BY <2>1, <2>4, <2>5 DEF IInv, TypeOK, Nodes, RoutePrepared, Undecided, limits, result,
       world
  <2>10. NodesOK'
    BY <2>1, <2>2, <2>5 DEF NodesOK, RoutePrepared, Undecided, Agreed, Waiting, Nodes
  <2> QED
    BY <2>8, <2>9, <2>10 DEF IInv
<1>2. CASE RefuseTool
  BY <1>2 DEF IInv, TypeOK, NodesOK, CallsAreCurrent, Outstanding, RefuseTool, Waiting,
     Nodes, flow, limits, result, world
<1> QED
  BY <1>1, <1>2

(* The human's answer.                                                     *)
LEMMA AnswerStep ==
    ASSUME IInv, Resume
    PROVE  IInv'
<1>1. PICK type \in {"accept", "edit", "reject", "response"}, args \in Args \cup {None} :
        Answer(type, args)
  BY DEF Resume
<1>2. /\ node = "approval" /\ decision' = [type |-> type, args |-> args]
      /\ node' = RouteApproval(type)
      /\ UNCHANGED <<active, said, queue, pending, limits, result, world>>
  BY <1>1 DEF Answer
<1>3. RouteApproval(type) = IF type \in Agreed THEN "execute"
                           ELSE IF type = "reject" THEN "reject" ELSE "feedback"
  BY DEF RouteApproval, Agreed
<1>4. TypeOK'
  BY <1>2, <1>3 DEF IInv, TypeOK, Nodes, limits, result, world
<1>5. NodesOK'
  BY <1>2, <1>3 DEF IInv, NodesOK, Waiting, Nodes, Agreed
<1>6. CallsAreCurrent'
  BY <1>2 DEF IInv, CallsAreCurrent, Outstanding
<1> QED
  BY <1>4, <1>5, <1>6 DEF IInv

-----------------------------------------------------------------------------
(* Execution.                                                              *)

(* The pending call is a call of the latest message, and the queue is what *)
(* follows it there.                                                       *)
LEMMA PendingInMessage ==
    ASSUME IInv, pending # None
    PROVE  /\ pending \in Pending /\ pending.role = active /\ active \in Roles
           /\ said.by = active
           /\ \E n \in 1 .. Len(said.calls) :
                /\ said.calls[n] = [tool |-> pending.tool, args |-> pending.args]
                /\ queue = SubSeq(said.calls, n + 1, Len(said.calls))
<1>1. pending \in Pending /\ pending.role = active /\ active \in Roles
  BY DEF IInv, TypeOK, CallsAreCurrent, Pending
<1>2. said.by = active
  BY DEF IInv, CallsAreCurrent
<1>3. said.calls \in Seq(Call) /\ queue \in Seq(Call)
  BY DEF IInv, TypeOK
<1> DEFINE x == [tool |-> pending.tool, args |-> pending.args]
<1>4. x \in Call
  BY <1>1 DEF Pending, Call
<1>5. PICK n \in 0 .. Len(said.calls) :
        <<x>> \o queue = SubSeq(said.calls, n + 1, Len(said.calls))
  BY DEF IInv, CallsAreCurrent, Outstanding
<1> HIDE DEF x
<1>6. /\ n + 1 \in 1 .. Len(said.calls) /\ x = said.calls[n + 1]
      /\ queue = SubSeq(said.calls, (n + 1) + 1, Len(said.calls))
  BY <1>3, <1>4, <1>5, RestOfSuffix
<1> QED
  BY <1>1, <1>2, <1>6 DEF x

(* After an execution the calls left over are still those of the active    *)
(* agent's message, or there are none.                                     *)
LEMMA Executed ==
    ASSUME IInv, pending # None, pending' = None, active' \in Roles,
           node' \in {"finalize", "prepare_tool", "specialist"},
           \/ queue' = <<>> /\ node' # "prepare_tool"
           \/ UNCHANGED <<queue, said, active>> /\ (node' = "specialist" => queue = <<>>)
    PROVE  NodesOK' /\ CallsAreCurrent'
<1>1. CASE queue' = <<>> /\ node' # "prepare_tool"
  BY <1>1 DEF NodesOK, CallsAreCurrent, Waiting, Nodes
<1>2. CASE UNCHANGED <<queue, said, active>> /\ (node' = "specialist" => queue = <<>>)
  <2>1. PICK n \in 1 .. Len(said.calls) :
          queue = SubSeq(said.calls, n + 1, Len(said.calls))
    BY PendingInMessage
  <2>2. said.by = active
    BY PendingInMessage
  <2>3. n \in 0 .. Len(said.calls)
    BY <2>1
  <2>4. CallsAreCurrent'
    BY <1>2, <2>1, <2>2, <2>3 DEF CallsAreCurrent, Outstanding
  <2>5. NodesOK'
    BY <1>2, <2>2 DEF NodesOK, Waiting, Nodes
  <2> QED
    BY <2>4, <2>5
<1> QED
  BY <1>1, <1>2

(* A node that fails leaves the flow of calls as it is.                    *)
LEMMA FailStep ==
    ASSUME IInv, NodeFails \/ BadEdit \/ WriteThenFail
    PROVE  IInv'
<1>1. node' = "failed" /\ UNCHANGED <<flow, limits, result, failures, turns>>
  BY DEF NodeFails, BadEdit, WriteThenFail, world
<1>2. performed' \in Seq(Call)
  <2>1. CASE WriteThenFail
    <3>1. pending # None
      BY <2>1 DEF WriteThenFail, Executing, IInv, NodesOK, Waiting
    <3>2. pending \in Pending
      BY <3>1, PendingInMessage
    <3>3. Effective \in Args
      BY <2>1, <3>2 DEF WriteThenFail, Effective, IInv, TypeOK, Pending
    <3>4. [tool |-> pending.tool, args |-> Effective] \in Call
      BY <3>2, <3>3 DEF Call, Pending
    <3> QED
      BY <2>1, <3>4 DEF WriteThenFail, IInv, TypeOK
  <2>2. CASE NodeFails \/ BadEdit
    BY <2>2 DEF NodeFails, BadEdit, world, IInv, TypeOK
  <2> QED
    BY <2>1, <2>2
<1>3. TypeOK'
  BY <1>1, <1>2 DEF IInv, TypeOK, Nodes, flow, limits, result
<1>4. NodesOK' /\ CallsAreCurrent'
  BY <1>1 DEF IInv, NodesOK, CallsAreCurrent, Outstanding, Waiting, flow
<1> QED
  BY <1>3, <1>4 DEF IInv

(* What is executed has arguments and comes from a known role.             *)
LEMMA ExecutingTypes ==
    ASSUME IInv, node = "execute", Effective # None
    PROVE  /\ pending # None /\ pending \in Pending /\ pending.role \in Roles
           /\ Effective \in Args
<1>1. pending # None
  BY DEF IInv, NodesOK, Waiting
<1>2. pending \in Pending
  BY <1>1, PendingInMessage
<1> QED
  BY <1>1, <1>2 DEF Effective, IInv, TypeOK, Pending

LEMMA ReadStep ==
    ASSUME IInv, SkipRead \/ RunRead
    PROVE  IInv'
<1>1. node = "execute" /\ Effective # None
  BY DEF SkipRead, RunRead, Executing
<1>2. pending # None /\ pending \in Pending /\ pending.role \in Roles /\ Effective \in Args
  BY <1>1, ExecutingTypes
<1>3. /\ pending' = None /\ node' = RouteAfterExecute(final, queue)
      /\ UNCHANGED <<active, said, queue, decision, handoffs, result, world>>
  BY DEF SkipRead, RunRead
<1>4. /\ node' \in {"finalize", "prepare_tool", "specialist"}
      /\ node' = "specialist" => queue = <<>>
  BY <1>3 DEF RouteAfterExecute
<1>5. NodesOK' /\ CallsAreCurrent'
  BY <1>2, <1>3, <1>4, PendingInMessage, Executed
<1>6. /\ history' \in Seq(Read) /\ counts' \in [Roles -> 0 .. MaxReads]
      /\ exhausted' \in Roles \cup {None}
  <2>1. CASE SkipRead
    BY <2>1, <1>2 DEF SkipRead, IInv, TypeOK
  <2>2. CASE RunRead
    <3>1. Fingerprint \in Read
      BY <1>2 DEF Fingerprint, Read, Pending
    <3>2. history' \in Seq(Read)
      BY <2>2, <3>1 DEF RunRead, IInv, TypeOK
    <3>3. counts \in [Roles -> 0 .. MaxReads] /\ counts[pending.role] < MaxReads
      BY <2>2, <1>2, LimitAssumption DEF RunRead, BudgetExhausted, IInv, TypeOK
    <3>4. counts' = [counts EXCEPT ![pending.role] = counts[pending.role] + 1]
      BY <2>2 DEF RunRead
    <3>5. counts[pending.role] + 1 \in 0 .. MaxReads
      BY <3>3, <1>2, LimitAssumption
    <3>6. counts' \in [Roles -> 0 .. MaxReads]
      BY <3>3, <3>4, <3>5, <1>2
    <3> QED
      BY <2>2, <3>2, <3>6 DEF RunRead, IInv, TypeOK
  <2> QED
    BY <2>1, <2>2
<1>7. TypeOK'
  BY <1>3, <1>4, <1>6 DEF IInv, TypeOK, Nodes, result, world
<1> QED
  BY <1>5, <1>7 DEF IInv

LEMMA HandoffStep ==
    ASSUME IInv, HandOff \/ HandoffLimit
    PROVE  IInv'
<1>1. node = "execute" /\ Effective # None
  BY DEF HandOff, HandoffLimit, Executing
<1>2. pending # None /\ pending \in Pending /\ pending.role \in Roles
  BY <1>1, ExecutingTypes
<1>3. CASE HandOff
  <2>1. /\ pending' = None /\ queue' = <<>> /\ node' = RouteAfterExecute(final, <<>>)
        /\ handoffs < MaxHandoffs /\ handoffs' = handoffs + 1
        /\ active' = Target[pending.tool] /\ pending.tool \in Handoffs
        /\ UNCHANGED <<said, decision, history, counts, exhausted, result, world>>
    BY <1>3 DEF HandOff, Executing
  <2>2. active' \in Roles
    BY <2>1, TargetAssumption
  <2>3. node' \in {"finalize", "specialist"}
    BY <2>1 DEF RouteAfterExecute
  <2>4. NodesOK' /\ CallsAreCurrent'
    BY <1>2, <2>1, <2>2, <2>3, Executed
  <2>5. queue' \in Seq(Call) /\ handoffs' \in 0 .. MaxHandoffs
    BY <2>1, FreshTypes, LimitAssumption DEF IInv, TypeOK
  <2>6. TypeOK'
    BY <2>1, <2>2, <2>3, <2>5 DEF IInv, TypeOK, Nodes, result, world
  <2> QED
    BY <2>4, <2>6 DEF IInv
<1>4. CASE HandoffLimit
  <2>1. /\ pending' = None /\ queue' = <<>> /\ final' = TRUE
        /\ node' = RouteAfterExecute(TRUE, <<>>)
        /\ said' = [by |-> pending.role, calls |-> <<>>]
        /\ UNCHANGED <<active, decision, limits, error, world>>
    BY <1>4 DEF HandoffLimit
  <2>2. node' = "finalize"
    BY <2>1 DEF RouteAfterExecute
  <2>3. active' \in Roles
    BY <1>2, <2>1, PendingInMessage
  <2>4. NodesOK' /\ CallsAreCurrent'
    BY <1>2, <2>1, <2>2, <2>3, Executed
  <2>5. said' \in [by : Roles \cup {"direct"}, calls : Seq(Call)] /\ queue' \in Seq(Call)
    BY <1>2, <2>1, FreshTypes
  <2>6. TypeOK'
    BY <2>1, <2>2, <2>3, <2>5 DEF IInv, TypeOK, Nodes, limits, world
  <2> QED
    BY <2>4, <2>6 DEF IInv
<1> QED
  BY <1>3, <1>4

LEMMA WriteStep ==
    ASSUME IInv, NEW raised \in BOOLEAN, RunWrite(raised)
    PROVE  IInv'
<1>1. node = "execute" /\ Effective # None
  BY DEF RunWrite, Executing
<1>2. /\ pending # None /\ pending \in Pending /\ pending.role \in Roles
      /\ Effective \in Args
  BY <1>1, ExecutingTypes
<1>3. /\ performed' = Append(performed, [tool |-> pending.tool, args |-> Effective])
      /\ failures' = IF raised THEN failures + 1 ELSE failures
      /\ said' = IF queue = <<>> THEN [by |-> pending.role, calls |-> <<>>] ELSE said
      /\ final' = (final \/ queue = <<>>)
      /\ error' = IF queue = <<>> THEN raised ELSE error
      /\ pending' = None
      /\ node' = RouteAfterExecute(final', queue)
      /\ UNCHANGED <<active, queue, decision, limits, turns>>
  BY DEF RunWrite
<1>4. [tool |-> pending.tool, args |-> Effective] \in Call
  BY <1>2 DEF Call, Pending
<1>5. /\ node' \in {"finalize", "prepare_tool", "specialist"}
      /\ node' # "specialist"
      /\ queue = <<>> => node' = "finalize"
  BY <1>3 DEF RouteAfterExecute
<1>6. active' \in Roles
  BY <1>2, <1>3, PendingInMessage
<1>7. NodesOK' /\ CallsAreCurrent'
  <2>1. CASE queue = <<>>
    BY <1>2, <1>3, <1>5, <1>6, <2>1, Executed
  <2>2. CASE queue # <<>>
    BY <1>2, <1>3, <1>5, <1>6, <2>2, Executed
  <2> QED
    BY <2>1, <2>2
<1>8. said' \in [by : Roles \cup {"direct"}, calls : Seq(Call)]
  BY <1>2, <1>3, FreshTypes DEF IInv, TypeOK
<1>9. performed' \in Seq(Call) /\ failures' \in Nat
  BY <1>3, <1>4 DEF IInv, TypeOK
<1>10. final' \in BOOLEAN /\ error' \in BOOLEAN
  BY <1>3 DEF IInv, TypeOK
<1>11. TypeOK'
  BY <1>3, <1>5, <1>6, <1>8, <1>9, <1>10 DEF IInv, TypeOK, Nodes, limits
<1> QED
  BY <1>7, <1>11 DEF IInv

(* A refusal, feedback, or the end of the turn.                            *)
LEMMA AfterStep ==
    ASSUME IInv, Reject \/ Feedback \/ Finalize
    PROVE  IInv'
<1>1. CASE Reject
  <2>1. pending # None
    BY <1>1 DEF Reject, IInv, NodesOK, Waiting
  <2>2. said' \in [by : Roles \cup {"direct"}, calls : Seq(Call)] /\ queue' \in Seq(Call)
    BY <1>1, <2>1, FreshTypes, PendingInMessage DEF Reject, Pending
  <2>3. TypeOK'
    BY <1>1, <2>2 DEF IInv, TypeOK, Reject, Nodes, limits, world
  <2>4. NodesOK' /\ CallsAreCurrent'
    BY <1>1 DEF Reject, NodesOK, CallsAreCurrent, Waiting, Nodes
  <2> QED
    BY <2>3, <2>4 DEF IInv
<1>2. CASE Feedback
  <2>1. pending # None
    BY <1>2 DEF Feedback, IInv, NodesOK, Waiting
  <2>2. active \in Roles
    BY <2>1, PendingInMessage
  <2>3. TypeOK'
    BY <1>2, FreshTypes DEF IInv, TypeOK, Feedback, Nodes, limits, result, world
  <2>4. NodesOK' /\ CallsAreCurrent'
    BY <1>2, <2>2 DEF Feedback, NodesOK, CallsAreCurrent, Waiting, Nodes
  <2> QED
    BY <2>3, <2>4 DEF IInv
<1>3. CASE Finalize
  BY <1>3 DEF IInv, TypeOK, NodesOK, CallsAreCurrent, Outstanding, Finalize, Waiting,
     Nodes, flow, limits, result, world
<1> QED
  BY <1>1, <1>2, <1>3

LEMMA NextIInv == IInv /\ [Next]_vars => IInv'
<1> SUFFICES ASSUME IInv, [Next]_vars PROVE IInv'
  OBVIOUS
<1>1. CASE UNCHANGED vars
  <2>1. TypeOK'
    BY <1>1 DEF IInv, TypeOK, vars, flow, limits, result, world
  <2>2. NodesOK'
    BY <1>1 DEF IInv, NodesOK, vars, flow
  <2>3. CallsAreCurrent'
    BY <1>1 DEF IInv, CallsAreCurrent, Outstanding, vars, flow
  <2> QED
    BY <2>1, <2>2, <2>3 DEF IInv
<1>2. CASE Invoke \/ Context \/ Supervisor
  BY <1>2, BeginStep
<1>3. CASE Specialist
  BY <1>3, SpecialistStep
<1>4. CASE PrepareTool \/ RefuseTool
  BY <1>4, PrepareStep
<1>5. CASE Resume
  BY <1>5, AnswerStep
<1>6. CASE SkipRead \/ RunRead
  BY <1>6, ReadStep
<1>7. CASE HandOff \/ HandoffLimit
  BY <1>7, HandoffStep
<1>8. CASE \E raised \in BOOLEAN : RunWrite(raised)
  BY <1>8, WriteStep
<1>9. CASE NodeFails \/ BadEdit \/ WriteThenFail
  BY <1>9, FailStep
<1>10. CASE Reject \/ Feedback \/ Finalize
  BY <1>10, AfterStep
<1> QED
  BY <1>1, <1>2, <1>3, <1>4, <1>5, <1>6, <1>7, <1>8, <1>9, <1>10
     DEF Next, GraphStep, Execute

LEMMA Invariance == Spec => []IInv
  BY InitIInv, NextIInv, PTL DEF Spec

(* Every channel keeps its type, whatever the models ask for and however   *)
(* the human answers.                                                      *)
THEOREM TypeCorrect == Spec => []TypeOK
  BY Invariance, PTL DEF IInv

(* What is executed next always comes from the active agent's latest       *)
(* message.                                                                *)
THEOREM NothingStaleIsExecuted == Spec => []CallsAreCurrent
  BY Invariance, PTL DEF IInv

-----------------------------------------------------------------------------
(* Reads.                                                                  *)

(* A step changes the history and the counters together, by a new turn or  *)
(* by a read.                                                              *)
LEMMA LimitsStep ==
    ASSUME [Next]_vars
    PROVE  \/ UNCHANGED <<history, counts>>
           \/ Invoke
           \/ RunRead
<1>1. CASE UNCHANGED vars
  BY <1>1 DEF vars, limits
<1>2. CASE Next
  <2>1. CASE Resume
    BY <2>1 DEF Resume, Answer, limits
  <2>2. CASE Context \/ Supervisor \/ Specialist \/ PrepareTool \/ RefuseTool
    BY <2>2 DEF Context, Supervisor, Specialist, PrepareTool, RefuseTool, limits
  <2>3. CASE BadEdit \/ SkipRead \/ HandOff \/ HandoffLimit
    BY <2>3 DEF BadEdit, SkipRead, HandOff, HandoffLimit, limits
  <2>4. CASE \E raised \in BOOLEAN : RunWrite(raised)
    BY <2>4 DEF RunWrite, limits
  <2>5. CASE Reject \/ Feedback \/ Finalize \/ WriteThenFail \/ NodeFails
    BY <2>5 DEF Reject, Feedback, Finalize, WriteThenFail, NodeFails, limits
  <2> QED
    BY <1>2, <2>1, <2>2, <2>3, <2>4, <2>5 DEF Next, GraphStep, Execute
<1> QED
  BY <1>1, <1>2

(* Only RunRead appends to the history.                                    *)
LEMMA HistoryGrows ==
    ASSUME [Next]_vars, history' # history, history' # <<>>
    PROVE  RunRead
  BY LimitsStep DEF Invoke

LEMMA ReadIsAsked ==
    ASSUME IInv, RunRead
    PROVE  LET r == history'[Len(history')]
           IN  /\ r.role = said.by
               /\ \E i \in 1 .. Len(said.calls) :
                    said.calls[i] = [tool |-> r.tool, args |-> r.args]
<1>1. node = "execute" /\ pending.tool \in Reads /\ Effective # None
  BY DEF RunRead, Executing
<1>2. pending # None /\ pending \in Pending /\ pending.role \in Roles /\ Effective \in Args
  BY <1>1, ExecutingTypes
<1>3. pending.tool \notin Writes
  BY <1>1, KindAssumption
<1>4. Effective = pending.args
  BY <1>1, <1>3 DEF Effective, IInv, NodesOK, Agreed
<1>5. Fingerprint \in Read /\ history \in Seq(Read)
  BY <1>2 DEF Fingerprint, Read, Pending, IInv, TypeOK
<1>6. history' = Append(history, Fingerprint)
  BY DEF RunRead
<1>7. history'[Len(history')] = Fingerprint
  BY <1>5, <1>6
<1>8. /\ Fingerprint.role = said.by
      /\ [tool |-> Fingerprint.tool, args |-> Fingerprint.args]
            = [tool |-> pending.tool, args |-> pending.args]
  BY <1>2, <1>4, PendingInMessage DEF Fingerprint
<1>9. PICK i \in 1 .. Len(said.calls) :
        said.calls[i] = [tool |-> pending.tool, args |-> pending.args]
  BY <1>2, PendingInMessage
<1> QED
  BY <1>7, <1>8, <1>9

(* A read runs with the arguments its agent asked for, never with a human's *)
(* edit of another call.                                                   *)
THEOREM ReadsRunAsAsked == Spec => ReadsAsAsked
<1>1. ASSUME IInv, [Next]_vars
      PROVE  [history' # history /\ history' # <<>> =>
                LET r == history'[Len(history')]
                IN  r.role = said.by
                    /\ \E i \in 1 .. Len(said.calls) :
                         said.calls[i] = [tool |-> r.tool, args |-> r.args]]_vars
  BY <1>1, HistoryGrows, ReadIsAsked
<1> QED
  BY <1>1, Invariance, PTL DEF Spec, ReadsAsAsked

-----------------------------------------------------------------------------
(* Budgets.                                                                *)

(* The reads of role r in history h.                                       *)
ReadsOf(h, r) == {i \in 1 .. Len(h) : h[i].role = r}

LEMMA OneMoreRead ==
    ASSUME NEW h \in Seq(Read), NEW f \in Read, NEW r
    PROVE  Cardinality(ReadsOf(Append(h, f), r))
             = Cardinality(ReadsOf(h, r)) + (IF f.role = r THEN 1 ELSE 0)
<1>1. /\ Len(h) \in Nat /\ Len(Append(h, f)) = Len(h) + 1
      /\ \A i \in 1 .. Len(h) : Append(h, f)[i] = h[i]
      /\ Append(h, f)[Len(h) + 1] = f
  OBVIOUS
<1>2. IsFiniteSet(1 .. Len(h))
  BY <1>1, FS_Interval
<1>3. IsFiniteSet(ReadsOf(h, r)) /\ Len(h) + 1 \notin ReadsOf(h, r)
  BY <1>1, <1>2, FS_Subset DEF ReadsOf
<1>4. ReadsOf(Append(h, f), r)
        = IF f.role = r THEN ReadsOf(h, r) \cup {Len(h) + 1} ELSE ReadsOf(h, r)
  BY <1>1 DEF ReadsOf
<1>5. Cardinality(ReadsOf(h, r)) \in Nat
  BY <1>3, FS_CardinalityType
<1>6. CASE f.role = r
  BY <1>3, <1>4, <1>6, FS_AddElement
<1>7. CASE f.role # r
  BY <1>4, <1>5, <1>7
<1> QED
  BY <1>6, <1>7

(* No read is repeated within a turn, the counters count, and no budget is *)
(* exceeded.                                                               *)
THEOREM ReadsAreBounded == Spec => []ReadsBounded
<1>1. ASSUME Init PROVE ReadsBounded
  <2>1. history = <<>> /\ counts = [r \in Roles |-> 0]
    BY <1>1 DEF Init
  <2>2. \A r \in Roles : {i \in 1 .. Len(history) : history[i].role = r} = {}
    BY <2>1
  <2> QED
    BY <2>1, <2>2, FS_EmptySet, LimitAssumption DEF ReadsBounded
<1>2. ASSUME IInv, IInv', ReadsBounded, [Next]_vars PROVE ReadsBounded'
  <2>1. CASE UNCHANGED <<history, counts>>
    BY <1>2, <2>1 DEF ReadsBounded
  <2>2. CASE Invoke
    <3>1. history' = <<>> /\ counts' = [r \in Roles |-> 0]
      BY <2>2 DEF Invoke
    <3>2. \A r \in Roles : {i \in 1 .. Len(history') : history'[i].role = r} = {}
      BY <3>1
    <3> QED
      BY <3>1, <3>2, FS_EmptySet, LimitAssumption DEF ReadsBounded
  <2>3. CASE RunRead
    <3>1. history' = Append(history, Fingerprint) /\ ~DuplicateCall
          /\ counts' = [counts EXCEPT ![pending.role] = counts[pending.role] + 1]
      BY <2>3 DEF RunRead
    <3>2. node = "execute" /\ Effective # None
      BY <2>3 DEF RunRead, Executing
    <3>3. /\ pending \in Pending /\ pending.role \in Roles /\ Effective \in Args
      BY <1>2, <3>2, ExecutingTypes
    <3>4. Fingerprint \in Read /\ Fingerprint.role = pending.role
      BY <3>3 DEF Fingerprint, Read, Pending
    <3>5. history \in Seq(Read) /\ counts \in [Roles -> 0 .. MaxReads]
      BY <1>2 DEF IInv, TypeOK
    <3>6. /\ Len(history) \in Nat /\ Len(history') = Len(history) + 1
          /\ \A i \in 1 .. Len(history) : history'[i] = history[i]
          /\ history'[Len(history) + 1] = Fingerprint
      BY <3>1, <3>4, <3>5
    <3>7. \A i, j \in 1 .. Len(history') : history'[i] = history'[j] => i = j
      BY <1>2, <3>1, <3>6 DEF ReadsBounded, DuplicateCall
    <3>8. ASSUME NEW r \in Roles
          PROVE  counts'[r] = Cardinality(ReadsOf(history', r)) /\ counts'[r] <= MaxReads
      <4>1. counts[r] = Cardinality(ReadsOf(history, r))
        BY <1>2 DEF ReadsBounded, ReadsOf
      <4>2. Cardinality(ReadsOf(history', r))
              = Cardinality(ReadsOf(history, r)) + (IF Fingerprint.role = r THEN 1 ELSE 0)
        BY <3>1, <3>4, <3>5, OneMoreRead
      <4>3. counts'[r] = counts[r] + (IF pending.role = r THEN 1 ELSE 0)
        BY <3>1, <3>3, <3>5
      <4>4. counts'[r] <= MaxReads
        BY <1>2, LimitAssumption DEF IInv, TypeOK
      <4> QED
        BY <3>4, <4>1, <4>2, <4>3, <4>4
    <3> QED
      BY <3>7, <3>8 DEF ReadsBounded, ReadsOf
  <2> QED
    BY <1>2, <2>1, <2>2, <2>3, LimitsStep
<1> QED
  BY <1>1, <1>2, Invariance, PTL DEF Spec

-----------------------------------------------------------------------------
(* The approval gate.                                                      *)

(* A step after which nothing is shown or agreed to.                       *)
LEMMA WithdrawStep ==
    ASSUME node' \notin {"approval", "execute"}, UNCHANGED performed
    PROVE  Gate!Next
  BY DEF Gate!Next, Gate!Withdraw, Shown, Granted

(* What executing a write performs is what was agreed to.                  *)
LEMMA GrantedIsExecuted ==
    ASSUME IInv, Executing(Writes), Effective # None
    PROVE  Granted # None /\ Granted = [tool |-> pending.tool, args |-> Effective]
<1>1. node = "execute" /\ pending.tool \in Writes
  BY DEF Executing
<1>2. pending \in Pending /\ Effective \in Args
  BY <1>1, ExecutingTypes
<1>3. decision.type \in Agreed
  BY <1>1 DEF IInv, NodesOK
<1>4. Agreement = Effective
  BY <1>3 DEF Agreement, Effective, Agreed
<1>5. [tool |-> pending.tool, args |-> Effective] \in Call
  BY <1>2 DEF Call, Pending
<1>6. [tool |-> pending.tool, args |-> Effective] # None
  BY <1>5, NoneAssumption
<1> QED
  BY <1>1, <1>3, <1>4, <1>6 DEF Granted, AsCall

LEMMA PerformStep ==
    ASSUME IInv, Executing(Writes), Effective # None,
           performed' = Append(performed, [tool |-> pending.tool, args |-> Effective]),
           node' \notin {"approval", "execute"}
    PROVE  Gate!Next
<1>1. Granted # None /\ performed' = Append(performed, Granted)
  BY GrantedIsExecuted
<1>2. Shown = None /\ Shown' = None /\ Granted' = None
  BY DEF Shown, Granted, Executing
<1> QED
  BY <1>1, <1>2 DEF Gate!Next, Gate!Perform

LEMMA ShowStep ==
    ASSUME IInv, PrepareTool
    PROVE  [Gate!Next]_(Gate!gate)
<1>1. /\ node = "prepare_tool" /\ Todo # <<>>
      /\ pending' = [tool |-> Head(Todo).tool, args |-> Head(Todo).args, role |-> active]
      /\ node' = RoutePrepared(Head(Todo).tool)
      /\ UNCHANGED performed
  BY DEF PrepareTool, world
<1>2. Shown = None /\ Granted = None
  BY <1>1 DEF Shown, Granted
<1>3. Head(Todo) \in Call
  BY <1>1, PutBackHead DEF IInv, TypeOK, Todo
<1>4. CASE Head(Todo).tool \in Writes
  <2>1. node' = "approval"
    BY <1>1, <1>4 DEF RoutePrepared
  <2>2. Shown' = [tool |-> Head(Todo).tool, args |-> Head(Todo).args] /\ Granted' = None
    BY <1>1, <2>1 DEF Shown, Granted, AsCall
  <2>3. Shown' \in Gate!WriteCall
    BY <1>3, <1>4, <2>2 DEF Gate!WriteCall, Call
  <2> QED
    BY <1>1, <1>2, <2>2, <2>3 DEF Gate!Next, Gate!Show
<1>5. CASE Head(Todo).tool \notin Writes
  <2>1. node' = "execute"
    BY <1>1, <1>5 DEF RoutePrepared
  <2>2. Shown' = None /\ Granted' = None
    BY <1>1, <1>5, <2>1 DEF Shown, Granted
  <2> QED
    BY <1>1, <1>2, <2>2 DEF Gate!gate
<1> QED
  BY <1>4, <1>5

LEMMA AgreeStep ==
    ASSUME IInv, Resume
    PROVE  Gate!Next
<1>1. PICK type \in {"accept", "edit", "reject", "response"}, args \in Args \cup {None} :
        Answer(type, args)
  BY DEF Resume
<1>2. /\ node = "approval" /\ decision' = [type |-> type, args |-> args]
      /\ node' = RouteApproval(type)
      /\ UNCHANGED <<pending, performed>>
  BY <1>1 DEF Answer, world
<1>3. pending # None /\ pending.tool \in Writes
  BY <1>2 DEF IInv, NodesOK, Waiting
<1>4. pending \in Pending /\ pending.args \in Args /\ pending.args # None
  BY <1>3, NoneAssumption, PendingInMessage DEF Pending
<1>5. Shown = [tool |-> pending.tool, args |-> pending.args] /\ Shown' = None
  BY <1>2 DEF Shown, AsCall, RouteApproval, Agreed
<1>6. Shown \in Call /\ Shown # None /\ Shown.tool = pending.tool
  BY <1>4, <1>5, NoneAssumption DEF Call, Pending
<1>7. CASE type \notin Agreed
  <2>1. node' \notin {"approval", "execute"}
    BY <1>2, <1>7 DEF RouteApproval
  <2> QED
    BY <1>2, <2>1, WithdrawStep
<1>8. CASE type \in Agreed
  <2>1. node' = "execute" /\ decision'.type \in Agreed
    <3>1. decision'.type = type
      BY <1>2
    <3>2. RouteApproval(type) = "execute"
      BY <1>8 DEF RouteApproval, Agreed
    <3> QED
      BY <1>2, <1>8, <3>1, <3>2
  <2> DEFINE a == IF type = "accept" THEN pending.args ELSE args
  <2>2. Agreement' = a
    BY <1>2 DEF Agreement
  <2>3. CASE a = None
    <3>1. Granted' = None
      BY <2>2, <2>3 DEF Granted
    <3> QED
      BY <1>2, <1>5, <3>1 DEF Gate!Next, Gate!Withdraw
  <2>4. CASE a # None
    <3>1. a \in Args
      BY <1>4, <2>4
    <3>2. Granted' = [tool |-> pending.tool, args |-> a]
      BY <1>2, <1>3, <2>1, <2>2, <2>4 DEF Granted, AsCall
    <3>3. Gate!Agree(a)
      BY <1>2, <1>5, <1>6, <3>2 DEF Gate!Agree
    <3> QED
      BY <3>1, <3>3 DEF Gate!Next
  <2> QED
    BY <2>3, <2>4
<1> QED
  BY <1>7, <1>8

LEMMA GateStep ==
    ASSUME IInv, [Next]_vars
    PROVE  [Gate!Next]_(Gate!gate)
<1>1. CASE UNCHANGED vars
  BY <1>1 DEF vars, flow, limits, result, world, Gate!gate, Shown, Granted, Agreement,
     AsCall
<1>2. CASE PrepareTool
  BY <1>2, ShowStep
<1>3. CASE Resume
  BY <1>3, AgreeStep
<1>4. CASE \E raised \in BOOLEAN : RunWrite(raised)
  <2>1. PICK raised \in BOOLEAN : RunWrite(raised)
    BY <1>4
  <2>2. node' \notin {"approval", "execute"}
    BY <2>1 DEF RunWrite, RouteAfterExecute
  <2> QED
    BY <2>1, <2>2, PerformStep DEF RunWrite
<1>5. CASE WriteThenFail
  BY <1>5, PerformStep DEF WriteThenFail
<1>6. CASE Invoke \/ Context \/ Supervisor \/ Specialist \/ RefuseTool
  BY <1>6, WithdrawStep DEF Invoke, Context, Supervisor, Specialist, RefuseTool, world
<1>7. CASE BadEdit \/ SkipRead \/ RunRead \/ HandOff \/ HandoffLimit
  BY <1>7, WithdrawStep DEF BadEdit, SkipRead, RunRead, HandOff, HandoffLimit,
     RouteAfterExecute, world
<1>8. CASE Reject \/ Feedback \/ Finalize \/ NodeFails
  BY <1>8, WithdrawStep DEF Reject, Feedback, Finalize, NodeFails, world
<1> QED
  BY <1>1, <1>2, <1>3, <1>4, <1>5, <1>6, <1>7, <1>8 DEF Next, GraphStep, Execute

(* The graph implements ApprovalGate: whatever the models ask for, a write *)
(* is performed only after a human was shown it and agreed, with the       *)
(* arguments agreed to, and once per agreement.                            *)
THEOREM WritesPassTheGate == Spec => GateSpec
<1>1. Init => Gate!Init
  BY DEF Init, Gate!Init, Shown, Granted
<1> QED
  BY <1>1, GateStep, Invariance, PTL DEF Spec, GateSpec, Gate!Spec

=============================================================================

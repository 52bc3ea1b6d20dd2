-------------------------- MODULE SessionStoreProofs --------------------------
(* Proofs about SessionStore for any tasks, handlers, workers and times to *)
(* live.                                                                   *)
EXTENDS SessionStore, FiniteSetTheorems, SequenceTheorems, TLAPS

(* Handlers and workers write the task they serve; removals do the rest.   *)
WriterDos == {"create_unless_row", "get_row", "stop_unless_row", "set_row", "sadd_user",
              "sadd_mapping", "expire_user", "expire_mapping", "set_task_key",
              "expire_mapping_as_task", "enqueue_invoke", "enqueue_resume", "run_graph"}

TaskDos == {"stop_unless_row", "drop_unless_row", "srem_user", "srem_mapping", "del_task_key",
            "del_row_and_task_key"}

SessionDos == {"stop_unless_mapping", "delete_thread", "delete_artifacts", "smembers_mapping",
               "scard_mapping", "del_mapping", "reply_deleted"}

UserDos == {"smembers_user", "scard_user", "del_user"}

Dos == WriterDos \cup TaskDos \cup SessionDos \cup UserDos

Commands == [do : Dos, on : Tasks \cup Sessions \cup {None}]

WriterCommands(t) == [do : WriterDos, on : {t}]

RemovalCommands ==
    [do : TaskDos, on : Tasks] \cup [do : SessionDos, on : Sessions] \cup [do : UserDos, on : {None}]

Messages == [do : {"enqueue_invoke", "enqueue_resume"}, on : Tasks]

Keys == [has : SUBSET Tasks, ttl : Nat \cup {Forever}]

KeyOK(key) == key \in Keys /\ IsFiniteSet(key.has) /\ (key.has = {} <=> key = NoKey)

StoreOK ==
    /\ home \in [Tasks -> Sessions]
    /\ row \in [Tasks -> 0 .. SessionTTL] /\ taskkey \in [Tasks -> 0 .. TaskTTL]
    /\ KeyOK(user) /\ mapping \in [Sessions -> Keys] /\ \A s \in Sessions : KeyOK(mapping[s])
    /\ thread \subseteq Sessions /\ artifacts \subseteq Sessions
    /\ deleted \subseteq Sessions /\ crossed \subseteq Tasks

ProgramsOK ==
    /\ queue \subseteq Messages
    /\ serves \in [Processes -> Tasks \cup {"removal", None}]
    /\ todo \in [Processes -> Seq(Commands)]
    /\ \A p \in Processes :
         /\ serves[p] = None <=> todo[p] = <<>>
         /\ serves[p] \in Tasks => todo[p] \in Seq(WriterCommands(serves[p]))
         /\ serves[p] = "removal" => todo[p] \in Seq(RemovalCommands)

(* The commands after which the program may be over, or much later.        *)
Barriers == {"stop_unless_row", "stop_unless_mapping", "run_graph"}

(* A program is about to do one of dos on x, whatever it finds before.     *)
Soon(program, dos, x) ==
    \E j \in 1 .. Len(program) :
      /\ program[j].do \in dos /\ program[j].on = x
      /\ \A k \in 1 .. j : program[k].do \notin Barriers

(* Whoever does one thing does one of dos to the same key soon after.      *)
Later(program, i, dos) ==
    \E j \in i + 1 .. Len(program) :
      /\ program[j].do \in dos /\ program[j].on = program[i].on
      /\ \A k \in i .. j : program[k].do \notin Barriers

Then(program, do, dos) ==
    \A i \in 1 .. Len(program) : program[i].do = do => Later(program, i, dos)

ExpireMapping == {"expire_mapping", "expire_mapping_as_task"}

Shaped(program) ==
    /\ Then(program, "sadd_user", {"expire_user"})
    /\ Then(program, "sadd_mapping", ExpireMapping)
    /\ Then(program, "set_task_key", {"sadd_mapping"})
    /\ Then(program, "set_row", {"expire_user"}) /\ Then(program, "set_row", ExpireMapping)
    /\ \A i \in 1 .. Len(program) :
         /\ program[i].do = "set_row" => i = 1
         /\ program[i].do = "reply_deleted" => i = Len(program)

ShapesOK == \A p \in Processes : Shaped(todo[p])

SoonBy(t, dos) == \E p \in Processes : serves[p] = t /\ Soon(todo[p], dos, t)

ExpiryOK ==
    /\ user.ttl = Forever => \E t \in Tasks : SoonBy(t, {"expire_user"})
    /\ \A s \in Sessions : mapping[s].ttl = Forever =>
         \E t \in Tasks : home[t] = s /\ SoonBy(t, ExpireMapping)

-----------------------------------------------------------------------------
(* Programs: what is kept of the rest when the first command was done.     *)

BarrierFree(more) == \A i \in 1 .. Len(more) : more[i].do \notin Barriers

LEMMA RestIs ==
    ASSUME NEW C, NEW more \in Seq(C), NEW program \in Seq(C), program # <<>>
    PROVE  /\ more \o Tail(program) \in Seq(C)
           /\ Len(more) \in Nat /\ Len(program) \in Nat \ {0}
           /\ Len(more \o Tail(program)) = Len(more) + Len(program) - 1
           /\ \A i \in 1 .. Len(more) : (more \o Tail(program))[i] = more[i]
           /\ \A i \in 2 .. Len(program) : (more \o Tail(program))[Len(more) + i - 1] = program[i]
           /\ \A i \in Len(more) + 1 .. Len(more \o Tail(program)) :
                /\ i - Len(more) + 1 \in 2 .. Len(program)
                /\ (more \o Tail(program))[i] = program[i - Len(more) + 1]
<1> DEFINE rest == Tail(program)
<1>1. rest \in Seq(C) /\ Len(rest) = Len(program) - 1 /\ Len(more) \in Nat
      /\ Len(program) \in Nat \ {0} /\ \A i \in 1 .. Len(rest) : rest[i] = program[i + 1]
  OBVIOUS
<1> HIDE DEF rest
<1>2. /\ more \o rest \in Seq(C) /\ Len(more \o rest) = Len(more) + Len(rest)
      /\ \A i \in 1 .. Len(more) : (more \o rest)[i] = more[i]
      /\ \A i \in Len(more) + 1 .. Len(more) + Len(rest) : (more \o rest)[i] = rest[i - Len(more)]
  BY <1>1, ConcatProperties
<1>3. \A i \in 2 .. Len(program) : (more \o rest)[Len(more) + i - 1] = program[i]
  <2> SUFFICES ASSUME NEW i \in 2 .. Len(program)
               PROVE  (more \o rest)[Len(more) + i - 1] = program[i]
    OBVIOUS
  <2>1. (more \o rest)[Len(more) + i - 1] = rest[i - 1]
    BY <1>1, <1>2
  <2>2. rest[i - 1] = program[i]
    BY <1>1
  <2> QED
    BY <2>1, <2>2
<1>4. \A i \in Len(more) + 1 .. Len(more \o rest) :
        /\ i - Len(more) + 1 \in 2 .. Len(program)
        /\ (more \o rest)[i] = program[i - Len(more) + 1]
  <2> SUFFICES ASSUME NEW i \in Len(more) + 1 .. Len(more \o rest)
               PROVE  /\ i - Len(more) + 1 \in 2 .. Len(program)
                      /\ (more \o rest)[i] = program[i - Len(more) + 1]
    OBVIOUS
  <2>1. i - Len(more) + 1 \in 2 .. Len(program)
    BY <1>1, <1>2
  <2>2. (more \o rest)[i] = rest[i - Len(more)]
    BY <1>1, <1>2
  <2>3. rest[i - Len(more)] = program[i - Len(more) + 1]
    BY <1>1, <1>2
  <2> QED
    BY <2>1, <2>2, <2>3
<1> QED
  BY <1>1, <1>2, <1>3, <1>4 DEF rest

LEMMA SoonStays ==
    ASSUME NEW C, NEW more \in Seq(C), NEW program \in Seq(C), program # <<>>,
           BarrierFree(more), NEW dos, NEW x, Soon(program, dos, x),
           ~(program[1].do \in dos /\ program[1].on = x)
    PROVE  Soon(more \o Tail(program), dos, x)
<1> DEFINE rest == more \o Tail(program)
           n == Len(more)
<1>0. /\ rest \in Seq(C) /\ n \in Nat /\ Len(program) \in Nat \ {0}
      /\ Len(rest) = n + Len(program) - 1 /\ \A i \in 1 .. n : rest[i] = more[i]
      /\ \A i \in 2 .. Len(program) : rest[n + i - 1] = program[i]
      /\ \A i \in n + 1 .. Len(rest) :
           i - n + 1 \in 2 .. Len(program) /\ rest[i] = program[i - n + 1]
  BY RestIs
<1> HIDE DEF rest, n
<1>1. PICK j \in 1 .. Len(program) :
        /\ program[j].do \in dos /\ program[j].on = x
        /\ \A k \in 1 .. j : program[k].do \notin Barriers
  BY DEF Soon
<1>2. j # 1 /\ j \in 2 .. Len(program)
  BY <1>0, <1>1
<1>3. n + j - 1 \in 1 .. Len(rest) /\ rest[n + j - 1] = program[j]
  BY <1>0, <1>2
<1>4. ASSUME NEW k \in 1 .. n + j - 1 PROVE rest[k].do \notin Barriers
  <2>1. CASE k \in 1 .. n
    BY <1>0, <2>1 DEF BarrierFree, n
  <2>2. CASE k \in n + 1 .. Len(rest)
    <3>1. k - n + 1 \in 1 .. j /\ rest[k] = program[k - n + 1]
      BY <1>0, <1>2, <2>2
    <3> QED
      BY <1>1, <3>1
  <2> QED
    BY <1>0, <1>2, <2>1, <2>2
<1> QED
  BY <1>1, <1>3, <1>4 DEF Soon, rest

LEMMA SoonMore ==
    ASSUME NEW C, NEW more \in Seq(C), NEW program \in Seq(C), program # <<>>,
           NEW dos, NEW x, Soon(more, dos, x)
    PROVE  Soon(more \o Tail(program), dos, x)
<1> DEFINE rest == more \o Tail(program)
           n == Len(more)
<1>0. n \in Nat /\ Len(rest) = n + Len(program) - 1 /\ Len(program) \in Nat \ {0}
      /\ \A i \in 1 .. n : rest[i] = more[i]
  BY RestIs
<1> HIDE DEF rest, n
<1>1. PICK j \in 1 .. n :
        /\ more[j].do \in dos /\ more[j].on = x
        /\ \A k \in 1 .. j : more[k].do \notin Barriers
  BY DEF Soon, n
<1>2. j \in 1 .. Len(rest) /\ rest[j] = more[j] /\ \A k \in 1 .. j : rest[k] = more[k]
  BY <1>0
<1> QED
  BY <1>1, <1>2 DEF Soon, rest

(* What a command promises is about to be done when it was.                *)
LEMMA PromiseSoon ==
    ASSUME NEW C, NEW more \in Seq(C), NEW program \in Seq(C), program # <<>>,
           BarrierFree(more), NEW dos, Later(program, 1, dos)
    PROVE  Soon(more \o Tail(program), dos, program[1].on)
<1> DEFINE rest == more \o Tail(program)
           n == Len(more)
<1>0. /\ rest \in Seq(C) /\ n \in Nat /\ Len(program) \in Nat \ {0}
      /\ Len(rest) = n + Len(program) - 1 /\ \A i \in 1 .. n : rest[i] = more[i]
      /\ \A i \in 2 .. Len(program) : rest[n + i - 1] = program[i]
      /\ \A i \in n + 1 .. Len(rest) :
           i - n + 1 \in 2 .. Len(program) /\ rest[i] = program[i - n + 1]
  BY RestIs
<1> HIDE DEF rest, n
<1>1. PICK j \in 2 .. Len(program) :
        /\ program[j].do \in dos /\ program[j].on = program[1].on
        /\ \A k \in 1 .. j : program[k].do \notin Barriers
  BY DEF Later
<1>3. n + j - 1 \in 1 .. Len(rest) /\ rest[n + j - 1] = program[j]
  BY <1>0, <1>1
<1>4. ASSUME NEW k \in 1 .. n + j - 1 PROVE rest[k].do \notin Barriers
  <2>1. CASE k \in 1 .. n
    BY <1>0, <2>1 DEF BarrierFree, n
  <2>2. CASE k \in n + 1 .. Len(rest)
    <3>1. k - n + 1 \in 1 .. j /\ rest[k] = program[k - n + 1]
      BY <1>0, <1>1, <2>2
    <3> QED
      BY <1>1, <3>1
  <2> QED
    BY <1>0, <1>1, <2>1, <2>2
<1> QED
  BY <1>1, <1>3, <1>4 DEF Soon, rest

LEMMA LaterFirst ==
    ASSUME NEW C, NEW a \in Seq(C), NEW b \in Seq(C), NEW i \in 1 .. Len(a), NEW dos,
           Later(a, i, dos)
    PROVE  Later(a \o b, i, dos)
<1>1. PICK j \in i + 1 .. Len(a) :
        /\ a[j].do \in dos /\ a[j].on = a[i].on
        /\ \A k \in i .. j : a[k].do \notin Barriers
  BY DEF Later
<1>2. Len(a \o b) = Len(a) + Len(b) /\ Len(a) \in Nat /\ Len(b) \in Nat
      /\ \A k \in 1 .. Len(a) : (a \o b)[k] = a[k]
  BY ConcatProperties
<1>3. j \in i + 1 .. Len(a \o b) /\ \A k \in i .. j : (a \o b)[k] = a[k]
  BY <1>2
<1> QED
  BY <1>1, <1>3 DEF Later

LEMMA LaterSecond ==
    ASSUME NEW C, NEW a \in Seq(C), NEW b \in Seq(C), NEW i \in 1 .. Len(b), NEW dos,
           Later(b, i, dos)
    PROVE  Later(a \o b, Len(a) + i, dos)
<1>1. PICK j \in i + 1 .. Len(b) :
        /\ b[j].do \in dos /\ b[j].on = b[i].on
        /\ \A k \in i .. j : b[k].do \notin Barriers
  BY DEF Later
<1>2. Len(a \o b) = Len(a) + Len(b) /\ Len(a) \in Nat /\ Len(b) \in Nat
      /\ \A k \in 1 .. Len(a) + Len(b) : k > Len(a) => (a \o b)[k] = b[k - Len(a)]
  BY ConcatProperties
<1>3. Len(a) + j \in Len(a) + i + 1 .. Len(a \o b)
      /\ (a \o b)[Len(a) + j] = b[j] /\ (a \o b)[Len(a) + i] = b[i]
  BY <1>2
<1>4. ASSUME NEW k \in Len(a) + i .. Len(a) + j PROVE (a \o b)[k].do \notin Barriers
  <2>1. k - Len(a) \in i .. j /\ (a \o b)[k] = b[k - Len(a)]
    BY <1>2
  <2> QED
    BY <1>1, <2>1
<1> QED
  BY <1>1, <1>3, <1>4 DEF Later

LEMMA LaterTail ==
    ASSUME NEW C, NEW b \in Seq(C), b # <<>>, NEW i \in 2 .. Len(b), NEW dos,
           Later(b, i, dos)
    PROVE  i - 1 \in 1 .. Len(Tail(b)) /\ Later(Tail(b), i - 1, dos)
<1>1. PICK j \in i + 1 .. Len(b) :
        /\ b[j].do \in dos /\ b[j].on = b[i].on
        /\ \A k \in i .. j : b[k].do \notin Barriers
  BY DEF Later
<1>2. Len(Tail(b)) = Len(b) - 1 /\ Len(b) \in Nat
      /\ \A k \in 1 .. Len(Tail(b)) : Tail(b)[k] = b[k + 1]
  OBVIOUS
<1>3. /\ j - 1 \in i - 1 + 1 .. Len(Tail(b)) /\ i - 1 \in 1 .. Len(Tail(b))
      /\ Tail(b)[j - 1] = b[j] /\ Tail(b)[i - 1] = b[i]
  BY <1>2
<1>4. ASSUME NEW k \in i - 1 .. j - 1 PROVE Tail(b)[k].do \notin Barriers
  <2>1. k + 1 \in i .. j /\ Tail(b)[k] = b[k + 1]
    BY <1>2
  <2> QED
    BY <1>1, <2>1
<1> QED
  BY <1>1, <1>3, <1>4 DEF Later

LEMMA ThenAppends ==
    ASSUME NEW C, NEW a \in Seq(C), NEW b \in Seq(C), NEW do, NEW dos,
           Then(a, do, dos), Then(b, do, dos)
    PROVE  Then(a \o b, do, dos)
<1> SUFFICES ASSUME NEW i \in 1 .. Len(a \o b), (a \o b)[i].do = do
             PROVE  Later(a \o b, i, dos)
  BY DEF Then
<1>1. Len(a \o b) = Len(a) + Len(b) /\ Len(a) \in Nat /\ Len(b) \in Nat
      /\ \A k \in 1 .. Len(a) + Len(b) : (a \o b)[k] = IF k <= Len(a) THEN a[k] ELSE b[k - Len(a)]
  BY ConcatProperties
<1>2. CASE i <= Len(a)
  <2>1. i \in 1 .. Len(a) /\ a[i].do = do
    BY <1>1, <1>2
  <2> QED
    BY <2>1, LaterFirst DEF Then
<1>3. CASE i > Len(a)
  <2>1. i - Len(a) \in 1 .. Len(b) /\ b[i - Len(a)].do = do /\ Len(a) + (i - Len(a)) = i
    BY <1>1, <1>3
  <2>2. Later(a \o b, Len(a) + (i - Len(a)), dos)
    BY <2>1, LaterSecond DEF Then
  <2> QED
    BY <2>1, <2>2
<1> QED
  BY <1>1, <1>2, <1>3

LEMMA ThenTail ==
    ASSUME NEW C, NEW b \in Seq(C), b # <<>>, NEW do, NEW dos, Then(b, do, dos)
    PROVE  Then(Tail(b), do, dos)
<1> SUFFICES ASSUME NEW i \in 1 .. Len(Tail(b)), Tail(b)[i].do = do
             PROVE  Later(Tail(b), i, dos)
  BY DEF Then
<1>1. i + 1 \in 2 .. Len(b) /\ b[i + 1].do = do /\ i + 1 - 1 = i
  OBVIOUS
<1>2. Later(b, i + 1, dos)
  BY <1>1 DEF Then
<1>3. Later(Tail(b), i + 1 - 1, dos)
  BY <1>1, <1>2, LaterTail
<1> QED
  BY <1>1, <1>3

NoReply(more) == \A i \in 1 .. Len(more) : more[i].do # "reply_deleted"

NoSetRow(more) == \A i \in 1 .. Len(more) : more[i].do # "set_row"

(* Commands without a promise and without a place.                         *)
Plain(more) ==
    \A i \in 1 .. Len(more) :
      more[i].do \notin {"sadd_user", "sadd_mapping", "set_task_key", "set_row", "reply_deleted"}

(* Shapes: set_row only comes first, and the reply last.                   *)
LEMMA ShapedJoins ==
    ASSUME NEW C, NEW more \in Seq(C), NEW program \in Seq(C), program # <<>>,
           Shaped(more), Shaped(program), NoReply(more)
    PROVE  Shaped(more \o Tail(program))
<1> DEFINE rest == more \o Tail(program)
           n == Len(more)
<1>0. /\ rest \in Seq(C) /\ n \in Nat /\ Len(program) \in Nat \ {0}
      /\ Len(rest) = n + Len(program) - 1 /\ \A i \in 1 .. n : rest[i] = more[i]
      /\ \A i \in 2 .. Len(program) : rest[n + i - 1] = program[i]
      /\ \A i \in n + 1 .. Len(rest) :
           i - n + 1 \in 2 .. Len(program) /\ rest[i] = program[i - n + 1]
  BY RestIs
<1>1. Tail(program) \in Seq(C)
  BY HeadTailProperties
<1>2. ASSUME NEW do, NEW dos, Then(more, do, dos), Then(program, do, dos)
      PROVE  Then(rest, do, dos)
  BY <1>1, <1>2, ThenAppends, ThenTail
<1> HIDE DEF rest, n
<1>3. ASSUME NEW i \in 1 .. Len(rest), rest[i].do = "set_row" PROVE i = 1
  <2>1. CASE i \in 1 .. n
    BY <1>0, <1>3, <2>1 DEF Shaped, n
  <2>2. CASE i \in n + 1 .. Len(rest)
    <3>1. PICK k \in 2 .. Len(program) : rest[i] = program[k]
      BY <1>0, <2>2
    <3>2. k \in 1 .. Len(program) /\ k # 1
      BY <1>0
    <3> QED
      BY <1>3, <3>1, <3>2 DEF Shaped
  <2> QED
    BY <1>0, <2>1, <2>2
<1>4. ASSUME NEW i \in 1 .. Len(rest), rest[i].do = "reply_deleted" PROVE i = Len(rest)
  <2>1. CASE i \in 1 .. n
    BY <1>0, <1>4, <2>1 DEF n, NoReply
  <2>2. CASE i \in n + 1 .. Len(rest)
    <3>1. PICK k \in 2 .. Len(program) : rest[i] = program[k] /\ k = i - n + 1
      BY <1>0, <2>2
    <3>2. k \in 1 .. Len(program)
      BY <1>0
    <3>3. k = Len(program)
      BY <1>4, <3>1, <3>2 DEF Shaped
    <3> QED
      BY <1>0, <3>1, <3>3
  <2> QED
    BY <1>0, <2>1, <2>2
<1>5. /\ Then(rest, "sadd_user", {"expire_user"}) /\ Then(rest, "sadd_mapping", ExpireMapping)
      /\ Then(rest, "set_task_key", {"sadd_mapping"})
      /\ Then(rest, "set_row", {"expire_user"}) /\ Then(rest, "set_row", ExpireMapping)
  BY <1>2 DEF Shaped
<1> QED
  BY <1>3, <1>4, <1>5 DEF Shaped, rest

LEMMA ShapedAppends ==
    ASSUME NEW C, NEW a \in Seq(C), NEW b \in Seq(C), Shaped(a), Shaped(b), NoReply(a), NoSetRow(b)
    PROVE  Shaped(a \o b)
<1>1. Len(a \o b) = Len(a) + Len(b) /\ Len(a) \in Nat /\ Len(b) \in Nat
      /\ \A k \in 1 .. Len(a) + Len(b) : (a \o b)[k] = IF k <= Len(a) THEN a[k] ELSE b[k - Len(a)]
  BY ConcatProperties
<1>2. /\ Then(a \o b, "sadd_user", {"expire_user"}) /\ Then(a \o b, "sadd_mapping", ExpireMapping)
      /\ Then(a \o b, "set_task_key", {"sadd_mapping"})
      /\ Then(a \o b, "set_row", {"expire_user"}) /\ Then(a \o b, "set_row", ExpireMapping)
  BY ThenAppends DEF Shaped
<1>3. ASSUME NEW i \in 1 .. Len(a \o b)
      PROVE  /\ (a \o b)[i].do = "set_row" => i = 1
             /\ (a \o b)[i].do = "reply_deleted" => i = Len(a \o b)
  <2>1. CASE i \in 1 .. Len(a)
    <3>1. (a \o b)[i] = a[i]
      BY <1>1, <2>1
    <3> QED
      BY <2>1, <3>1 DEF Shaped, NoReply
  <2>2. CASE i \in Len(a) + 1 .. Len(a \o b)
    <3>1. PICK k \in 1 .. Len(b) : (a \o b)[i] = b[k] /\ i = Len(a) + k
      BY <1>1, <2>2
    <3>2. b[k].do # "set_row" /\ (b[k].do = "reply_deleted" => k = Len(b))
      BY DEF Shaped, NoSetRow
    <3> QED
      BY <1>1, <3>1, <3>2
  <2> QED
    BY <1>1, <2>1, <2>2
<1> QED
  BY <1>2, <1>3 DEF Shaped

LEMMA PlainIsShaped ==
    ASSUME NEW more, Plain(more)
    PROVE  Shaped(more) /\ NoReply(more) /\ NoSetRow(more)
  BY DEF Plain, Shaped, NoReply, NoSetRow, Then

LEMMA CreateIs ==
    ASSUME NEW t \in Tasks
    PROVE  /\ Create(t) \in Seq(WriterCommands(t)) /\ Shaped(Create(t))
           /\ BarrierFree(Create(t)) /\ NoReply(Create(t))
           /\ Create(t)[1] = Command("set_row", t)
           /\ Soon(Create(t), {"sadd_user"}, t) /\ Soon(Create(t), {"sadd_mapping"}, t)
<1> DEFINE c == Create(t)
<1>1. /\ c \in Seq(WriterCommands(t)) /\ Len(c) = 5
      /\ c[1] = Command("set_row", t) /\ c[2] = Command("sadd_user", t)
      /\ c[3] = Command("sadd_mapping", t) /\ c[4] = Command("expire_user", t)
      /\ c[5] = Command("expire_mapping", t)
  BY DEF Create, Command, WriterCommands, WriterDos
<1>2. /\ c[1].do = "set_row" /\ c[2].do = "sadd_user" /\ c[3].do = "sadd_mapping"
      /\ c[4].do = "expire_user" /\ c[5].do = "expire_mapping"
      /\ c[1].on = t /\ c[2].on = t /\ c[3].on = t /\ c[4].on = t /\ c[5].on = t
  BY <1>1 DEF Command
<1> HIDE DEF c
<1>3. BarrierFree(c) /\ NoReply(c)
  BY <1>1, <1>2 DEF BarrierFree, Barriers, NoReply
<1>4. \A i \in 1 .. 5 : c[i].do \notin Barriers
  BY <1>1, <1>3 DEF BarrierFree
<1>5. Later(c, 1, {"expire_user"}) /\ Later(c, 1, ExpireMapping) /\ Later(c, 2, {"expire_user"})
      /\ Later(c, 3, ExpireMapping)
  <2>1. \A i \in 1 .. 3 : i < 4 => Later(c, i, {"expire_user"})
    BY <1>1, <1>2, <1>4 DEF Later
  <2>2. \A i \in 1 .. 3 : Later(c, i, ExpireMapping)
    BY <1>1, <1>2, <1>4 DEF Later, ExpireMapping
  <2> QED
    BY <2>1, <2>2
<1>6. Shaped(c)
  BY <1>1, <1>2, <1>5 DEF Shaped, Then
<1>7. Soon(c, {"sadd_user"}, t) /\ Soon(c, {"sadd_mapping"}, t)
  BY <1>1, <1>2, <1>4 DEF Soon
<1> QED
  BY <1>1, <1>3, <1>6, <1>7 DEF c

LEMMA StoreRowIs ==
    ASSUME NEW t \in Tasks
    PROVE  /\ StoreRow(t) \in Seq(WriterCommands(t)) /\ Shaped(StoreRow(t))
           /\ BarrierFree(StoreRow(t)) /\ NoReply(StoreRow(t))
           /\ StoreRow(t)[1] = Command("set_row", t)
<1> DEFINE c == StoreRow(t)
<1>1. /\ c \in Seq(WriterCommands(t)) /\ Len(c) = 3
      /\ c[1] = Command("set_row", t) /\ c[2] = Command("expire_user", t)
      /\ c[3] = Command("expire_mapping", t)
  BY DEF StoreRow, Command, WriterCommands, WriterDos
<1>2. /\ c[1].do = "set_row" /\ c[2].do = "expire_user" /\ c[3].do = "expire_mapping"
      /\ c[1].on = t /\ c[2].on = t /\ c[3].on = t
  BY <1>1 DEF Command
<1> HIDE DEF c
<1>3. BarrierFree(c) /\ NoReply(c)
  BY <1>1, <1>2 DEF BarrierFree, Barriers, NoReply
<1>4. \A i \in 1 .. 3 : c[i].do \notin Barriers
  BY <1>1, <1>3 DEF BarrierFree
<1>5. Later(c, 1, {"expire_user"}) /\ Later(c, 1, ExpireMapping)
  BY <1>1, <1>2, <1>4 DEF Later, ExpireMapping
<1>6. Shaped(c)
  BY <1>1, <1>2, <1>5 DEF Shaped, Then
<1> QED
  BY <1>1, <1>3, <1>6 DEF c

LEMMA SetTaskStatusIs ==
    ASSUME NEW t \in Tasks
    PROVE  /\ SetTaskStatus(t) \in Seq(WriterCommands(t)) /\ Shaped(SetTaskStatus(t))
           /\ NoSetRow(SetTaskStatus(t)) /\ SetTaskStatus(t) # <<>>
<1> DEFINE c == SetTaskStatus(t)
<1>1. /\ c \in Seq(WriterCommands(t)) /\ Len(c) = 3
      /\ c[1] = Command("set_task_key", t) /\ c[2] = Command("sadd_mapping", t)
      /\ c[3] = Command("expire_mapping_as_task", t)
  BY DEF SetTaskStatus, Command, WriterCommands, WriterDos
<1>2. /\ c[1].do = "set_task_key" /\ c[2].do = "sadd_mapping"
      /\ c[3].do = "expire_mapping_as_task"
      /\ c[1].on = t /\ c[2].on = t /\ c[3].on = t
  BY <1>1 DEF Command
<1> HIDE DEF c
<1>3. \A i \in 1 .. 3 : c[i].do \notin Barriers
  BY <1>1, <1>2 DEF Barriers
<1>4. Later(c, 1, {"sadd_mapping"}) /\ Later(c, 2, ExpireMapping)
  BY <1>1, <1>2, <1>3 DEF Later, ExpireMapping
<1>5. Shaped(c) /\ NoSetRow(c)
  BY <1>1, <1>2, <1>4 DEF Shaped, Then, NoSetRow
<1>6. c # <<>>
  BY <1>1
<1> QED
  BY <1>1, <1>5, <1>6 DEF c

(* The programs of the writers.                                            *)
LEMMA WriterProgram ==
    ASSUME NEW t \in Tasks, NEW a \in Seq(WriterCommands(t)), Plain(a),
           NEW b \in Seq(WriterCommands(t)), Shaped(b), NoSetRow(b), b # <<>>
    PROVE  /\ a \o b \in Seq(WriterCommands(t)) /\ Shaped(a \o b) /\ NoSetRow(a \o b)
           /\ a \o b # <<>> /\ (a # <<>> => (a \o b)[1] = a[1])
<1>1. Shaped(a) /\ NoReply(a) /\ NoSetRow(a)
  BY PlainIsShaped
<1>2. Shaped(a \o b)
  BY <1>1, ShapedAppends
<1>3. /\ a \o b \in Seq(WriterCommands(t)) /\ Len(a \o b) = Len(a) + Len(b)
      /\ Len(a) \in Nat /\ Len(b) \in Nat \ {0}
      /\ \A k \in 1 .. Len(a) + Len(b) : (a \o b)[k] = IF k <= Len(a) THEN a[k] ELSE b[k - Len(a)]
  BY ConcatProperties
<1>4. ASSUME NEW i \in 1 .. Len(a \o b) PROVE (a \o b)[i].do # "set_row"
  <2>1. CASE i \in 1 .. Len(a)
    <3>1. (a \o b)[i] = a[i]
      BY <1>3, <2>1
    <3> QED
      BY <1>1, <2>1, <3>1 DEF NoSetRow
  <2>2. CASE i \in Len(a) + 1 .. Len(a \o b)
    <3>1. PICK k \in 1 .. Len(b) : (a \o b)[i] = b[k]
      BY <1>3, <2>2
    <3> QED
      BY <3>1 DEF NoSetRow
  <2> QED
    BY <1>3, <2>1, <2>2
<1>5. a \o b # <<>>
  BY <1>3
<1>6. ASSUME a # <<>> PROVE (a \o b)[1] = a[1]
  BY <1>3, <1>6
<1> QED
  BY <1>2, <1>3, <1>4, <1>5, <1>6 DEF NoSetRow

LEMMA InvokeIs ==
    ASSUME NEW t \in Tasks
    PROVE  /\ Invoke(t) \in Seq(WriterCommands(t)) /\ Shaped(Invoke(t)) /\ NoSetRow(Invoke(t))
           /\ Invoke(t) # <<>> /\ Invoke(t)[1] = Command("create_unless_row", t)
<1> DEFINE a == <<Command("create_unless_row", t), Command("enqueue_invoke", t)>>
<1>1. a \in Seq(WriterCommands(t)) /\ Plain(a) /\ a # <<>>
      /\ a[1] = Command("create_unless_row", t)
  BY DEF WriterCommands, WriterDos, Command, Plain
<1>2. Invoke(t) = a \o SetTaskStatus(t)
  BY DEF Invoke
<1> HIDE DEF a
<1> QED
  BY <1>1, <1>2, SetTaskStatusIs, WriterProgram

LEMMA ResumeIs ==
    ASSUME NEW t \in Tasks
    PROVE  /\ Resume(t) \in Seq(WriterCommands(t)) /\ Shaped(Resume(t)) /\ NoSetRow(Resume(t))
           /\ Resume(t) # <<>> /\ Resume(t)[1] = Command("stop_unless_row", t)
<1> DEFINE a == <<Command("stop_unless_row", t), Command("get_row", t), Command("enqueue_resume", t)>>
<1>1. a \in Seq(WriterCommands(t)) /\ Plain(a) /\ a # <<>>
      /\ a[1] = Command("stop_unless_row", t)
  BY DEF WriterCommands, WriterDos, Command, Plain
<1>2. Resume(t) = a \o SetTaskStatus(t)
  BY DEF Resume, UpdateSession
<1> HIDE DEF a
<1> QED
  BY <1>1, <1>2, SetTaskStatusIs, WriterProgram

LEMMA RunIs ==
    ASSUME NEW m \in Messages
    PROVE  /\ Run(m) \in Seq(WriterCommands(m.on)) /\ Shaped(Run(m)) /\ NoSetRow(Run(m))
           /\ Run(m) # <<>>
<1> DEFINE t == m.on
           a == IF m.do = "enqueue_invoke" THEN UpdateSession(t) ELSE <<>>
           b == <<Command("run_graph", t), Command("get_row", t)>>
<1>0. t \in Tasks
  BY DEF Messages
<1>1. a \in Seq(WriterCommands(t)) /\ Plain(a)
  <2>1. CASE m.do = "enqueue_invoke"
    BY <2>1 DEF WriterCommands, WriterDos, Command, Plain, UpdateSession
  <2>2. CASE m.do # "enqueue_invoke"
    BY <2>2 DEF Plain
  <2> QED
    BY <2>1, <2>2
<1>2. b \in Seq(WriterCommands(t)) /\ Plain(b)
  BY DEF WriterCommands, WriterDos, Command, Plain
<1>3. Run(m) = a \o (b \o SetTaskStatus(t))
  <2>1. SetTaskStatus(t) \in Seq(WriterCommands(t))
    BY <1>0, SetTaskStatusIs
  <2>2. Run(m) = (a \o b) \o SetTaskStatus(t)
    BY DEF Run, UpdateSession
  <2> HIDE DEF a, b, t
  <2> QED
    BY <1>1, <1>2, <2>1, <2>2, ConcatAssociative
<1> HIDE DEF a, b
<1>4. /\ b \o SetTaskStatus(t) \in Seq(WriterCommands(t)) /\ Shaped(b \o SetTaskStatus(t))
      /\ NoSetRow(b \o SetTaskStatus(t)) /\ b \o SetTaskStatus(t) # <<>>
  BY <1>0, <1>2, SetTaskStatusIs, WriterProgram
<1> QED
  BY <1>0, <1>1, <1>3, <1>4, WriterProgram

(* No request begins by removing something it has not looked at.           *)
Tidy(program) ==
    \A i \in 1 .. Len(program) :
      program[i].do \notin {"srem_user", "srem_mapping", "del_task_key", "del_user", "del_mapping"}

(* The programs of the removals, and what they are continued with.         *)
Part(more) == more \in Seq(RemovalCommands) /\ Plain(more) /\ BarrierFree(more)

LEMMA SmallParts ==
    ASSUME NEW t \in Tasks, NEW s \in Sessions
    PROVE  /\ Part(<<>>) /\ Part(Drop(t)) /\ Part(Unlist(t)) /\ Part(ScardUser)
           /\ Part(<<Command("del_user", None)>>) /\ Part(<<Command("del_mapping", s)>>)
<1>1. ASSUME NEW t1 \in Tasks
      PROVE  /\ Command("srem_user", t1) \in RemovalCommands
             /\ Command("srem_mapping", t1) \in RemovalCommands
             /\ Command("del_task_key", t1) \in RemovalCommands
  BY DEF Command, RemovalCommands, TaskDos
<1>2. /\ Command("del_mapping", s) \in RemovalCommands
      /\ Command("scard_user", None) \in RemovalCommands
      /\ Command("del_user", None) \in RemovalCommands
  BY DEF Command, RemovalCommands, SessionDos, UserDos
<1>3. Part(<<>>)
  BY DEF Part, Plain, BarrierFree
<1>4. Part(Drop(t)) /\ Part(Unlist(t))
  <2>1. Drop(t) \in Seq(RemovalCommands) /\ Unlist(t) \in Seq(RemovalCommands)
    BY <1>1 DEF Drop, Unlist
  <2>2. /\ Len(Drop(t)) = 3 /\ Drop(t)[1].do = "srem_user" /\ Drop(t)[2].do = "srem_mapping"
        /\ Drop(t)[3].do = "del_task_key"
        /\ Len(Unlist(t)) = 2 /\ Unlist(t)[1].do = "srem_user" /\ Unlist(t)[2].do = "srem_mapping"
    BY DEF Drop, Unlist, Command
  <2> QED
    BY <2>1, <2>2 DEF Part, Plain, BarrierFree, Barriers
<1>5. Part(ScardUser) /\ Part(<<Command("del_user", None)>>) /\ Part(<<Command("del_mapping", s)>>)
  <2>1. ASSUME NEW c \in RemovalCommands, c.do \in {"scard_user", "del_user", "del_mapping"}
        PROVE  Part(<<c>>)
    BY <2>1 DEF Part, Plain, BarrierFree, Barriers
  <2> QED
    BY <1>2, <2>1 DEF ScardUser, Command
<1> QED
  BY <1>3, <1>4, <1>5

LEMMA ForEachPart ==
    ASSUME NEW order \in Seq(Tasks), NEW do \in {"drop_unless_row", "del_row_and_task_key"}
    PROVE  /\ Part(ForEach(order, do)) /\ Len(ForEach(order, do)) = Len(order)
           /\ \A i \in 1 .. Len(order) : ForEach(order, do)[i] = Command(do, order[i])
<1> DEFINE c == ForEach(order, do)
           n == Len(order)
<1>1. n \in Nat /\ c = [i \in 1 .. n |-> Command(do, order[i])]
  BY DEF ForEach
<1>2. \A i \in 1 .. n : order[i] \in Tasks
  OBVIOUS
<1> HIDE DEF c, n
<1>3. \A i \in 1 .. n : Command(do, order[i]) \in RemovalCommands
  BY <1>2 DEF Command, RemovalCommands, TaskDos
<1>4. c \in [1 .. n -> RemovalCommands] /\ \A i \in 1 .. n : c[i] = Command(do, order[i])
  BY <1>1, <1>3
<1>5. c \in Seq(RemovalCommands) /\ Len(c) = n
  BY <1>1, <1>4
<1>6. \A i \in 1 .. n : c[i].do = do
  BY <1>4 DEF Command
<1> QED
  BY <1>4, <1>5, <1>6 DEF Part, Plain, BarrierFree, Barriers, c, n

LEMMA CleanupPart ==
    ASSUME NEW order \in Seq(Tasks)
    PROVE  LET c == ForEach(order, "drop_unless_row") \o ScardUser
           IN  /\ Part(c) /\ Len(c) = Len(order) + 1
               /\ \A i \in 1 .. Len(order) : c[i] = Command("drop_unless_row", order[i])
               /\ c[Len(order) + 1] = Command("scard_user", None)
<1> DEFINE a == ForEach(order, "drop_unless_row")
           c == a \o ScardUser
           n == Len(order)
<1>1. /\ a \in Seq(RemovalCommands) /\ Len(a) = n /\ n \in Nat
      /\ \A i \in 1 .. n : a[i] = Command("drop_unless_row", order[i])
  BY ForEachPart DEF Part
<1>2. Command("scard_user", None) \in RemovalCommands
  BY DEF Command, RemovalCommands, UserDos
<1> HIDE DEF a, n
<1>3. ScardUser \in Seq(RemovalCommands) /\ Len(ScardUser) = 1
      /\ ScardUser[1] = Command("scard_user", None)
  BY <1>2 DEF ScardUser
<1>4. /\ c \in Seq(RemovalCommands) /\ Len(c) = n + 1
      /\ \A i \in 1 .. n + 1 : c[i] = IF i <= n THEN a[i] ELSE ScardUser[i - n]
  <2>1. /\ c \in Seq(RemovalCommands) /\ Len(c) = Len(a) + Len(ScardUser)
        /\ \A i \in 1 .. Len(a) + Len(ScardUser) :
             c[i] = IF i <= Len(a) THEN a[i] ELSE ScardUser[i - Len(a)]
    <3> HIDE DEF c
    <3>1. c = a \o ScardUser
      BY DEF c
    <3> QED
      BY <1>1, <1>3, <3>1, ConcatProperties
  <2> HIDE DEF c
  <2> QED
    BY <1>1, <1>3, <2>1
<1> HIDE DEF c
<1>5. /\ \A i \in 1 .. n : c[i] = Command("drop_unless_row", order[i])
      /\ c[n + 1] = Command("scard_user", None)
  BY <1>1, <1>3, <1>4
<1>6. \A i \in 1 .. n + 1 : c[i].do \in {"drop_unless_row", "scard_user"}
  BY <1>1, <1>4, <1>5 DEF Command
<1> QED
  BY <1>4, <1>5, <1>6 DEF Part, Plain, BarrierFree, Barriers, a, c, n

LEMMA CleanupIs ==
    /\ CleanupUserTasks \in Seq(RemovalCommands) /\ Shaped(CleanupUserTasks)
    /\ CleanupUserTasks # <<>> /\ Tidy(CleanupUserTasks)
<1>1. Command("smembers_user", None) \in RemovalCommands
  BY DEF Command, RemovalCommands, UserDos
<1>2. CleanupUserTasks \in Seq(RemovalCommands) /\ Len(CleanupUserTasks) = 1
      /\ CleanupUserTasks[1].do = "smembers_user"
  BY <1>1 DEF CleanupUserTasks, Command
<1>3. Plain(CleanupUserTasks) /\ Tidy(CleanupUserTasks)
  BY <1>2 DEF Plain, Tidy
<1>4. CleanupUserTasks # <<>>
  <2>1. 1 # 0
    OBVIOUS
  <2> QED
    BY <1>2, <2>1, EmptySeq
<1> QED
  BY <1>2, <1>3, <1>4, PlainIsShaped

LEMMA DeleteTaskIs ==
    ASSUME NEW t \in Tasks, home \in [Tasks -> Sessions]
    PROVE  /\ DeleteTask(t) \in Seq(RemovalCommands) /\ Shaped(DeleteTask(t))
           /\ DeleteTask(t) # <<>> /\ Tidy(DeleteTask(t))
<1>0. home[t] \in Sessions
  OBVIOUS
<1>1. /\ Command("stop_unless_row", t) \in RemovalCommands
      /\ Command("del_row_and_task_key", t) \in RemovalCommands
      /\ Command("scard_mapping", home[t]) \in RemovalCommands
      /\ Command("scard_user", None) \in RemovalCommands
  BY <1>0 DEF Command, RemovalCommands, UserDos, TaskDos, SessionDos
<1>2. /\ DeleteTask(t) \in Seq(RemovalCommands) /\ Len(DeleteTask(t)) = 4
      /\ DeleteTask(t)[1].do = "stop_unless_row" /\ DeleteTask(t)[2].do = "del_row_and_task_key"
      /\ DeleteTask(t)[3].do = "scard_mapping" /\ DeleteTask(t)[4].do = "scard_user"
  BY <1>1 DEF DeleteTask, Command
<1>3. Plain(DeleteTask(t)) /\ Tidy(DeleteTask(t))
  BY <1>2 DEF Plain, Tidy
<1>4. DeleteTask(t) # <<>>
  <2>1. 4 # 0
    OBVIOUS
  <2> QED
    BY <1>2, <2>1, EmptySeq
<1> QED
  BY <1>2, <1>3, <1>4, PlainIsShaped

LEMMA DeleteSessionIs ==
    ASSUME NEW s \in Sessions
    PROVE  LET c == DeleteSession(s)
           IN  /\ c \in Seq(RemovalCommands) /\ Shaped(c) /\ Tidy(c) /\ Len(c) = 8
               /\ c[1] = Command("smembers_user", None) /\ c[2] = Command("stop_unless_mapping", s)
               /\ c[3] = Command("delete_thread", s) /\ c[4] = Command("delete_artifacts", s)
               /\ c[5] = Command("smembers_mapping", s) /\ c[6] = Command("scard_mapping", s)
               /\ c[7] = Command("scard_user", None) /\ c[8] = Command("reply_deleted", s)
<1> DEFINE c == DeleteSession(s)
<1>1. /\ Command("smembers_user", None) \in RemovalCommands
      /\ Command("stop_unless_mapping", s) \in RemovalCommands
      /\ Command("delete_thread", s) \in RemovalCommands
      /\ Command("delete_artifacts", s) \in RemovalCommands
      /\ Command("smembers_mapping", s) \in RemovalCommands
      /\ Command("scard_mapping", s) \in RemovalCommands
      /\ Command("scard_user", None) \in RemovalCommands
      /\ Command("reply_deleted", s) \in RemovalCommands
  BY DEF Command, RemovalCommands, UserDos, SessionDos
<1>2. /\ c \in Seq(RemovalCommands) /\ Len(c) = 8
      /\ c[1] = Command("smembers_user", None) /\ c[2] = Command("stop_unless_mapping", s)
      /\ c[3] = Command("delete_thread", s) /\ c[4] = Command("delete_artifacts", s)
      /\ c[5] = Command("smembers_mapping", s) /\ c[6] = Command("scard_mapping", s)
      /\ c[7] = Command("scard_user", None) /\ c[8] = Command("reply_deleted", s)
  BY <1>1 DEF DeleteSession
<1> HIDE DEF c
<1>3. /\ c[1].do = "smembers_user" /\ c[2].do = "stop_unless_mapping"
      /\ c[3].do = "delete_thread" /\ c[4].do = "delete_artifacts"
      /\ c[5].do = "smembers_mapping" /\ c[6].do = "scard_mapping"
      /\ c[7].do = "scard_user" /\ c[8].do = "reply_deleted"
  BY <1>2 DEF Command
<1>4. \A i \in 1 .. 8 : c[i].do \notin {"sadd_user", "sadd_mapping", "set_task_key", "set_row"}
                       /\ (c[i].do = "reply_deleted" => i = 8)
  BY <1>3
<1>5. Shaped(c)
  BY <1>2, <1>4 DEF Shaped, Then
<1>6. Tidy(c)
  BY <1>2, <1>3 DEF Tidy
<1> QED
  BY <1>2, <1>5, <1>6 DEF c

-----------------------------------------------------------------------------
(* Steps: a process begins a program, goes on with it, or gives it up.     *)

Own(p) == IF serves[p] = "removal" THEN RemovalCommands ELSE WriterCommands(serves[p])

Runs(p, more) ==
    /\ todo[p] # <<>>
    /\ more \in Seq(Own(p)) /\ Shaped(more) /\ BarrierFree(more) /\ NoReply(more)
    /\ Continue(p, more)

Stops(p) == Do(p, {"stop_unless_row", "stop_unless_mapping"}) /\ Stop(p)

Program(for, program) ==
    /\ \/ for \in Tasks /\ program \in Seq(WriterCommands(for)) /\ NoSetRow(program)
       \/ for = "removal" /\ program \in Seq(RemovalCommands) /\ Tidy(program)
    /\ Shaped(program) /\ program # <<>>

Arrives(p) ==
    /\ serves[p] = None
    /\ \E for, program :
         /\ Program(for, program)
         /\ todo' = [todo EXCEPT ![p] = program] /\ serves' = [serves EXCEPT ![p] = for]

Moves(p) == Arrives(p) \/ Stops(p) \/ \E more : Runs(p, more)

(* Whose command it is, and what about.                                    *)
LEMMA HeadIs ==
    ASSUME ProgramsOK, NEW p \in Processes, todo[p] # <<>>
    PROVE  /\ Head(todo[p]) = todo[p][1] /\ 1 \in 1 .. Len(todo[p])
           /\ todo[p] \in Seq(Own(p)) /\ Head(todo[p]) \in Own(p)
           /\ \/ serves[p] \in Tasks /\ serves[p] # "removal" /\ On(p) = serves[p]
                 /\ Head(todo[p]) \in WriterCommands(serves[p])
              \/ serves[p] = "removal" /\ Head(todo[p]) \in RemovalCommands
<1>1. serves[p] \in Tasks \cup {"removal"} /\ todo[p] \in Seq(Own(p))
  BY IdAssumption DEF ProgramsOK, Own
<1>2. Head(todo[p]) = todo[p][1] /\ 1 \in 1 .. Len(todo[p]) /\ Head(todo[p]) \in Own(p)
  BY <1>1
<1>3. CASE serves[p] \in Tasks
  <2>1. serves[p] # "removal"
    BY <1>3, IdAssumption
  <2>2. Head(todo[p]) \in WriterCommands(serves[p])
    BY <1>2, <2>1 DEF Own
  <2>3. On(p) = serves[p]
    BY <2>2 DEF On, WriterCommands
  <2> QED
    BY <1>1, <1>2, <1>3, <2>1, <2>2, <2>3
<1>4. CASE serves[p] = "removal"
  BY <1>1, <1>2, <1>4 DEF Own
<1> QED
  BY <1>1, <1>3, <1>4

LEMMA WriterHead ==
    ASSUME ProgramsOK, NEW p \in Processes, todo[p] # <<>>,
           Head(todo[p]).do \in WriterDos \ {"stop_unless_row"}
    PROVE  serves[p] \in Tasks /\ On(p) = serves[p]
<1>1. (WriterDos \ {"stop_unless_row"}) \cap (TaskDos \cup SessionDos \cup UserDos) = {}
  BY DEF WriterDos, TaskDos, SessionDos, UserDos
<1>2. Head(todo[p]) \notin RemovalCommands
  BY <1>1 DEF RemovalCommands
<1> QED
  BY <1>2, HeadIs

LEMMA RemovalHead ==
    ASSUME ProgramsOK, NEW p \in Processes, todo[p] # <<>>,
           Head(todo[p]).do \in (TaskDos \cup SessionDos \cup UserDos) \ {"stop_unless_row"}
    PROVE  /\ serves[p] = "removal" /\ serves[p] \notin Tasks
           /\ Head(todo[p]).do \in TaskDos => On(p) \in Tasks
           /\ Head(todo[p]).do \in SessionDos => On(p) \in Sessions
           /\ Head(todo[p]).do \in UserDos => On(p) = None
<1>1. WriterDos \cap ((TaskDos \cup SessionDos \cup UserDos) \ {"stop_unless_row"}) = {}
  BY DEF WriterDos, TaskDos, SessionDos, UserDos
<1>2. serves[p] = "removal" /\ Head(todo[p]) \in RemovalCommands
  <2>1. \A t : Head(todo[p]) \notin WriterCommands(t)
    BY <1>1 DEF WriterCommands
  <2> QED
    BY <2>1, HeadIs
<1>3. TaskDos \cap SessionDos = {} /\ TaskDos \cap UserDos = {} /\ SessionDos \cap UserDos = {}
  BY DEF TaskDos, SessionDos, UserDos
<1>4. /\ Head(todo[p]).do \in TaskDos => On(p) \in Tasks
      /\ Head(todo[p]).do \in SessionDos => On(p) \in Sessions
      /\ Head(todo[p]).do \in UserDos => On(p) = None
  BY <1>2, <1>3 DEF RemovalCommands, On
<1> QED
  BY <1>2, <1>4, IdAssumption

LEMMA NothingMore ==
    ASSUME ProgramsOK, NEW p \in Processes, todo[p] # <<>>, Continue(p, <<>>)
    PROVE  Runs(p, <<>>)
<1>1. /\ <<>> \in Seq(Own(p)) /\ Shaped(<<>>) /\ BarrierFree(<<>>) /\ NoReply(<<>>)
  <2>1. Plain(<<>>) /\ BarrierFree(<<>>)
    BY DEF Plain, BarrierFree
  <2> QED
    BY <2>1, PlainIsShaped
<1> QED
  BY <1>1 DEF Runs

LEMMA PartMore ==
    ASSUME ProgramsOK, NEW p \in Processes, todo[p] # <<>>, serves[p] = "removal",
           NEW more, Part(more), Continue(p, more)
    PROVE  Runs(p, more)
  BY PlainIsShaped DEF Runs, Part, Own

LEMMA SeqsOfKey ==
    ASSUME NEW key, KeyOK(key), NEW order \in SetToSeqs(key.has)
    PROVE  order \in Seq(Tasks) /\ \A t \in key.has : \E i \in 1 .. Len(order) : order[i] = t
<1> DEFINE S == key.has
           n == Cardinality(S)
<1>1. S \subseteq Tasks /\ IsFiniteSet(S) /\ n \in Nat
  BY FS_CardinalityType DEF KeyOK, Keys
<1>2. order \in [1 .. n -> S] /\ \A i, j \in 1 .. n : i # j => order[i] # order[j]
  BY DEF SetToSeqs
<1> HIDE DEF S, n
<1>3. order \in Seq(Tasks) /\ Len(order) = n
  BY <1>1, <1>2
<1>4. order \in Injection(1 .. n, S)
  BY <1>2 DEF Injection, IsInjective
<1>5. IsFiniteSet(1 .. n) /\ Cardinality(1 .. n) = n
  BY <1>1, FS_Interval
<1>6. order \in Surjection(1 .. n, S)
  BY <1>1, <1>4, <1>5, FS_Injection DEF n
<1>7. \A t \in S : \E i \in 1 .. n : order[i] = t
  BY <1>6 DEF Surjection
<1> QED
  BY <1>3, <1>7 DEF S

LEMMA RequestArrives ==
    ASSUME StoreOK, ProgramsOK, NEW h \in Handlers, Request(h)
    PROVE  Arrives(h) /\ UNCHANGED <<home, row, taskkey, user, mapping, thread, artifacts, queue>>
<1>1. ASSUME NEW for, NEW program, Program(for, program), Accept(h, for, program)
      PROVE  Arrives(h) /\ UNCHANGED <<home, row, taskkey, user, mapping, thread, artifacts, queue>>
  BY <1>1 DEF Accept, Arrives, keys, saved
<1>2. ASSUME NEW t \in Tasks, AcceptInvoke(h, t)
      PROVE  Accept(h, t, Invoke(t)) /\ Program(t, Invoke(t))
  BY <1>2, InvokeIs DEF AcceptInvoke, Program
<1>3. ASSUME NEW t \in Tasks, AcceptResume(h, t)
      PROVE  Accept(h, t, Resume(t)) /\ Program(t, Resume(t))
  BY <1>3, ResumeIs DEF AcceptResume, Program
<1>4. ASSUME NEW t \in Tasks, AcceptDeleteTask(h, t)
      PROVE  Accept(h, "removal", DeleteTask(t)) /\ Program("removal", DeleteTask(t))
  BY <1>4, DeleteTaskIs DEF AcceptDeleteTask, Program, StoreOK
<1>5. ASSUME NEW s \in Sessions, AcceptDeleteSession(h, s)
      PROVE  Accept(h, "removal", DeleteSession(s)) /\ Program("removal", DeleteSession(s))
  <2>1. /\ DeleteSession(s) \in Seq(RemovalCommands) /\ Shaped(DeleteSession(s))
        /\ Tidy(DeleteSession(s)) /\ Len(DeleteSession(s)) = 8
    BY DeleteSessionIs
  <2>2. DeleteSession(s) # <<>>
    <3>1. 8 # 0
      OBVIOUS
    <3> QED
      BY <2>1, <3>1, EmptySeq
  <2> QED
    BY <1>5, <2>1, <2>2 DEF AcceptDeleteSession, Program
<1>6. ASSUME AcceptListing(h)
      PROVE  Accept(h, "removal", CleanupUserTasks) /\ Program("removal", CleanupUserTasks)
  BY <1>6, CleanupIs DEF AcceptListing, Program
<1> QED
  BY <1>1, <1>2, <1>3, <1>4, <1>5, <1>6 DEF Request

LEMMA TakeArrives ==
    ASSUME ProgramsOK, NEW w \in Workers, NEW m \in queue, Take(w, m)
    PROVE  /\ Arrives(w) /\ m.on \in Tasks /\ queue' = queue \ {m}
           /\ UNCHANGED <<home, row, taskkey, user, mapping, thread, artifacts>>
<1>1. m \in Messages /\ m.on \in Tasks
  BY DEF ProgramsOK, Messages
<1>2. Program(m.on, Run(m))
  BY <1>1, RunIs DEF Program
<1>3. Arrives(w)
  BY <1>2 DEF Take, Arrives
<1> QED
  BY <1>1, <1>3 DEF Take, keys, saved

LEMMA TestMoves ==
    ASSUME StoreOK, ProgramsOK, NEW p \in Processes, Test(p)
    PROVE  Moves(p)
<1>0. todo[p] # <<>>
  BY DEF Test, Do
<1>1. ASSUME Continue(p, <<>>) PROVE Moves(p)
  BY <1>0, <1>1, NothingMore DEF Moves
<1>2. ASSUME NEW more, Part(more), serves[p] = "removal", Continue(p, more) PROVE Moves(p)
  BY <1>0, <1>2, PartMore DEF Moves
<1>3. CASE Do(p, {"create_unless_row"}) /\ Continue(p, Create(On(p)))
  <2>1. serves[p] \in Tasks /\ On(p) = serves[p] /\ serves[p] # "removal"
    BY <1>3, WriterHead, IdAssumption DEF Do, WriterDos
  <2>2. Runs(p, Create(On(p)))
    BY <1>0, <1>3, <2>1, CreateIs DEF Runs, Own
  <2> QED
    BY <2>2 DEF Moves
<1>4. CASE Do(p, {"get_row"}) /\ Continue(p, StoreRow(On(p)))
  <2>1. serves[p] \in Tasks /\ On(p) = serves[p] /\ serves[p] # "removal"
    BY <1>4, WriterHead, IdAssumption DEF Do, WriterDos
  <2>2. Runs(p, StoreRow(On(p)))
    BY <1>0, <1>4, <2>1, StoreRowIs DEF Runs, Own
  <2> QED
    BY <2>2 DEF Moves
<1>5. CASE Do(p, {"drop_unless_row"}) /\ Continue(p, Drop(On(p)))
  <2>1. serves[p] = "removal" /\ On(p) \in Tasks
    BY <1>5, RemovalHead DEF Do, TaskDos
  <2>2. Sessions # {}
    BY <2>1 DEF StoreOK
  <2>3. Part(Drop(On(p)))
    BY <2>1, <2>2, SmallParts
  <2> QED
    BY <1>2, <1>5, <2>1, <2>3
<1>6. CASE Do(p, {"stop_unless_row"}) /\ Stop(p)
  BY <1>6 DEF Moves, Stops, Do
<1>7. CASE Do(p, {"stop_unless_mapping"}) /\ Stop(p)
  BY <1>7 DEF Moves, Stops, Do
<1>8. CASE Do(p, {"scard_user"}) /\ Continue(p, <<Command("del_user", None)>>)
  <2>1. serves[p] = "removal"
    BY <1>8, RemovalHead DEF Do, UserDos
  <2>2. Part(<<Command("del_user", None)>>)
    <3>1. Command("del_user", None) \in RemovalCommands
      BY DEF Command, RemovalCommands, UserDos
    <3> QED
      BY <3>1 DEF Part, Plain, BarrierFree, Barriers, Command
  <2> QED
    BY <1>2, <1>8, <2>1, <2>2
<1>9. CASE Do(p, {"scard_mapping"}) /\ Continue(p, <<Command("del_mapping", On(p))>>)
  <2>1. serves[p] = "removal" /\ On(p) \in Sessions
    BY <1>9, RemovalHead DEF Do, SessionDos
  <2>2. Part(<<Command("del_mapping", On(p))>>)
    <3>1. Command("del_mapping", On(p)) \in RemovalCommands
      BY <2>1 DEF Command, RemovalCommands, SessionDos
    <3> QED
      BY <3>1 DEF Part, Plain, BarrierFree, Barriers, Command
  <2> QED
    BY <1>2, <1>9, <2>1, <2>2
<1> QED
  BY <1>1, <1>3, <1>4, <1>5, <1>6, <1>7, <1>8, <1>9 DEF Test

LEMMA ReadMembersMoves ==
    ASSUME StoreOK, ProgramsOK, NEW p \in Processes, ReadMembers(p)
    PROVE  Moves(p)
<1>0. todo[p] # <<>>
  BY DEF ReadMembers, Do
<1>1. ASSUME NEW more, Part(more), serves[p] = "removal", Continue(p, more) PROVE Moves(p)
  BY <1>0, <1>1, PartMore DEF Moves
<1>2. CASE Do(p, {"smembers_user"}) /\ \E order \in SetToSeqs(user.has) :
             Continue(p, ForEach(order, "drop_unless_row") \o ScardUser)
  <2>1. serves[p] = "removal"
    BY <1>2, RemovalHead DEF Do, UserDos
  <2>2. PICK order \in SetToSeqs(user.has) :
          Continue(p, ForEach(order, "drop_unless_row") \o ScardUser)
    BY <1>2
  <2>3. order \in Seq(Tasks)
    BY <2>2, SeqsOfKey DEF StoreOK
  <2>4. Part(ForEach(order, "drop_unless_row") \o ScardUser)
    BY <2>3, CleanupPart
  <2> QED
    BY <1>1, <2>1, <2>2, <2>4
<1>3. CASE Do(p, {"smembers_mapping"}) /\ \E order \in SetToSeqs(mapping[On(p)].has) :
             Continue(p, ForEach(order, "del_row_and_task_key"))
  <2>1. serves[p] = "removal" /\ On(p) \in Sessions
    BY <1>3, RemovalHead DEF Do, SessionDos
  <2>2. PICK order \in SetToSeqs(mapping[On(p)].has) :
          Continue(p, ForEach(order, "del_row_and_task_key"))
    BY <1>3
  <2>3. order \in Seq(Tasks)
    BY <2>1, <2>2, SeqsOfKey DEF StoreOK
  <2>4. Part(ForEach(order, "del_row_and_task_key"))
    BY <2>3, ForEachPart
  <2> QED
    BY <1>1, <2>1, <2>2, <2>4
<1> QED
  BY <1>2, <1>3 DEF ReadMembers

LEMMA ExecuteMoves ==
    ASSUME StoreOK, ProgramsOK, NEW p \in Processes, Execute(p)
    PROVE  Moves(p)
<1>1. ASSUME todo[p] # <<>>, Continue(p, <<>>) PROVE Moves(p)
  BY <1>1, NothingMore DEF Moves
<1>2. CASE DeleteRow(p)
  <2>1. serves[p] = "removal" /\ On(p) \in Tasks /\ todo[p] # <<>>
    BY <1>2, RemovalHead DEF DeleteRow, Do, TaskDos
  <2>2. Sessions # {}
    BY <2>1 DEF StoreOK
  <2>3. Part(Unlist(On(p)))
    BY <2>1, <2>2, SmallParts
  <2> QED
    BY <1>2, <2>1, <2>3, PartMore DEF DeleteRow, Moves
<1> QED
  BY <1>1, <1>2, TestMoves, ReadMembersMoves
     DEF Execute, WriteRow, WriteUser, WriteMapping, Enqueue, RunGraph, ClearSession,
         ReplyDeleted, Do

-----------------------------------------------------------------------------
(* Types.                                                                  *)

LEMMA SaddKey ==
    ASSUME NEW key, KeyOK(key), NEW t \in Tasks
    PROVE  /\ KeyOK(Sadd(key, t)) /\ Sadd(key, t).has = key.has \cup {t}
           /\ Sadd(key, t).ttl = IF key = NoKey THEN Forever ELSE key.ttl
<1>1. CASE key = NoKey
  <2>1. Sadd(key, t) = [has |-> {t}, ttl |-> Forever] /\ key.has = {}
    BY <1>1 DEF Sadd, NoKey
  <2>2. IsFiniteSet({t})
    BY FS_Singleton
  <2> QED
    BY <1>1, <2>1, <2>2 DEF KeyOK, Keys, NoKey
<1>2. CASE key # NoKey
  <2>1. key.has # {} /\ key \in Keys
    BY <1>2 DEF KeyOK
  <2>2. Sadd(key, t) = [key EXCEPT !.has = key.has \cup {t}]
    BY <1>2 DEF Sadd
  <2>3. Sadd(key, t) \in Keys /\ Sadd(key, t).has = key.has \cup {t} /\ Sadd(key, t).ttl = key.ttl
    BY <2>1, <2>2 DEF Keys
  <2>4. IsFiniteSet(key.has \cup {t})
    BY FS_AddElement DEF KeyOK
  <2>5. Sadd(key, t) # NoKey /\ Sadd(key, t).has # {}
    BY <2>3 DEF NoKey
  <2> QED
    BY <1>2, <2>3, <2>4, <2>5 DEF KeyOK
<1> QED
  BY <1>1, <1>2

LEMMA SremKey ==
    ASSUME NEW key, KeyOK(key), NEW t \in Tasks
    PROVE  /\ KeyOK(Srem(key, t)) /\ Srem(key, t).has = key.has \ {t}
           /\ Srem(key, t) # NoKey => Srem(key, t).ttl = key.ttl
<1>1. CASE key.has \subseteq {t}
  <2>1. Srem(key, t) = NoKey /\ key.has \ {t} = {}
    BY <1>1 DEF Srem
  <2>2. IsFiniteSet({})
    BY FS_EmptySet
  <2> QED
    BY <2>1, <2>2 DEF KeyOK, Keys, NoKey
<1>2. CASE ~(key.has \subseteq {t})
  <2>1. key \in Keys
    BY DEF KeyOK
  <2>2. Srem(key, t) = [key EXCEPT !.has = key.has \ {t}]
    BY <1>2 DEF Srem
  <2>3. Srem(key, t) \in Keys /\ Srem(key, t).has = key.has \ {t} /\ Srem(key, t).ttl = key.ttl
    BY <2>1, <2>2 DEF Keys
  <2>4. IsFiniteSet(key.has \ {t})
    BY FS_Subset DEF KeyOK
  <2>5. Srem(key, t) # NoKey /\ Srem(key, t).has # {}
    BY <1>2, <2>3 DEF NoKey
  <2> QED
    BY <2>3, <2>4, <2>5 DEF KeyOK
<1> QED
  BY <1>1, <1>2

LEMMA ExpireKey ==
    ASSUME NEW key, KeyOK(key), NEW ttl \in Nat
    PROVE  /\ KeyOK(Expire(key, ttl)) /\ Expire(key, ttl).has = key.has
           /\ Expire(key, ttl).ttl = IF key = NoKey THEN 0 ELSE ttl
<1>1. CASE key = NoKey
  BY <1>1 DEF Expire, NoKey
<1>2. CASE key # NoKey
  <2>1. key.has # {} /\ key \in Keys
    BY <1>2 DEF KeyOK
  <2>2. Expire(key, ttl) = [key EXCEPT !.ttl = ttl]
    BY <1>2 DEF Expire
  <2>3. Expire(key, ttl) \in Keys /\ Expire(key, ttl).has = key.has /\ Expire(key, ttl).ttl = ttl
    BY <2>1, <2>2 DEF Keys
  <2>4. Expire(key, ttl) # NoKey
    BY <2>1, <2>3 DEF NoKey
  <2> QED
    BY <1>2, <2>1, <2>3, <2>4 DEF KeyOK
<1> QED
  BY <1>1, <1>2

LEMMA FadeKey ==
    ASSUME NEW key, KeyOK(key)
    PROVE  /\ KeyOK(Fade(key)) /\ Fade(key).has \subseteq key.has
           /\ key.ttl = Forever => Fade(key) = key
           /\ key.ttl # Forever => Fade(key).ttl \in Nat
           /\ key.ttl # Forever /\ key.ttl > 1 =>
                Fade(key).has = key.has /\ Fade(key).ttl = key.ttl - 1
<1>0. key \in Keys /\ (key.ttl = Forever \/ key.ttl \in Nat)
  BY DEF KeyOK, Keys
<1>1. CASE key.ttl = Forever
  BY <1>1 DEF Fade
<1>2. CASE key.ttl # Forever /\ key.ttl <= 1
  <2>1. Fade(key) = NoKey
    BY <1>2 DEF Fade
  <2>2. IsFiniteSet({})
    BY FS_EmptySet
  <2>3. ~(key.ttl > 1)
    BY <1>0, <1>2
  <2> QED
    BY <1>2, <2>1, <2>2, <2>3 DEF KeyOK, Keys, NoKey
<1>3. CASE key.ttl # Forever /\ ~(key.ttl <= 1)
  <2>1. key.ttl \in Nat /\ key.ttl - 1 \in Nat /\ key.ttl > 1
    BY <1>0, <1>3
  <2>2. Fade(key) = [key EXCEPT !.ttl = key.ttl - 1]
    BY <1>3 DEF Fade
  <2>3. Fade(key) \in Keys /\ Fade(key).has = key.has /\ Fade(key).ttl = key.ttl - 1
    BY <1>0, <2>1, <2>2 DEF Keys
  <2>4. key # NoKey
    BY <2>1 DEF NoKey
  <2>5. Fade(key) # NoKey
    BY <2>1, <2>3 DEF NoKey
  <2> QED
    BY <1>3, <2>1, <2>3, <2>4, <2>5 DEF KeyOK
<1> QED
  BY <1>1, <1>2, <1>3

LEMMA NoKeyOK == KeyOK(NoKey) /\ NoKey.has = {} /\ NoKey.ttl = 0
  BY FS_EmptySet DEF KeyOK, Keys, NoKey

(* Who writes what, and where.                                             *)
LEMMA Ons ==
    ASSUME StoreOK, ProgramsOK, NEW p \in Processes
    PROVE  /\ Do(p, {"set_row", "set_task_key", "sadd_user", "sadd_mapping", "expire_user",
                     "expire_mapping", "expire_mapping_as_task", "run_graph", "create_unless_row",
                     "get_row", "enqueue_invoke", "enqueue_resume"}) =>
                serves[p] \in Tasks /\ On(p) = serves[p] /\ home[On(p)] \in Sessions
           /\ Do(p, {"srem_user", "srem_mapping", "del_task_key", "del_row_and_task_key",
                     "drop_unless_row"}) =>
                serves[p] = "removal" /\ On(p) \in Tasks /\ home[On(p)] \in Sessions
           /\ Do(p, {"delete_thread", "delete_artifacts", "smembers_mapping", "scard_mapping",
                     "del_mapping", "reply_deleted", "stop_unless_mapping"}) =>
                serves[p] = "removal" /\ On(p) \in Sessions
           /\ Do(p, {"smembers_user", "scard_user", "del_user"}) =>
                serves[p] = "removal" /\ On(p) = None
<1>1. ASSUME Do(p, WriterDos \ {"stop_unless_row"})
      PROVE  serves[p] \in Tasks /\ On(p) = serves[p]
  BY <1>1, WriterHead DEF Do
<1>2. ASSUME Do(p, TaskDos \ {"stop_unless_row"})
      PROVE  serves[p] = "removal" /\ On(p) \in Tasks
  BY <1>2, RemovalHead DEF Do
<1>3. ASSUME Do(p, SessionDos)
      PROVE  serves[p] = "removal" /\ On(p) \in Sessions
  <2>1. "stop_unless_row" \notin SessionDos
    BY DEF SessionDos
  <2> QED
    BY <1>3, <2>1, RemovalHead DEF Do
<1>4. ASSUME Do(p, UserDos)
      PROVE  serves[p] = "removal" /\ On(p) = None
  <2>1. "stop_unless_row" \notin UserDos
    BY DEF UserDos
  <2> QED
    BY <1>4, <2>1, RemovalHead DEF Do
<1>5. \A t \in Tasks : home[t] \in Sessions
  BY DEF StoreOK
<1>6. /\ {"set_row", "set_task_key", "sadd_user", "sadd_mapping", "expire_user",
          "expire_mapping", "expire_mapping_as_task", "run_graph", "create_unless_row",
          "get_row", "enqueue_invoke", "enqueue_resume"} \subseteq WriterDos \ {"stop_unless_row"}
      /\ {"srem_user", "srem_mapping", "del_task_key", "del_row_and_task_key",
          "drop_unless_row"} \subseteq TaskDos \ {"stop_unless_row"}
      /\ {"delete_thread", "delete_artifacts", "smembers_mapping", "scard_mapping",
          "del_mapping", "reply_deleted", "stop_unless_mapping"} \subseteq SessionDos
      /\ {"smembers_user", "scard_user", "del_user"} \subseteq UserDos
  BY DEF WriterDos, TaskDos, SessionDos, UserDos
<1>7. \A a, b : a \subseteq b /\ Do(p, a) => Do(p, b)
  BY DEF Do
<1> QED
  BY <1>1, <1>2, <1>3, <1>4, <1>5, <1>6, <1>7

(* The writes, case by case.                                               *)
LEMMA UserWrites ==
    ASSUME StoreOK, ProgramsOK, NEW p \in Processes, WriteUser(p)
    PROVE  /\ KeyOK(user')
           /\ \/ Do(p, {"sadd_user"}) /\ serves[p] \in Tasks /\ On(p) = serves[p]
                 /\ user' = Sadd(user, serves[p])
              \/ Do(p, {"srem_user"}) /\ serves[p] = "removal" /\ On(p) \in Tasks
                 /\ user' = Srem(user, On(p))
              \/ Do(p, {"expire_user"}) /\ serves[p] \in Tasks /\ On(p) = serves[p]
                 /\ user' = Expire(user, SessionTTL)
              \/ Do(p, {"del_user"}) /\ serves[p] = "removal" /\ On(p) = None /\ user' = NoKey
<1>0. KeyOK(user) /\ SessionTTL \in Nat
  BY TTLAssumption DEF StoreOK
<1>1. CASE Do(p, {"sadd_user"}) /\ user' = Sadd(user, On(p))
  <2>1. serves[p] \in Tasks /\ On(p) = serves[p]
    BY <1>1, Ons DEF Do
  <2> QED
    BY <1>0, <1>1, <2>1, SaddKey
<1>2. CASE Do(p, {"srem_user"}) /\ user' = Srem(user, On(p))
  <2>1. serves[p] = "removal" /\ On(p) \in Tasks
    BY <1>2, Ons DEF Do
  <2> QED
    BY <1>0, <1>2, <2>1, SremKey
<1>3. CASE Do(p, {"expire_user"}) /\ user' = Expire(user, SessionTTL)
  <2>1. serves[p] \in Tasks /\ On(p) = serves[p]
    BY <1>3, Ons DEF Do
  <2> QED
    BY <1>0, <1>3, <2>1, ExpireKey
<1>4. CASE Do(p, {"del_user"}) /\ user' = NoKey
  <2>1. serves[p] = "removal" /\ On(p) = None
    BY <1>4, Ons DEF Do
  <2> QED
    BY <1>4, <2>1, NoKeyOK
<1> QED
  BY <1>1, <1>2, <1>3, <1>4 DEF WriteUser

LEMMA MappingWrites ==
    ASSUME StoreOK, ProgramsOK, NEW p \in Processes, WriteMapping(p)
    PROVE  \E s \in Sessions, key \in Keys :
             /\ KeyOK(key) /\ mapping' = [mapping EXCEPT ![s] = key]
             /\ \/ Do(p, {"sadd_mapping"}) /\ serves[p] \in Tasks /\ On(p) = serves[p]
                   /\ s = home[serves[p]] /\ key = Sadd(mapping[s], serves[p])
                \/ Do(p, {"srem_mapping"}) /\ serves[p] = "removal" /\ On(p) \in Tasks
                   /\ s = home[On(p)] /\ key = Srem(mapping[s], On(p))
                \/ Do(p, ExpireMapping) /\ serves[p] \in Tasks /\ On(p) = serves[p]
                   /\ s = home[serves[p]]
                   /\ \/ Do(p, {"expire_mapping"}) /\ key = Expire(mapping[s], SessionTTL)
                      \/ Do(p, {"expire_mapping_as_task"}) /\ key = Expire(mapping[s], TaskTTL)
                \/ Do(p, {"del_mapping"}) /\ serves[p] = "removal" /\ On(p) = s /\ key = NoKey
<1>0. /\ mapping \in [Sessions -> Keys] /\ \A s \in Sessions : KeyOK(mapping[s])
      /\ SessionTTL \in Nat /\ TaskTTL \in Nat /\ \A key : KeyOK(key) => key \in Keys
  BY TTLAssumption DEF StoreOK, KeyOK
<1>1. CASE Do(p, {"sadd_mapping"}) /\ mapping' = [mapping EXCEPT ![home[On(p)]] = Sadd(@, On(p))]
  <2>1. serves[p] \in Tasks /\ On(p) = serves[p] /\ home[On(p)] \in Sessions
    BY <1>1, Ons DEF Do
  <2>2. KeyOK(Sadd(mapping[home[On(p)]], On(p)))
    BY <1>0, <2>1, SaddKey
  <2> QED
    BY <1>0, <1>1, <2>1, <2>2
<1>2. CASE Do(p, {"srem_mapping"}) /\ mapping' = [mapping EXCEPT ![home[On(p)]] = Srem(@, On(p))]
  <2>1. serves[p] = "removal" /\ On(p) \in Tasks /\ home[On(p)] \in Sessions
    BY <1>2, Ons DEF Do
  <2>2. KeyOK(Srem(mapping[home[On(p)]], On(p)))
    BY <1>0, <2>1, SremKey
  <2> QED
    BY <1>0, <1>2, <2>1, <2>2
<1>3. CASE Do(p, {"expire_mapping"})
           /\ mapping' = [mapping EXCEPT ![home[On(p)]] = Expire(@, SessionTTL)]
  <2>1. serves[p] \in Tasks /\ On(p) = serves[p] /\ home[On(p)] \in Sessions
    BY <1>3, Ons DEF Do
  <2>2. KeyOK(Expire(mapping[home[On(p)]], SessionTTL))
    BY <1>0, <2>1, ExpireKey
  <2>3. Do(p, ExpireMapping)
    BY <1>3 DEF Do, ExpireMapping
  <2> QED
    BY <1>0, <1>3, <2>1, <2>2, <2>3
<1>4. CASE Do(p, {"expire_mapping_as_task"})
           /\ mapping' = [mapping EXCEPT ![home[On(p)]] = Expire(@, TaskTTL)]
  <2>1. serves[p] \in Tasks /\ On(p) = serves[p] /\ home[On(p)] \in Sessions
    BY <1>4, Ons DEF Do
  <2>2. KeyOK(Expire(mapping[home[On(p)]], TaskTTL))
    BY <1>0, <2>1, ExpireKey
  <2>3. Do(p, ExpireMapping)
    BY <1>4 DEF Do, ExpireMapping
  <2> QED
    BY <1>0, <1>4, <2>1, <2>2, <2>3
<1>5. CASE Do(p, {"del_mapping"}) /\ mapping' = [mapping EXCEPT ![On(p)] = NoKey]
  <2>1. serves[p] = "removal" /\ On(p) \in Sessions
    BY <1>5, Ons DEF Do
  <2> QED
    BY <1>0, <1>5, <2>1, NoKeyOK
<1> QED
  BY <1>1, <1>2, <1>3, <1>4, <1>5 DEF WriteMapping

LEMMA StoreInit == Init => StoreOK
<1> SUFFICES ASSUME Init PROVE StoreOK
  OBVIOUS
<1>1. /\ home \in [Tasks -> Sessions] /\ row = [t \in Tasks |-> 0] /\ taskkey = [t \in Tasks |-> 0]
      /\ user = NoKey /\ mapping = [s \in Sessions |-> NoKey]
      /\ thread = {} /\ artifacts = {} /\ deleted = {} /\ crossed = {}
  BY DEF Init
<1>2. row \in [Tasks -> 0 .. SessionTTL] /\ taskkey \in [Tasks -> 0 .. TaskTTL]
  BY <1>1, TTLAssumption
<1>3. mapping \in [Sessions -> Keys] /\ \A s \in Sessions : KeyOK(mapping[s])
  BY <1>1, NoKeyOK DEF KeyOK
<1> QED
  BY <1>1, <1>2, <1>3, NoKeyOK DEF StoreOK

LEMMA StoreStep ==
    ASSUME StoreOK, ProgramsOK, [Next]_vars
    PROVE  StoreOK'
<1> USE DEF StoreOK
<1>1. ASSUME NEW h \in Handlers, Request(h) PROVE StoreOK'
  <2>1. UNCHANGED <<home, row, taskkey, user, mapping, thread, artifacts, queue>>
    BY <1>1, RequestArrives
  <2>2. deleted' \subseteq Sessions
    BY <1>1 DEF Request, AcceptInvoke, AcceptResume, AcceptListing, AcceptDeleteTask,
         AcceptDeleteSession
  <2>3. ASSUME NEW for \in Tasks \cup {"removal"}, NEW program, Accept(h, for, program)
        PROVE  crossed' \subseteq Tasks
    BY <2>3 DEF Accept
  <2>4. crossed' \subseteq Tasks
    BY <1>1, <2>3 DEF Request, AcceptInvoke, AcceptResume, AcceptListing, AcceptDeleteTask,
         AcceptDeleteSession
  <2> QED
    BY <2>1, <2>2, <2>4 DEF KeyOK, Keys
<1>2. ASSUME NEW w \in Workers, NEW m \in queue, Take(w, m) PROVE StoreOK'
  BY <1>2 DEF Take, keys, saved, notes, KeyOK, Keys
<1>3. ASSUME NEW p \in Processes, Execute(p) PROVE StoreOK'
  <2>1. CASE Test(p) \/ ReadMembers(p) \/ Enqueue(p)
    BY <2>1 DEF Test, ReadMembers, Enqueue, keys, saved, notes, KeyOK, Keys
  <2>2. CASE WriteRow(p) \/ DeleteRow(p)
    <3>1. SessionTTL \in 0 .. SessionTTL /\ TaskTTL \in 0 .. TaskTTL
          /\ 0 \in 0 .. SessionTTL /\ 0 \in 0 .. TaskTTL
      BY TTLAssumption
    <3>2. row' \in [Tasks -> 0 .. SessionTTL] /\ taskkey' \in [Tasks -> 0 .. TaskTTL]
      BY <2>2, <3>1 DEF WriteRow, DeleteRow
    <3> QED
      BY <2>2, <3>2 DEF WriteRow, DeleteRow, keys, saved, notes, KeyOK, Keys
  <2>3. CASE WriteUser(p)
    <3>1. KeyOK(user')
      BY <2>3, UserWrites
    <3> QED
      BY <2>3, <3>1 DEF WriteUser, saved, notes, KeyOK, Keys
  <2>4. CASE WriteMapping(p)
    <3>1. PICK s \in Sessions, key \in Keys : KeyOK(key) /\ mapping' = [mapping EXCEPT ![s] = key]
      BY <2>4, MappingWrites
    <3>2. mapping' \in [Sessions -> Keys] /\ \A x \in Sessions : KeyOK(mapping'[x])
      BY <3>1 DEF KeyOK
    <3> QED
      BY <2>4, <3>2 DEF WriteMapping, saved, notes, KeyOK, Keys
  <2>5. CASE RunGraph(p)
    <3>1. home[On(p)] \in Sessions
      BY <2>5, Ons DEF RunGraph, Do
    <3> QED
      BY <2>5, <3>1 DEF RunGraph, keys, notes, KeyOK, Keys
  <2>6. CASE ClearSession(p)
    BY <2>6 DEF ClearSession, keys, notes, KeyOK, Keys
  <2>7. CASE ReplyDeleted(p)
    <3>1. On(p) \in Sessions
      BY <2>7, Ons DEF ReplyDeleted, Do
    <3> QED
      BY <2>7, <3>1 DEF ReplyDeleted, keys, saved, KeyOK, Keys
  <2> QED
    BY <1>3, <2>1, <2>2, <2>3, <2>4, <2>5, <2>6, <2>7 DEF Execute
<1>4. CASE Tick
  <2>1. row' \in [Tasks -> 0 .. SessionTTL] /\ taskkey' \in [Tasks -> 0 .. TaskTTL]
    BY <1>4, TTLAssumption DEF Tick
  <2>2. KeyOK(user')
    BY <1>4, FadeKey DEF Tick
  <2>3. mapping' \in [Sessions -> Keys] /\ \A s \in Sessions : KeyOK(mapping'[s])
    BY <1>4, FadeKey DEF Tick, KeyOK
  <2> QED
    BY <1>4, <2>1, <2>2, <2>3 DEF Tick, saved, notes, KeyOK, Keys
<1>5. CASE UNCHANGED vars
  BY <1>5 DEF vars, keys, saved, notes, KeyOK, Keys
<1> QED
  BY <1>1, <1>2, <1>3, <1>4, <1>5 DEF Next

LEMMA OwnCommands ==
    ASSUME ProgramsOK, NEW p \in Processes, todo[p] # <<>>
    PROVE  Own(p) \subseteq Commands
<1>1. \A t \in Tasks : WriterCommands(t) \subseteq Commands
  BY DEF WriterCommands, Commands, Dos
<1>2. RemovalCommands \subseteq Commands
  BY DEF RemovalCommands, Commands, Dos
<1> QED
  BY <1>1, <1>2, HeadIs DEF Own

(* What a step leaves behind: the program of one process, typed and shaped. *)
ProgramOK(p) ==
    /\ serves[p] = None <=> todo[p] = <<>>
    /\ serves[p] \in Tasks => todo[p] \in Seq(WriterCommands(serves[p]))
    /\ serves[p] = "removal" => todo[p] \in Seq(RemovalCommands)
    /\ Shaped(todo[p])

LEMMA MovesOK ==
    ASSUME ProgramsOK, ShapesOK, NEW p \in Processes, Moves(p)
    PROVE  /\ todo' \in [Processes -> Seq(Commands)]
           /\ serves' \in [Processes -> Tasks \cup {"removal", None}]
           /\ \A q \in Processes \ {p} : todo'[q] = todo[q] /\ serves'[q] = serves[q]
           /\ ProgramOK(p)'
<1>0. /\ todo \in [Processes -> Seq(Commands)]
      /\ serves \in [Processes -> Tasks \cup {"removal", None}]
  BY DEF ProgramsOK
<1>1. CASE Arrives(p)
  <2>1. PICK for, program :
          /\ Program(for, program)
          /\ todo' = [todo EXCEPT ![p] = program] /\ serves' = [serves EXCEPT ![p] = for]
    BY <1>1 DEF Arrives
  <2>2. /\ \/ for \in Tasks /\ program \in Seq(WriterCommands(for))
           \/ for = "removal" /\ program \in Seq(RemovalCommands)
        /\ Shaped(program) /\ program # <<>>
    BY <2>1 DEF Program
  <2>3. program \in Seq(Commands) /\ for \in Tasks \cup {"removal"} /\ for # None
    <3>1. \A t \in Tasks : WriterCommands(t) \subseteq Commands
      BY DEF WriterCommands, Commands, Dos
    <3>2. RemovalCommands \subseteq Commands
      BY DEF RemovalCommands, Commands, Dos
    <3> QED
      BY <2>2, <3>1, <3>2, IdAssumption
  <2>4. /\ todo'[p] = program /\ serves'[p] = for
        /\ todo' \in [Processes -> Seq(Commands)]
        /\ serves' \in [Processes -> Tasks \cup {"removal", None}]
        /\ \A q \in Processes \ {p} : todo'[q] = todo[q] /\ serves'[q] = serves[q]
    BY <1>0, <2>1, <2>3
  <2>5. ProgramOK(p)'
    BY <2>2, <2>3, <2>4, IdAssumption DEF ProgramOK
  <2> QED
    BY <2>4, <2>5
<1>2. CASE Stops(p)
  <2>1. todo' = [todo EXCEPT ![p] = <<>>] /\ serves' = [serves EXCEPT ![p] = None]
    BY <1>2 DEF Stops, Stop
  <2>2. /\ todo'[p] = <<>> /\ serves'[p] = None
        /\ todo' \in [Processes -> Seq(Commands)]
        /\ serves' \in [Processes -> Tasks \cup {"removal", None}]
        /\ \A q \in Processes \ {p} : todo'[q] = todo[q] /\ serves'[q] = serves[q]
    BY <1>0, <2>1
  <2>3. Shaped(<<>>)
    <3>1. Plain(<<>>)
      BY DEF Plain
    <3> QED
      BY <3>1, PlainIsShaped
  <2>4. ProgramOK(p)'
    BY <2>2, <2>3, IdAssumption DEF ProgramOK
  <2> QED
    BY <2>2, <2>4
<1>3. ASSUME NEW more, Runs(p, more)
      PROVE  /\ todo' \in [Processes -> Seq(Commands)]
             /\ serves' \in [Processes -> Tasks \cup {"removal", None}]
             /\ \A q \in Processes \ {p} : todo'[q] = todo[q] /\ serves'[q] = serves[q]
             /\ ProgramOK(p)'
  <2> DEFINE rest == more \o Tail(todo[p])
  <2>1. /\ todo[p] # <<>> /\ more \in Seq(Own(p)) /\ Shaped(more) /\ NoReply(more)
        /\ todo' = [todo EXCEPT ![p] = rest]
        /\ serves' = [serves EXCEPT ![p] = IF rest = <<>> THEN None ELSE @]
    BY <1>3 DEF Runs, Continue
  <2>2. /\ todo[p] \in Seq(Own(p))
        /\ (serves[p] \in Tasks /\ serves[p] # "removal") \/ serves[p] = "removal"
    BY <2>1, HeadIs
  <2>3. rest \in Seq(Own(p))
    BY <2>1, <2>2, RestIs
  <2>4. Shaped(rest)
    BY <2>1, <2>2, ShapedJoins DEF ShapesOK
  <2>5. rest \in Seq(Commands)
    BY <2>1, <2>3, OwnCommands
  <2> HIDE DEF rest
  <2>6. /\ todo'[p] = rest /\ serves'[p] = (IF rest = <<>> THEN None ELSE serves[p])
        /\ todo' \in [Processes -> Seq(Commands)]
        /\ serves' \in [Processes -> Tasks \cup {"removal", None}]
        /\ \A q \in Processes \ {p} : todo'[q] = todo[q] /\ serves'[q] = serves[q]
    BY <1>0, <2>1, <2>5
  <2>7. serves[p] \in Tasks => rest \in Seq(WriterCommands(serves[p]))
    BY <2>2, <2>3, IdAssumption DEF Own
  <2>8. serves[p] = "removal" => rest \in Seq(RemovalCommands)
    BY <2>3 DEF Own
  <2>9. ProgramOK(p)'
    BY <2>2, <2>4, <2>6, <2>7, <2>8, IdAssumption DEF ProgramOK
  <2> QED
    BY <2>6, <2>9
<1> QED
  BY <1>1, <1>2, <1>3 DEF Moves

LEMMA StepKinds ==
    ASSUME StoreOK, ProgramsOK, [Next]_vars
    PROVE  (todo' = todo /\ serves' = serves) \/ \E p \in Processes : Moves(p)
<1>1. ASSUME NEW h \in Handlers, Request(h) PROVE \E p \in Processes : Moves(p)
  BY <1>1, RequestArrives DEF Moves, Processes
<1>2. ASSUME NEW w \in Workers, NEW m \in queue, Take(w, m) PROVE \E p \in Processes : Moves(p)
  BY <1>2, TakeArrives DEF Moves, Processes
<1> QED
  BY <1>1, <1>2, ExecuteMoves DEF Next, Tick, vars

LEMMA ProgramsInit == Init => ProgramsOK /\ ShapesOK
<1> SUFFICES ASSUME Init PROVE ProgramsOK /\ ShapesOK
  OBVIOUS
<1>1. queue = {} /\ todo = [p \in Processes |-> <<>>] /\ serves = [p \in Processes |-> None]
  BY DEF Init
<1>2. Shaped(<<>>)
  <2>1. Plain(<<>>)
    BY DEF Plain
  <2> QED
    BY <2>1, PlainIsShaped
<1>3. \A p \in Processes : serves[p] = None /\ todo[p] = <<>>
  BY <1>1
<1>4. todo \in [Processes -> Seq(Commands)]
      /\ serves \in [Processes -> Tasks \cup {"removal", None}]
  BY <1>1
<1> QED
  BY <1>1, <1>2, <1>3, <1>4, IdAssumption DEF ProgramsOK, ShapesOK

LEMMA ProgramsStep ==
    ASSUME StoreOK, ProgramsOK, ShapesOK, [Next]_vars
    PROVE  ProgramsOK' /\ ShapesOK'
<1>1. queue' \subseteq Messages
  <2>1. queue \subseteq Messages
    BY DEF ProgramsOK
  <2>2. ASSUME NEW h \in Handlers, Request(h) PROVE queue' = queue
    BY <2>2, RequestArrives
  <2>3. ASSUME NEW w \in Workers, NEW m \in queue, Take(w, m) PROVE queue' \subseteq queue
    BY <2>3 DEF Take
  <2>4. ASSUME NEW p \in Processes, Execute(p) PROVE queue' \subseteq Messages
    <3>1. CASE Enqueue(p)
      <4>1. serves[p] \in Tasks /\ todo[p] # <<>> /\ Head(todo[p]).do \in {"enqueue_invoke", "enqueue_resume"}
        BY <3>1, Ons DEF Enqueue, Do
      <4>2. Head(todo[p]) \in WriterCommands(serves[p])
        BY <4>1, HeadIs, IdAssumption
      <4>3. Head(todo[p]) \in Messages
        BY <4>1, <4>2 DEF WriterCommands, Messages
      <4> QED
        BY <2>1, <3>1, <4>3 DEF Enqueue
    <3>2. CASE ~Enqueue(p)
      BY <2>1, <2>4, <3>2 DEF Execute, Test, ReadMembers, WriteRow, DeleteRow, WriteUser,
           WriteMapping, RunGraph, ClearSession, ReplyDeleted
    <3> QED
      BY <3>1, <3>2
  <2>5. ASSUME Tick \/ UNCHANGED vars PROVE queue' = queue
    BY <2>5 DEF Tick, vars
  <2> QED
    BY <2>1, <2>2, <2>3, <2>4, <2>5 DEF Next
<1>2. CASE todo' = todo /\ serves' = serves
  BY <1>1, <1>2 DEF ProgramsOK, ShapesOK
<1>3. CASE \E p \in Processes : Moves(p)
  <2>1. PICK p \in Processes : Moves(p)
    BY <1>3
  <2>2. /\ todo' \in [Processes -> Seq(Commands)]
        /\ serves' \in [Processes -> Tasks \cup {"removal", None}]
        /\ \A q \in Processes \ {p} : todo'[q] = todo[q] /\ serves'[q] = serves[q]
        /\ ProgramOK(p)'
    BY <2>1, MovesOK
  <2>3. \A q \in Processes : ProgramOK(q)'
    BY <2>2 DEF ProgramOK, ProgramsOK, ShapesOK
  <2> QED
    BY <1>1, <2>2, <2>3 DEF ProgramOK, ProgramsOK, ShapesOK
<1> QED
  BY <1>2, <1>3, StepKinds

-----------------------------------------------------------------------------
(* What is soon to be done stays so until it is done.                      *)

LEMMA KeepsSoon ==
    ASSUME ProgramsOK, ShapesOK, NEW p \in Processes, NEW q \in Processes, Moves(p),
           NEW dos, NEW x, Soon(todo[q], dos, x), ~(q = p /\ Do(p, dos) /\ On(p) = x)
    PROVE  serves'[q] = serves[q] /\ Soon(todo'[q], dos, x)
<1>1. CASE q # p
  BY <1>1, MovesOK
<1>2. CASE q = p
  <2>0. /\ todo \in [Processes -> Seq(Commands)]
        /\ serves \in [Processes -> Tasks \cup {"removal", None}]
        /\ (serves[p] = None <=> todo[p] = <<>>)
    BY DEF ProgramsOK
  <2>1. PICK j \in 1 .. Len(todo[p]) : \A k \in 1 .. j : todo[p][k].do \notin Barriers
    BY <1>2 DEF Soon
  <2>2. todo[p] # <<>> /\ todo[p] \in Seq(Commands) /\ 1 \in 1 .. j
        /\ todo[p][1].do \notin Barriers
    BY <2>0, <2>1, EmptySeq
  <2>3. Head(todo[p]) = todo[p][1] /\ todo[p] \in Seq(Own(p))
    BY <2>2, HeadIs
  <2>4. ~Arrives(p)
    BY <2>0, <2>2 DEF Arrives
  <2>5. ~Stops(p)
    BY <2>2, <2>3 DEF Stops, Do, Barriers
  <2>6. PICK more : Runs(p, more)
    BY <2>4, <2>5 DEF Moves
  <2>7. /\ more \in Seq(Own(p)) /\ BarrierFree(more)
        /\ todo' = [todo EXCEPT ![p] = more \o Tail(todo[p])]
        /\ serves' = [serves EXCEPT ![p] = IF more \o Tail(todo[p]) = <<>> THEN None ELSE @]
    BY <2>6 DEF Runs, Continue
  <2>8. ~(todo[p][1].do \in dos /\ todo[p][1].on = x)
    BY <1>2, <2>2, <2>3 DEF Do, On
  <2>9. Soon(more \o Tail(todo[p]), dos, x)
    BY <1>2, <2>2, <2>3, <2>7, <2>8, SoonStays
  <2>10. more \o Tail(todo[p]) # <<>>
    BY <2>9 DEF Soon
  <2> QED
    BY <1>2, <2>0, <2>7, <2>9, <2>10
<1> QED
  BY <1>1, <1>2

LEMMA KeepsPromise ==
    ASSUME ProgramsOK, ShapesOK, NEW p \in Processes, Continue(p, <<>>), NEW do, NEW dos,
           Do(p, {do}), Then(todo[p], do, dos)
    PROVE  serves'[p] = serves[p] /\ Soon(todo'[p], dos, On(p))
<1>0. /\ todo \in [Processes -> Seq(Commands)]
      /\ serves \in [Processes -> Tasks \cup {"removal", None}]
  BY DEF ProgramsOK
<1>1. todo[p] # <<>> /\ Head(todo[p]) = todo[p][1] /\ 1 \in 1 .. Len(todo[p])
      /\ todo[p] \in Seq(Commands)
  BY <1>0, HeadIs DEF Do
<1>2. Later(todo[p], 1, dos)
  BY <1>1 DEF Then, Do
<1>3. <<>> \in Seq(Commands) /\ BarrierFree(<<>>)
  BY DEF BarrierFree
<1>4. Soon(<<>> \o Tail(todo[p]), dos, todo[p][1].on)
  BY <1>1, <1>2, <1>3, PromiseSoon
<1>5. <<>> \o Tail(todo[p]) # <<>>
  <2>1. \A program : program = <<>> => ~Soon(program, dos, todo[p][1].on)
    BY DEF Soon
  <2> QED
    BY <1>4, <2>1
<1> QED
  BY <1>0, <1>1, <1>4, <1>5 DEF Continue, On

LEMMA KeepsSoonBy ==
    ASSUME ProgramsOK, ShapesOK, NEW p \in Processes, Moves(p), NEW t \in Tasks, NEW dos,
           SoonBy(t, dos), ~(serves[p] = t /\ Do(p, dos))
    PROVE  SoonBy(t, dos)'
<1>1. PICK q \in Processes : serves[q] = t /\ Soon(todo[q], dos, t)
  BY DEF SoonBy
<1>2. serves'[q] = serves[q] /\ Soon(todo'[q], dos, t)
  BY <1>1, KeepsSoon
<1> QED
  BY <1>1, <1>2 DEF SoonBy

LEMMA PromisesSoonBy ==
    ASSUME ProgramsOK, ShapesOK, NEW p \in Processes, Continue(p, <<>>), NEW t \in Tasks,
           serves[p] = t, On(p) = t, NEW do, NEW dos, Do(p, {do}), Then(todo[p], do, dos)
    PROVE  SoonBy(t, dos)'
  BY KeepsPromise DEF SoonBy

-----------------------------------------------------------------------------
(* Indices: one without a time to live is about to be given one.           *)

LEMMA ExpiryInit == Init => ExpiryOK
<1>1. 0 # Forever
  BY TTLAssumption
<1> QED
  BY <1>1, NoKeyOK DEF Init, ExpiryOK

LEMMA ExpiryStep ==
    ASSUME StoreOK, ProgramsOK, ShapesOK, ExpiryOK, [Next]_vars
    PROVE  ExpiryOK'
<1>0. /\ home' = home /\ home \in [Tasks -> Sessions]
      /\ mapping \in [Sessions -> Keys] /\ \A s \in Sessions : KeyOK(mapping[s])
      /\ KeyOK(user) /\ 0 # Forever /\ SessionTTL # Forever /\ TaskTTL # Forever
      /\ SessionTTL \in Nat /\ TaskTTL \in Nat /\ NoKey.ttl = 0
  <2>1. home' = home
    BY RequestArrives
       DEF Next, Take, Execute, Test, ReadMembers, WriteRow, DeleteRow, WriteUser,
           WriteMapping, Enqueue, RunGraph, ClearSession, ReplyDeleted, Tick, vars
  <2> QED
    BY <2>1, TTLAssumption, NoKeyOK DEF StoreOK
<1>1. ASSUME UNCHANGED <<user, mapping>>,
             NEW p \in Processes, Moves(p), ~Do(p, {"expire_user"} \cup ExpireMapping)
      PROVE  ExpiryOK'
  <2>1. ASSUME user'.ttl = Forever PROVE \E t \in Tasks : SoonBy(t, {"expire_user"})'
    <3>1. PICK t \in Tasks : SoonBy(t, {"expire_user"})
      BY <1>1, <2>1 DEF ExpiryOK
    <3>2. ~Do(p, {"expire_user"})
      BY <1>1 DEF Do
    <3> QED
      BY <1>1, <3>1, <3>2, KeepsSoonBy
  <2>2. ASSUME NEW s \in Sessions, mapping'[s].ttl = Forever
        PROVE  \E t \in Tasks : home'[t] = s /\ SoonBy(t, ExpireMapping)'
    <3>1. PICK t \in Tasks : home[t] = s /\ SoonBy(t, ExpireMapping)
      BY <1>1, <2>2 DEF ExpiryOK
    <3>2. ~Do(p, ExpireMapping)
      BY <1>1 DEF Do
    <3> QED
      BY <1>0, <1>1, <3>1, <3>2, KeepsSoonBy
  <2> QED
    BY <2>1, <2>2 DEF ExpiryOK
<1>2. ASSUME NEW h \in Handlers, Request(h) PROVE ExpiryOK'
  <2>1. Arrives(h) /\ UNCHANGED <<user, mapping>> /\ h \in Processes
    BY <1>2, RequestArrives DEF Processes
  <2>2. ~Do(h, {"expire_user"} \cup ExpireMapping)
    BY <2>1 DEF Arrives, Do, ProgramsOK
  <2> QED
    BY <1>1, <2>1, <2>2 DEF Moves
<1>3. ASSUME NEW w \in Workers, NEW m \in queue, Take(w, m) PROVE ExpiryOK'
  <2>1. Arrives(w) /\ UNCHANGED <<user, mapping>> /\ w \in Processes
    BY <1>3, TakeArrives DEF Processes
  <2>2. ~Do(w, {"expire_user"} \cup ExpireMapping)
    BY <2>1 DEF Arrives, Do, ProgramsOK
  <2> QED
    BY <1>1, <2>1, <2>2 DEF Moves
<1>4. ASSUME NEW p \in Processes, Execute(p) PROVE ExpiryOK'
  <2>0. Moves(p) /\ Then(todo[p], "sadd_user", {"expire_user"})
        /\ Then(todo[p], "sadd_mapping", ExpireMapping)
    BY <1>4, ExecuteMoves DEF ShapesOK, Shaped
  <2>1. CASE ~WriteUser(p) /\ ~WriteMapping(p)
    <3>1. UNCHANGED <<user, mapping>> /\ ~Do(p, {"expire_user"} \cup ExpireMapping)
      BY <1>4, <2>1 DEF Execute, Test, ReadMembers, WriteRow, DeleteRow, Enqueue, RunGraph,
           ClearSession, ReplyDeleted, keys, Do, ExpireMapping
    <3> QED
      BY <1>1, <2>0, <3>1
  <2>2. CASE WriteUser(p)
    <3>0. mapping' = mapping /\ Continue(p, <<>>)
      BY <2>2 DEF WriteUser
    <3>1. ASSUME NEW s \in Sessions, mapping'[s].ttl = Forever
          PROVE  \E t \in Tasks : home'[t] = s /\ SoonBy(t, ExpireMapping)'
      <4>1. PICK t \in Tasks : home[t] = s /\ SoonBy(t, ExpireMapping)
        BY <3>0, <3>1 DEF ExpiryOK
      <4>2. ~Do(p, ExpireMapping)
        BY <2>2 DEF WriteUser, Do, ExpireMapping
      <4> QED
        BY <1>0, <2>0, <4>1, <4>2, KeepsSoonBy
    <3>2. ASSUME user'.ttl = Forever PROVE \E t \in Tasks : SoonBy(t, {"expire_user"})'
      <4>1. ASSUME user.ttl = Forever, ~Do(p, {"expire_user"})
            PROVE  \E t \in Tasks : SoonBy(t, {"expire_user"})'
        BY <2>0, <4>1, KeepsSoonBy DEF ExpiryOK
      <4>2. CASE Do(p, {"sadd_user"}) /\ serves[p] \in Tasks /\ On(p) = serves[p]
        BY <2>0, <3>0, <4>2, PromisesSoonBy
      <4>3. CASE Do(p, {"srem_user"}) /\ On(p) \in Tasks /\ user' = Srem(user, On(p))
        <5>1. user.ttl = Forever
          BY <1>0, <3>2, <4>3, SremKey
        <5> QED
          BY <4>1, <4>3, <5>1 DEF Do
      <4>4. CASE user' = Expire(user, SessionTTL)
        BY <1>0, <3>2, <4>4, ExpireKey
      <4>5. CASE user' = NoKey
        BY <1>0, <3>2, <4>5
      <4> QED
        BY <2>2, <4>2, <4>3, <4>4, <4>5, UserWrites
    <3> QED
      BY <3>1, <3>2 DEF ExpiryOK
  <2>3. CASE WriteMapping(p)
    <3>0. user' = user /\ Continue(p, <<>>)
      BY <2>3 DEF WriteMapping
    <3>1. ASSUME user'.ttl = Forever PROVE \E t \in Tasks : SoonBy(t, {"expire_user"})'
      <4>1. PICK t \in Tasks : SoonBy(t, {"expire_user"})
        BY <3>0, <3>1 DEF ExpiryOK
      <4>2. ~Do(p, {"expire_user"})
        BY <2>3 DEF WriteMapping, Do
      <4> QED
        BY <2>0, <4>1, <4>2, KeepsSoonBy
    <3>2. PICK s \in Sessions, key \in Keys :
             /\ KeyOK(key) /\ mapping' = [mapping EXCEPT ![s] = key]
             /\ \/ Do(p, {"sadd_mapping"}) /\ serves[p] \in Tasks /\ On(p) = serves[p]
                   /\ s = home[serves[p]] /\ key = Sadd(mapping[s], serves[p])
                \/ Do(p, {"srem_mapping"}) /\ serves[p] = "removal" /\ On(p) \in Tasks
                   /\ s = home[On(p)] /\ key = Srem(mapping[s], On(p))
                \/ Do(p, ExpireMapping) /\ serves[p] \in Tasks /\ On(p) = serves[p]
                   /\ s = home[serves[p]]
                   /\ \/ Do(p, {"expire_mapping"}) /\ key = Expire(mapping[s], SessionTTL)
                      \/ Do(p, {"expire_mapping_as_task"}) /\ key = Expire(mapping[s], TaskTTL)
                \/ Do(p, {"del_mapping"}) /\ serves[p] = "removal" /\ On(p) = s /\ key = NoKey
      BY <2>3, MappingWrites
    <3>3. ASSUME NEW x \in Sessions, mapping'[x].ttl = Forever
          PROVE  \E t \in Tasks : home'[t] = x /\ SoonBy(t, ExpireMapping)'
      <4>0. mapping'[s] = key /\ (x # s => mapping'[x] = mapping[x])
        BY <1>0, <3>2
      <4>1. ASSUME mapping[x].ttl = Forever, ~(Do(p, ExpireMapping) /\ home[serves[p]] = x)
            PROVE  \E t \in Tasks : home'[t] = x /\ SoonBy(t, ExpireMapping)'
        <5>1. PICK t \in Tasks : home[t] = x /\ SoonBy(t, ExpireMapping)
          BY <4>1 DEF ExpiryOK
        <5> QED
          BY <1>0, <2>0, <4>1, <5>1, KeepsSoonBy
      <4>2. CASE Do(p, {"sadd_mapping"}) /\ serves[p] \in Tasks /\ On(p) = serves[p]
                 /\ s = home[serves[p]]
        <5>1. CASE x = s
          BY <1>0, <2>0, <3>0, <4>2, <5>1, PromisesSoonBy
        <5>2. CASE x # s
          BY <3>3, <4>0, <4>1, <4>2, <5>2
        <5> QED
          BY <5>1, <5>2
      <4>3. CASE Do(p, {"srem_mapping"}) /\ On(p) \in Tasks /\ key = Srem(mapping[s], On(p))
        <5>1. ~Do(p, ExpireMapping)
          BY <4>3 DEF Do, ExpireMapping
        <5>2. mapping[x].ttl = Forever
          BY <1>0, <3>3, <4>0, <4>3, SremKey
        <5> QED
          BY <4>1, <5>1, <5>2
      <4>4. CASE serves[p] \in Tasks /\ s = home[serves[p]]
                 /\ (key = Expire(mapping[s], SessionTTL) \/ key = Expire(mapping[s], TaskTTL))
        <5>1. key.ttl # Forever
          BY <1>0, <4>4, ExpireKey
        <5>2. x # s
          BY <3>3, <4>0, <5>1
        <5> QED
          BY <3>3, <4>0, <4>1, <4>4, <5>2
      <4>5. CASE Do(p, {"del_mapping"}) /\ key = NoKey
        <5>1. x # s /\ ~Do(p, ExpireMapping)
          BY <1>0, <3>3, <4>0, <4>5 DEF Do, ExpireMapping
        <5> QED
          BY <3>3, <4>0, <4>1, <5>1
      <4> QED
        BY <3>2, <4>2, <4>3, <4>4, <4>5
    <3> QED
      BY <3>1, <3>3 DEF ExpiryOK
  <2> QED
    BY <2>1, <2>2, <2>3
<1>5. CASE Tick
  <2>1. /\ user' = Fade(user) /\ mapping' = [s \in Sessions |-> Fade(mapping[s])]
        /\ todo' = todo /\ serves' = serves
    BY <1>5 DEF Tick
  <2>2. \A key : KeyOK(key) /\ Fade(key).ttl = Forever => key.ttl = Forever
    BY FadeKey, TTLAssumption
  <2>3. user'.ttl = Forever => user.ttl = Forever
    BY <1>0, <2>1, <2>2
  <2>4. \A s \in Sessions : mapping'[s].ttl = Forever => mapping[s].ttl = Forever
    BY <1>0, <2>1, <2>2
  <2> QED
    BY <1>0, <2>1, <2>3, <2>4 DEF ExpiryOK, SoonBy
<1>6. CASE UNCHANGED vars
  BY <1>6 DEF vars, keys, ExpiryOK, SoonBy
<1> QED
  BY <1>2, <1>3, <1>4, <1>5, <1>6 DEF Next

-----------------------------------------------------------------------------
(* Theorems for any times to live.                                         *)

IndexInv == StoreOK /\ ProgramsOK /\ ShapesOK /\ ExpiryOK

(* The inductive invariant behind IndicesExpire: every program still holds *)
(* the commands its commands promised, and an index without a time to live *)
(* has a handler or worker that is about to expire it.                     *)
THEOREM IndexInvariance == Spec => []IndexInv
<1>1. Init => IndexInv
  BY StoreInit, ProgramsInit, ExpiryInit DEF IndexInv
<1>2. IndexInv /\ [Next]_vars => IndexInv'
  BY StoreStep, ProgramsStep, ExpiryStep DEF IndexInv
<1> QED
  BY <1>1, <1>2, PTL DEF Spec

(* Whatever requests and runs overlap, an index of tasks never stays       *)
(* without a time to live: some handler or worker still holds the EXPIRE   *)
(* that gives it one (redis_sessions.py: every SADD is followed by one).   *)
THEOREM SpecIndicesExpire == Spec => []IndicesExpire
<1>1. IndexInv => IndicesExpire
  <2> SUFFICES ASSUME IndexInv PROVE IndicesExpire
    OBVIOUS
  <2>1. ASSUME NEW t \in Tasks, NEW dos, SoonBy(t, dos)
        PROVE  \E p \in Processes : \E i \in 1 .. Len(todo[p]) :
                 todo[p][i].do \in dos /\ todo[p][i].on = t
    BY <2>1 DEF SoonBy, Soon
  <2>2. ASSUME user.ttl = Forever
        PROVE  \E p \in Processes : \E i \in 1 .. Len(todo[p]) : todo[p][i].do = "expire_user"
    BY <2>1, <2>2 DEF IndexInv, ExpiryOK
  <2>3. ASSUME NEW s \in Sessions, mapping[s].ttl = Forever
        PROVE  \E p \in Processes : \E i \in 1 .. Len(todo[p]) :
                 /\ todo[p][i].do \in {"expire_mapping", "expire_mapping_as_task"}
                 /\ home[todo[p][i].on] = s
    <3>1. PICK t \in Tasks : home[t] = s /\ SoonBy(t, ExpireMapping)
      BY <2>3 DEF IndexInv, ExpiryOK
    <3>2. PICK p \in Processes : \E i \in 1 .. Len(todo[p]) :
            todo[p][i].do \in ExpireMapping /\ todo[p][i].on = t
      BY <2>1, <3>1
    <3> QED
      BY <3>1, <3>2 DEF ExpireMapping
  <2> QED
    BY <2>2, <2>3 DEF IndicesExpire
<1> QED
  BY <1>1, IndexInvariance, PTL

-----------------------------------------------------------------------------
(* What a program says is still to be done.                                *)

Says(program, do, x) == \E i \in 1 .. Len(program) : program[i] = Command(do, x)

Has(p, do, x) == Says(todo[p], do, x)

LEMMA SaysRest ==
    ASSUME NEW C, NEW more \in Seq(C), NEW program \in Seq(C), program # <<>>, NEW do, NEW x,
           Says(more \o Tail(program), do, x)
    PROVE  Says(more, do, x) \/ Says(program, do, x)
<1>1. PICK i \in 1 .. Len(more \o Tail(program)) : (more \o Tail(program))[i] = Command(do, x)
  BY DEF Says
<1>2. /\ Len(more) \in Nat /\ Len(program) \in Nat \ {0}
      /\ Len(more \o Tail(program)) = Len(more) + Len(program) - 1
      /\ \A k \in 1 .. Len(more) : (more \o Tail(program))[k] = more[k]
      /\ \A k \in Len(more) + 1 .. Len(more \o Tail(program)) :
            /\ k - Len(more) + 1 \in 2 .. Len(program)
            /\ (more \o Tail(program))[k] = program[k - Len(more) + 1]
  BY RestIs
<1>3. CASE i \in 1 .. Len(more)
  BY <1>1, <1>2, <1>3 DEF Says
<1>4. CASE i \in Len(more) + 1 .. Len(more \o Tail(program))
  <2>1. PICK k \in 2 .. Len(program) : program[k] = Command(do, x)
    BY <1>1, <1>2, <1>4
  <2>2. k \in 1 .. Len(program)
    BY <1>2
  <2> QED
    BY <2>1, <2>2 DEF Says
<1> QED
  BY <1>1, <1>2, <1>3, <1>4

LEMMA SaysStays ==
    ASSUME NEW C, NEW more \in Seq(C), NEW program \in Seq(C), program # <<>>, NEW do, NEW x,
           Says(program, do, x), program[1] # Command(do, x)
    PROVE  Says(more \o Tail(program), do, x)
<1>1. PICK i \in 1 .. Len(program) : program[i] = Command(do, x)
  BY DEF Says
<1>2. /\ Len(more) \in Nat /\ Len(program) \in Nat \ {0}
      /\ Len(more \o Tail(program)) = Len(more) + Len(program) - 1
      /\ \A k \in 2 .. Len(program) : (more \o Tail(program))[Len(more) + k - 1] = program[k]
  BY RestIs
<1>3. i \in 2 .. Len(program) /\ Len(more) + i - 1 \in 1 .. Len(more \o Tail(program))
  BY <1>1, <1>2
<1> QED
  BY <1>1, <1>2, <1>3 DEF Says

LEMMA SaysMore ==
    ASSUME NEW C, NEW more \in Seq(C), NEW program \in Seq(C), program # <<>>, NEW do, NEW x,
           Says(more, do, x)
    PROVE  Says(more \o Tail(program), do, x)
<1>1. PICK i \in 1 .. Len(more) : more[i] = Command(do, x)
  BY DEF Says
<1>2. /\ Len(more) \in Nat /\ Len(program) \in Nat \ {0}
      /\ Len(more \o Tail(program)) = Len(more) + Len(program) - 1
      /\ \A k \in 1 .. Len(more) : (more \o Tail(program))[k] = more[k]
  BY RestIs
<1>3. i \in 1 .. Len(more \o Tail(program))
  BY <1>2
<1> QED
  BY <1>1, <1>2, <1>3 DEF Says

LEMMA SameCommand ==
    ASSUME NEW a, NEW b, NEW c, NEW d, Command(a, b) = Command(c, d)
    PROVE  a = c /\ b = d
<1>1. Command(a, b).do = a /\ Command(a, b).on = b /\ Command(c, d).do = c /\ Command(c, d).on = d
  BY DEF Command
<1> QED
  BY <1>1

LEMMA SaysParts ==
    ASSUME NEW do, NEW x
    PROVE  /\ ~Says(<<>>, do, x)
           /\ \A t : Says(Drop(t), do, x) => do \in {"srem_user", "srem_mapping", "del_task_key"} /\ x = t
           /\ \A t : Says(Unlist(t), do, x) => do \in {"srem_user", "srem_mapping"} /\ x = t
           /\ \A a, b : Says(<<Command(a, b)>>, do, x) => do = a /\ x = b
<1>1. ~Says(<<>>, do, x)
  BY DEF Says
<1>2. ASSUME NEW t, Says(Drop(t), do, x)
      PROVE  do \in {"srem_user", "srem_mapping", "del_task_key"} /\ x = t
  <2>1. Len(Drop(t)) = 3 /\ Drop(t)[1] = Command("srem_user", t)
        /\ Drop(t)[2] = Command("srem_mapping", t) /\ Drop(t)[3] = Command("del_task_key", t)
    BY DEF Drop
  <2>2. \/ Command(do, x) = Command("srem_user", t) \/ Command(do, x) = Command("srem_mapping", t)
        \/ Command(do, x) = Command("del_task_key", t)
    BY <1>2, <2>1 DEF Says
  <2> QED
    BY <2>2, SameCommand
<1>3. ASSUME NEW t, Says(Unlist(t), do, x)
      PROVE  do \in {"srem_user", "srem_mapping"} /\ x = t
  <2>1. Len(Unlist(t)) = 2 /\ Unlist(t)[1] = Command("srem_user", t)
        /\ Unlist(t)[2] = Command("srem_mapping", t)
    BY DEF Unlist
  <2>2. Command(do, x) = Command("srem_user", t) \/ Command(do, x) = Command("srem_mapping", t)
    BY <1>3, <2>1 DEF Says
  <2> QED
    BY <2>2, SameCommand
<1>4. ASSUME NEW a, NEW b, Says(<<Command(a, b)>>, do, x) PROVE do = a /\ x = b
  <2>1. Command(do, x) = Command(a, b)
    BY <1>4 DEF Says
  <2> QED
    BY <2>1, SameCommand
<1> QED
  BY <1>1, <1>2, <1>3, <1>4

LEMMA SaysLoops ==
    ASSUME NEW order \in Seq(Tasks), NEW do, NEW x
    PROVE  /\ Says(ForEach(order, "drop_unless_row") \o ScardUser, do, x)
                => do \in {"drop_unless_row", "scard_user"}
           /\ Says(ForEach(order, "del_row_and_task_key"), do, x) => do = "del_row_and_task_key"
<1>1. ASSUME Says(ForEach(order, "drop_unless_row") \o ScardUser, do, x)
      PROVE  do \in {"drop_unless_row", "scard_user"}
  <2> DEFINE c == ForEach(order, "drop_unless_row") \o ScardUser
  <2>1. /\ Len(c) = Len(order) + 1 /\ Len(order) \in Nat
        /\ \A i \in 1 .. Len(order) : c[i] = Command("drop_unless_row", order[i])
        /\ c[Len(order) + 1] = Command("scard_user", None)
    BY CleanupPart
  <2> HIDE DEF c
  <2>2. PICK i \in 1 .. Len(c) : c[i] = Command(do, x)
    BY <1>1 DEF Says, c
  <2>3. i \in 1 .. Len(order) \/ i = Len(order) + 1
    BY <2>1
  <2> QED
    BY <2>1, <2>2, <2>3, SameCommand
<1>2. ASSUME Says(ForEach(order, "del_row_and_task_key"), do, x) PROVE do = "del_row_and_task_key"
  <2> DEFINE c == ForEach(order, "del_row_and_task_key")
  <2>1. /\ Len(c) = Len(order) /\ Len(order) \in Nat
        /\ \A i \in 1 .. Len(order) : c[i] = Command("del_row_and_task_key", order[i])
    BY ForEachPart
  <2> HIDE DEF c
  <2>2. PICK i \in 1 .. Len(c) : c[i] = Command(do, x)
    BY <1>2 DEF Says, c
  <2> QED
    BY <2>1, <2>2, SameCommand
<1> QED
  BY <1>1, <1>2

LEMMA HeadHas ==
    ASSUME ProgramsOK, NEW p \in Processes, NEW do, Do(p, {do})
    PROVE  Has(p, do, On(p)) /\ todo[p][1] = Command(do, On(p))
<1>1. todo[p] # <<>> /\ Head(todo[p]) = todo[p][1] /\ 1 \in 1 .. Len(todo[p])
      /\ Head(todo[p]) \in Commands /\ Head(todo[p]).do = do
  BY HeadIs, OwnCommands DEF Do
<1>2. todo[p][1] = Command(do, On(p))
  BY <1>1 DEF Commands, Command, On
<1> QED
  BY <1>1, <1>2 DEF Has, Says

(* Only a removal has a removal's commands.                                *)
LEMMA HasRemoval ==
    ASSUME ProgramsOK, NEW p \in Processes, NEW x,
           NEW do \in (TaskDos \cup SessionDos \cup UserDos) \ {"stop_unless_row"}, Has(p, do, x)
    PROVE  serves[p] = "removal" /\ Removing
<1>1. PICK i \in 1 .. Len(todo[p]) : todo[p][i] = Command(do, x)
  BY DEF Has, Says
<1>2. todo[p] # <<>> /\ serves[p] \in Tasks \cup {"removal"}
  <2>1. todo[p] # <<>>
    <3>1. \A program : program = <<>> => ~Says(program, do, x)
      BY DEF Says
    <3> QED
      BY <3>1 DEF Has
  <2> QED
    BY <2>1, HeadIs
<1>3. ASSUME serves[p] \in Tasks PROVE FALSE
  <2>1. todo[p] \in Seq(WriterCommands(serves[p]))
    BY <1>3 DEF ProgramsOK
  <2>2. todo[p][i] \in WriterCommands(serves[p])
    BY <2>1
  <2>3. do \in WriterDos
    BY <1>1, <2>2 DEF WriterCommands, Command
  <2> QED
    BY <2>3 DEF WriterDos, TaskDos, SessionDos, UserDos
<1> QED
  BY <1>2, <1>3 DEF Removing

(* What it has now it had before, or was continued with.                   *)
LEMMA HasBefore ==
    ASSUME ProgramsOK, ShapesOK, NEW p \in Processes, NEW more, Runs(p, more), NEW do, NEW x,
           Has(p, do, x)'
    PROVE  Has(p, do, x) \/ Says(more, do, x)
<1>1. /\ todo[p] # <<>> /\ more \in Seq(Own(p)) /\ todo[p] \in Seq(Own(p))
      /\ todo'[p] = more \o Tail(todo[p])
  <2>1. todo \in [Processes -> Seq(Commands)]
    BY DEF ProgramsOK
  <2> QED
    BY <2>1, HeadIs DEF Runs, Continue
<1>2. Says(more \o Tail(todo[p]), do, x)
  BY <1>1 DEF Has
<1> QED
  BY <1>1, <1>2, SaysRest DEF Has

-----------------------------------------------------------------------------
(* Rows that live are listed, or are soon to be, unless removed meanwhile. *)

Crossing == Removing => \A t \in Tasks : UnderWay(t) => t \in crossed

Held(key, t, ttl, expire, add) ==
    \/ t \in key.has /\ (key.ttl = Forever \/ key.ttl >= ttl \/ expire)
    \/ add

UserLists(t, ttl) == Held(user, t, ttl, SoonBy(t, {"expire_user"}), SoonBy(t, {"sadd_user"}))

MappingLists(t, ttl) ==
    Held(mapping[home[t]], t, ttl, SoonBy(t, ExpireMapping), SoonBy(t, {"sadd_mapping"}))

RowsListed ==
    \A t \in Tasks \ crossed : row[t] > 0 => UserLists(t, row[t]) /\ MappingLists(t, row[t])

RowsToSet ==
    \A p \in Processes : Do(p, {"set_row"}) =>
      \/ serves[p] \in crossed \/ row[serves[p]] > 0
      \/ Soon(todo[p], {"sadd_user"}, serves[p]) /\ Soon(todo[p], {"sadd_mapping"}, serves[p])

Removes(p, t) ==
    \/ Has(p, "srem_user", t) \/ Has(p, "srem_mapping", t)
    \/ Has(p, "del_user", None) \/ Has(p, "del_mapping", home[t])

RowsRemoved == \A p \in Processes, t \in Tasks \ crossed : Removes(p, t) => row[t] = 0

RowsInv == IndexInv /\ Crossing /\ RowsListed /\ RowsToSet /\ RowsRemoved

LEMMA ExecuteServes ==
    ASSUME ProgramsOK, NEW p \in Processes, Execute(p)
    PROVE  \A q \in Processes : serves'[q] = serves[q] \/ (q = p /\ serves'[q] = None)
<1>0. serves \in [Processes -> Tasks \cup {"removal", None}]
  BY DEF ProgramsOK
<1>1. ASSUME NEW more, Continue(p, more)
      PROVE  \A q \in Processes : serves'[q] = serves[q] \/ (q = p /\ serves'[q] = None)
  BY <1>0, <1>1 DEF Continue
<1>2. ASSUME Stop(p)
      PROVE  \A q \in Processes : serves'[q] = serves[q] \/ (q = p /\ serves'[q] = None)
  BY <1>0, <1>2 DEF Stop
<1> QED
  BY <1>1, <1>2 DEF Execute, Test, ReadMembers, WriteRow, DeleteRow, WriteUser, WriteMapping,
     Enqueue, RunGraph, ClearSession, ReplyDeleted

LEMMA HomeStays ==
    ASSUME StoreOK, ProgramsOK, [Next]_vars
    PROVE  home' = home
  BY RequestArrives
     DEF Next, Take, Execute, Test, ReadMembers, WriteRow, DeleteRow, WriteUser, WriteMapping,
         Enqueue, RunGraph, ClearSession, ReplyDeleted, Tick, vars

LEMMA CrossingStep ==
    ASSUME StoreOK, ProgramsOK, Crossing, [Next]_vars
    PROVE  Crossing' /\ crossed \subseteq crossed'
<1>0. serves \in [Processes -> Tasks \cup {"removal", None}]
  BY DEF ProgramsOK
<1>1. ASSUME NEW h \in Handlers, NEW for \in Tasks \cup {"removal"}, NEW program,
             Accept(h, for, program)
      PROVE  Crossing' /\ crossed \subseteq crossed'
  <2>1. /\ serves[h] = None /\ h \in Processes /\ queue' = queue
        /\ serves' = [serves EXCEPT ![h] = for]
        /\ crossed' = crossed \cup (IF for = "removal" THEN {t \in Tasks : UnderWay(t)}
                                    ELSE IF Removing THEN {for} ELSE {})
    BY <1>1 DEF Accept, Processes
  <2>2. \A t \in Tasks : UnderWay(t)' => UnderWay(t) \/ t = for
    BY <1>0, <2>1 DEF UnderWay
  <2>3. CASE for = "removal"
    BY <2>1, <2>2, <2>3, IdAssumption DEF Crossing
  <2>4. CASE for # "removal"
    <3>1. Removing' => Removing
      BY <1>0, <2>1, <2>4 DEF Removing
    <3> QED
      BY <2>1, <2>2, <2>4, <3>1 DEF Crossing
  <2> QED
    BY <2>3, <2>4
<1>2. ASSUME NEW h \in Handlers, Request(h) PROVE Crossing' /\ crossed \subseteq crossed'
  BY <1>1, <1>2 DEF Request, AcceptInvoke, AcceptResume, AcceptListing, AcceptDeleteTask,
       AcceptDeleteSession
<1>3. ASSUME NEW w \in Workers, NEW m \in queue, Take(w, m)
      PROVE  Crossing' /\ crossed \subseteq crossed'
  <2>1. /\ queue' = queue \ {m} /\ serves' = [serves EXCEPT ![w] = m.on] /\ crossed' = crossed
        /\ m.on \in Tasks /\ w \in Processes
    BY <1>3, TakeArrives DEF Take, notes, Processes
  <2>2. \A t \in Tasks : UnderWay(t)' => UnderWay(t)
    BY <1>0, <2>1 DEF UnderWay
  <2>3. Removing' => Removing
    BY <1>0, <2>1, IdAssumption DEF Removing
  <2> QED
    BY <2>1, <2>2, <2>3 DEF Crossing
<1>4. ASSUME NEW p \in Processes, Execute(p)
      PROVE  Crossing' /\ crossed \subseteq crossed'
  <2>1. \A q \in Processes : serves'[q] = serves[q] \/ (q = p /\ serves'[q] = None)
    BY <1>4, ExecuteServes
  <2>2. crossed' = crossed
    BY <1>4 DEF Execute, Test, ReadMembers, WriteRow, DeleteRow, WriteUser, WriteMapping,
       Enqueue, RunGraph, ClearSession, ReplyDeleted, notes
  <2>3. Removing' => Removing
    BY <2>1, IdAssumption DEF Removing
  <2>4. ASSUME NEW m \in queue', m \notin queue PROVE m.on = serves[p] /\ m.on \in Tasks
    <3>1. Enqueue(p)
      BY <1>4, <2>4 DEF Execute, Test, ReadMembers, WriteRow, DeleteRow, WriteUser, WriteMapping,
         Enqueue, RunGraph, ClearSession, ReplyDeleted
    <3>2. m = Head(todo[p])
      BY <2>4, <3>1 DEF Enqueue
    <3>3. serves[p] \in Tasks /\ On(p) = serves[p]
      BY <3>1, Ons DEF Enqueue, Do
    <3> QED
      BY <3>2, <3>3 DEF On
  <2>5. \A t \in Tasks : UnderWay(t)' => UnderWay(t)
    <3>1. \A t \in Tasks : t # None
      BY IdAssumption
    <3> QED
      BY <2>1, <2>4, <3>1 DEF UnderWay
  <2> QED
    BY <2>2, <2>3, <2>5 DEF Crossing
<1>5. CASE Tick \/ UNCHANGED vars
  BY <1>5 DEF Tick, vars, notes, Crossing, Removing, UnderWay
<1> QED
  BY <1>2, <1>3, <1>4, <1>5 DEF Next

LEMMA RowWrites ==
    ASSUME StoreOK, ProgramsOK, NEW p \in Processes, Execute(p), NEW t \in Tasks
    PROVE  \/ row'[t] = row[t] /\ ~(Do(p, {"set_row"}) /\ serves[p] = t)
           \/ /\ Do(p, {"set_row"}) /\ serves[p] = t /\ On(p) = t /\ row'[t] = SessionTTL
              /\ Continue(p, <<>>) /\ UNCHANGED <<user, mapping>>
           \/ /\ Do(p, {"del_row_and_task_key"}) /\ serves[p] = "removal" /\ On(p) = t
              /\ row'[t] = 0
<1>0. row \in [Tasks -> 0 .. SessionTTL]
  BY DEF StoreOK
<1>1. CASE WriteRow(p) /\ Do(p, {"set_row"})
  <2>1. serves[p] \in Tasks /\ On(p) = serves[p]
    BY <1>1, Ons DEF Do
  <2>2. row' = [row EXCEPT ![On(p)] = SessionTTL] /\ Continue(p, <<>>)
        /\ UNCHANGED <<user, mapping>>
    BY <1>1 DEF WriteRow, Do
  <2> QED
    BY <1>0, <1>1, <2>1, <2>2
<1>2. CASE DeleteRow(p)
  <2>1. serves[p] = "removal" /\ On(p) \in Tasks /\ Do(p, {"del_row_and_task_key"})
        /\ ~Do(p, {"set_row"})
    BY <1>2, Ons DEF DeleteRow, Do
  <2>2. row' = [row EXCEPT ![On(p)] = 0]
    BY <1>2 DEF DeleteRow
  <2> QED
    BY <1>0, <2>1, <2>2
<1>3. CASE ~DeleteRow(p) /\ ~(WriteRow(p) /\ Do(p, {"set_row"}))
  BY <1>3 DEF Execute, Test, ReadMembers, WriteRow, WriteUser, WriteMapping,
     Enqueue, RunGraph, ClearSession, ReplyDeleted, keys, Do
<1> QED
  BY <1>1, <1>2, <1>3

(* An index goes on listing a task while nobody removes it.                *)
LEMMA UserHeld ==
    ASSUME StoreOK, ProgramsOK, ShapesOK, NEW p \in Processes, Execute(p), NEW t \in Tasks,
           NEW ttl \in Nat, ttl <= SessionTTL, UserLists(t, ttl),
           ~(Do(p, {"srem_user"}) /\ On(p) = t), ~Do(p, {"del_user"})
    PROVE  Held(user', t, ttl, SoonBy(t, {"expire_user"})', SoonBy(t, {"sadd_user"})')
<1> DEFINE expire == {"expire_user"}
           add == {"sadd_user"}
<1>0. Moves(p) /\ KeyOK(user) /\ SessionTTL \in Nat /\ NoKey.has = {}
  BY ExecuteMoves, NoKeyOK, TTLAssumption DEF StoreOK
<1>1. Held(user, t, ttl, SoonBy(t, expire), SoonBy(t, add))
  BY DEF UserLists
<1>2. SoonBy(t, expire) /\ ~(serves[p] = t /\ Do(p, expire)) => SoonBy(t, expire)'
  BY <1>0, KeepsSoonBy
<1>3. SoonBy(t, add) /\ ~(serves[p] = t /\ Do(p, add)) => SoonBy(t, add)'
  BY <1>0, KeepsSoonBy
<1>4. Then(todo[p], "sadd_user", expire)
  BY DEF ShapesOK, Shaped
<1> HIDE DEF expire, add
<1>5. CASE ~WriteUser(p)
  <2>1. user' = user /\ ~Do(p, expire) /\ ~Do(p, add)
    BY <1>5 DEF Execute, Test, ReadMembers, WriteRow, DeleteRow, WriteMapping, Enqueue,
       RunGraph, ClearSession, ReplyDeleted, keys, Do, expire, add
  <2> QED
    BY <1>1, <1>2, <1>3, <2>1 DEF Held, expire, add
<1>6. CASE WriteUser(p)
  <2>0. Continue(p, <<>>)
    BY <1>6 DEF WriteUser
  <2>1. CASE Do(p, {"sadd_user"}) /\ serves[p] \in Tasks /\ On(p) = serves[p]
             /\ user' = Sadd(user, serves[p])
    <3>1. user'.has = user.has \cup {serves[p]}
          /\ user'.ttl = IF user = NoKey THEN Forever ELSE user.ttl
      BY <1>0, <2>1, SaddKey
    <3>2. CASE serves[p] = t
      <4>1. SoonBy(t, expire)'
        BY <1>4, <2>0, <2>1, <3>2, PromisesSoonBy
      <4> QED
        BY <3>1, <3>2, <4>1 DEF Held, expire, add
    <3>3. CASE serves[p] # t
      BY <1>0, <1>1, <1>2, <1>3, <3>1, <3>3 DEF Held, expire, add
    <3> QED
      BY <3>2, <3>3
  <2>2. CASE Do(p, {"srem_user"}) /\ On(p) \in Tasks /\ user' = Srem(user, On(p))
    <3>1. /\ user'.has = user.has \ {On(p)} /\ (user' # NoKey => user'.ttl = user.ttl)
          /\ On(p) # t /\ ~Do(p, expire) /\ ~Do(p, add)
      BY <1>0, <2>2, SremKey DEF Do, expire, add
    <3> QED
      BY <1>0, <1>1, <1>2, <1>3, <3>1 DEF Held, expire, add
  <2>3. CASE Do(p, {"expire_user"}) /\ user' = Expire(user, SessionTTL)
    <3>1. /\ user'.has = user.has /\ user'.ttl = (IF user = NoKey THEN 0 ELSE SessionTTL)
          /\ ~Do(p, add)
      BY <1>0, <2>3, ExpireKey DEF Do, add
    <3> QED
      BY <1>0, <1>1, <1>3, <3>1 DEF Held, expire, add
  <2> QED
    BY <1>6, <2>1, <2>2, <2>3, UserWrites
<1> QED
  BY <1>5, <1>6

LEMMA MappingHeld ==
    ASSUME StoreOK, ProgramsOK, ShapesOK, NEW p \in Processes, Execute(p), NEW t \in Tasks,
           NEW ttl \in Nat, ttl <= SessionTTL, ttl <= TaskTTL, MappingLists(t, ttl),
           ~(Do(p, {"srem_mapping"}) /\ On(p) = t), ~(Do(p, {"del_mapping"}) /\ On(p) = home[t])
    PROVE  Held(mapping'[home[t]], t, ttl, SoonBy(t, ExpireMapping)',
                SoonBy(t, {"sadd_mapping"})')
<1> DEFINE add == {"sadd_mapping"}
           h == home[t]
<1>0. /\ Moves(p) /\ h \in Sessions /\ mapping \in [Sessions -> Keys]
      /\ \A s \in Sessions : KeyOK(mapping[s])
      /\ SessionTTL \in Nat /\ TaskTTL \in Nat /\ NoKey.has = {}
  BY ExecuteMoves, NoKeyOK, TTLAssumption DEF StoreOK
<1>1. Held(mapping[h], t, ttl, SoonBy(t, ExpireMapping), SoonBy(t, add))
  BY DEF MappingLists
<1>2. SoonBy(t, ExpireMapping) /\ ~(serves[p] = t /\ Do(p, ExpireMapping))
        => SoonBy(t, ExpireMapping)'
  BY <1>0, KeepsSoonBy
<1>3. SoonBy(t, add) /\ ~(serves[p] = t /\ Do(p, add)) => SoonBy(t, add)'
  BY <1>0, KeepsSoonBy
<1>4. Then(todo[p], "sadd_mapping", ExpireMapping)
  BY DEF ShapesOK, Shaped
<1> HIDE DEF add
<1>5. CASE ~WriteMapping(p)
  <2>1. mapping' = mapping /\ ~Do(p, ExpireMapping) /\ ~Do(p, add)
    BY <1>5 DEF Execute, Test, ReadMembers, WriteRow, DeleteRow, WriteUser, Enqueue,
       RunGraph, ClearSession, ReplyDeleted, keys, Do, ExpireMapping, add
  <2> QED
    BY <1>1, <1>2, <1>3, <2>1 DEF Held, add
<1>6. CASE WriteMapping(p)
  <2>0. Continue(p, <<>>)
    BY <1>6 DEF WriteMapping
  <2>1. PICK s \in Sessions, key \in Keys :
             /\ KeyOK(key) /\ mapping' = [mapping EXCEPT ![s] = key]
             /\ \/ Do(p, {"sadd_mapping"}) /\ serves[p] \in Tasks /\ On(p) = serves[p]
                   /\ s = home[serves[p]] /\ key = Sadd(mapping[s], serves[p])
                \/ Do(p, {"srem_mapping"}) /\ serves[p] = "removal" /\ On(p) \in Tasks
                   /\ s = home[On(p)] /\ key = Srem(mapping[s], On(p))
                \/ Do(p, ExpireMapping) /\ serves[p] \in Tasks /\ On(p) = serves[p]
                   /\ s = home[serves[p]]
                   /\ \/ Do(p, {"expire_mapping"}) /\ key = Expire(mapping[s], SessionTTL)
                      \/ Do(p, {"expire_mapping_as_task"}) /\ key = Expire(mapping[s], TaskTTL)
                \/ Do(p, {"del_mapping"}) /\ serves[p] = "removal" /\ On(p) = s /\ key = NoKey
    BY <1>6, MappingWrites
  <2>2. mapping'[s] = key /\ (h # s => mapping'[h] = mapping[h])
    BY <1>0, <2>1
  <2>3. CASE h # s
    <3>1. ~(serves[p] = t /\ Do(p, ExpireMapping)) /\ ~(serves[p] = t /\ Do(p, add))
      BY <2>1, <2>3 DEF Do, ExpireMapping, add
    <3> QED
      BY <1>1, <1>2, <1>3, <2>2, <2>3, <3>1 DEF Held, add
  <2>4. CASE h = s
    <3>1. CASE Do(p, {"sadd_mapping"}) /\ serves[p] \in Tasks /\ On(p) = serves[p]
               /\ key = Sadd(mapping[s], serves[p])
      <4>1. key.has = mapping[h].has \cup {serves[p]}
            /\ key.ttl = IF mapping[h] = NoKey THEN Forever ELSE mapping[h].ttl
        BY <1>0, <2>4, <3>1, SaddKey
      <4>2. CASE serves[p] = t
        <5>1. SoonBy(t, ExpireMapping)'
          BY <1>4, <2>0, <3>1, <4>2, PromisesSoonBy
        <5> QED
          BY <2>2, <2>4, <4>1, <4>2, <5>1 DEF Held
      <4>3. CASE serves[p] # t
        BY <1>0, <1>1, <1>2, <1>3, <2>2, <2>4, <4>1, <4>3 DEF Held, add
      <4> QED
        BY <4>2, <4>3
    <3>2. CASE Do(p, {"srem_mapping"}) /\ On(p) \in Tasks /\ key = Srem(mapping[s], On(p))
      <4>1. /\ key.has = mapping[h].has \ {On(p)} /\ (key # NoKey => key.ttl = mapping[h].ttl)
            /\ On(p) # t /\ ~Do(p, ExpireMapping) /\ ~Do(p, add)
        BY <1>0, <2>4, <3>2, SremKey DEF Do, ExpireMapping, add
      <4> QED
        BY <1>0, <1>1, <1>2, <1>3, <2>2, <2>4, <4>1 DEF Held, add
    <3>3. CASE Do(p, ExpireMapping)
               /\ (key = Expire(mapping[s], SessionTTL) \/ key = Expire(mapping[s], TaskTTL))
      <4>1. /\ key.has = mapping[h].has /\ ~Do(p, add)
            /\ mapping[h] # NoKey => key.ttl = SessionTTL \/ key.ttl = TaskTTL
        BY <1>0, <2>4, <3>3, ExpireKey DEF Do, ExpireMapping, add
      <4> QED
        BY <1>0, <1>1, <1>3, <2>2, <2>4, <4>1 DEF Held, add
    <3> QED
      BY <2>1, <2>4, <3>1, <3>2, <3>3
  <2> QED
    BY <2>3, <2>4
<1> QED
  BY <1>5, <1>6

LEMMA TickQuiet ==
    ASSUME ProgramsOK, Tick, NEW t, NEW dos
    PROVE  ~SoonBy(t, dos)
<1> SUFFICES ASSUME NEW p \in Processes, Soon(todo[p], dos, t) PROVE FALSE
  BY DEF SoonBy
<1>1. PICK j \in 1 .. Len(todo[p]) : \A k \in 1 .. j : todo[p][k].do \notin Barriers
  BY DEF Soon
<1>2. todo \in [Processes -> Seq(Commands)]
  BY DEF ProgramsOK
<1>3. todo[p] # <<>> /\ 1 \in 1 .. j /\ Head(todo[p]) = todo[p][1]
  BY <1>1, <1>2, HeadIs, EmptySeq
<1>4. todo[p][1].do = "run_graph"
  BY <1>3 DEF Tick, Do
<1> QED
  BY <1>1, <1>3, <1>4 DEF Barriers

LEMMA FadeHeld ==
    ASSUME NEW key, KeyOK(key), NEW t, NEW ttl \in Nat, ttl > 1,
           t \in key.has /\ (key.ttl = Forever \/ key.ttl >= ttl)
    PROVE  t \in Fade(key).has /\ (Fade(key).ttl = Forever \/ Fade(key).ttl >= ttl - 1)
<1>1. CASE key.ttl = Forever
  BY <1>1, FadeKey
<1>2. CASE key.ttl # Forever
  <2>1. key.ttl \in Nat /\ key.ttl > 1
    BY <1>2 DEF KeyOK, Keys
  <2>2. Fade(key).has = key.has /\ Fade(key).ttl = key.ttl - 1
    BY <1>2, <2>1, FadeKey
  <2> QED
    BY <1>2, <2>1, <2>2
<1> QED
  BY <1>1, <1>2

LEMMA RowsListedStep ==
    ASSUME SessionTTL <= TaskTTL, StoreOK, ProgramsOK, ShapesOK, Crossing, RowsListed, RowsToSet,
           RowsRemoved, [Next]_vars
    PROVE  RowsListed'
<1>0. /\ home' = home /\ crossed \subseteq crossed' /\ row \in [Tasks -> 0 .. SessionTTL]
      /\ mapping \in [Sessions -> Keys] /\ \A s \in Sessions : KeyOK(mapping[s])
      /\ KeyOK(user) /\ home \in [Tasks -> Sessions] /\ SessionTTL \in Nat /\ TaskTTL \in Nat
  BY HomeStays, CrossingStep, TTLAssumption DEF StoreOK
<1> SUFFICES ASSUME NEW t \in Tasks, t \notin crossed', row'[t] > 0
             PROVE  UserLists(t, row[t])' /\ MappingLists(t, row[t])'
  BY DEF RowsListed
<1>1. t \notin crossed /\ (row[t] > 0 => UserLists(t, row[t]) /\ MappingLists(t, row[t]))
  BY <1>0 DEF RowsListed
<1>2. ASSUME NEW p \in Processes, Arrives(p), UNCHANGED <<row, user, mapping>>
      PROVE  UserLists(t, row[t])' /\ MappingLists(t, row[t])'
  <2>1. todo[p] = <<>> /\ Moves(p)
    BY <1>2 DEF Arrives, ProgramsOK, Moves
  <2>2. \A dos : SoonBy(t, dos) => SoonBy(t, dos)'
    BY <2>1, KeepsSoonBy DEF Do
  <2> QED
    BY <1>0, <1>1, <1>2, <2>2 DEF UserLists, MappingLists, Held
<1>3. ASSUME NEW h \in Handlers, Request(h)
      PROVE  UserLists(t, row[t])' /\ MappingLists(t, row[t])'
  BY <1>2, <1>3, RequestArrives DEF Processes
<1>4. ASSUME NEW w \in Workers, NEW m \in queue, Take(w, m)
      PROVE  UserLists(t, row[t])' /\ MappingLists(t, row[t])'
  BY <1>2, <1>4, TakeArrives DEF Processes
<1>5. ASSUME NEW p \in Processes, Execute(p)
      PROVE  UserLists(t, row[t])' /\ MappingLists(t, row[t])'
  <2>0. Moves(p)
    BY <1>5, ExecuteMoves
  <2>1. CASE row'[t] = row[t]
    <3>1. row[t] \in Nat /\ row[t] > 0 /\ row[t] <= SessionTTL /\ row[t] <= TaskTTL
      BY <1>0, <2>1
    <3>2. ~Removes(p, t)
      BY <1>1, <3>1 DEF RowsRemoved
    <3>3. /\ ~(Do(p, {"srem_user"}) /\ On(p) = t) /\ ~(Do(p, {"srem_mapping"}) /\ On(p) = t)
          /\ ~(Do(p, {"del_mapping"}) /\ On(p) = home[t])
      BY <3>2, HeadHas DEF Removes
    <3>4. ~Do(p, {"del_user"})
      <4>1. Do(p, {"del_user"}) => On(p) = None
        BY Ons DEF Do
      <4> QED
        BY <3>2, <4>1, HeadHas DEF Removes
    <3>5. Held(user', t, row[t], SoonBy(t, {"expire_user"})', SoonBy(t, {"sadd_user"})')
      BY <1>1, <1>5, <3>1, <3>3, <3>4, UserHeld
    <3>6. Held(mapping'[home[t]], t, row[t], SoonBy(t, ExpireMapping)',
               SoonBy(t, {"sadd_mapping"})')
      BY <1>1, <1>5, <3>1, <3>3, MappingHeld
    <3> QED
      BY <1>0, <2>1, <3>5, <3>6 DEF UserLists, MappingLists, Held
  <2>2. CASE /\ Do(p, {"set_row"}) /\ serves[p] = t /\ On(p) = t /\ row'[t] = SessionTTL
             /\ Continue(p, <<>>) /\ UNCHANGED <<user, mapping>>
    <3>1. Then(todo[p], "set_row", {"expire_user"}) /\ Then(todo[p], "set_row", ExpireMapping)
      BY DEF ShapesOK, Shaped
    <3>2. SoonBy(t, {"expire_user"})' /\ SoonBy(t, ExpireMapping)'
      BY <2>2, <3>1, PromisesSoonBy
    <3>3. t \in user.has \/ SoonBy(t, {"sadd_user"})
      BY <1>1, <2>2 DEF RowsToSet, SoonBy, UserLists, Held
    <3>4. t \in mapping[home[t]].has \/ SoonBy(t, {"sadd_mapping"})
      BY <1>1, <2>2 DEF RowsToSet, SoonBy, MappingLists, Held
    <3>5. ~Do(p, {"sadd_user"}) /\ ~Do(p, {"sadd_mapping"})
      BY <2>2 DEF Do
    <3>6. t \in user.has \/ SoonBy(t, {"sadd_user"})'
      BY <2>0, <3>3, <3>5, KeepsSoonBy
    <3>7. t \in mapping[home[t]].has \/ SoonBy(t, {"sadd_mapping"})'
      BY <2>0, <3>4, <3>5, KeepsSoonBy
    <3> QED
      BY <1>0, <2>2, <3>2, <3>6, <3>7 DEF UserLists, MappingLists, Held
  <2> QED
    BY <1>5, <2>1, <2>2, RowWrites
<1>6. CASE Tick
  <2>1. /\ row' = [x \in Tasks |-> IF row[x] = 0 THEN 0 ELSE row[x] - 1]
        /\ user' = Fade(user) /\ mapping' = [s \in Sessions |-> Fade(mapping[s])]
    BY <1>6 DEF Tick
  <2>2. row[t] \in Nat /\ row[t] > 1 /\ row'[t] = row[t] - 1
    BY <1>0, <2>1
  <2>3. \A dos : ~SoonBy(t, dos)
    BY <1>6, TickQuiet
  <2>4. t \in user.has /\ (user.ttl = Forever \/ user.ttl >= row[t])
    BY <1>1, <2>2, <2>3 DEF UserLists, Held
  <2>5. t \in mapping[home[t]].has
        /\ (mapping[home[t]].ttl = Forever \/ mapping[home[t]].ttl >= row[t])
    BY <1>1, <2>2, <2>3 DEF MappingLists, Held
  <2>6. t \in user'.has /\ (user'.ttl = Forever \/ user'.ttl >= row'[t])
    BY <1>0, <2>1, <2>2, <2>4, FadeHeld
  <2>7. t \in mapping'[home[t]].has
        /\ (mapping'[home[t]].ttl = Forever \/ mapping'[home[t]].ttl >= row'[t])
    <3>1. mapping'[home[t]] = Fade(mapping[home[t]]) /\ KeyOK(mapping[home[t]])
      BY <1>0, <2>1
    <3> QED
      BY <2>2, <2>5, <3>1, FadeHeld
  <2> QED
    BY <1>0, <2>6, <2>7 DEF UserLists, MappingLists, Held
<1>7. CASE UNCHANGED vars
  <2>1. UNCHANGED <<home, row, user, mapping, todo, serves>>
    BY <1>7 DEF vars, keys
  <2>2. \A dos : SoonBy(t, dos) => SoonBy(t, dos)'
    BY <2>1 DEF SoonBy
  <2> QED
    BY <1>1, <2>1, <2>2 DEF UserLists, MappingLists, Held
<1> QED
  BY <1>3, <1>4, <1>5, <1>6, <1>7 DEF Next

(* A row is only ever about to be set as the first of its commands.        *)
LEMMA RunsToSet ==
    ASSUME ProgramsOK, ShapesOK, NEW p \in Processes, NEW more, Runs(p, more),
           Do(p, {"set_row"})'
    PROVE  more # <<>> /\ serves[p] \in Tasks /\ serves'[p] = serves[p]
<1> DEFINE rest == more \o Tail(todo[p])
<1>1. /\ todo[p] # <<>> /\ more \in Seq(Own(p)) /\ todo[p] \in Seq(Own(p))
      /\ todo'[p] = rest /\ Shaped(todo[p])
      /\ serves'[p] = IF rest = <<>> THEN None ELSE serves[p]
  <2>1. todo \in [Processes -> Seq(Commands)] /\ serves \in [Processes -> Tasks \cup {"removal", None}]
    BY DEF ProgramsOK
  <2> QED
    BY <2>1, HeadIs DEF Runs, Continue, ShapesOK
<1>2. /\ rest \in Seq(Own(p)) /\ Len(more) \in Nat /\ Len(todo[p]) \in Nat \ {0}
      /\ Len(rest) = Len(more) + Len(todo[p]) - 1
      /\ \A i \in Len(more) + 1 .. Len(rest) :
           i - Len(more) + 1 \in 2 .. Len(todo[p]) /\ rest[i] = todo[p][i - Len(more) + 1]
  BY <1>1, RestIs
<1>3. rest # <<>> /\ Head(rest).do = "set_row"
  BY <1>1 DEF Do
<1> HIDE DEF rest
<1>4. Head(rest) = rest[1] /\ Len(rest) \in Nat \ {0} /\ rest[1] \in Own(p)
  BY <1>2, <1>3, EmptySeq
<1>5. ASSUME more = <<>> PROVE FALSE
  <2>1. Len(more) = 0
    BY <1>5
  <2>2. rest[1] = todo[p][2] /\ 2 \in 1 .. Len(todo[p])
    <3>1. 1 \in Len(more) + 1 .. Len(rest) /\ 1 - Len(more) + 1 = 2
      BY <1>4, <2>1
    <3>2. 1 - Len(more) + 1 \in 2 .. Len(todo[p]) /\ rest[1] = todo[p][1 - Len(more) + 1]
      BY <1>2, <3>1
    <3> QED
      BY <1>2, <3>1, <3>2
  <2>3. todo[p][2].do # "set_row"
    BY <1>1, <2>2 DEF Shaped
  <2> QED
    BY <1>3, <1>4, <2>2, <2>3
<1>6. serves[p] \in Tasks
  <2>1. serves[p] # "removal"
    <3>1. ASSUME NEW c \in RemovalCommands PROVE c.do # "set_row"
      BY DEF RemovalCommands, TaskDos, SessionDos, UserDos
    <3> QED
      BY <1>3, <1>4, <3>1 DEF Own
  <2> QED
    BY <1>1, <2>1, HeadIs
<1> QED
  BY <1>1, <1>3, <1>5, <1>6

LEMMA ExecuteToSet ==
    ASSUME StoreOK, ProgramsOK, ShapesOK, NEW p \in Processes, Execute(p), Do(p, {"set_row"})'
    PROVE  /\ serves[p] \in Tasks /\ serves'[p] = serves[p]
           /\ \/ row'[serves[p]] > 0
              \/ /\ Soon(todo'[p], {"sadd_user"}, serves[p])
                 /\ Soon(todo'[p], {"sadd_mapping"}, serves[p])
<1>0. /\ todo \in [Processes -> Seq(Commands)] /\ row \in [Tasks -> 0 .. SessionTTL]
      /\ SessionTTL \in Nat
  BY TTLAssumption DEF ProgramsOK, StoreOK
<1>1. PICK more : Runs(p, more)
  <2>1. ~Stops(p)
    BY <1>0 DEF Stops, Stop, Do
  <2>2. ~Arrives(p)
    BY DEF Arrives, Execute, Test, ReadMembers, WriteRow, DeleteRow, WriteUser, WriteMapping,
       Enqueue, RunGraph, ClearSession, ReplyDeleted, Do, ProgramsOK
  <2> QED
    BY <2>1, <2>2, ExecuteMoves DEF Moves
<1>2. serves[p] \in Tasks /\ serves'[p] = serves[p] /\ todo[p] # <<>> /\ serves[p] # "removal"
  BY <1>1, RunsToSet, IdAssumption DEF Runs
<1>3. ASSUME Continue(p, <<>>) PROVE FALSE
  <2>1. Runs(p, <<>>)
    BY <1>2, <1>3, NothingMore
  <2> QED
    BY <2>1, RunsToSet
<1>4. Test(p)
  BY <1>2, <1>3, Ons DEF Execute, ReadMembers, WriteRow, DeleteRow, WriteUser, WriteMapping,
     Enqueue, RunGraph, ClearSession, ReplyDeleted, Do
<1>5. row' = row /\ todo[p] \in Seq(Own(p))
  BY <1>2, <1>4, HeadIs DEF Test, keys
<1>6. CASE Do(p, {"create_unless_row"}) /\ Continue(p, Create(On(p)))
  <2>1. On(p) = serves[p]
    BY <1>6, Ons DEF Do
  <2>2. todo'[p] = Create(serves[p]) \o Tail(todo[p])
    BY <1>0, <1>6, <2>1 DEF Continue
  <2>3. Create(serves[p]) \in Seq(Own(p))
    BY <1>2, CreateIs DEF Own
  <2> QED
    BY <1>2, <1>5, <2>2, <2>3, CreateIs, SoonMore
<1>7. CASE Do(p, {"get_row"}) /\ row[On(p)] # 0
  <2>1. On(p) = serves[p]
    BY <1>7, Ons DEF Do
  <2> QED
    BY <1>0, <1>2, <1>5, <1>7, <2>1
<1>8. CASE Do(p, {"stop_unless_row"}) /\ Stop(p)
  BY <1>0, <1>8 DEF Stop, Do
<1>9. CASE Do(p, {"get_row"}) /\ row[On(p)] = 0
  BY <1>3, <1>4, <1>9 DEF Test, Do
<1> QED
  BY <1>2, <1>3, <1>4, <1>6, <1>7, <1>8, <1>9, Ons DEF Test, Do

LEMMA RowsToSetStep ==
    ASSUME StoreOK, ProgramsOK, ShapesOK, Crossing, RowsToSet, [Next]_vars
    PROVE  RowsToSet'
<1>0. crossed \subseteq crossed' /\ row \in [Tasks -> 0 .. SessionTTL] /\ SessionTTL \in Nat \ {0}
  BY CrossingStep, TTLAssumption DEF StoreOK
<1> SUFFICES ASSUME NEW p \in Processes, Do(p, {"set_row"})'
             PROVE  \/ serves'[p] \in crossed' \/ row'[serves'[p]] > 0
                    \/ /\ Soon(todo'[p], {"sadd_user"}, serves'[p])
                       /\ Soon(todo'[p], {"sadd_mapping"}, serves'[p])
  BY DEF RowsToSet
<1>1. ASSUME todo'[p] = todo[p], serves'[p] = serves[p]
      PROVE  /\ serves[p] \in Tasks /\ Do(p, {"set_row"})
             /\ \/ serves'[p] \in crossed' \/ row[serves'[p]] > 0
                \/ /\ Soon(todo'[p], {"sadd_user"}, serves'[p])
                   /\ Soon(todo'[p], {"sadd_mapping"}, serves'[p])
  <2>1. Do(p, {"set_row"})
    BY <1>1 DEF Do
  <2>2. serves[p] \in Tasks
    BY <2>1, Ons DEF Do
  <2> QED
    BY <1>0, <1>1, <2>1, <2>2 DEF RowsToSet
<1>2. ASSUME NEW q \in Processes, Arrives(q) PROVE todo'[p] = todo[p] /\ serves'[p] = serves[p]
  <2>1. Moves(q)
    BY <1>2 DEF Moves
  <2>2. CASE q # p
    BY <2>1, <2>2, MovesOK
  <2>3. CASE q = p
    <3>1. PICK for, program : Program(for, program) /\ todo' = [todo EXCEPT ![p] = program]
      BY <1>2, <2>3 DEF Arrives
    <3>2. todo'[p] = program
      BY <3>1 DEF ProgramsOK
    <3>3. program # <<>> /\ Head(program).do = "set_row"
      BY <3>2 DEF Do
    <3>4. PICK C : program \in Seq(C) /\ C \in {RemovalCommands} \cup {WriterCommands(t) : t \in Tasks}
      BY <3>1 DEF Program
    <3>5. 1 \in 1 .. Len(program) /\ Head(program) = program[1] /\ program[1] \in C
      BY <3>3, <3>4, EmptySeq
    <3>6. \A c \in RemovalCommands : c.do # "set_row"
      BY DEF RemovalCommands, TaskDos, SessionDos, UserDos
    <3>7. program \notin Seq(RemovalCommands)
      <4>1. program \in Seq(RemovalCommands) => program[1] \in RemovalCommands
        BY <3>3, <3>5
      <4> QED
        BY <3>3, <3>5, <3>6, <4>1
    <3>8. NoSetRow(program)
      BY <3>1, <3>7 DEF Program
    <3> QED
      BY <3>3, <3>5, <3>8 DEF NoSetRow
  <2> QED
    BY <2>2, <2>3
<1>3. ASSUME NEW h \in Handlers, Request(h)
      PROVE  todo'[p] = todo[p] /\ serves'[p] = serves[p] /\ row' = row
  BY <1>2, <1>3, RequestArrives DEF Processes
<1>4. ASSUME NEW w \in Workers, NEW m \in queue, Take(w, m)
      PROVE  todo'[p] = todo[p] /\ serves'[p] = serves[p] /\ row' = row
  BY <1>2, <1>4, TakeArrives DEF Processes
<1>5. ASSUME NEW q \in Processes, Execute(q)
      PROVE  \/ serves'[p] \in crossed' \/ row'[serves'[p]] > 0
             \/ /\ Soon(todo'[p], {"sadd_user"}, serves'[p])
                /\ Soon(todo'[p], {"sadd_mapping"}, serves'[p])
  <2>1. CASE q = p
    BY <1>5, <2>1, ExecuteToSet
  <2>2. CASE q # p
    <3>1. todo'[p] = todo[p] /\ serves'[p] = serves[p]
      BY <1>5, <2>2, ExecuteMoves, MovesOK
    <3>2. serves[p] \in Tasks
      BY <1>1, <3>1
    <3>3. CASE row'[serves[p]] = row[serves[p]] \/ row'[serves[p]] = SessionTTL
      BY <1>0, <1>1, <3>1, <3>2, <3>3
    <3>4. CASE serves[q] = "removal"
      <4>1. serves[p] \in crossed
        BY <3>2, <3>4 DEF Crossing, Removing, UnderWay
      <4> QED
        BY <1>0, <3>1, <4>1
    <3> QED
      BY <1>5, <3>2, <3>3, <3>4, RowWrites
  <2> QED
    BY <2>1, <2>2
<1>6. CASE Tick
  <2>1. todo'[p] = todo[p] /\ serves'[p] = serves[p]
    BY <1>6 DEF Tick
  <2>2. Do(p, {"set_row"})
    BY <1>1, <2>1
  <2> QED
    BY <1>6, <2>2 DEF Tick, Do
<1>7. CASE UNCHANGED vars
  BY <1>1, <1>7 DEF vars, keys
<1> QED
  BY <1>1, <1>3, <1>4, <1>5, <1>6, <1>7 DEF Next

RemovalDos == {"srem_user", "srem_mapping", "del_task_key", "del_user", "del_mapping"}

LEMMA WriterRemovesNothing ==
    ASSUME NEW t, NEW program \in Seq(WriterCommands(t)), NEW do \in RemovalDos, NEW x
    PROVE  ~Says(program, do, x)
<1> SUFFICES ASSUME NEW i \in 1 .. Len(program), program[i] = Command(do, x) PROVE FALSE
  BY DEF Says
<1>1. program[i] \in WriterCommands(t)
  OBVIOUS
<1>2. do \in WriterDos
  BY <1>1 DEF WriterCommands, Command
<1> QED
  BY <1>2 DEF WriterDos, RemovalDos

LEMMA NewRemovesNothing ==
    ASSUME NEW for, NEW program, Program(for, program), NEW do \in RemovalDos, NEW x
    PROVE  ~Says(program, do, x)
<1>1. CASE Tidy(program)
  <2> SUFFICES ASSUME NEW i \in 1 .. Len(program), program[i] = Command(do, x) PROVE FALSE
    BY DEF Says
  <2>1. program[i].do = do
    BY DEF Command
  <2> QED
    BY <1>1, <2>1 DEF Tidy, RemovalDos
<1> QED
  BY <1>1, WriterRemovesNothing DEF Program

LEMMA RemovingHas ==
    ASSUME ProgramsOK, NEW p \in Processes, NEW do \in RemovalDos, NEW x, Has(p, do, x)
    PROVE  serves[p] = "removal" /\ Removing
<1>1. do \in (TaskDos \cup SessionDos \cup UserDos) \ {"stop_unless_row"}
  BY DEF RemovalDos, TaskDos, SessionDos, UserDos
<1> QED
  BY <1>1, HasRemoval

LEMMA NotUnderWay ==
    ASSUME Crossing, Removing, NEW t \in Tasks \ crossed
    PROVE  ~UnderWay(t) /\ \A p \in Processes : serves[p] # t /\ \A dos : ~SoonBy(t, dos)
  BY DEF Crossing, UnderWay, SoonBy

(* What a command is followed by: only a removal that has looked removes.  *)
RemovesNothing(more) == \A do \in RemovalDos : \A x : ~Says(more, do, x)

LEMMA RunsOn ==
    ASSUME StoreOK, ProgramsOK, NEW p \in Processes, Execute(p)
    PROVE  \/ Stops(p)
           \/ \E more : Runs(p, more) /\ RemovesNothing(more)
           \/ /\ serves[p] = "removal"
              /\ \/ \E x \in Tasks : row[x] = 0 /\ UNCHANGED <<row, taskkey>> /\ Runs(p, Drop(x))
                 \/ \E x \in Tasks : row'[x] = 0 /\ taskkey'[x] = 0 /\ Runs(p, Unlist(x))
                 \/ /\ user.has = {} /\ UNCHANGED <<row, taskkey>>
                    /\ Runs(p, <<Command("del_user", None)>>)
                 \/ \E s \in Sessions : /\ mapping[s].has = {} /\ UNCHANGED <<row, taskkey>>
                                        /\ Runs(p, <<Command("del_mapping", s)>>)
<1> DEFINE Goal == \/ Stops(p)
                   \/ \E more : Runs(p, more) /\ RemovesNothing(more)
                   \/ /\ serves[p] = "removal"
                      /\ \/ \E x \in Tasks : row[x] = 0 /\ UNCHANGED <<row, taskkey>>
                                             /\ Runs(p, Drop(x))
                         \/ \E x \in Tasks : row'[x] = 0 /\ taskkey'[x] = 0 /\ Runs(p, Unlist(x))
                         \/ /\ user.has = {} /\ UNCHANGED <<row, taskkey>>
                            /\ Runs(p, <<Command("del_user", None)>>)
                         \/ \E s \in Sessions :
                              /\ mapping[s].has = {} /\ UNCHANGED <<row, taskkey>>
                              /\ Runs(p, <<Command("del_mapping", s)>>)
<1>0. /\ row \in [Tasks -> 0 .. SessionTTL] /\ taskkey \in [Tasks -> 0 .. TaskTTL]
      /\ KeyOK(user) /\ \A s \in Sessions : KeyOK(mapping[s])
  BY DEF StoreOK
<1>1. todo[p] # <<>>
  BY DEF Execute, Test, ReadMembers, WriteRow, DeleteRow, WriteUser, WriteMapping, Enqueue,
     RunGraph, ClearSession, ReplyDeleted, Do
<1>2. ASSUME Continue(p, <<>>) PROVE Goal
  <2>1. Runs(p, <<>>)
    BY <1>1, <1>2, NothingMore
  <2>2. RemovesNothing(<<>>)
    BY SaysParts DEF RemovesNothing
  <2> QED
    BY <2>1, <2>2
<1>3. ASSUME NEW more, Part(more), serves[p] = "removal", Continue(p, more) PROVE Runs(p, more)
  BY <1>1, <1>3, PartMore
<1>4. ASSUME NEW more \in Seq(WriterCommands(serves[p])) PROVE RemovesNothing(more)
  BY WriterRemovesNothing DEF RemovesNothing
<1>5. CASE DeleteRow(p)
  <2>1. serves[p] = "removal" /\ On(p) \in Tasks /\ Continue(p, Unlist(On(p)))
    BY <1>5, Ons DEF DeleteRow, Do
  <2>2. Part(Unlist(On(p)))
    BY <2>1, SmallParts DEF StoreOK
  <2>3. row'[On(p)] = 0 /\ taskkey'[On(p)] = 0
    BY <1>0, <1>5, <2>1 DEF DeleteRow
  <2> QED
    BY <1>3, <2>1, <2>2, <2>3
<1>6. CASE ReadMembers(p)
  <2>1. ASSUME NEW order \in SetToSeqs(user.has), Do(p, {"smembers_user"}),
               Continue(p, ForEach(order, "drop_unless_row") \o ScardUser)
        PROVE  Goal
    <3> DEFINE more == ForEach(order, "drop_unless_row") \o ScardUser
    <3>1. serves[p] = "removal" /\ order \in Seq(Tasks)
      BY <1>0, <2>1, Ons, SeqsOfKey DEF Do
    <3>2. Part(more)
      BY <3>1, CleanupPart
    <3>3. \A do, x : Says(more, do, x) => do \in {"drop_unless_row", "scard_user"}
      BY <3>1, SaysLoops
    <3> HIDE DEF more
    <3>4. RemovesNothing(more)
      BY <3>3 DEF RemovesNothing, RemovalDos
    <3>5. Runs(p, more)
      BY <1>3, <2>1, <3>1, <3>2 DEF more
    <3> QED
      BY <3>4, <3>5
  <2>2. ASSUME NEW order \in SetToSeqs(mapping[On(p)].has), Do(p, {"smembers_mapping"}),
               Continue(p, ForEach(order, "del_row_and_task_key"))
        PROVE  Goal
    <3> DEFINE more == ForEach(order, "del_row_and_task_key")
    <3>0. serves[p] = "removal" /\ On(p) \in Sessions
      BY <2>2, Ons DEF Do
    <3>1. order \in Seq(Tasks)
      BY <1>0, <2>2, <3>0, SeqsOfKey
    <3>2. Part(more)
      BY <3>1, ForEachPart
    <3>3. \A do, x : Says(more, do, x) => do = "del_row_and_task_key"
      BY <3>1, SaysLoops
    <3> HIDE DEF more
    <3>4. RemovesNothing(more)
      BY <3>3 DEF RemovesNothing, RemovalDos
    <3>5. Runs(p, more)
      BY <1>3, <2>2, <3>0, <3>2 DEF more
    <3> QED
      BY <3>4, <3>5
  <2> QED
    BY <1>6, <2>1, <2>2 DEF ReadMembers
<1>7. CASE Test(p)
  <2>0. UNCHANGED <<row, taskkey>>
    BY <1>7 DEF Test, keys
  <2>1. CASE Do(p, {"create_unless_row"}) /\ Continue(p, Create(On(p)))
    <3>1. serves[p] \in Tasks /\ On(p) = serves[p] /\ serves[p] # "removal"
      BY <2>1, Ons, IdAssumption DEF Do
    <3>2. Runs(p, Create(On(p))) /\ Create(On(p)) \in Seq(WriterCommands(serves[p]))
      BY <1>1, <2>1, <3>1, CreateIs DEF Runs, Own
    <3> QED
      BY <1>4, <3>2
  <2>2. CASE Do(p, {"get_row"}) /\ Continue(p, StoreRow(On(p)))
    <3>1. serves[p] \in Tasks /\ On(p) = serves[p] /\ serves[p] # "removal"
      BY <2>2, Ons, IdAssumption DEF Do
    <3>2. Runs(p, StoreRow(On(p))) /\ StoreRow(On(p)) \in Seq(WriterCommands(serves[p]))
      BY <1>1, <2>2, <3>1, StoreRowIs DEF Runs, Own
    <3> QED
      BY <1>4, <3>2
  <2>3. CASE Do(p, {"drop_unless_row"}) /\ row[On(p)] = 0 /\ Continue(p, Drop(On(p)))
    <3>1. serves[p] = "removal" /\ On(p) \in Tasks
      BY <2>3, Ons DEF Do
    <3>2. Part(Drop(On(p)))
      BY <3>1, SmallParts DEF StoreOK
    <3> QED
      BY <1>3, <2>0, <2>3, <3>1, <3>2
  <2>4. CASE Do(p, {"scard_user"}) /\ user.has = {} /\ Continue(p, <<Command("del_user", None)>>)
    <3>1. serves[p] = "removal"
      BY <2>4, Ons DEF Do
    <3>2. Part(<<Command("del_user", None)>>)
      <4>1. Command("del_user", None) \in RemovalCommands
        BY DEF Command, RemovalCommands, UserDos
      <4> QED
        BY <4>1 DEF Part, Plain, BarrierFree, Barriers, Command
    <3>3. Runs(p, <<Command("del_user", None)>>)
      BY <1>3, <2>4, <3>1, <3>2
    <3> QED
      BY <2>0, <2>4, <3>1, <3>3
  <2>5. CASE Do(p, {"scard_mapping"}) /\ mapping[On(p)].has = {}
             /\ Continue(p, <<Command("del_mapping", On(p))>>)
    <3>1. serves[p] = "removal" /\ On(p) \in Sessions
      BY <2>5, Ons DEF Do
    <3>2. Part(<<Command("del_mapping", On(p))>>)
      <4>1. Command("del_mapping", On(p)) \in RemovalCommands
        BY <3>1 DEF Command, RemovalCommands, SessionDos
      <4> QED
        BY <4>1 DEF Part, Plain, BarrierFree, Barriers, Command
    <3>3. Runs(p, <<Command("del_mapping", On(p))>>)
      BY <1>3, <2>5, <3>1, <3>2
    <3> QED
      BY <2>0, <2>5, <3>1, <3>3
  <2>6. CASE (Do(p, {"stop_unless_row"}) \/ Do(p, {"stop_unless_mapping"})) /\ Stop(p)
    BY <2>6 DEF Stops, Do
  <2> QED
    BY <1>2, <1>7, <2>1, <2>2, <2>3, <2>4, <2>5, <2>6 DEF Test
<1>8. CASE ~DeleteRow(p) /\ ~ReadMembers(p) /\ ~Test(p)
  <2>1. Continue(p, <<>>)
    BY <1>8 DEF Execute, WriteRow, WriteUser, WriteMapping, Enqueue, RunGraph, ClearSession,
       ReplyDeleted
  <2> QED
    BY <1>2, <2>1
<1> QED
  BY <1>5, <1>6, <1>7, <1>8

(* What it removes next, it has decided to remove now or before.           *)
LEMMA RemovesNext ==
    ASSUME StoreOK, ProgramsOK, ShapesOK, NEW p \in Processes, Execute(p),
           NEW q \in Processes, NEW do \in RemovalDos, NEW x, Has(q, do, x)'
    PROVE  \/ Has(q, do, x)
           \/ /\ q = p /\ serves[p] = "removal"
              /\ \/ do \in {"srem_user", "srem_mapping", "del_task_key"} /\ x \in Tasks
                    /\ row[x] = 0 /\ UNCHANGED <<row, taskkey>> /\ Runs(p, Drop(x))
                 \/ do \in {"srem_user", "srem_mapping"} /\ x \in Tasks
                    /\ row'[x] = 0 /\ taskkey'[x] = 0 /\ Runs(p, Unlist(x))
                 \/ do = "del_user" /\ user.has = {} /\ UNCHANGED <<row, taskkey>>
                 \/ do = "del_mapping" /\ x \in Sessions /\ mapping[x].has = {}
                    /\ UNCHANGED <<row, taskkey>>
<1>1. CASE q # p
  BY <1>1, ExecuteMoves, MovesOK DEF Has
<1> SUFFICES ASSUME q = p, ~Has(p, do, x)
             PROVE  /\ serves[p] = "removal"
                    /\ \/ do \in {"srem_user", "srem_mapping", "del_task_key"} /\ x \in Tasks
                          /\ row[x] = 0 /\ UNCHANGED <<row, taskkey>> /\ Runs(p, Drop(x))
                       \/ do \in {"srem_user", "srem_mapping"} /\ x \in Tasks
                          /\ row'[x] = 0 /\ taskkey'[x] = 0 /\ Runs(p, Unlist(x))
                       \/ do = "del_user" /\ user.has = {} /\ UNCHANGED <<row, taskkey>>
                       \/ do = "del_mapping" /\ x \in Sessions /\ mapping[x].has = {}
                          /\ UNCHANGED <<row, taskkey>>
  BY <1>1
<1>2. ~Stops(p)
  <2>1. ~Says(<<>>, do, x)
    BY SaysParts
  <2> QED
    BY <2>1 DEF Stops, Stop, Has, ProgramsOK
<1>3. \A more : Runs(p, more) => Says(more, do, x)
  BY HasBefore
<1>4. ~\E more : Runs(p, more) /\ RemovesNothing(more)
  BY <1>3 DEF RemovesNothing
<1>5. ASSUME NEW t \in Tasks, Runs(p, Drop(t))
      PROVE  do \in {"srem_user", "srem_mapping", "del_task_key"} /\ x = t
  BY <1>3, <1>5, SaysParts
<1>6. ASSUME NEW t \in Tasks, Runs(p, Unlist(t))
      PROVE  do \in {"srem_user", "srem_mapping"} /\ x = t
  BY <1>3, <1>6, SaysParts
<1>7. ASSUME Runs(p, <<Command("del_user", None)>>) PROVE do = "del_user"
  <2>1. Says(<<Command("del_user", None)>>, do, x)
    BY <1>3, <1>7
  <2> QED
    BY <2>1, SaysParts
<1>8. ASSUME NEW s \in Sessions, Runs(p, <<Command("del_mapping", s)>>)
      PROVE  do = "del_mapping" /\ x = s
  <2>1. Says(<<Command("del_mapping", s)>>, do, x)
    BY <1>3, <1>8
  <2> QED
    BY <2>1, SaysParts
<1> QED
  BY <1>2, <1>4, <1>5, <1>6, <1>7, <1>8, RunsOn

LEMMA ArrivesHas ==
    ASSUME ProgramsOK, ShapesOK, NEW p \in Processes, Arrives(p), NEW q \in Processes,
           NEW do \in RemovalDos, NEW x, Has(q, do, x)'
    PROVE  Has(q, do, x)
<1>1. CASE q # p
  BY <1>1, MovesOK DEF Has, Moves
<1>2. CASE q = p
  <2>1. PICK for, program : Program(for, program) /\ todo' = [todo EXCEPT ![p] = program]
    BY DEF Arrives
  <2>2. todo'[p] = program
    BY <2>1 DEF ProgramsOK
  <2> QED
    BY <1>2, <2>1, <2>2, NewRemovesNothing DEF Has
<1> QED
  BY <1>1, <1>2

LEMMA RowsRemovedStep ==
    ASSUME StoreOK, ProgramsOK, ShapesOK, Crossing, RowsListed, RowsRemoved, [Next]_vars
    PROVE  RowsRemoved'
<1>0. /\ home' = home /\ crossed \subseteq crossed' /\ row \in [Tasks -> 0 .. SessionTTL]
      /\ home \in [Tasks -> Sessions] /\ SessionTTL \in Nat
  BY HomeStays, CrossingStep, TTLAssumption DEF StoreOK
<1> SUFFICES ASSUME NEW q \in Processes, NEW t \in Tasks, t \notin crossed', Removes(q, t)'
             PROVE  row'[t] = 0
  BY DEF RowsRemoved
<1>1. t \in Tasks \ crossed /\ home[t] \in Sessions
  BY <1>0
<1>2. PICK do \in RemovalDos, x \in Tasks \cup Sessions \cup {None} : Has(q, do, x)'
          /\ \/ do \in {"srem_user", "srem_mapping"} /\ x = t
             \/ do = "del_user" /\ x = None
             \/ do = "del_mapping" /\ x = home[t]
  BY <1>0, <1>1 DEF Removes, RemovalDos
<1>3. ASSUME Has(q, do, x) PROVE Removing /\ row[t] = 0 /\ ~UnderWay(t)
  <2>1. Removing
    BY <1>3, RemovingHas
  <2>2. row[t] = 0
    BY <1>1, <1>2, <1>3 DEF Removes, RowsRemoved
  <2> QED
    BY <1>1, <2>1, <2>2, NotUnderWay
<1>4. ASSUME NEW h \in Handlers, Request(h) PROVE row'[t] = 0
  <2>1. Has(q, do, x) /\ row' = row
    BY <1>2, <1>4, RequestArrives, ArrivesHas DEF Processes
  <2> QED
    BY <1>3, <2>1
<1>5. ASSUME NEW w \in Workers, NEW m \in queue, Take(w, m) PROVE row'[t] = 0
  <2>1. Has(q, do, x) /\ row' = row
    BY <1>2, <1>5, TakeArrives, ArrivesHas DEF Processes
  <2> QED
    BY <1>3, <2>1
<1>6. ASSUME NEW p \in Processes, Execute(p) PROVE row'[t] = 0
  <2>1. CASE Has(q, do, x)
    <3>1. serves[p] # t
      BY <1>1, <1>3, <2>1, NotUnderWay
    <3> QED
      BY <1>3, <1>6, <2>1, <3>1, RowWrites
  <2>2. CASE x \in Tasks /\ do \in {"srem_user", "srem_mapping"}
             /\ (row'[x] = 0 \/ (row[x] = 0 /\ UNCHANGED <<row, taskkey>>))
    <3>1. x = t
      BY <1>2, <2>2
    <3> QED
      BY <2>2, <3>1
  <2>3. CASE do = "del_user" /\ user.has = {} /\ serves[p] = "removal" /\ UNCHANGED <<row, taskkey>>
    <3>1. ~UserLists(t, row[t])
      BY <1>1, <2>3, NotUnderWay DEF UserLists, Held, Removing
    <3> QED
      BY <1>0, <1>1, <2>3, <3>1 DEF RowsListed
  <2>4. CASE do = "del_mapping" /\ mapping[x].has = {} /\ serves[p] = "removal"
             /\ UNCHANGED <<row, taskkey>>
    <3>0. x = home[t]
      BY <1>2, <2>4
    <3>1. ~MappingLists(t, row[t])
      BY <1>1, <2>4, <3>0, NotUnderWay DEF MappingLists, Held, Removing
    <3> QED
      BY <1>0, <1>1, <2>4, <3>1 DEF RowsListed
  <2>5. do # "del_task_key"
    BY <1>2
  <2> QED
    BY <1>2, <1>6, <2>1, <2>2, <2>3, <2>4, <2>5, RemovesNext
<1>7. CASE Tick
  <2>1. Has(q, do, x) /\ row' = [y \in Tasks |-> IF row[y] = 0 THEN 0 ELSE row[y] - 1]
    BY <1>2, <1>7 DEF Tick, Has
  <2> QED
    BY <1>3, <2>1
<1>8. CASE UNCHANGED vars
  <2>1. Has(q, do, x) /\ row' = row
    BY <1>2, <1>8 DEF vars, keys, Has
  <2> QED
    BY <1>3, <2>1
<1> QED
  BY <1>4, <1>5, <1>6, <1>7, <1>8 DEF Next

LEMMA RowsInit == Init => Crossing /\ RowsListed /\ RowsToSet /\ RowsRemoved
<1> SUFFICES ASSUME Init PROVE Crossing /\ RowsListed /\ RowsToSet /\ RowsRemoved
  OBVIOUS
<1>1. \A p \in Processes : serves[p] = None /\ todo[p] = <<>>
  BY DEF Init
<1>2. \A t \in Tasks : row[t] = 0
  BY DEF Init
<1>3. ~Removing
  BY <1>1, IdAssumption DEF Removing
<1> QED
  BY <1>1, <1>2, <1>3 DEF Crossing, RowsListed, RowsToSet, RowsRemoved, Do

(* The inductive invariant behind RowsAreListed: who removes has looked,   *)
(* and a row is written only by a request that lists it again.             *)
THEOREM RowsInvariance ==
    ASSUME SessionTTL <= TaskTTL
    PROVE  Spec => []RowsInv
<1>1. Init => RowsInv
  BY RowsInit, StoreInit, ProgramsInit, ExpiryInit DEF RowsInv, IndexInv
<1>2. RowsInv /\ [Next]_vars => RowsInv'
  <2> SUFFICES ASSUME RowsInv, [Next]_vars PROVE RowsInv'
    OBVIOUS
  <2>1. StoreOK /\ ProgramsOK /\ ShapesOK /\ ExpiryOK
    BY DEF RowsInv, IndexInv
  <2>2. IndexInv'
    BY <2>1, StoreStep, ProgramsStep, ExpiryStep DEF IndexInv
  <2>3. Crossing' /\ RowsListed' /\ RowsToSet' /\ RowsRemoved'
    BY <2>1, CrossingStep, RowsListedStep, RowsToSetStep, RowsRemovedStep DEF RowsInv
  <2> QED
    BY <2>2, <2>3 DEF RowsInv
<1> QED
  BY <1>1, <1>2, PTL DEF Spec

(* While rows live no longer than task keys, a row that nobody writes any  *)
(* more is listed by its user and by its session for as long as it lives,  *)
(* unless a removal ran beside its request or its run: no order of the     *)
(* commands of other tasks and no clean-up hides it.                       *)
THEOREM SpecRowsAreListed ==
    ASSUME SessionTTL <= TaskTTL
    PROVE  Spec => []RowsAreListed
<1>1. RowsInv => RowsAreListed
  <2> SUFFICES ASSUME RowsInv, NEW t \in Tasks, row[t] > 0, ~UnderWay(t), t \notin crossed
               PROVE  t \in user.has /\ t \in mapping[home[t]].has
    BY DEF RowsAreListed
  <2>1. UserLists(t, row[t]) /\ MappingLists(t, row[t])
    BY DEF RowsInv, RowsListed
  <2>2. \A dos : ~SoonBy(t, dos)
    BY DEF SoonBy, UnderWay
  <2> QED
    BY <2>1, <2>2 DEF UserLists, MappingLists, Held
<1> QED
  BY <1>1, RowsInvariance, PTL

-----------------------------------------------------------------------------
(* Task keys that live are in the index of their session, or soon gone.    *)

Removal(dos, x) == \E q \in Processes : serves[q] = "removal" /\ Soon(todo[q], dos, x)

Homes == \A s \in Sessions : \A t \in mapping[s].has : home[t] = s

KeysListed ==
    \A t \in Tasks \ crossed : taskkey[t] > 0 =>
      MappingLists(t, taskkey[t]) \/ Removal({"del_task_key"}, t)

(* Who takes a task out of the index also deletes its key.                 *)
KeysRemoved ==
    \A q \in Processes, t \in Tasks \ crossed :
      /\ \A i \in 1 .. Len(todo[q]) : todo[q][i] = Command("srem_mapping", t) =>
           taskkey[t] = 0 \/ Later(todo[q], i, {"del_task_key"})
      /\ Has(q, "del_mapping", home[t]) => taskkey[t] = 0 \/ Removal({"del_task_key"}, t)

LEMMA KeepsRemoval ==
    ASSUME ProgramsOK, ShapesOK, NEW p \in Processes, Moves(p), NEW dos, NEW x,
           Removal(dos, x), ~(Do(p, dos) /\ On(p) = x)
    PROVE  Removal(dos, x)'
<1>1. PICK q \in Processes : serves[q] = "removal" /\ Soon(todo[q], dos, x)
  BY DEF Removal
<1>2. serves'[q] = serves[q] /\ Soon(todo'[q], dos, x)
  BY <1>1, KeepsSoon
<1> QED
  BY <1>1, <1>2 DEF Removal

LEMMA KeyWrites ==
    ASSUME StoreOK, ProgramsOK, NEW p \in Processes, Execute(p), NEW t \in Tasks
    PROVE  \/ taskkey'[t] = taskkey[t] /\ ~(Do(p, {"del_task_key"}) /\ On(p) = t)
           \/ /\ Do(p, {"set_task_key"}) /\ serves[p] = t /\ On(p) = t /\ taskkey'[t] = TaskTTL
              /\ Continue(p, <<>>) /\ mapping' = mapping
           \/ taskkey'[t] = 0
<1>0. taskkey \in [Tasks -> 0 .. TaskTTL]
  BY DEF StoreOK
<1>1. CASE WriteRow(p) /\ Do(p, {"set_task_key"})
  <2>1. serves[p] \in Tasks /\ On(p) = serves[p]
    BY <1>1, Ons DEF Do
  <2>2. taskkey' = [taskkey EXCEPT ![On(p)] = TaskTTL] /\ Continue(p, <<>>)
        /\ mapping' = mapping /\ ~Do(p, {"del_task_key"})
    BY <1>1 DEF WriteRow, Do
  <2> QED
    BY <1>0, <1>1, <2>1, <2>2
<1>2. CASE DeleteRow(p) \/ (WriteRow(p) /\ Do(p, {"del_task_key"}))
  <2>1. On(p) \in Tasks
    BY <1>2, Ons DEF DeleteRow, Do
  <2>2. taskkey' = [taskkey EXCEPT ![On(p)] = 0]
    BY <1>2 DEF DeleteRow, WriteRow, Do
  <2>3. CASE On(p) = t
    BY <1>0, <2>1, <2>2, <2>3
  <2>4. CASE On(p) # t
    BY <1>0, <2>1, <2>2, <2>4
  <2> QED
    BY <2>3, <2>4
<1>3. CASE ~DeleteRow(p) /\ ~(WriteRow(p) /\ Do(p, {"set_task_key", "del_task_key"}))
  <2>1. taskkey' = taskkey /\ ~Do(p, {"del_task_key"})
    BY <1>3 DEF Execute, Test, ReadMembers, WriteRow, WriteUser, WriteMapping,
       Enqueue, RunGraph, ClearSession, ReplyDeleted, keys, Do
  <2> QED
    BY <2>1
<1>4. Do(p, {"set_task_key", "del_task_key"})
        <=> Do(p, {"set_task_key"}) \/ Do(p, {"del_task_key"})
  BY DEF Do
<1> QED
  BY <1>1, <1>2, <1>3, <1>4

LEMMA KeysListedStep ==
    ASSUME SessionTTL = TaskTTL, StoreOK, ProgramsOK, ShapesOK, Crossing, KeysListed,
           KeysRemoved, [Next]_vars
    PROVE  KeysListed'
<1>0. /\ home' = home /\ crossed \subseteq crossed' /\ taskkey \in [Tasks -> 0 .. TaskTTL]
      /\ mapping \in [Sessions -> Keys] /\ \A s \in Sessions : KeyOK(mapping[s])
      /\ home \in [Tasks -> Sessions] /\ SessionTTL \in Nat /\ TaskTTL \in Nat
  BY HomeStays, CrossingStep, TTLAssumption DEF StoreOK
<1> DEFINE dels == {"del_task_key"}
<1> SUFFICES ASSUME NEW t \in Tasks, t \notin crossed', taskkey'[t] > 0
             PROVE  MappingLists(t, taskkey[t])' \/ Removal(dels, t)'
  BY DEF KeysListed
<1>1. t \notin crossed /\ home[t] \in Sessions
      /\ (taskkey[t] > 0 => MappingLists(t, taskkey[t]) \/ Removal(dels, t))
  BY <1>0 DEF KeysListed
<1>2. ASSUME NEW p \in Processes, Arrives(p), UNCHANGED <<taskkey, mapping>>
      PROVE  MappingLists(t, taskkey[t])' \/ Removal(dels, t)'
  <2>1. todo[p] = <<>> /\ Moves(p)
    BY <1>2 DEF Arrives, ProgramsOK, Moves
  <2>2. \A dos : SoonBy(t, dos) => SoonBy(t, dos)'
    BY <2>1, KeepsSoonBy DEF Do
  <2>3. Removal(dels, t) => Removal(dels, t)'
    BY <2>1, KeepsRemoval DEF Do
  <2> QED
    BY <1>0, <1>1, <1>2, <2>2, <2>3 DEF MappingLists, Held
<1>3. ASSUME NEW h \in Handlers, Request(h)
      PROVE  MappingLists(t, taskkey[t])' \/ Removal(dels, t)'
  BY <1>2, <1>3, RequestArrives DEF Processes
<1>4. ASSUME NEW w \in Workers, NEW m \in queue, Take(w, m)
      PROVE  MappingLists(t, taskkey[t])' \/ Removal(dels, t)'
  BY <1>2, <1>4, TakeArrives DEF Processes
<1>5. ASSUME NEW p \in Processes, Execute(p)
      PROVE  MappingLists(t, taskkey[t])' \/ Removal(dels, t)'
  <2>0. Moves(p) /\ Then(todo[p], "set_task_key", {"sadd_mapping"})
    BY <1>5, ExecuteMoves DEF ShapesOK, Shaped
  <2>1. CASE /\ Do(p, {"set_task_key"}) /\ serves[p] = t /\ On(p) = t /\ taskkey'[t] = TaskTTL
             /\ Continue(p, <<>>) /\ mapping' = mapping
    <3>1. SoonBy(t, {"sadd_mapping"})'
      BY <2>0, <2>1, PromisesSoonBy
    <3> QED
      BY <3>1 DEF MappingLists, Held
  <2>2. CASE taskkey'[t] = taskkey[t] /\ ~(Do(p, {"del_task_key"}) /\ On(p) = t)
    <3>0. taskkey[t] \in Nat /\ taskkey[t] > 0 /\ taskkey[t] <= SessionTTL /\ taskkey[t] <= TaskTTL
      BY <1>0, <2>2
    <3>1. CASE Removal(dels, t)
      BY <2>0, <2>2, <3>1, KeepsRemoval
    <3>2. CASE MappingLists(t, taskkey[t]) /\ ~(Do(p, {"srem_mapping"}) /\ On(p) = t)
               /\ ~(Do(p, {"del_mapping"}) /\ On(p) = home[t])
      <4>1. Held(mapping'[home[t]], t, taskkey[t], SoonBy(t, ExpireMapping)',
                 SoonBy(t, {"sadd_mapping"})')
        BY <1>5, <3>0, <3>2, MappingHeld
      <4> QED
        BY <1>0, <2>2, <4>1 DEF MappingLists, Held
    <3>3. CASE Do(p, {"srem_mapping"}) /\ On(p) = t
      <4>1. todo[p] # <<>> /\ todo[p][1] = Command("srem_mapping", t) /\ 1 \in 1 .. Len(todo[p])
            /\ serves[p] = "removal" /\ Head(todo[p]) = todo[p][1]
        BY <3>3, HeadHas, HeadIs, Ons DEF Do
      <4>2. Later(todo[p], 1, dels)
        BY <1>1, <3>0, <4>1 DEF KeysRemoved
      <4>3. Continue(p, <<>>)
        BY <1>5, <3>3 DEF Execute, Test, ReadMembers, WriteRow, DeleteRow, WriteUser,
           WriteMapping, Enqueue, RunGraph, ClearSession, ReplyDeleted, Do
      <4>4. serves'[p] = serves[p] /\ Soon(todo'[p], dels, t)
        <5>1. todo \in [Processes -> Seq(Commands)]
              /\ serves \in [Processes -> Tasks \cup {"removal", None}]
          BY DEF ProgramsOK
        <5>2. <<>> \in Seq(Commands) /\ BarrierFree(<<>>)
          BY DEF BarrierFree
        <5>3. todo[p][1].on = t
          BY <4>1 DEF Command
        <5>4. Soon(<<>> \o Tail(todo[p]), dels, t)
          BY <4>1, <4>2, <5>1, <5>2, <5>3, PromiseSoon
        <5>5. <<>> \o Tail(todo[p]) # <<>>
          <6>1. \A program : program = <<>> => ~Soon(program, dels, t)
            BY DEF Soon
          <6> QED
            BY <5>4, <6>1
        <5> QED
          BY <4>3, <5>1, <5>4, <5>5 DEF Continue
      <4> QED
        BY <4>1, <4>4 DEF Removal
    <3>4. CASE Do(p, {"del_mapping"}) /\ On(p) = home[t]
      <4>1. Removal(dels, t)
        <5>1. Has(p, "del_mapping", home[t])
          BY <3>4, HeadHas
        <5>2. Has(p, "del_mapping", home[t]) => taskkey[t] = 0 \/ Removal(dels, t)
          BY <1>1 DEF KeysRemoved
        <5> QED
          BY <3>0, <5>1, <5>2
      <4> QED
        BY <3>1, <4>1
    <3> QED
      BY <1>1, <3>0, <3>1, <3>2, <3>3, <3>4
  <2> QED
    BY <1>5, <2>1, <2>2, KeyWrites
<1>6. CASE Tick
  <2>1. /\ taskkey' = [x \in Tasks |-> IF taskkey[x] = 0 THEN 0 ELSE taskkey[x] - 1]
        /\ mapping' = [s \in Sessions |-> Fade(mapping[s])] /\ UNCHANGED <<todo, serves>>
    BY <1>6 DEF Tick
  <2>2. taskkey[t] \in Nat /\ taskkey[t] > 1 /\ taskkey'[t] = taskkey[t] - 1
    BY <1>0, <2>1
  <2>3. CASE Removal(dels, t)
    BY <2>1, <2>3 DEF Removal
  <2>4. CASE MappingLists(t, taskkey[t])
    <3>1. \A dos : ~SoonBy(t, dos)
      BY <1>6, TickQuiet
    <3>2. t \in mapping[home[t]].has
          /\ (mapping[home[t]].ttl = Forever \/ mapping[home[t]].ttl >= taskkey[t])
      BY <2>4, <3>1 DEF MappingLists, Held
    <3>3. mapping'[home[t]] = Fade(mapping[home[t]]) /\ KeyOK(mapping[home[t]])
      BY <1>0, <1>1, <2>1
    <3>4. t \in mapping'[home[t]].has
          /\ (mapping'[home[t]].ttl = Forever \/ mapping'[home[t]].ttl >= taskkey'[t])
      BY <2>2, <3>2, <3>3, FadeHeld
    <3> QED
      BY <1>0, <3>4 DEF MappingLists, Held
  <2> QED
    BY <1>1, <2>2, <2>3, <2>4
<1>7. CASE UNCHANGED vars
  <2>1. UNCHANGED <<home, taskkey, mapping, todo, serves>>
    BY <1>7 DEF vars, keys
  <2>2. \A dos : SoonBy(t, dos) => SoonBy(t, dos)'
    BY <2>1 DEF SoonBy
  <2> QED
    BY <1>1, <2>1, <2>2 DEF MappingLists, Held, Removal
<1> QED
  BY <1>3, <1>4, <1>5, <1>6, <1>7 DEF Next

(* Positions: a command with its promise moves, or was just added with it. *)
LEMMA LaterStays ==
    ASSUME NEW C, NEW more \in Seq(C), NEW program \in Seq(C), program # <<>>, NEW c, NEW dos,
           \A i \in 1 .. Len(more) : more[i] = c => Later(more, i, dos),
           \A i \in 1 .. Len(program) : program[i] = c => Later(program, i, dos),
           NEW k \in 1 .. Len(more \o Tail(program)), (more \o Tail(program))[k] = c
    PROVE  Later(more \o Tail(program), k, dos)
<1> DEFINE n == Len(more)
<1>1. /\ n \in Nat /\ Len(program) \in Nat \ {0}
      /\ Len(more \o Tail(program)) = n + Len(program) - 1
      /\ \A i \in 1 .. n : (more \o Tail(program))[i] = more[i]
      /\ \A i \in n + 1 .. Len(more \o Tail(program)) :
            /\ i - n + 1 \in 2 .. Len(program)
            /\ (more \o Tail(program))[i] = program[i - n + 1]
  BY RestIs
<1>2. Tail(program) \in Seq(C) /\ Len(Tail(program)) = Len(program) - 1
  BY HeadTailProperties
<1> HIDE DEF n
<1>3. CASE k \in 1 .. n
  <2>1. more[k] = c /\ k \in 1 .. Len(more)
    BY <1>1, <1>3 DEF n
  <2>2. Later(more, k, dos)
    BY <2>1
  <2> QED
    BY <1>2, <2>1, <2>2, LaterFirst
<1>4. CASE k \in n + 1 .. Len(more \o Tail(program))
  <2>1. PICK j \in 2 .. Len(program) : program[j] = c /\ n + (j - 1) = k
    <3>1. k - n + 1 \in 2 .. Len(program) /\ program[k - n + 1] = c
          /\ n + ((k - n + 1) - 1) = k
      BY <1>1, <1>4
    <3> QED
      BY <3>1
  <2>2. j \in 1 .. Len(program)
    BY <1>1, <2>1
  <2>3. Later(program, j, dos)
    BY <2>1, <2>2
  <2>4. j - 1 \in 1 .. Len(Tail(program)) /\ Later(Tail(program), j - 1, dos)
    BY <2>1, <2>3, LaterTail
  <2>5. Later(more \o Tail(program), Len(more) + (j - 1), dos)
    BY <1>2, <2>4, LaterSecond
  <2> QED
    BY <2>1, <2>5 DEF n
<1> QED
  BY <1>1, <1>3, <1>4

LEMMA DropLater ==
    ASSUME NEW t, NEW i \in 1 .. Len(Drop(t)), NEW x, Drop(t)[i] = Command("srem_mapping", x)
    PROVE  Later(Drop(t), i, {"del_task_key"})
<1>1. /\ Len(Drop(t)) = 3 /\ Drop(t)[1] = Command("srem_user", t)
      /\ Drop(t)[2] = Command("srem_mapping", t) /\ Drop(t)[3] = Command("del_task_key", t)
  BY DEF Drop
<1>2. /\ Drop(t)[1].do = "srem_user" /\ Drop(t)[2].do = "srem_mapping"
      /\ Drop(t)[3].do = "del_task_key" /\ Drop(t)[2].on = t /\ Drop(t)[3].on = t
      /\ Drop(t)[i].do = "srem_mapping"
  BY <1>1 DEF Command
<1>3. i = 2
  BY <1>1, <1>2
<1>4. \A k \in 2 .. 3 : Drop(t)[k].do \notin Barriers
  BY <1>2 DEF Barriers
<1> QED
  BY <1>1, <1>2, <1>3, <1>4 DEF Later

LEMMA ArrivesRemovesNothing ==
    ASSUME ProgramsOK, ShapesOK, NEW p \in Processes, Arrives(p)
    PROVE  \A q \in Processes :
             \/ todo'[q] = todo[q] /\ serves'[q] = serves[q]
             \/ q = p /\ \A do \in RemovalDos : \A x : ~Has(q, do, x)'
<1>1. \A q \in Processes \ {p} : todo'[q] = todo[q] /\ serves'[q] = serves[q]
  BY MovesOK DEF Moves
<1>2. PICK for, program : Program(for, program) /\ todo' = [todo EXCEPT ![p] = program]
  BY DEF Arrives
<1>3. todo'[p] = program
  BY <1>2 DEF ProgramsOK
<1>4. \A do \in RemovalDos : \A x : ~Says(program, do, x)
  BY <1>2, NewRemovesNothing
<1>5. ASSUME NEW q \in Processes, q = p PROVE \A do \in RemovalDos : \A x : ~Has(q, do, x)'
  BY <1>3, <1>4, <1>5 DEF Has
<1> QED
  BY <1>1, <1>5

LEMMA HomesStep ==
    ASSUME StoreOK, ProgramsOK, Homes, [Next]_vars
    PROVE  Homes'
<1>0. /\ home' = home /\ mapping \in [Sessions -> Keys] /\ NoKey.has = {}
      /\ \A s \in Sessions : KeyOK(mapping[s])
  BY HomeStays, NoKeyOK DEF StoreOK
<1>1. ASSUME NEW p \in Processes, WriteMapping(p) PROVE Homes'
  <2>1. PICK s \in Sessions, key \in Keys :
             /\ KeyOK(key) /\ mapping' = [mapping EXCEPT ![s] = key]
             /\ \/ Do(p, {"sadd_mapping"}) /\ serves[p] \in Tasks /\ On(p) = serves[p]
                   /\ s = home[serves[p]] /\ key = Sadd(mapping[s], serves[p])
                \/ Do(p, {"srem_mapping"}) /\ serves[p] = "removal" /\ On(p) \in Tasks
                   /\ s = home[On(p)] /\ key = Srem(mapping[s], On(p))
                \/ Do(p, ExpireMapping) /\ serves[p] \in Tasks /\ On(p) = serves[p]
                   /\ s = home[serves[p]]
                   /\ \/ Do(p, {"expire_mapping"}) /\ key = Expire(mapping[s], SessionTTL)
                      \/ Do(p, {"expire_mapping_as_task"}) /\ key = Expire(mapping[s], TaskTTL)
                \/ Do(p, {"del_mapping"}) /\ serves[p] = "removal" /\ On(p) = s /\ key = NoKey
    BY <1>1, MappingWrites
  <2>2. \A t \in key.has : t \in mapping[s].has \/ home[t] = s
    <3>1. ASSUME serves[p] \in Tasks, s = home[serves[p]], key = Sadd(mapping[s], serves[p])
          PROVE  \A t \in key.has : t \in mapping[s].has \/ home[t] = s
      BY <1>0, <3>1, SaddKey
    <3>2. ASSUME On(p) \in Tasks, key = Srem(mapping[s], On(p)) PROVE key.has \subseteq mapping[s].has
      BY <1>0, <3>2, SremKey
    <3>3. ASSUME key = Expire(mapping[s], SessionTTL) \/ key = Expire(mapping[s], TaskTTL)
          PROVE  key.has = mapping[s].has
      BY <1>0, <3>3, ExpireKey, TTLAssumption
    <3> QED
      BY <1>0, <2>1, <3>1, <3>2, <3>3
  <2>3. \A x \in Sessions : mapping'[x] = IF x = s THEN key ELSE mapping[x]
    BY <1>0, <2>1
  <2> QED
    BY <1>0, <2>2, <2>3 DEF Homes
<1>2. CASE mapping' = mapping
  BY <1>0, <1>2 DEF Homes
<1>3. CASE Tick
  <2>1. \A s \in Sessions : mapping'[s].has \subseteq mapping[s].has
    BY <1>0, <1>3, FadeKey DEF Tick
  <2> QED
    BY <1>0, <2>1 DEF Homes
<1>4. ASSUME NEW h \in Handlers, Request(h) PROVE mapping' = mapping
  BY <1>4, RequestArrives
<1>5. ASSUME NEW w \in Workers, NEW m \in queue, Take(w, m) PROVE mapping' = mapping
  BY <1>5, TakeArrives
<1>6. ASSUME NEW p \in Processes, Execute(p), ~WriteMapping(p) PROVE mapping' = mapping
  BY <1>6 DEF Execute, Test, ReadMembers, WriteRow, DeleteRow, WriteUser, Enqueue,
     RunGraph, ClearSession, ReplyDeleted, keys
<1>7. CASE UNCHANGED vars
  BY <1>2, <1>7 DEF vars, keys
<1> QED
  BY <1>1, <1>2, <1>3, <1>4, <1>5, <1>6, <1>7 DEF Next

(* A task nobody serves gains nothing.                                     *)
LEMMA MembersShrink ==
    ASSUME StoreOK, ProgramsOK, NEW p \in Processes, Execute(p), NEW t \in Tasks, serves[p] # t
    PROVE  /\ t \in user'.has => t \in user.has /\ ~(Do(p, {"srem_user"}) /\ On(p) = t)
           /\ t \in mapping'[home[t]].has =>
                t \in mapping[home[t]].has /\ ~(Do(p, {"srem_mapping"}) /\ On(p) = t)
<1>0. /\ KeyOK(user) /\ \A s \in Sessions : KeyOK(mapping[s])
      /\ mapping \in [Sessions -> Keys] /\ home \in [Tasks -> Sessions] /\ NoKey.has = {}
      /\ SessionTTL \in Nat /\ TaskTTL \in Nat
  BY NoKeyOK, TTLAssumption DEF StoreOK
<1>1. ASSUME t \in user'.has PROVE t \in user.has /\ ~(Do(p, {"srem_user"}) /\ On(p) = t)
  <2>1. CASE ~WriteUser(p)
    BY <1>1, <2>1 DEF Execute, Test, ReadMembers, WriteRow, DeleteRow, WriteMapping, Enqueue,
       RunGraph, ClearSession, ReplyDeleted, keys, Do
  <2>2. CASE WriteUser(p)
    <3>1. CASE Do(p, {"sadd_user"}) /\ serves[p] \in Tasks /\ user' = Sadd(user, serves[p])
      <4>1. ~Do(p, {"srem_user"})
        BY <3>1 DEF Do
      <4> QED
        BY <1>0, <1>1, <3>1, <4>1, SaddKey
    <3>2. CASE On(p) \in Tasks /\ user' = Srem(user, On(p))
      BY <1>0, <1>1, <3>2, SremKey
    <3>3. CASE Do(p, {"expire_user"}) /\ user' = Expire(user, SessionTTL)
      <4>1. ~Do(p, {"srem_user"})
        BY <3>3 DEF Do
      <4> QED
        BY <1>0, <1>1, <3>3, <4>1, ExpireKey
    <3> QED
      BY <1>0, <1>1, <2>2, <3>1, <3>2, <3>3, UserWrites
  <2> QED
    BY <2>1, <2>2
<1>2. ASSUME t \in mapping'[home[t]].has
      PROVE  t \in mapping[home[t]].has /\ ~(Do(p, {"srem_mapping"}) /\ On(p) = t)
  <2>1. CASE ~WriteMapping(p)
    BY <1>2, <2>1 DEF Execute, Test, ReadMembers, WriteRow, DeleteRow, WriteUser, Enqueue,
       RunGraph, ClearSession, ReplyDeleted, keys, Do
  <2>2. CASE WriteMapping(p)
    <3>1. PICK s \in Sessions, key \in Keys :
             /\ KeyOK(key) /\ mapping' = [mapping EXCEPT ![s] = key]
             /\ \/ Do(p, {"sadd_mapping"}) /\ serves[p] \in Tasks /\ On(p) = serves[p]
                   /\ s = home[serves[p]] /\ key = Sadd(mapping[s], serves[p])
                \/ Do(p, {"srem_mapping"}) /\ serves[p] = "removal" /\ On(p) \in Tasks
                   /\ s = home[On(p)] /\ key = Srem(mapping[s], On(p))
                \/ Do(p, ExpireMapping) /\ serves[p] \in Tasks /\ On(p) = serves[p]
                   /\ s = home[serves[p]]
                   /\ \/ Do(p, {"expire_mapping"}) /\ key = Expire(mapping[s], SessionTTL)
                      \/ Do(p, {"expire_mapping_as_task"}) /\ key = Expire(mapping[s], TaskTTL)
                \/ Do(p, {"del_mapping"}) /\ serves[p] = "removal" /\ On(p) = s /\ key = NoKey
      BY <2>2, MappingWrites
    <3>2. mapping'[home[t]] = IF home[t] = s THEN key ELSE mapping[home[t]]
      BY <1>0, <3>1
    <3>3. CASE Do(p, {"srem_mapping"}) /\ On(p) \in Tasks /\ s = home[On(p)]
               /\ key = Srem(mapping[s], On(p))
      <4>1. key.has = mapping[s].has \ {On(p)}
        BY <1>0, <3>3, SremKey
      <4> QED
        BY <1>2, <3>2, <3>3, <4>1
    <3>4. CASE ~Do(p, {"srem_mapping"}) /\ serves[p] \in Tasks /\ key = Sadd(mapping[s], serves[p])
      <4>1. key.has = mapping[s].has \cup {serves[p]}
        BY <1>0, <3>4, SaddKey
      <4> QED
        BY <1>2, <3>2, <3>4, <4>1
    <3>5. CASE ~Do(p, {"srem_mapping"})
               /\ (key = Expire(mapping[s], SessionTTL) \/ key = Expire(mapping[s], TaskTTL))
      <4>1. key.has = mapping[s].has
        BY <1>0, <3>5, ExpireKey
      <4> QED
        BY <1>2, <3>2, <3>5, <4>1
    <3>6. CASE ~Do(p, {"srem_mapping"}) /\ key = NoKey
      BY <1>0, <1>2, <3>2, <3>6
    <3>7. Do(p, {"sadd_mapping"}) \/ Do(p, ExpireMapping) \/ Do(p, {"del_mapping"})
            => ~Do(p, {"srem_mapping"})
      BY DEF Do, ExpireMapping
    <3> QED
      BY <3>1, <3>3, <3>4, <3>5, <3>6, <3>7
  <2> QED
    BY <2>1, <2>2
<1> QED
  BY <1>1, <1>2

LEMMA KeysRemovedStep ==
    ASSUME StoreOK, ProgramsOK, ShapesOK, Crossing, KeysListed, KeysRemoved, [Next]_vars
    PROVE  KeysRemoved'
<1>0. /\ home' = home /\ crossed \subseteq crossed' /\ taskkey \in [Tasks -> 0 .. TaskTTL]
      /\ home \in [Tasks -> Sessions] /\ TaskTTL \in Nat /\ NoKey.has = {}
      /\ todo \in [Processes -> Seq(Commands)]
      /\ serves \in [Processes -> Tasks \cup {"removal", None}]
  BY HomeStays, CrossingStep, NoKeyOK, TTLAssumption DEF StoreOK, ProgramsOK
<1> DEFINE dels == {"del_task_key"}
           K1(q, t) == \A i \in 1 .. Len(todo[q]) : todo[q][i] = Command("srem_mapping", t) =>
                         taskkey[t] = 0 \/ Later(todo[q], i, dels)
           K2(q, t) == Has(q, "del_mapping", home[t]) => taskkey[t] = 0 \/ Removal(dels, t)
<1> SUFFICES ASSUME NEW q \in Processes, NEW t \in Tasks, t \notin crossed'
             PROVE  K1(q, t)' /\ K2(q, t)'
  BY DEF KeysRemoved
<1>1. t \in Tasks \ crossed /\ home[t] \in Sessions /\ K1(q, t) /\ K2(q, t)
  BY <1>0 DEF KeysRemoved
<1>2. ASSUME NEW do \in RemovalDos, NEW x, Has(q, do, x) PROVE Removing /\ ~UnderWay(t)
  BY <1>1, <1>2, RemovingHas, NotUnderWay
<1>3. ASSUME NEW p \in Processes, Arrives(p), UNCHANGED <<taskkey, mapping>>
      PROVE  K1(q, t)' /\ K2(q, t)'
  <2>0. "srem_mapping" \in RemovalDos /\ "del_mapping" \in RemovalDos /\ Moves(p) /\ todo[p] = <<>>
    BY <1>3 DEF RemovalDos, Moves, Arrives, ProgramsOK
  <2>1. Removal(dels, t) => Removal(dels, t)'
    BY <2>0, KeepsRemoval DEF Do
  <2>2. CASE todo'[q] = todo[q]
    BY <1>0, <1>1, <1>3, <2>1, <2>2 DEF Has
  <2>3. CASE \A do \in RemovalDos : \A x : ~Has(q, do, x)'
    BY <2>0, <2>3 DEF Has, Says
  <2> QED
    BY <1>3, <2>2, <2>3, ArrivesRemovesNothing
<1>4. ASSUME NEW h \in Handlers, Request(h) PROVE K1(q, t)' /\ K2(q, t)'
  BY <1>3, <1>4, RequestArrives DEF Processes
<1>5. ASSUME NEW w \in Workers, NEW m \in queue, Take(w, m) PROVE K1(q, t)' /\ K2(q, t)'
  BY <1>3, <1>5, TakeArrives DEF Processes
<1>6. ASSUME NEW p \in Processes, Execute(p) PROVE K1(q, t)' /\ K2(q, t)'
  <2>0. Moves(p)
    BY <1>6, ExecuteMoves
  <2>1. ASSUME Removing, taskkey'[t] # 0
        PROVE  taskkey'[t] = taskkey[t] /\ taskkey[t] > 0 /\ ~(Do(p, dels) /\ On(p) = t)
    <3>1. serves[p] # t
      BY <1>1, <2>1, NotUnderWay
    <3> QED
      BY <1>0, <1>6, <2>1, <3>1, KeyWrites
  <2>2. ASSUME Removing, taskkey'[t] # 0, Removal(dels, t) PROVE Removal(dels, t)'
    BY <2>0, <2>1, <2>2, KeepsRemoval
  <2>3. ASSUME NEW i \in 1 .. Len(todo'[q]), todo'[q][i] = Command("srem_mapping", t),
               taskkey'[t] # 0
        PROVE  Later(todo'[q], i, dels)
    <3>1. Has(q, "srem_mapping", t)' /\ "srem_mapping" \in RemovalDos
      BY <2>3 DEF Has, Says, RemovalDos
    <3>2. Removing
      BY <1>2, <1>6, <3>1, RemovesNext DEF Removing
    <3>3. taskkey[t] # 0 /\ taskkey'[t] = taskkey[t]
      BY <1>0, <2>1, <2>3, <3>2
    <3>4. \A k \in 1 .. Len(todo[q]) : todo[q][k] = Command("srem_mapping", t)
            => Later(todo[q], k, dels)
      BY <1>1, <3>3
    <3>5. CASE q # p
      BY <2>0, <2>3, <3>4, <3>5, MovesOK
    <3>6. CASE q = p
      <4>1. ASSUME NEW more, Runs(p, more),
                   \A k \in 1 .. Len(more) : more[k] = Command("srem_mapping", t)
                      => Later(more, k, dels)
            PROVE  Later(todo'[q], i, dels)
        <5>1. /\ todo[p] # <<>> /\ more \in Seq(Commands) /\ todo'[p] = more \o Tail(todo[p])
          BY <1>0, <4>1, OwnCommands DEF Runs, Continue
        <5>2. /\ todo[p] \in Seq(Commands) /\ i \in 1 .. Len(more \o Tail(todo[p]))
              /\ (more \o Tail(todo[p]))[i] = Command("srem_mapping", t)
              /\ \A k \in 1 .. Len(todo[p]) : todo[p][k] = Command("srem_mapping", t)
                   => Later(todo[p], k, dels)
          BY <1>0, <2>3, <3>4, <3>6, <5>1
        <5>3. Later(more \o Tail(todo[p]), i, dels)
          BY <4>1, <5>1, <5>2, LaterStays
        <5> QED
          BY <3>6, <5>1, <5>3
      <4>2. ASSUME NEW more, ~Says(more, "srem_mapping", t)
            PROVE  \A k \in 1 .. Len(more) : more[k] # Command("srem_mapping", t)
        BY <4>2 DEF Says
      <4>3. ~Stops(p)
        <5>1. ~Says(<<>>, "srem_mapping", t)
          BY SaysParts
        <5> QED
          BY <1>0, <3>1, <3>6, <5>1 DEF Stops, Stop, Has
      <4>4. ASSUME NEW more, Runs(p, more), RemovesNothing(more) PROVE Later(todo'[q], i, dels)
        BY <3>1, <4>1, <4>2, <4>4 DEF RemovesNothing
      <4>5. ASSUME NEW x \in Tasks, Runs(p, Drop(x)) PROVE Later(todo'[q], i, dels)
        BY <4>1, <4>5, DropLater
      <4>6. ASSUME NEW x \in Tasks, Runs(p, Unlist(x)), taskkey'[x] = 0
            PROVE  Later(todo'[q], i, dels)
        <5>1. ~Says(Unlist(x), "srem_mapping", t)
          BY <2>3, <4>6, SaysParts
        <5> QED
          BY <4>1, <4>2, <4>6, <5>1
      <4>7. ASSUME NEW do, NEW x, do # "srem_mapping", Runs(p, <<Command(do, x)>>)
            PROVE  Later(todo'[q], i, dels)
        <5>1. ~Says(<<Command(do, x)>>, "srem_mapping", t)
          BY <4>7, SaysParts
        <5> QED
          BY <4>1, <4>2, <4>7, <5>1
      <4> QED
        BY <1>6, <4>3, <4>4, <4>5, <4>6, <4>7, RunsOn
    <3> QED
      BY <3>5, <3>6
  <2>4. ASSUME Has(q, "del_mapping", home[t])', taskkey'[t] # 0 PROVE Removal(dels, t)'
    <3>0. PICK s \in Sessions : s = home[t]
      BY <1>1
    <3>1. "del_mapping" \in RemovalDos /\ Has(q, "del_mapping", s)'
      BY <1>0, <2>4, <3>0 DEF RemovalDos, Has
    <3>2. CASE Has(q, "del_mapping", s)
      <4>1. Removing
        BY <1>2, <3>1, <3>2
      <4> QED
        BY <1>1, <2>1, <2>2, <2>4, <3>0, <3>2, <4>1
    <3>3. CASE serves[p] = "removal" /\ mapping[s].has = {}
      <4>1. Removing
        BY <3>3 DEF Removing
      <4>2. ~MappingLists(t, taskkey[t])
        BY <1>1, <3>0, <3>3, <4>1, NotUnderWay DEF MappingLists, Held
      <4>3. Removal(dels, t)
        BY <1>1, <2>1, <2>4, <4>1, <4>2 DEF KeysListed
      <4> QED
        BY <2>2, <2>4, <4>1, <4>3
    <3> QED
      BY <1>6, <3>1, <3>2, <3>3, RemovesNext
  <2> QED
    BY <1>0, <2>3, <2>4
<1>7. CASE Tick
  <2>1. /\ taskkey' = [x \in Tasks |-> IF taskkey[x] = 0 THEN 0 ELSE taskkey[x] - 1]
        /\ UNCHANGED <<todo, serves>>
    BY <1>7 DEF Tick
  <2>2. taskkey[t] = 0 => taskkey'[t] = 0
    BY <2>1
  <2>3. Removal(dels, t) => Removal(dels, t)'
    BY <2>1 DEF Removal
  <2> QED
    BY <1>0, <1>1, <2>1, <2>2, <2>3 DEF Has
<1>8. CASE UNCHANGED vars
  <2>1. UNCHANGED <<home, taskkey, todo, serves>>
    BY <1>8 DEF vars, keys
  <2> QED
    BY <1>1, <2>1 DEF Has, Removal
<1> QED
  BY <1>4, <1>5, <1>6, <1>7, <1>8 DEF Next

-----------------------------------------------------------------------------
(* A session being deleted, and one that was: its tasks leave the indices. *)

Clean(s) == \A t \in crossed : home[t] # s

LeavesUser(t) == t \in user.has => Removal({"srem_user"}, t)

LeavesSession(t) ==
    /\ row[t] = 0
    /\ taskkey[t] > 0 => Removal({"del_task_key"}, t)
    /\ t \in mapping[home[t]].has => Removal({"srem_mapping"}, t)

DeletingOK ==
    \A q \in Processes, s \in Sessions : Clean(s) /\ Has(q, "reply_deleted", s) =>
      /\ Has(q, "delete_thread", s) \/ s \notin thread
      /\ Has(q, "delete_artifacts", s) \/ s \notin artifacts
      /\ \A t \in Tasks : home[t] = s =>
           /\ \/ Has(q, "smembers_user", None) \/ Has(q, "drop_unless_row", t)
              \/ row[t] > 0 \/ LeavesUser(t)
           /\ \/ Has(q, "smembers_mapping", s) \/ Has(q, "del_row_and_task_key", t)
              \/ LeavesSession(t)

Deserted(s) ==
    /\ s \notin thread /\ s \notin artifacts
    /\ \A t \in Tasks : home[t] = s =>
         /\ LeavesUser(t) /\ LeavesSession(t)
         /\ \A m \in queue : m.on # t
         /\ \A p \in Processes : serves[p] = t => Do(p, {"stop_unless_row"})

DeletedOK == \A s \in deleted : Clean(s) => Deserted(s)

(* What leaves goes on leaving while nobody serves it.                     *)
LEMMA LeavesStay ==
    ASSUME StoreOK, ProgramsOK, ShapesOK, NEW p \in Processes, Execute(p), NEW t \in Tasks,
           serves[p] # t
    PROVE  (LeavesUser(t) => LeavesUser(t)') /\ (LeavesSession(t) => LeavesSession(t)')
<1>0. Moves(p) /\ home' = home /\ taskkey \in [Tasks -> 0 .. TaskTTL] /\ TaskTTL \in Nat
  BY ExecuteMoves, HomeStays, TTLAssumption DEF StoreOK, Next
<1>1. /\ t \in user'.has => t \in user.has /\ ~(Do(p, {"srem_user"}) /\ On(p) = t)
      /\ t \in mapping'[home[t]].has =>
           t \in mapping[home[t]].has /\ ~(Do(p, {"srem_mapping"}) /\ On(p) = t)
  BY MembersShrink
<1>2. taskkey'[t] > 0 => taskkey[t] > 0 /\ ~(Do(p, {"del_task_key"}) /\ On(p) = t)
  BY <1>0, KeyWrites
<1>3. row[t] = 0 => row'[t] = 0
  BY RowWrites
<1>4. \A do : Removal({do}, t) /\ ~(Do(p, {do}) /\ On(p) = t) => Removal({do}, t)'
  BY <1>0, KeepsRemoval
<1>5. LeavesUser(t) => LeavesUser(t)'
  BY <1>1, <1>4 DEF LeavesUser
<1>6. ASSUME LeavesSession(t) PROVE LeavesSession(t)'
  BY <1>0, <1>1, <1>2, <1>3, <1>4, <1>6 DEF LeavesSession
<1> QED
  BY <1>5, <1>6

LEMMA LeavesRest ==
    ASSUME StoreOK, ProgramsOK, ShapesOK, NEW p \in Processes, Moves(p),
           UNCHANGED <<home, row, taskkey, user, mapping>>, NEW t \in Tasks,
           ~Do(p, {"srem_user", "srem_mapping", "del_task_key"})
    PROVE  (LeavesUser(t) => LeavesUser(t)') /\ (LeavesSession(t) => LeavesSession(t)')
<1>1. \A do \in {"srem_user", "srem_mapping", "del_task_key"} :
        Removal({do}, t) => Removal({do}, t)'
  <2>1. \A do \in {"srem_user", "srem_mapping", "del_task_key"} : ~Do(p, {do})
    BY DEF Do
  <2> QED
    BY <2>1, KeepsRemoval
<1> QED
  BY <1>1 DEF LeavesUser, LeavesSession

(* A deletion and a clean-up go on until the task is in neither index.     *)
LEMMA RunsSoon ==
    ASSUME ProgramsOK, NEW p \in Processes, serves[p] = "removal", NEW more, Runs(p, more),
           NEW dos, NEW x, Soon(more, dos, x)
    PROVE  Removal(dos, x)'
<1>0. /\ todo \in [Processes -> Seq(Commands)]
      /\ serves \in [Processes -> Tasks \cup {"removal", None}]
  BY DEF ProgramsOK
<1>1. /\ todo[p] # <<>> /\ more \in Seq(Commands) /\ todo'[p] = more \o Tail(todo[p])
      /\ serves'[p] = IF more \o Tail(todo[p]) = <<>> THEN None ELSE serves[p]
  BY <1>0, OwnCommands DEF Runs, Continue
<1>2. Soon(more \o Tail(todo[p]), dos, x)
  BY <1>0, <1>1, SoonMore
<1>3. more \o Tail(todo[p]) # <<>>
  <2>1. \A program : program = <<>> => ~Soon(program, dos, x)
    BY DEF Soon
  <2> QED
    BY <1>2, <2>1
<1> QED
  BY <1>1, <1>2, <1>3 DEF Removal

LEMMA PartsSoon ==
    ASSUME NEW t
    PROVE  /\ Soon(Drop(t), {"srem_user"}, t) /\ Soon(Unlist(t), {"srem_user"}, t)
           /\ Soon(Unlist(t), {"srem_mapping"}, t)
<1>1. /\ Len(Drop(t)) = 3 /\ Drop(t)[1] = Command("srem_user", t)
      /\ Len(Unlist(t)) = 2 /\ Unlist(t)[1] = Command("srem_user", t)
      /\ Unlist(t)[2] = Command("srem_mapping", t)
  BY DEF Drop, Unlist
<1>2. /\ Drop(t)[1].do = "srem_user" /\ Drop(t)[1].on = t
      /\ Unlist(t)[1].do = "srem_user" /\ Unlist(t)[1].on = t
      /\ Unlist(t)[2].do = "srem_mapping" /\ Unlist(t)[2].on = t
  BY <1>1 DEF Command
<1>3. \A k \in 1 .. 2 : Unlist(t)[k].do \notin Barriers
  BY <1>2 DEF Barriers
<1>4. \A k \in 1 .. 1 : Drop(t)[k].do \notin Barriers
  BY <1>2 DEF Barriers
<1>5. Soon(Drop(t), {"srem_user"}, t)
  BY <1>1, <1>2, <1>4 DEF Soon
<1>6. Soon(Unlist(t), {"srem_user"}, t)
  <2>1. \A k \in 1 .. 1 : Unlist(t)[k].do \notin Barriers
    BY <1>3
  <2> QED
    BY <1>1, <1>2, <2>1 DEF Soon
<1>7. Soon(Unlist(t), {"srem_mapping"}, t)
  BY <1>1, <1>2, <1>3 DEF Soon
<1> QED
  BY <1>5, <1>6, <1>7

LEMMA DeleteRowLeaves ==
    ASSUME StoreOK, ProgramsOK, NEW p \in Processes, DeleteRow(p), NEW t \in Tasks, On(p) = t
    PROVE  LeavesUser(t)' /\ LeavesSession(t)'
<1>1. serves[p] = "removal" /\ Continue(p, Unlist(t)) /\ todo[p] # <<>>
  BY Ons DEF DeleteRow, Do
<1>2. Part(Unlist(t))
  BY SmallParts DEF StoreOK
<1>3. Runs(p, Unlist(t))
  BY <1>1, <1>2, PartMore
<1>4. row'[t] = 0 /\ taskkey'[t] = 0
  BY DEF DeleteRow, StoreOK
<1>5. Removal({"srem_user"}, t)' /\ Removal({"srem_mapping"}, t)'
  BY <1>1, <1>3, RunsSoon, PartsSoon
<1> QED
  BY <1>4, <1>5 DEF LeavesUser, LeavesSession

(* What a deletion has still to do before it replies.                      *)
LEMMA ReplyStays ==
    ASSUME StoreOK, ProgramsOK, ShapesOK, NEW p \in Processes, Execute(p), NEW q \in Processes,
           NEW s \in Sessions, Has(q, "reply_deleted", s)'
    PROVE  /\ Has(q, "reply_deleted", s) /\ serves[q] = "removal" /\ Removing
           /\ \A do, x : Has(q, do, x) /\ ~(q = p /\ Do(p, {do}) /\ On(p) = x) => Has(q, do, x)'
<1>0. /\ todo \in [Processes -> Seq(Commands)]
      /\ serves \in [Processes -> Tasks \cup {"removal", None}]
  BY DEF ProgramsOK
<1>1. Has(q, "reply_deleted", s) => serves[q] = "removal" /\ Removing
  <2>1. "reply_deleted" \in (TaskDos \cup SessionDos \cup UserDos) \ {"stop_unless_row"}
    BY DEF SessionDos
  <2> QED
    BY <2>1, HasRemoval
<1>2. CASE q # p
  <2>1. todo'[q] = todo[q]
    BY <1>2, ExecuteMoves, MovesOK
  <2> QED
    BY <1>1, <1>2, <2>1 DEF Has
<1>3. CASE q = p
  <2>1. ~Stops(p)
    <3>1. ~Says(<<>>, "reply_deleted", s)
      BY SaysParts
    <3> QED
      BY <1>0, <1>3, <3>1 DEF Stops, Stop, Has
  <2>2. ~Arrives(p)
    BY ExecuteMoves DEF ProgramsOK, Arrives, Execute, Test, ReadMembers, WriteRow, DeleteRow,
       WriteUser, WriteMapping, Enqueue, RunGraph, ClearSession, ReplyDeleted, Do
  <2>3. PICK more : Runs(p, more)
    BY <2>1, <2>2, ExecuteMoves DEF Moves
  <2>4. /\ todo[p] # <<>> /\ more \in Seq(Commands) /\ todo'[p] = more \o Tail(todo[p])
        /\ NoReply(more)
    BY <1>0, <2>3, OwnCommands DEF Runs, Continue
  <2>5. ~Says(more, "reply_deleted", s)
    BY <2>4 DEF Says, NoReply, Command
  <2>6. Has(p, "reply_deleted", s)
    BY <1>3, <2>3, <2>5, HasBefore
  <2>7. ASSUME NEW do, NEW x, Has(p, do, x), ~(Do(p, {do}) /\ On(p) = x) PROVE Has(p, do, x)'
    <3>1. todo[p][1] # Command(do, x)
      <4>1. Head(todo[p]) = todo[p][1]
        BY <2>4, HeadIs
      <4> QED
        BY <2>4, <2>7, <4>1 DEF Do, On, Command
    <3>2. Says(more \o Tail(todo[p]), do, x)
      BY <1>0, <2>4, <2>7, <3>1, SaysStays DEF Has
    <3> QED
      BY <2>4, <3>2 DEF Has
  <2> QED
    BY <1>1, <1>3, <2>6, <2>7
<1> QED
  BY <1>2, <1>3

(* A writer of a task that is not under way writes nothing.                *)
LEMMA CleanTask ==
    ASSUME StoreOK, Crossing, Removing, NEW s, Clean(s), NEW t \in Tasks, home[t] = s
    PROVE  t \in Tasks \ crossed /\ ~UnderWay(t) /\ \A p \in Processes : serves[p] # t
  BY NotUnderWay DEF Clean

LEMMA StoresClean ==
    ASSUME StoreOK, ProgramsOK, NEW p \in Processes, Execute(p), NEW s \in Sessions,
           \A t \in Tasks : home[t] = s => ~(serves[p] = t /\ Do(p, {"run_graph"}))
    PROVE  /\ s \notin thread /\ s \in thread' => FALSE
           /\ s \notin artifacts /\ s \in artifacts' => FALSE
           /\ Do(p, {"delete_thread"}) /\ On(p) = s => s \notin thread'
           /\ Do(p, {"delete_artifacts"}) /\ On(p) = s => s \notin artifacts'
<1>1. CASE RunGraph(p)
  <2>1. serves[p] \in Tasks /\ On(p) = serves[p] /\ Do(p, {"run_graph"})
    BY <1>1, Ons DEF RunGraph, Do
  <2>2. home[On(p)] # s /\ ~Do(p, {"delete_thread"}) /\ ~Do(p, {"delete_artifacts"})
    BY <2>1 DEF Do
  <2> QED
    BY <1>1, <2>2 DEF RunGraph
<1>2. CASE ~RunGraph(p)
  BY <1>2 DEF Execute, Test, ReadMembers, WriteRow, DeleteRow, WriteUser, WriteMapping, Enqueue,
     ClearSession, ReplyDeleted, saved, Do
<1> QED
  BY <1>1, <1>2

LEMMA NoWriterReplies ==
    ASSUME NEW t, NEW program \in Seq(WriterCommands(t)), NEW s
    PROVE  ~Says(program, "reply_deleted", s)
<1> SUFFICES ASSUME NEW i \in 1 .. Len(program), program[i] = Command("reply_deleted", s)
             PROVE  FALSE
  BY DEF Says
<1>1. program[i] \in WriterCommands(t)
  OBVIOUS
<1>2. "reply_deleted" \in WriterDos
  BY <1>1 DEF WriterCommands, Command
<1> QED
  BY <1>2 DEF WriterDos

(* A request that will reply has everything before it.                     *)
LEMMA RequestReplies ==
    ASSUME StoreOK, ProgramsOK, NEW h \in Handlers, Request(h), NEW q \in Processes,
           NEW s \in Sessions, Has(q, "reply_deleted", s)'
    PROVE  \/ todo'[q] = todo[q] /\ Has(q, "reply_deleted", s)
           \/ /\ Has(q, "delete_thread", s)' /\ Has(q, "delete_artifacts", s)'
              /\ Has(q, "smembers_user", None)' /\ Has(q, "smembers_mapping", s)'
<1>0. h \in Processes /\ todo \in [Processes -> Seq(Commands)]
  BY DEF Processes, ProgramsOK
<1>1. ASSUME NEW for, NEW program, Accept(h, for, program)
      PROVE  \/ todo'[q] = todo[q] /\ Has(q, "reply_deleted", s)
             \/ todo'[q] = program /\ Says(program, "reply_deleted", s)
  BY <1>0, <1>1 DEF Accept, Has
<1>2. CASE \E t \in Tasks : AcceptInvoke(h, t) \/ AcceptResume(h, t)
  <2>1. PICK t \in Tasks : AcceptInvoke(h, t) \/ AcceptResume(h, t)
    BY <1>2
  <2>2. /\ ~Says(Invoke(t), "reply_deleted", s) /\ ~Says(Resume(t), "reply_deleted", s)
    BY InvokeIs, ResumeIs, NoWriterReplies
  <2> QED
    BY <1>1, <2>1, <2>2 DEF AcceptInvoke, AcceptResume
<1>3. CASE AcceptListing(h)
  <2>1. ~Says(CleanupUserTasks, "reply_deleted", s)
    BY SaysParts DEF CleanupUserTasks
  <2> QED
    BY <1>1, <1>3, <2>1 DEF AcceptListing
<1>4. CASE \E t \in Tasks : AcceptDeleteTask(h, t)
  <2>1. PICK t \in Tasks : AcceptDeleteTask(h, t)
    BY <1>4
  <2>2. /\ Len(DeleteTask(t)) = 4
        /\ DeleteTask(t)[1] = Command("stop_unless_row", t)
        /\ DeleteTask(t)[2] = Command("del_row_and_task_key", t)
        /\ DeleteTask(t)[3] = Command("scard_mapping", home[t])
        /\ DeleteTask(t)[4] = Command("scard_user", None)
    BY DEF DeleteTask
  <2>3. ~Says(DeleteTask(t), "reply_deleted", s)
    <3> SUFFICES ASSUME NEW i \in 1 .. 4, DeleteTask(t)[i] = Command("reply_deleted", s)
                 PROVE  FALSE
      BY <2>2 DEF Says
    <3>1. DeleteTask(t)[i].do = "reply_deleted"
      BY DEF Command
    <3>2. /\ DeleteTask(t)[1].do = "stop_unless_row" /\ DeleteTask(t)[3].do = "scard_mapping"
          /\ DeleteTask(t)[2].do = "del_row_and_task_key" /\ DeleteTask(t)[4].do = "scard_user"
      BY <2>2 DEF Command
    <3>3. i = 1 \/ i = 2 \/ i = 3 \/ i = 4
      OBVIOUS
    <3> QED
      BY <3>1, <3>2, <3>3
  <2> QED
    BY <1>1, <2>1, <2>3 DEF AcceptDeleteTask
<1>5. CASE \E x \in Sessions : AcceptDeleteSession(h, x)
  <2>1. PICK x \in Sessions : AcceptDeleteSession(h, x)
    BY <1>5
  <2> DEFINE c == DeleteSession(x)
  <2>2. /\ Len(c) = 8 /\ Shaped(c)
        /\ c[1] = Command("smembers_user", None) /\ c[3] = Command("delete_thread", x)
        /\ c[4] = Command("delete_artifacts", x) /\ c[5] = Command("smembers_mapping", x)
        /\ c[8] = Command("reply_deleted", x)
    BY DeleteSessionIs
  <2>3. Accept(h, "removal", c)
    BY <2>1 DEF AcceptDeleteSession
  <2> HIDE DEF c
  <2>4. CASE todo'[q] = c /\ Says(c, "reply_deleted", s)
    <3>1. PICK i \in 1 .. Len(c) : c[i] = Command("reply_deleted", s)
      BY <2>4 DEF Says
    <3>2. i = 8
      BY <2>2, <3>1 DEF Shaped, Command
    <3>3. s = x
      BY <2>2, <3>1, <3>2, SameCommand
    <3>4. 1 \in 1 .. Len(c) /\ 3 \in 1 .. Len(c) /\ 4 \in 1 .. Len(c) /\ 5 \in 1 .. Len(c)
      BY <2>2
    <3> QED
      BY <2>2, <2>4, <3>3, <3>4 DEF Has, Says
  <2> QED
    BY <1>1, <2>3, <2>4
<1> QED
  BY <1>2, <1>3, <1>4, <1>5 DEF Request

LEMMA CleanStays ==
    ASSUME StoreOK, ProgramsOK, Crossing, [Next]_vars, NEW s, Clean(s)'
    PROVE  Clean(s) /\ home' = home
  BY HomeStays, CrossingStep DEF Clean

(* One task of a session that is being deleted, when a command is run.     *)
LEMMA UserUnlists ==
    ASSUME StoreOK, ProgramsOK, ShapesOK, NEW p \in Processes, Execute(p), NEW q \in Processes,
           NEW s \in Sessions, Has(q, "reply_deleted", s)', NEW t \in Tasks, serves[p] # t,
           Has(q, "smembers_user", None) \/ Has(q, "drop_unless_row", t)
              \/ row[t] > 0 \/ LeavesUser(t)
    PROVE  Has(q, "smembers_user", None)' \/ Has(q, "drop_unless_row", t)'
              \/ row'[t] > 0 \/ LeavesUser(t)'
<1>0. /\ KeyOK(user) /\ row \in [Tasks -> 0 .. SessionTTL] /\ SessionTTL \in Nat
      /\ todo \in [Processes -> Seq(Commands)] /\ todo[p] # <<>>
      /\ \A do, x : Has(q, do, x) /\ ~(q = p /\ Do(p, {do}) /\ On(p) = x) => Has(q, do, x)'
  <2>1. todo[p] # <<>>
    BY DEF Execute, Test, ReadMembers, WriteRow, DeleteRow, WriteUser, WriteMapping, Enqueue,
       RunGraph, ClearSession, ReplyDeleted, Do
  <2> QED
    BY <2>1, ReplyStays, TTLAssumption DEF StoreOK, ProgramsOK
<1>1. CASE q = p /\ Do(p, {"smembers_user"})
  <2>1. serves[p] = "removal" /\ user' = user
    BY <1>1, Ons DEF Do, Execute, Test, ReadMembers, WriteRow, DeleteRow, WriteUser,
       WriteMapping, Enqueue, RunGraph, ClearSession, ReplyDeleted, keys
  <2>2. PICK order \in SetToSeqs(user.has) :
          Continue(p, ForEach(order, "drop_unless_row") \o ScardUser)
    BY <1>1 DEF Do, Execute, Test, ReadMembers, WriteRow, DeleteRow, WriteUser,
       WriteMapping, Enqueue, RunGraph, ClearSession, ReplyDeleted
  <2>3. CASE t \in user.has
    <3> DEFINE more == ForEach(order, "drop_unless_row") \o ScardUser
    <3>1. PICK i \in 1 .. Len(order) : order[i] = t
      BY <1>0, <2>3, SeqsOfKey
    <3>2. order \in Seq(Tasks)
      BY <1>0, SeqsOfKey
    <3>3. Part(more) /\ Len(more) = Len(order) + 1 /\ more[i] = Command("drop_unless_row", t)
      BY <3>1, <3>2, CleanupPart
    <3>4. Len(order) \in Nat
      BY <3>2
    <3> HIDE DEF more
    <3>5. Says(more, "drop_unless_row", t)
      BY <3>1, <3>3, <3>4 DEF Says
    <3>6. more \in Seq(RemovalCommands) /\ todo[p] \in Seq(RemovalCommands)
          /\ todo'[p] = more \o Tail(todo[p])
      BY <1>0, <2>1, <2>2, <3>3 DEF Part, ProgramsOK, Continue, more
    <3>7. Says(more \o Tail(todo[p]), "drop_unless_row", t)
      BY <1>0, <3>5, <3>6, SaysMore
    <3> QED
      BY <1>1, <3>6, <3>7 DEF Has
  <2>4. CASE t \notin user.has
    BY <2>1, <2>4 DEF LeavesUser
  <2> QED
    BY <2>3, <2>4
<1>2. CASE q = p /\ Do(p, {"drop_unless_row"}) /\ On(p) = t
  <2>1. serves[p] = "removal" /\ row' = row
        /\ (row[t] = 0 => Continue(p, Drop(t)))
    BY <1>2, Ons DEF Do, Execute, Test, ReadMembers, WriteRow, DeleteRow, WriteUser,
       WriteMapping, Enqueue, RunGraph, ClearSession, ReplyDeleted, keys
  <2>2. CASE row[t] = 0
    <3>1. home[t] \in Sessions
      BY DEF StoreOK
    <3>2. Part(Drop(t))
      BY <3>1, SmallParts
    <3>3. Runs(p, Drop(t))
      BY <1>0, <2>1, <2>2, <3>2, PartMore
    <3>4. Removal({"srem_user"}, t)'
      BY <2>1, <3>3, RunsSoon, PartsSoon
    <3> QED
      BY <3>4 DEF LeavesUser
  <2>3. CASE row[t] # 0
    BY <1>0, <2>1, <2>3
  <2> QED
    BY <2>2, <2>3
<1>3. CASE row[t] > 0 /\ ~(Do(p, {"del_row_and_task_key"}) /\ On(p) = t)
  BY <1>3, RowWrites
<1>4. CASE Do(p, {"del_row_and_task_key"}) /\ On(p) = t
  <2>1. DeleteRow(p)
    BY <1>4 DEF Do, Execute, Test, ReadMembers, WriteRow, WriteUser,
       WriteMapping, Enqueue, RunGraph, ClearSession, ReplyDeleted
  <2> QED
    BY <1>4, <2>1, DeleteRowLeaves
<1>5. CASE LeavesUser(t)
  BY <1>5, LeavesStay
<1>6. CASE Has(q, "smembers_user", None) /\ ~(q = p /\ Do(p, {"smembers_user"}))
  BY <1>0, <1>6
<1>7. CASE Has(q, "drop_unless_row", t) /\ ~(q = p /\ Do(p, {"drop_unless_row"}) /\ On(p) = t)
  BY <1>0, <1>7
<1> QED
  BY <1>1, <1>2, <1>3, <1>4, <1>5, <1>6, <1>7

LEMMA SessionUnlists ==
    ASSUME StoreOK, ProgramsOK, ShapesOK, Crossing, RowsListed, KeysListed,
           NEW p \in Processes, Execute(p), NEW q \in Processes,
           NEW s \in Sessions, Has(q, "reply_deleted", s)', Clean(s), NEW t \in Tasks, home[t] = s,
           Has(q, "smembers_mapping", s) \/ Has(q, "del_row_and_task_key", t) \/ LeavesSession(t)
    PROVE  Has(q, "smembers_mapping", s)' \/ Has(q, "del_row_and_task_key", t)'
              \/ LeavesSession(t)'
<1>0. /\ KeyOK(mapping[s]) /\ row \in [Tasks -> 0 .. SessionTTL] /\ SessionTTL \in Nat
      /\ todo \in [Processes -> Seq(Commands)] /\ todo[p] # <<>>
      /\ \A do, x : Has(q, do, x) /\ ~(q = p /\ Do(p, {do}) /\ On(p) = x) => Has(q, do, x)'
      /\ Removing
  <2>1. todo[p] # <<>>
    BY DEF Execute, Test, ReadMembers, WriteRow, DeleteRow, WriteUser, WriteMapping, Enqueue,
       RunGraph, ClearSession, ReplyDeleted, Do
  <2> QED
    BY <2>1, ReplyStays, TTLAssumption DEF StoreOK, ProgramsOK
<1>1. t \in Tasks \ crossed /\ serves[p] # t /\ \A dos : ~SoonBy(t, dos)
  BY <1>0, CleanTask, NotUnderWay
<1>2. CASE q = p /\ Do(p, {"smembers_mapping"}) /\ On(p) = s
  <2>1. serves[p] = "removal"
    BY <1>2, Ons DEF Do
  <2>2. PICK order \in SetToSeqs(mapping[s].has) :
          Continue(p, ForEach(order, "del_row_and_task_key"))
    BY <1>2 DEF Do, Execute, Test, ReadMembers, WriteRow, DeleteRow, WriteUser,
       WriteMapping, Enqueue, RunGraph, ClearSession, ReplyDeleted
  <2>3. CASE t \in mapping[s].has
    <3> DEFINE more == ForEach(order, "del_row_and_task_key")
    <3>1. PICK i \in 1 .. Len(order) : order[i] = t
      BY <1>0, <2>3, SeqsOfKey
    <3>2. order \in Seq(Tasks)
      BY <1>0, SeqsOfKey
    <3>3. Part(more) /\ Len(more) = Len(order) /\ more[i] = Command("del_row_and_task_key", t)
      BY <3>1, <3>2, ForEachPart
    <3> HIDE DEF more
    <3>5. Says(more, "del_row_and_task_key", t)
      BY <3>1, <3>3 DEF Says
    <3>6. more \in Seq(RemovalCommands) /\ todo[p] \in Seq(RemovalCommands)
          /\ todo'[p] = more \o Tail(todo[p])
      BY <1>0, <2>1, <2>2, <3>3 DEF Part, ProgramsOK, Continue, more
    <3>7. Says(more \o Tail(todo[p]), "del_row_and_task_key", t)
      BY <1>0, <3>5, <3>6, SaysMore
    <3> QED
      BY <1>2, <3>6, <3>7 DEF Has
  <2>4. CASE t \notin mapping[s].has
    <3>1. \A ttl : ~MappingLists(t, ttl)
      BY <1>1, <2>4 DEF MappingLists, Held
    <3>2. row[t] = 0
      BY <1>0, <1>1, <3>1 DEF RowsListed
    <3>3. LeavesSession(t)
      BY <1>1, <2>4, <3>1, <3>2 DEF KeysListed, LeavesSession
    <3> QED
      BY <1>1, <3>3, LeavesStay
  <2> QED
    BY <2>3, <2>4
<1>3. CASE Do(p, {"del_row_and_task_key"}) /\ On(p) = t
  <2>1. DeleteRow(p)
    BY <1>3 DEF Do, Execute, Test, ReadMembers, WriteRow, WriteUser,
       WriteMapping, Enqueue, RunGraph, ClearSession, ReplyDeleted
  <2> QED
    BY <1>3, <2>1, DeleteRowLeaves
<1>4. CASE LeavesSession(t)
  BY <1>1, <1>4, LeavesStay
<1> QED
  BY <1>0, <1>2, <1>3, <1>4

LEMMA DeletingStep ==
    ASSUME StoreOK, ProgramsOK, ShapesOK, Crossing, RowsListed, KeysListed, DeletingOK,
           [Next]_vars
    PROVE  DeletingOK'
<1> DEFINE Stores(q, s) == /\ Has(q, "delete_thread", s) \/ s \notin thread
                           /\ Has(q, "delete_artifacts", s) \/ s \notin artifacts
           UserPart(q, t) == Has(q, "smembers_user", None) \/ Has(q, "drop_unless_row", t)
                               \/ row[t] > 0 \/ LeavesUser(t)
           SessionPart(q, s, t) == Has(q, "smembers_mapping", s)
                               \/ Has(q, "del_row_and_task_key", t) \/ LeavesSession(t)
<1> SUFFICES ASSUME NEW q \in Processes, NEW s \in Sessions, Clean(s)',
                    Has(q, "reply_deleted", s)', NEW t \in Tasks, home'[t] = s
             PROVE  UserPart(q, t)' /\ SessionPart(q, s, t)'
  <2>1. ASSUME NEW q \in Processes, NEW s \in Sessions, Clean(s)', Has(q, "reply_deleted", s)'
        PROVE  Stores(q, s)'
    <3>0. Clean(s) /\ home' = home
      BY <2>1, CleanStays
    <3>1. Has(q, "reply_deleted", s) => Stores(q, s)
      BY <3>0 DEF DeletingOK
    <3>2. ASSUME NEW h \in Handlers, Request(h) PROVE Stores(q, s)'
      <4>1. UNCHANGED <<thread, artifacts>>
        BY <3>2, RequestArrives
      <4> QED
        BY <2>1, <3>1, <3>2, <4>1, RequestReplies DEF Has
    <3>3. ASSUME NEW w \in Workers, NEW m \in queue, Take(w, m) PROVE Stores(q, s)'
      <4>1. UNCHANGED <<thread, artifacts>> /\ todo' = [todo EXCEPT ![w] = Run(m)]
            /\ w \in Processes /\ m \in Messages
        BY <3>3, TakeArrives DEF Take, Processes, ProgramsOK
      <4>2. ~Says(Run(m), "reply_deleted", s)
        BY <4>1, RunIs, NoWriterReplies
      <4>3. todo'[q] = todo[q]
        BY <2>1, <4>1, <4>2 DEF Has, ProgramsOK
      <4> QED
        BY <2>1, <3>1, <4>1, <4>3 DEF Has
    <3>4. ASSUME NEW p \in Processes, Execute(p) PROVE Stores(q, s)'
      <4>1. /\ Has(q, "reply_deleted", s) /\ Removing
            /\ \A do, x : Has(q, do, x) /\ ~(q = p /\ Do(p, {do}) /\ On(p) = x) => Has(q, do, x)'
        BY <2>1, <3>4, ReplyStays
      <4>2. \A y \in Tasks : home[y] = s => serves[p] # y
        BY <3>0, <4>1, CleanTask
      <4>3. /\ s \notin thread /\ s \in thread' => FALSE
            /\ s \notin artifacts /\ s \in artifacts' => FALSE
            /\ Do(p, {"delete_thread"}) /\ On(p) = s => s \notin thread'
            /\ Do(p, {"delete_artifacts"}) /\ On(p) = s => s \notin artifacts'
        BY <3>4, <4>2, StoresClean
      <4>4. Has(q, "delete_thread", s)' \/ s \notin thread'
        BY <3>1, <4>1, <4>3
      <4>5. Has(q, "delete_artifacts", s)' \/ s \notin artifacts'
        BY <3>1, <4>1, <4>3
      <4> QED
        BY <4>4, <4>5
    <3>5. CASE Tick \/ UNCHANGED vars
      <4>1. UNCHANGED <<thread, artifacts, todo>>
        BY <3>5 DEF Tick, vars, saved
      <4> QED
        BY <2>1, <3>1, <4>1 DEF Has
    <3> QED
      BY <3>2, <3>3, <3>4, <3>5 DEF Next
  <2> QED
    BY <2>1 DEF DeletingOK
<1>0. Clean(s) /\ home' = home /\ home[t] = s
  BY CleanStays
<1>1. Has(q, "reply_deleted", s) => UserPart(q, t) /\ SessionPart(q, s, t)
  BY <1>0 DEF DeletingOK
<1>2. ASSUME NEW p \in Processes, Arrives(p), UNCHANGED <<row, taskkey, user, mapping>>,
             Has(q, "reply_deleted", s), todo'[q] = todo[q]
      PROVE  UserPart(q, t)' /\ SessionPart(q, s, t)'
  <2>1. Moves(p) /\ todo[p] = <<>>
    BY <1>2 DEF Moves, Arrives, ProgramsOK
  <2>2. (LeavesUser(t) => LeavesUser(t)') /\ (LeavesSession(t) => LeavesSession(t)')
    BY <1>0, <1>2, <2>1, LeavesRest DEF Do
  <2> QED
    BY <1>1, <1>2, <2>2 DEF Has
<1>3. ASSUME NEW h \in Handlers, Request(h) PROVE UserPart(q, t)' /\ SessionPart(q, s, t)'
  BY <1>2, <1>3, RequestArrives, RequestReplies DEF Processes
<1>4. ASSUME NEW w \in Workers, NEW m \in queue, Take(w, m)
      PROVE  UserPart(q, t)' /\ SessionPart(q, s, t)'
  <2>1. Arrives(w) /\ UNCHANGED <<row, taskkey, user, mapping>>
        /\ todo' = [todo EXCEPT ![w] = Run(m)] /\ w \in Processes /\ m \in Messages
    BY <1>4, TakeArrives DEF Take, Processes, ProgramsOK
  <2>2. ~Says(Run(m), "reply_deleted", s)
    BY <2>1, RunIs, NoWriterReplies
  <2>3. todo'[q] = todo[q] /\ Has(q, "reply_deleted", s)
    BY <2>1, <2>2 DEF Has, ProgramsOK
  <2> QED
    BY <1>2, <2>1, <2>3
<1>5. ASSUME NEW p \in Processes, Execute(p) PROVE UserPart(q, t)' /\ SessionPart(q, s, t)'
  <2>1. Has(q, "reply_deleted", s) /\ Removing
    BY <1>5, ReplyStays
  <2>2. serves[p] # t
    BY <1>0, <2>1, CleanTask
  <2>3. UserPart(q, t)'
    BY <1>1, <1>5, <2>1, <2>2, UserUnlists
  <2>4. SessionPart(q, s, t)'
    BY <1>0, <1>1, <1>5, <2>1, SessionUnlists
  <2> QED
    BY <2>3, <2>4
<1>6. CASE Tick
  <2>1. todo' = todo
    BY <1>6 DEF Tick
  <2>2. Has(q, "reply_deleted", s)
    BY <2>1 DEF Has
  <2>3. serves[q] = "removal" /\ todo[q] # <<>>
    <3>1. "reply_deleted" \in (TaskDos \cup SessionDos \cup UserDos) \ {"stop_unless_row"}
      BY DEF SessionDos
    <3>2. serves[q] = "removal"
      BY <2>2, <3>1, HasRemoval
    <3> QED
      BY <3>2, IdAssumption DEF ProgramsOK
  <2>4. Do(q, {"run_graph"})
    BY <1>6, <2>3 DEF Tick
  <2>5. serves[q] \in Tasks
    BY <2>4, Ons DEF Do
  <2> QED
    BY <2>3, <2>5, IdAssumption
<1>7. CASE UNCHANGED vars
  <2>1. UNCHANGED <<home, row, taskkey, user, mapping, todo, serves>>
    BY <1>7 DEF vars, keys
  <2> QED
    BY <1>1, <2>1 DEF Has, LeavesUser, LeavesSession, Removal
<1> QED
  BY <1>3, <1>4, <1>5, <1>6, <1>7 DEF Next

LEMMA DeletedStep ==
    ASSUME StoreOK, ProgramsOK, ShapesOK, Crossing, DeletingOK, DeletedOK, [Next]_vars
    PROVE  DeletedOK'
<1> SUFFICES ASSUME NEW s \in deleted', Clean(s)' PROVE Deserted(s)'
  BY DEF DeletedOK
<1>0. /\ Clean(s) /\ home' = home /\ (s \in deleted => Deserted(s))
      /\ todo \in [Processes -> Seq(Commands)]
      /\ serves \in [Processes -> Tasks \cup {"removal", None}]
  BY CleanStays DEF DeletedOK, ProgramsOK
<1>1. ASSUME NEW p \in Processes, Arrives(p), UNCHANGED <<row, taskkey, user, mapping>>,
             s \in deleted, NEW t \in Tasks, home[t] = s
      PROVE  LeavesUser(t)' /\ LeavesSession(t)'
  <2>1. Moves(p) /\ todo[p] = <<>>
    BY <1>1 DEF Moves, Arrives, ProgramsOK
  <2> QED
    BY <1>0, <1>1, <2>1, LeavesRest DEF Do, Deserted
<1>2. ASSUME NEW h \in Handlers, Request(h) PROVE Deserted(s)'
  <2>0. /\ h \in Processes /\ Arrives(h)
        /\ UNCHANGED <<row, taskkey, user, mapping, thread, artifacts, queue>>
    BY <1>2, RequestArrives DEF Processes
  <2>1. s \in deleted
    BY <1>2 DEF Request, AcceptInvoke, AcceptResume, AcceptListing, AcceptDeleteTask,
       AcceptDeleteSession
  <2>2. ASSUME NEW t \in Tasks, home[t] = s, NEW p \in Processes, serves'[p] = t
        PROVE  Do(p, {"stop_unless_row"})'
    <3>1. CASE p # h
      <4>1. serves'[p] = serves[p] /\ todo'[p] = todo[p]
        BY <1>0, <1>2, <3>1 DEF Request, AcceptInvoke, AcceptResume, AcceptListing,
           AcceptDeleteTask, AcceptDeleteSession, Accept
      <4> QED
        BY <1>0, <2>1, <2>2, <4>1 DEF Deserted, Do
    <3>2. CASE p = h
      <4>1. ASSUME NEW for, NEW program, Accept(h, for, program) PROVE for = t /\ todo'[p] = program
        BY <1>0, <2>0, <2>2, <3>2, <4>1 DEF Accept
      <4>2. CASE AcceptResume(h, t)
        <5>1. todo'[p] = Resume(t)
          BY <4>1, <4>2 DEF AcceptResume
        <5>2. /\ Resume(t) \in Seq(WriterCommands(t)) /\ Resume(t) # <<>>
              /\ Resume(t)[1] = Command("stop_unless_row", t)
          BY ResumeIs
        <5>3. Head(Resume(t)).do = "stop_unless_row"
          BY <5>2 DEF Command
        <5> QED
          BY <5>1, <5>2, <5>3 DEF Do
      <4>3. CASE AcceptInvoke(h, t)
        <5>1. s \notin deleted'
          BY <2>2, <4>3 DEF AcceptInvoke
        <5> QED
          BY <5>1
      <4> QED
        BY <1>2, <4>1, <4>2, <4>3, IdAssumption DEF Request, AcceptInvoke, AcceptResume,
           AcceptListing, AcceptDeleteTask, AcceptDeleteSession
    <3> QED
      BY <3>1, <3>2
  <2> QED
    BY <1>0, <1>1, <2>0, <2>1, <2>2 DEF Deserted
<1>3. ASSUME NEW w \in Workers, NEW m \in queue, Take(w, m) PROVE Deserted(s)'
  <2>0. /\ w \in Processes /\ Arrives(w) /\ queue' = queue \ {m}
        /\ UNCHANGED <<row, taskkey, user, mapping, thread, artifacts>>
    BY <1>3, TakeArrives DEF Processes
  <2>1. /\ s \in deleted /\ serves' = [serves EXCEPT ![w] = m.on]
        /\ todo' = [todo EXCEPT ![w] = Run(m)]
    BY <1>3 DEF Take, notes
  <2>2. ASSUME NEW t \in Tasks, home[t] = s, NEW p \in Processes, serves'[p] = t
        PROVE  Do(p, {"stop_unless_row"})'
    <3>1. m.on # t /\ (serves[p] = t => Do(p, {"stop_unless_row"}))
      BY <1>0, <2>1, <2>2 DEF Deserted
    <3>2. p # w /\ serves[p] = t /\ todo'[p] = todo[p]
      BY <1>0, <2>0, <2>1, <2>2, <3>1
    <3> QED
      BY <3>1, <3>2 DEF Do
  <2> QED
    BY <1>0, <1>1, <2>0, <2>1, <2>2 DEF Deserted
<1>4. ASSUME NEW p \in Processes, Execute(p) PROVE Deserted(s)'
  <2>0. /\ Moves(p) /\ \A q \in Processes \ {p} : todo'[q] = todo[q] /\ serves'[q] = serves[q]
        /\ \A q \in Processes : serves'[q] = serves[q] \/ (q = p /\ serves'[q] = None)
    BY <1>4, ExecuteMoves, MovesOK, ExecuteServes
  <2>1. CASE s \in deleted /\ serves[p] \in Tasks /\ home[serves[p]] = s
    <3>1. Do(p, {"stop_unless_row"}) /\ row[serves[p]] = 0 /\ On(p) = serves[p]
      <4>1. Do(p, {"stop_unless_row"}) /\ row[serves[p]] = 0
        BY <1>0, <2>1 DEF Deserted, LeavesSession
      <4> QED
        BY <2>1, <4>1, HeadIs, IdAssumption DEF Do
    <3>2. Stop(p) /\ UNCHANGED <<home, keys, saved, queue, notes>>
      BY <1>4, <3>1 DEF Execute, Test, ReadMembers, WriteRow, DeleteRow, WriteUser, WriteMapping,
         Enqueue, RunGraph, ClearSession, ReplyDeleted, Do
    <3>3. UNCHANGED <<home, row, taskkey, user, mapping, thread, artifacts, queue>>
      BY <3>2 DEF keys, saved
    <3>4. ~Do(p, {"srem_user", "srem_mapping", "del_task_key"})
      BY <3>1 DEF Do
    <3>5. \A t \in Tasks : home[t] = s => LeavesUser(t)' /\ LeavesSession(t)'
      BY <1>0, <2>0, <2>1, <3>3, <3>4, LeavesRest DEF Deserted
    <3>6. serves'[p] = None
      BY <1>0, <3>2 DEF Stop
    <3>7. \A t \in Tasks : home[t] = s => \A q \in Processes : serves'[q] = t =>
            Do(q, {"stop_unless_row"})'
      BY <1>0, <2>0, <2>1, <3>6, IdAssumption DEF Deserted, Do
    <3> QED
      BY <1>0, <2>1, <3>3, <3>5, <3>7 DEF Deserted
  <2>2. CASE s \in deleted /\ ~(serves[p] \in Tasks /\ home[serves[p]] = s)
    <3>1. \A t \in Tasks : home[t] = s => serves[p] # t
      BY <2>2
    <3>2. \A t \in Tasks : home[t] = s => LeavesUser(t)' /\ LeavesSession(t)'
      BY <1>0, <1>4, <2>2, <3>1, LeavesStay DEF Deserted
    <3>3. s \notin thread' /\ s \notin artifacts'
      <4>1. s \in Sessions /\ s \notin thread /\ s \notin artifacts
        BY <1>0, <2>2 DEF Deserted, StoreOK
      <4> QED
        BY <1>4, <3>1, <4>1, StoresClean
    <3>4. ASSUME NEW t \in Tasks, home[t] = s, NEW m \in queue' PROVE m.on # t
      <4>1. CASE m \in queue
        BY <1>0, <2>2, <3>4, <4>1 DEF Deserted
      <4>2. CASE m \notin queue
        <5>1. Enqueue(p) /\ m = Head(todo[p])
          BY <1>4, <3>4, <4>2 DEF Execute, Test, ReadMembers, WriteRow, DeleteRow, WriteUser,
             WriteMapping, Enqueue, RunGraph, ClearSession, ReplyDeleted
        <5>2. On(p) = serves[p]
          BY <5>1, Ons DEF Enqueue, Do
        <5> QED
          BY <3>1, <3>4, <5>1, <5>2 DEF On
      <4> QED
        BY <4>1, <4>2
    <3>5. \A t \in Tasks : home[t] = s => \A q \in Processes : serves'[q] = t =>
            Do(q, {"stop_unless_row"})'
      BY <1>0, <2>0, <2>2, <3>1, IdAssumption DEF Deserted, Do
    <3> QED
      BY <1>0, <3>2, <3>3, <3>4, <3>5 DEF Deserted
  <2>3. CASE s \notin deleted
    <3>1. ReplyDeleted(p) /\ On(p) = s
      BY <1>4, <2>3 DEF Execute, Test, ReadMembers, WriteRow, DeleteRow, WriteUser,
         WriteMapping, Enqueue, RunGraph, ClearSession, ReplyDeleted, notes
    <3>2. /\ Do(p, {"reply_deleted"}) /\ s \in Sessions /\ Has(p, "reply_deleted", s)
          /\ todo[p][1] = Command("reply_deleted", s) /\ serves[p] = "removal"
      BY <3>1, Ons, HeadHas DEF ReplyDeleted, Do
    <3>3. UNCHANGED <<home, row, taskkey, user, mapping, thread, artifacts, queue>>
          /\ ~Do(p, {"srem_user", "srem_mapping", "del_task_key"})
      BY <3>1 DEF ReplyDeleted, keys, saved, Do
    <3>4. Len(todo[p]) = 1
      <4>1. 1 \in 1 .. Len(todo[p]) /\ todo[p][1].do = "reply_deleted"
        BY <3>2, HeadIs DEF Do, Command
      <4> QED
        BY <4>1 DEF ShapesOK, Shaped
    <3>5. \A do, x : do # "reply_deleted" => ~Has(p, do, x)
      BY <3>2, <3>4, SameCommand DEF Has, Says
    <3>6. /\ s \notin thread /\ s \notin artifacts
          /\ \A t \in Tasks : home[t] = s => LeavesUser(t) /\ LeavesSession(t)
      <4>1. \A t \in Tasks : home[t] = s => (row[t] > 0 \/ LeavesUser(t)) /\ LeavesSession(t)
        BY <1>0, <3>2, <3>5 DEF DeletingOK
      <4>2. s \notin thread /\ s \notin artifacts
        BY <1>0, <3>2, <3>5 DEF DeletingOK
      <4> QED
        BY <4>1, <4>2 DEF LeavesSession
    <3>7. \A t \in Tasks : home[t] = s => LeavesUser(t)' /\ LeavesSession(t)'
      BY <2>0, <3>3, <3>6, LeavesRest
    <3>8. \A t \in Tasks : home[t] = s => ~UnderWay(t) /\ \A q \in Processes : serves[q] # t
      <4>1. Removing
        BY <3>2 DEF Removing
      <4> QED
        BY <1>0, <4>1, CleanTask
    <3>9. \A t \in Tasks : home[t] = s => (\A m \in queue' : m.on # t)
            /\ \A q \in Processes : serves'[q] # t
      BY <2>0, <3>3, <3>8, IdAssumption DEF UnderWay
    <3> QED
      BY <1>0, <3>3, <3>6, <3>7, <3>9 DEF Deserted
  <2> QED
    BY <2>1, <2>2, <2>3
<1>5. CASE Tick
  <2>1. /\ UNCHANGED <<home, thread, artifacts, queue, todo, serves, deleted>>
        /\ row' = [t \in Tasks |-> IF row[t] = 0 THEN 0 ELSE row[t] - 1]
        /\ taskkey' = [t \in Tasks |-> IF taskkey[t] = 0 THEN 0 ELSE taskkey[t] - 1]
        /\ user' = Fade(user) /\ mapping' = [x \in Sessions |-> Fade(mapping[x])]
    BY <1>5 DEF Tick, saved, notes
  <2>2. user'.has \subseteq user.has /\ \A x \in Sessions : mapping'[x].has \subseteq mapping[x].has
    BY <2>1, FadeKey DEF StoreOK
  <2>3. ASSUME NEW t \in Tasks, home[t] = s PROVE LeavesUser(t)' /\ LeavesSession(t)'
    <3>1. LeavesUser(t) /\ LeavesSession(t) /\ home[t] \in Sessions /\ taskkey[t] \in 0 .. TaskTTL
      BY <1>0, <2>1, <2>3 DEF Deserted, StoreOK
    <3>2. row'[t] = 0 /\ (taskkey'[t] > 0 => taskkey[t] > 0)
      BY <2>1, <3>1, TTLAssumption DEF LeavesSession
    <3>3. \A dos : Removal(dos, t)' <=> Removal(dos, t)
      BY <2>1 DEF Removal
    <3> QED
      BY <2>1, <2>2, <3>1, <3>2, <3>3 DEF LeavesUser, LeavesSession
  <2> QED
    BY <1>0, <2>1, <2>3 DEF Deserted, Do
<1>6. CASE UNCHANGED vars
  <2>1. UNCHANGED <<home, row, taskkey, user, mapping, thread, artifacts, queue, todo, serves,
                    deleted>>
    BY <1>6 DEF vars, keys, saved, notes
  <2> QED
    BY <1>0, <2>1 DEF Deserted, LeavesUser, LeavesSession, Removal, Do
<1> QED
  BY <1>2, <1>3, <1>4, <1>5, <1>6 DEF Next

KeysInv == RowsInv /\ Homes /\ KeysListed /\ KeysRemoved /\ DeletingOK /\ DeletedOK

LEMMA KeysInit == Init => Homes /\ KeysListed /\ KeysRemoved /\ DeletingOK /\ DeletedOK
<1> SUFFICES ASSUME Init
             PROVE  Homes /\ KeysListed /\ KeysRemoved /\ DeletingOK /\ DeletedOK
  OBVIOUS
<1>1. /\ \A p \in Processes : todo[p] = <<>>
      /\ \A t \in Tasks : taskkey[t] = 0
      /\ \A s \in Sessions : mapping[s].has = {}
      /\ deleted = {}
  BY DEF Init, NoKey
<1>2. \A p \in Processes : \A do, x : ~Has(p, do, x)
  BY <1>1, SaysParts DEF Has
<1>3. Homes /\ KeysListed /\ DeletedOK
  BY <1>1 DEF Homes, KeysListed, DeletedOK
<1>4. KeysRemoved /\ DeletingOK
  BY <1>1, <1>2 DEF KeysRemoved, DeletingOK
<1> QED
  BY <1>3, <1>4

(* The inductive invariant behind DeletedIsGone: a task key is listed or   *)
(* being deleted, and each step of a deletion leaves what remains to a     *)
(* command that some removal still has to run.                             *)
THEOREM KeysInvariance ==
    ASSUME SessionTTL = TaskTTL
    PROVE  Spec => []KeysInv
<1>0. SessionTTL <= TaskTTL
  BY TTLAssumption
<1>1. Init => KeysInv
  BY RowsInit, StoreInit, ProgramsInit, ExpiryInit, KeysInit DEF KeysInv, RowsInv, IndexInv
<1>2. KeysInv /\ [Next]_vars => KeysInv'
  <2> SUFFICES ASSUME KeysInv, [Next]_vars PROVE KeysInv'
    OBVIOUS
  <2>1. /\ StoreOK /\ ProgramsOK /\ ShapesOK /\ ExpiryOK
        /\ Crossing /\ RowsListed /\ RowsToSet /\ RowsRemoved
        /\ Homes /\ KeysListed /\ KeysRemoved /\ DeletingOK /\ DeletedOK
    BY DEF KeysInv, RowsInv, IndexInv
  <2>2. IndexInv'
    BY <2>1, StoreStep, ProgramsStep, ExpiryStep DEF IndexInv
  <2>3. Crossing' /\ RowsListed' /\ RowsToSet' /\ RowsRemoved'
    BY <1>0, <2>1, CrossingStep, RowsListedStep, RowsToSetStep, RowsRemovedStep
  <2>4. Homes' /\ KeysListed' /\ KeysRemoved'
    BY <2>1, HomesStep, KeysListedStep, KeysRemovedStep
  <2>5. DeletingOK' /\ DeletedOK'
    BY <2>1, DeletingStep, DeletedStep
  <2> QED
    BY <2>2, <2>3, <2>4, <2>5 DEF KeysInv, RowsInv
<1> QED
  BY <1>1, <1>2, PTL DEF Spec

(* When rows and task keys live equally long, a session that was deleted   *)
(* leaves no key, checkpoint or artifact once every removal has run to its *)
(* end, whatever other sessions did meanwhile and however many deletions   *)
(* overlapped, unless one of its own tasks was under way beside a removal. *)
THEOREM SpecDeletedIsGone ==
    ASSUME SessionTTL = TaskTTL
    PROVE  Spec => []DeletedIsGone
<1>1. KeysInv => DeletedIsGone
  <2> SUFFICES ASSUME KeysInv, ~Removing, NEW s \in deleted, \A t \in crossed : home[t] # s,
                      Leftover(s)
               PROVE  FALSE
    BY DEF DeletedIsGone
  <2>1. StoreOK /\ Homes /\ Deserted(s) /\ s \in Sessions
    BY DEF KeysInv, RowsInv, IndexInv, DeletedOK, Clean, StoreOK
  <2>2. \A dos, x : ~Removal(dos, x)
    BY DEF Removal, Removing
  <2>3. ASSUME NEW t \in Tasks, home[t] = s
        PROVE  row[t] = 0 /\ taskkey[t] = 0 /\ t \notin user.has /\ t \notin mapping[s].has
    <3>1. taskkey[t] \in 0 .. TaskTTL
      BY <2>1 DEF StoreOK
    <3> QED
      BY <2>1, <2>2, <2>3, <3>1, TTLAssumption DEF Deserted, LeavesUser, LeavesSession
  <2>4. mapping[s] = NoKey
    <3>1. KeyOK(mapping[s])
      BY <2>1 DEF StoreOK
    <3>2. mapping[s].has = {}
      BY <2>1, <2>3, <3>1 DEF Homes, KeyOK, Keys
    <3> QED
      BY <3>1, <3>2 DEF KeyOK
  <2> QED
    BY <2>1, <2>3, <2>4 DEF Leftover, Deserted
<1> QED
  BY <1>1, KeysInvariance, PTL

=============================================================================

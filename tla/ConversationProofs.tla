-------------------------- MODULE ConversationProofs --------------------------
(* Proofs about Conversation, and about ToolArtifacts as it runs it, for   *)
(* any window, trigger, page size, sizes, results and bounds.              *)
EXTENDS Conversation, SequenceTheorems, FiniteSetTheorems, WellFoundedInduction, TLAPS

(* A set of numbers that is not empty and has an upper bound has a maximum. *)
LEMMA MaxIsReached ==
    ASSUME NEW S, S \subseteq Nat, S # {}, NEW b \in Nat, \A x \in S : x <= b
    PROVE  Max(S) \in S /\ \A x \in S : x <= Max(S)
<1> DEFINE Below == {n \in Nat : b - n \in S}
<1>1. Below \subseteq Nat /\ Below # {}
  <2>1. PICK s \in S : TRUE
    OBVIOUS
  <2>2. b - s \in Nat /\ b - (b - s) = s
    BY <2>1
  <2>3. b - s \in Below
    BY <2>1, <2>2
  <2> QED BY <2>3
<1>2. \E x \in Below : \A y \in Below : ~ (<<y, x>> \in OpToRel(<, Nat))
  <2> HIDE DEF Below
  <2> QED BY <1>1, WFMin, NatLessThanWellFounded
<1>3. PICK x \in Below : \A y \in Below : ~ (y < x)
  BY <1>1, <1>2 DEF OpToRel
<1>4. \A y \in S : b - x >= y
  <2>1. SUFFICES ASSUME NEW y \in S, b - x < y PROVE FALSE
    BY <1>3
  <2>2. b - y \in Nat /\ b - (b - y) = y
    BY <2>1
  <2>3. b - y \in Below
    BY <2>1, <2>2
  <2> QED BY <1>3, <2>1, <2>3
<1> QED BY <1>3, <1>4 DEF Max

-----------------------------------------------------------------------------
(* Sequences of messages, one the other's prefix.                          *)

Prefix(m, n) == Len(m) <= Len(n) /\ \A i \in 1 .. Len(m) : n[i] = m[i]

CallsOf(m) == UNION {{<<i, k>> : k \in 1 .. m[i].calls} : i \in 1 .. Len(m)}

HumansOf(m, from, to) == {i \in from .. to : m[i].kind = "human"}

(* A call is the number of its message and one of the message's calls.     *)
LEMMA CallsAre ==
    ASSUME NEW m \in Seq(Message), NEW c
    PROVE  c \in CallsOf(m) <=>
             c \in Call /\ c[1] \in 1 .. Len(m) /\ c[2] \in 1 .. m[c[1]].calls
<1>1. ASSUME c \in CallsOf(m)
      PROVE  c \in Call /\ c[1] \in 1 .. Len(m) /\ c[2] \in 1 .. m[c[1]].calls
  <2>1. PICK i \in 1 .. Len(m) : c \in {<<i, k>> : k \in 1 .. m[i].calls}
    BY <1>1 DEF CallsOf
  <2>2. PICK k \in 1 .. m[i].calls : c = <<i, k>>
    BY <2>1
  <2>3. i \in Nat /\ k \in Nat
    OBVIOUS
  <2> QED BY <2>2, <2>3 DEF Call
<1>2. ASSUME c \in Call, c[1] \in 1 .. Len(m), c[2] \in 1 .. m[c[1]].calls
      PROVE  c \in CallsOf(m)
  <2>1. c = <<c[1], c[2]>>
    BY <1>2 DEF Call
  <2>2. c \in {<<c[1], k>> : k \in 1 .. m[c[1]].calls}
    BY <1>2, <2>1
  <2> QED BY <1>2, <2>2 DEF CallsOf
<1> QED BY <1>1, <1>2

(* Messages that follow add calls of their own only.                       *)
LEMMA CallsGrow ==
    ASSUME NEW m \in Seq(Message), NEW n \in Seq(Message), Prefix(m, n)
    PROVE  /\ CallsOf(m) \subseteq CallsOf(n)
           /\ \A c \in CallsOf(n) : c[1] <= Len(m) => c \in CallsOf(m)
<1>1. \A c \in CallsOf(m) : c \in CallsOf(n)
  BY CallsAre DEF Prefix
<1>2. \A c \in CallsOf(n) : c[1] <= Len(m) => c \in CallsOf(m)
  BY CallsAre DEF Prefix
<1> QED BY <1>1, <1>2

(* The human messages of a stretch are finitely many, and no more than in  *)
(* a longer one.                                                           *)
LEMMA HumansFewer ==
    ASSUME NEW m, NEW n, NEW a \in Int, NEW b \in Int, NEW from \in Int, NEW to \in Int,
           a >= from, b <= to, \A i \in a .. b : m[i] = n[i]
    PROVE  /\ Cardinality(HumansOf(m, a, b)) \in Nat
           /\ Cardinality(HumansOf(n, from, to)) \in Nat
           /\ Cardinality(HumansOf(m, a, b)) <= Cardinality(HumansOf(n, from, to))
<1>1. IsFiniteSet(HumansOf(n, from, to))
  <2>1. HumansOf(n, from, to) \in SUBSET (from .. to)
    BY DEF HumansOf
  <2> QED BY <2>1, FS_Subset, FS_Interval
<1>2. HumansOf(m, a, b) \in SUBSET HumansOf(n, from, to)
  BY DEF HumansOf
<1>3. IsFiniteSet(HumansOf(m, a, b))
  BY <1>1, <1>2, FS_Subset
<1> QED BY <1>1, <1>2, <1>3, FS_Subset, FS_CardinalityType
-----------------------------------------------------------------------------
(* The inductive invariant, in terms of the messages one by one.           *)

NoHuman(i, j) == \A k \in i + 1 .. j : messages[k].kind # "human"

Answered(c) == \E i \in 1 .. Len(messages) : messages[i].answers = c

(* A tool message answers an earlier call of its own turn, and no two of   *)
(* them the same one.                                                      *)
AnswersOK ==
    /\ \A i \in 1 .. Len(messages) :
         IF messages[i].kind = "tool"
         THEN /\ messages[i].answers \in Calls
              /\ messages[i].answers[1] < i
              /\ NoHuman(messages[i].answers[1], i)
         ELSE messages[i].answers = Unset
    /\ \A i, j \in 1 .. Len(messages) :
         messages[i].answers = messages[j].answers /\ messages[i].answers # Unset => i = j

(* Which nodes have a call in hand.                                        *)
PhasesOK ==
    /\ phase \in {"idle", "context", "supervisor", "specialist"} =>
         pending = Unset /\ queue = <<>>
    /\ phase \in {"approval", "execute"} => pending # Unset
    /\ phase = "prepare_tool" => pending = Unset
    /\ phase = "prepare_tool" /\ queue = <<>> =>
         messages # <<>> /\ messages[Len(messages)].kind = "ai"

(* The calls in hand are unanswered calls of the present turn, each once.  *)
Open(c) == c \in Calls /\ ~Answered(c) /\ NoHuman(c[1], Len(messages))

HandOK ==
    /\ pending # Unset => Open(pending.call)
    /\ \A k \in 1 .. Len(queue) : Open(queue[k])
    /\ \A j, k \in 1 .. Len(queue) : queue[j] = queue[k] => j = k
    /\ pending # Unset => \A k \in 1 .. Len(queue) : queue[k] # pending.call

(* A call that is neither answered nor given up is in hand, or is one of   *)
(* the message that the tool loop is about to go through.                  *)
Held(c) ==
    \/ pending # Unset /\ c = pending.call
    \/ \E k \in 1 .. Len(queue) : c = queue[k]
    \/ phase = "prepare_tool" /\ queue = <<>> /\ c[1] = Len(messages)

AccountedOK ==
    phase # "failed" => \A c \in Calls : Answered(c) \/ c \in dropped \/ Held(c)

IInv ==
    /\ TypeOK /\ MergedOnce /\ WholeTurns
    /\ AnswersOK /\ PhasesOK /\ HandOK /\ AccountedOK

-----------------------------------------------------------------------------
(* What messages appended to the thread leave alone.                       *)

Appends(new) ==
    /\ new \in Seq(Message)
    /\ messages' = messages \o new
    /\ merged' = merged \o [i \in 1 .. Len(new) |-> 0]
    /\ cursor' = cursor

LEMMA Grow ==
    ASSUME IInv, NEW new, Appends(new)
    PROVE  /\ messages' \in Seq(Message) /\ Prefix(messages, messages')
           /\ Len(messages') = Len(messages) + Len(new)
           /\ \A i \in 1 .. Len(new) : messages'[Len(messages) + i] = new[i]
           /\ merged' \in Seq(Nat) /\ Len(merged') = Len(messages')
           /\ cursor' \in 0 .. Len(messages')
<1> DEFINE zeros == [i \in 1 .. Len(new) |-> 0]
<1>1. messages \in Seq(Message) /\ merged \in Seq(Nat) /\ Len(merged) = Len(messages)
      /\ cursor \in 0 .. Len(messages)
  BY DEF IInv, TypeOK
<1>2. new \in Seq(Message) /\ Len(new) \in Nat
  BY DEF Appends
<1>3. zeros \in Seq(Nat) /\ Len(zeros) = Len(new)
  BY <1>2
<1>4. messages' = messages \o new /\ merged' = merged \o zeros /\ cursor' = cursor
  BY DEF Appends
<1>5. messages' \in Seq(Message) /\ Len(messages') = Len(messages) + Len(new)
  BY <1>1, <1>2, <1>4
<1>6. \A i \in 1 .. Len(messages) : messages'[i] = messages[i]
  BY <1>1, <1>2, <1>4
<1>7. \A i \in 1 .. Len(new) : messages'[Len(messages) + i] = new[i]
  BY <1>1, <1>2, <1>4
<1>8. merged' \in Seq(Nat) /\ Len(merged') = Len(merged) + Len(zeros)
  <2> HIDE DEF zeros
  <2>1. merged \o zeros \in Seq(Nat) /\ Len(merged \o zeros) = Len(merged) + Len(zeros)
    BY <1>1, <1>3, ConcatProperties
  <2> QED BY <1>4, <2>1
<1> HIDE DEF zeros
<1> QED BY <1>1, <1>2, <1>3, <1>4, <1>5, <1>6, <1>7, <1>8 DEF Prefix

(* The same, message by message.                                           *)
LEMMA GrowOneByOne ==
    ASSUME IInv, NEW new, Appends(new)
    PROVE  /\ messages \in Seq(Message) /\ messages' \in Seq(Message)
           /\ Prefix(messages, messages') /\ new \in Seq(Message)
           /\ Len(messages) \in Nat /\ Len(new) \in Nat
           /\ Len(messages') = Len(messages) + Len(new) /\ Len(messages') \in Nat
           /\ cursor \in 0 .. Len(messages) /\ cursor' = cursor
           /\ \A i \in 1 .. Len(messages) : messages'[i] = messages[i]
           /\ \A i \in 1 .. Len(messages') : i > Len(messages) =>
                i - Len(messages) \in 1 .. Len(new) /\ messages'[i] = new[i - Len(messages)]
<1>1. messages \in Seq(Message) /\ Len(messages) \in Nat /\ cursor \in 0 .. Len(messages)
  BY DEF IInv, TypeOK
<1>2. new \in Seq(Message) /\ Len(new) \in Nat /\ cursor' = cursor
  BY DEF Appends
<1>3. /\ messages' \in Seq(Message) /\ Prefix(messages, messages')
      /\ Len(messages') = Len(messages) + Len(new)
      /\ \A i \in 1 .. Len(new) : messages'[Len(messages) + i] = new[i]
  BY Grow
<1>4. ASSUME NEW i \in 1 .. Len(messages'), i > Len(messages)
      PROVE  i - Len(messages) \in 1 .. Len(new) /\ messages'[i] = new[i - Len(messages)]
  <2>1. i - Len(messages) \in 1 .. Len(new) /\ Len(messages) + (i - Len(messages)) = i
    BY <1>1, <1>2, <1>3, <1>4
  <2> QED BY <1>3, <2>1
<1>5. \A i \in 1 .. Len(messages) : messages'[i] = messages[i]
  BY <1>3 DEF Prefix
<1> QED BY <1>1, <1>2, <1>3, <1>4, <1>5

(* The new messages were merged never, the old ones as often as before.    *)
LEMMA GrowMerged ==
    ASSUME IInv, NEW new, Appends(new)
    PROVE  MergedOnce'
<1>1. merged \in Seq(Nat) /\ Len(merged) = Len(messages) /\ cursor \in 0 .. Len(messages)
      /\ \A i \in 1 .. Len(messages) : merged[i] = IF i <= cursor THEN 1 ELSE 0
  BY DEF IInv, TypeOK, MergedOnce
<1>2. new \in Seq(Message) /\ Len(new) \in Nat /\ Len(messages) \in Nat
  BY DEF Appends, IInv, TypeOK
<1>3. Len(messages') = Len(messages) + Len(new) /\ cursor' = cursor
  BY Grow DEF Appends
<1>4. ASSUME NEW i \in 1 .. Len(messages')
      PROVE  merged'[i] = IF i <= cursor THEN 1 ELSE 0
  <2> DEFINE zeros == [j \in 1 .. Len(new) |-> 0]
  <2>1. zeros \in Seq(Nat) /\ Len(zeros) = Len(new) /\ \A j \in 1 .. Len(new) : zeros[j] = 0
    BY <1>2
  <2>2. merged' = merged \o zeros
    BY DEF Appends
  <2> HIDE DEF zeros
  <2>3. CASE i <= Len(messages)
    <3>1. merged'[i] = merged[i]
      BY <1>1, <1>2, <1>3, <2>1, <2>2, <2>3
    <3> QED BY <1>1, <2>3, <3>1
  <2>4. CASE i > Len(messages)
    <3>1. i - Len(messages) \in 1 .. Len(new)
      BY <1>2, <1>3, <2>4
    <3>2. merged'[i] = zeros[i - Len(messages)]
      BY <1>1, <1>2, <1>3, <2>1, <2>2, <2>4, <3>1
    <3> QED BY <1>1, <1>2, <2>1, <2>4, <3>1, <3>2
  <2> QED BY <1>2, <1>3, <2>3, <2>4
<1> QED BY <1>3, <1>4 DEF MergedOnce

(* The cursor stays behind the recent turns.                               *)
LEMMA GrowWindow ==
    ASSUME IInv, NEW new, Appends(new)
    PROVE  (cursor > 0 => TurnsAfter(cursor) >= RecentTurns)'
<1> DEFINE before == HumansOf(messages, cursor + 1, Len(messages))
<1> DEFINE after == HumansOf(messages', cursor + 1, Len(messages'))
<1>1. SUFFICES ASSUME cursor > 0 PROVE Cardinality(after) >= RecentTurns
  BY DEF Appends, TurnsAfter, HumansIn, HumansOf
<1>2. Cardinality(before) >= RecentTurns
  BY <1>1 DEF IInv, WholeTurns, TurnsAfter, HumansIn, HumansOf
<1>3. /\ Prefix(messages, messages') /\ cursor \in 0 .. Len(messages)
      /\ Len(messages) \in Nat /\ Len(messages') \in Nat
  BY Grow DEF IInv, TypeOK
<1>4. /\ Cardinality(before) \in Nat /\ Cardinality(after) \in Nat
      /\ Cardinality(before) <= Cardinality(after)
  BY <1>3, HumansFewer DEF Prefix
<1> QED BY <1>2, <1>4, RecentAssumption

(* No human spoke after the cursor's turn: a call of the present turn is   *)
(* not summarised.                                                         *)
LEMMA PresentNotSummarised ==
    ASSUME IInv, NEW c, Open(c)
    PROVE  c[1] \in 1 .. Len(messages) /\ c[1] > cursor
<1>1. messages \in Seq(Message) /\ cursor \in 0 .. Len(messages) /\ Len(messages) \in Nat
  BY DEF IInv, TypeOK
<1>2. c[1] \in 1 .. Len(messages)
  BY <1>1, CallsAre DEF Open, Calls, CallsOf
<1>3. SUFFICES ASSUME c[1] <= cursor PROVE FALSE
  BY <1>1, <1>2
<1>4. HumansOf(messages, cursor + 1, Len(messages)) = {}
  BY <1>1, <1>2, <1>3 DEF Open, NoHuman, HumansOf
<1>5. cursor > 0
  BY <1>1, <1>2, <1>3
<1>6. Cardinality({}) >= RecentTurns
  BY <1>4, <1>5 DEF IInv, WholeTurns, TurnsAfter, HumansIn, HumansOf
<1> QED BY <1>6, FS_EmptySet, RecentAssumption

(* At most the first new message is a tool message, and it answers a call  *)
(* that was open.                                                          *)
AnswersOpen(new) ==
    \A i \in 1 .. Len(new) :
        IF new[i].kind = "tool" THEN i = 1 /\ Open(new[i].answers) ELSE new[i].answers = Unset

LEMMA GrowAnswers ==
    ASSUME IInv, NEW new, Appends(new), AnswersOpen(new)
    PROVE  AnswersOK' /\ WholeTurns'
<1> DEFINE n == Len(messages)
<1>1. /\ messages \in Seq(Message) /\ messages' \in Seq(Message) /\ Prefix(messages, messages')
      /\ n \in Nat /\ Len(new) \in Nat /\ Len(messages') = n + Len(new)
      /\ cursor \in 0 .. n /\ cursor' = cursor
  BY GrowOneByOne
<1>2. ASSUME NEW i \in 1 .. n
      PROVE  messages'[i] = messages[i]
  BY GrowOneByOne
<1>3. ASSUME NEW i \in 1 .. Len(messages'), i > n
      PROVE  i - n \in 1 .. Len(new) /\ messages'[i] = new[i - n]
  BY <1>3, GrowOneByOne
<1>4. Calls \subseteq Calls'
  BY <1>1, CallsGrow DEF Calls, CallsOf
<1>5. ASSUME NEW i \in 1 .. Len(messages'), messages'[i].kind = "tool"
      PROVE  /\ messages'[i].answers \in Calls'
             /\ messages'[i].answers[1] < i
             /\ \A k \in messages'[i].answers[1] + 1 .. i : messages'[k].kind # "human"
             /\ i <= cursor <=> messages'[i].answers[1] <= cursor
  <2>1. CASE i <= n
    <3>1. i \in 1 .. n /\ messages'[i] = messages[i]
      BY <1>1, <1>2, <2>1
    <3>2. /\ messages[i].answers \in Calls /\ messages[i].answers[1] < i
          /\ NoHuman(messages[i].answers[1], i)
          /\ i <= cursor <=> messages[i].answers[1] <= cursor
      BY <1>5, <3>1 DEF IInv, AnswersOK, WholeTurns
    <3>3. messages[i].answers[1] \in 1 .. n
      BY <1>1, <3>2, CallsAre DEF Calls, CallsOf
    <3>4. ASSUME NEW k \in messages'[i].answers[1] + 1 .. i PROVE messages'[k].kind # "human"
      <4>1. k \in messages[i].answers[1] + 1 .. i /\ k \in 1 .. n
        BY <1>1, <2>1, <3>1, <3>3
      <4> QED BY <1>2, <3>2, <4>1 DEF NoHuman
    <3> QED BY <1>4, <3>1, <3>2, <3>4
  <2>2. CASE i > n
    <3>1. i - n \in 1 .. Len(new) /\ messages'[i] = new[i - n]
      BY <1>3, <2>2
    <3>2. i - n = 1 /\ Open(messages'[i].answers)
      BY <1>5, <3>1 DEF AnswersOpen
    <3>3. i = n + 1
      BY <1>1, <3>2
    <3> DEFINE c == messages'[i].answers
    <3>4. c \in Calls /\ NoHuman(c[1], n) /\ c[1] \in 1 .. n /\ c[1] > cursor
      BY <3>2, PresentNotSummarised DEF Open
    <3>5. ASSUME NEW k \in c[1] + 1 .. i PROVE messages'[k].kind # "human"
      <4>1. CASE k = i
        BY <1>5, <4>1
      <4>2. CASE k <= n
        BY <1>1, <1>2, <3>4, <4>2 DEF NoHuman
      <4> QED BY <1>1, <3>3, <3>4, <4>1, <4>2
    <3> QED BY <1>1, <1>4, <3>3, <3>4, <3>5
  <2> QED BY <1>1, <2>1, <2>2
<1>6. ASSUME NEW i \in 1 .. Len(messages'), messages'[i].kind # "tool"
      PROVE  messages'[i].answers = Unset
  <2>1. CASE i <= n
    BY <1>1, <1>2, <1>6, <2>1 DEF IInv, AnswersOK
  <2>2. CASE i > n
    BY <1>3, <1>6, <2>2 DEF AnswersOpen
  <2> QED BY <1>1, <2>1, <2>2
<1>7. ASSUME NEW i \in 1 .. Len(messages'), i > n, messages'[i].answers # Unset
      PROVE  i = n + 1 /\ \A j \in 1 .. n : messages[j].answers # messages'[i].answers
  <2>1. messages'[i].kind = "tool"
    BY <1>6, <1>7
  <2>2. i - n \in 1 .. Len(new) /\ messages'[i] = new[i - n]
    BY <1>3, <1>7
  <2>3. i - n = 1 /\ Open(messages'[i].answers)
    BY <2>1, <2>2 DEF AnswersOpen
  <2> QED BY <1>1, <2>3 DEF Open, Answered
<1>8. ASSUME NEW i \in 1 .. Len(messages'), NEW j \in 1 .. Len(messages'),
             messages'[i].answers = messages'[j].answers, messages'[i].answers # Unset
      PROVE  i = j
  <2>1. CASE i <= n /\ j <= n
    BY <1>1, <1>2, <1>8, <2>1 DEF IInv, AnswersOK
  <2>2. CASE i > n /\ j > n
    BY <1>7, <1>8, <2>2
  <2>3. CASE i > n /\ j <= n
    BY <1>1, <1>2, <1>7, <1>8, <2>3
  <2>4. CASE i <= n /\ j > n
    BY <1>1, <1>2, <1>7, <1>8, <2>4
  <2> QED BY <1>1, <2>1, <2>2, <2>3, <2>4
<1>9. AnswersOK'
  BY <1>5, <1>6, <1>8 DEF AnswersOK, NoHuman
<1>10. WholeTurns'
  BY <1>1, <1>5, GrowWindow DEF WholeTurns
<1> QED BY <1>9, <1>10

(* A call stays open until it is answered or a human speaks.               *)
LEMMA GrowOpen ==
    ASSUME IInv, NEW new, Appends(new), NEW c, Open(c),
           \A i \in 1 .. Len(new) : new[i].kind # "human" /\ new[i].answers # c
    PROVE  Open(c)'
<1> DEFINE n == Len(messages)
<1>1. /\ messages \in Seq(Message) /\ messages' \in Seq(Message) /\ Prefix(messages, messages')
      /\ n \in Nat /\ Len(new) \in Nat /\ Len(messages') = n + Len(new)
      /\ cursor \in 0 .. n /\ cursor' = cursor
  BY GrowOneByOne
<1>2. ASSUME NEW i \in 1 .. n
      PROVE  messages'[i] = messages[i]
  BY GrowOneByOne
<1>3. ASSUME NEW i \in 1 .. Len(messages'), i > n
      PROVE  i - n \in 1 .. Len(new) /\ messages'[i] = new[i - n]
  BY <1>3, GrowOneByOne
<1>4. c \in Calls'
  BY <1>1, CallsGrow DEF Open, Calls, CallsOf
<1>5. c[1] \in 1 .. n
  BY PresentNotSummarised
<1>6. ~Answered(c)'
  <2>1. SUFFICES ASSUME NEW i \in 1 .. Len(messages') PROVE messages'[i].answers # c
    BY DEF Answered
  <2>2. CASE i <= n
    BY <1>1, <1>2, <2>2 DEF Open, Answered
  <2>3. CASE i > n
    BY <1>3, <2>3
  <2> QED BY <1>1, <2>2, <2>3
<1>7. NoHuman(c[1], Len(messages))'
  <2>1. SUFFICES ASSUME NEW k \in c[1] + 1 .. Len(messages') PROVE messages'[k].kind # "human"
    BY DEF NoHuman
  <2>2. k \in 1 .. Len(messages')
    BY <1>1, <1>5
  <2>3. CASE k <= n
    BY <1>1, <1>2, <1>5, <2>2, <2>3 DEF Open, NoHuman
  <2>4. CASE k > n
    BY <1>3, <2>2, <2>4
  <2> QED BY <1>1, <1>5, <2>3, <2>4
<1> QED BY <1>4, <1>6, <1>7 DEF Open

(* What was answered stays answered, and what is new belongs to a new      *)
(* message.                                                                *)
LEMMA GrowCalls ==
    ASSUME IInv, NEW new, Appends(new)
    PROVE  /\ \A c : Answered(c) => Answered(c)'
           /\ \A c \in Calls' : \/ c \in Calls
                                \/ /\ c[1] > Len(messages)
                                   /\ c[1] \in 1 .. Len(messages')
                                   /\ c[2] \in 1 .. messages'[c[1]].calls
<1>1. /\ messages \in Seq(Message) /\ messages' \in Seq(Message) /\ Prefix(messages, messages')
  BY Grow DEF IInv, TypeOK
<1>2. \A c : Answered(c) => Answered(c)'
  BY <1>1 DEF Prefix, Answered
<1>3. ASSUME NEW c \in Calls', c \notin Calls
      PROVE  /\ c[1] > Len(messages)
             /\ c[1] \in 1 .. Len(messages') /\ c[2] \in 1 .. messages'[c[1]].calls
  <2>1. c \in CallsOf(messages') /\ c \notin CallsOf(messages)
    BY <1>3 DEF Calls, CallsOf
  <2>2. c[1] \in 1 .. Len(messages') /\ c[2] \in 1 .. messages'[c[1]].calls
    BY <1>1, <2>1, CallsAre
  <2>3. ~ (c[1] <= Len(messages))
    BY <1>1, <2>1, CallsGrow
  <2> QED BY <1>1, <2>2, <2>3
<1> QED BY <1>2, <1>3

-----------------------------------------------------------------------------
(* What each action does to the thread.                                    *)

(* One message appended, as the nodes do it.                               *)
LEMMA AppendsOne ==
    ASSUME IInv, NEW m \in Message,
           messages' = Append(messages, m), merged' = Append(merged, 0), cursor' = cursor
    PROVE  Appends(<<m>>)
<1>1. messages \in Seq(Message) /\ merged \in Seq(Nat)
  BY DEF IInv, TypeOK
<1>2. messages' = messages \o <<m>> /\ merged' = merged \o <<0>>
  BY <1>1, AppendIsConcat
<1>3. [i \in 1 .. Len(<<m>>) |-> 0] = <<0>>
  OBVIOUS
<1> QED BY <1>2, <1>3 DEF Appends

(* A message of the user or the model leaves the calls of the others be.   *)
LEMMA Speaks ==
    ASSUME IInv, NEW m \in Message, m.kind # "tool", m.answers = Unset,
           messages' = Append(messages, m), merged' = Append(merged, 0), cursor' = cursor
    PROVE  /\ MergedOnce' /\ WholeTurns' /\ AnswersOK'
           /\ messages' \in Seq(Message) /\ Len(messages') = Len(messages) + 1
           /\ messages'[Len(messages')] = m
           /\ merged' \in Seq(Nat) /\ Len(merged') = Len(messages')
           /\ cursor' \in 0 .. Len(messages')
           /\ \A c : Answered(c) => Answered(c)'
           /\ \A c \in Calls' : c \in Calls \/ (c[1] = Len(messages') /\ c[2] \in 1 .. m.calls)
<1>1. Appends(<<m>>)
  BY AppendsOne
<1>2. AnswersOpen(<<m>>)
  BY DEF AnswersOpen
<1>3. /\ Len(messages) \in Nat /\ Len(messages') = Len(messages) + 1
      /\ messages'[Len(messages')] = m
  <2>1. Len(messages) \in Nat
    BY DEF IInv, TypeOK
  <2>2. Len(messages') = Len(messages) + Len(<<m>>) /\ messages'[Len(messages) + 1] = <<m>>[1]
    BY <1>1, Grow
  <2> QED BY <2>1, <2>2
<1>4. \A c : Answered(c) => Answered(c)'
  BY <1>1, GrowCalls
<1>5. ASSUME NEW c \in Calls', c \notin Calls
      PROVE  c[1] = Len(messages') /\ c[2] \in 1 .. m.calls
  <2>1. /\ c[1] > Len(messages) /\ c[1] \in 1 .. Len(messages')
        /\ c[2] \in 1 .. messages'[c[1]].calls
    BY <1>1, <1>5, GrowCalls
  <2>2. c[1] = Len(messages')
    BY <1>3, <2>1
  <2> QED BY <1>3, <2>1, <2>2
<1>6. MergedOnce' /\ WholeTurns' /\ AnswersOK'
  BY <1>1, <1>2, GrowMerged, GrowAnswers
<1>7. /\ messages' \in Seq(Message) /\ merged' \in Seq(Nat) /\ Len(merged') = Len(messages')
      /\ cursor' \in 0 .. Len(messages')
  BY <1>1, Grow
<1> QED BY <1>3, <1>4, <1>5, <1>6, <1>7

(* The tool message of the call in hand answers that call and no other.    *)
LEMMA AnswerGrows ==
    ASSUME IInv, NEW closing \in BOOLEAN,
           pending # Unset, Answer(closing), cursor' = cursor
    PROVE  /\ MergedOnce' /\ WholeTurns' /\ AnswersOK'
           /\ messages' \in Seq(Message)
           /\ merged' \in Seq(Nat) /\ Len(merged') = Len(messages')
           /\ cursor' \in 0 .. Len(messages')
           /\ \A c : Answered(c) => Answered(c)'
           /\ \E i \in 1 .. Len(messages') : messages'[i].answers = pending.call
           /\ Calls' \subseteq Calls
           /\ \A c : Open(c) /\ c # pending.call => Open(c)'
<1>0. PICK size \in Sizes :
        /\ messages' = messages \o (IF closing THEN <<Tool(pending.call, size), Ai(0, size)>>
                                              ELSE <<Tool(pending.call, size)>>)
        /\ merged' = merged \o [i \in 1 .. Len(IF closing
             THEN <<Tool(pending.call, size), Ai(0, size)>> ELSE <<Tool(pending.call, size)>>) |-> 0]
  BY DEF Answer
<1> DEFINE tool == Tool(pending.call, size)
<1> DEFINE ai == Ai(0, size)
<1> DEFINE new == IF closing THEN <<tool, ai>> ELSE <<tool>>
<1>1. pending.call \in Call /\ Open(pending.call)
  BY DEF IInv, TypeOK, HandOK, Pending
<1>2. pending.call # Unset
  BY <1>1, NoneAssumption
<1>3. tool \in Message /\ ai \in Message
  BY <1>1, SizeAssumption DEF Tool, Ai, Message
<1>4. /\ new \in Seq(Message) /\ Len(new) \in {1, 2} /\ new[1] = tool
      /\ Len(new) = 2 => new[2] = ai
  <2> HIDE DEF tool, ai
  <2> QED BY <1>3
<1>5. Appends(new)
  BY <1>0, <1>4 DEF Appends
<1> HIDE DEF new
<1>6. \A i \in 1 .. Len(new) : i = 1 \/ (i = 2 /\ new[i] = ai)
  <2>1. CASE Len(new) = 1
    BY <2>1
  <2>2. CASE Len(new) = 2
    BY <1>4, <2>2
  <2> QED BY <1>4, <2>1, <2>2
<1>7. AnswersOpen(new)
  BY <1>1, <1>4, <1>6 DEF AnswersOpen, Tool, Ai
<1>8. MergedOnce' /\ WholeTurns' /\ AnswersOK'
  BY <1>5, <1>7, GrowMerged, GrowAnswers
<1>9. /\ messages' \in Seq(Message) /\ merged' \in Seq(Nat) /\ Len(merged') = Len(messages')
      /\ cursor' \in 0 .. Len(messages')
  BY <1>5, Grow
<1>10. \A c : Answered(c) => Answered(c)'
  BY <1>5, GrowCalls
<1>11. \E i \in 1 .. Len(messages') : messages'[i].answers = pending.call
  <2>1. Len(messages) \in Nat /\ Len(messages') = Len(messages) + Len(new)
        /\ messages'[Len(messages) + 1] = new[1]
    BY <1>4, <1>5, Grow, GrowOneByOne
  <2>2. messages'[Len(messages) + 1].answers = pending.call
    BY <1>4, <2>1 DEF Tool
  <2>3. Len(messages) + 1 \in 1 .. Len(messages')
    BY <1>4, <2>1
  <2> QED BY <2>2, <2>3
<1>12. ASSUME NEW c \in Calls', c \notin Calls
       PROVE  FALSE
  <2>1. /\ c[1] > Len(messages) /\ c[1] \in 1 .. Len(messages')
        /\ c[2] \in 1 .. messages'[c[1]].calls
    BY <1>5, <1>12, GrowCalls
  <2>2. c[1] - Len(messages) \in 1 .. Len(new)
        /\ messages'[c[1]] = new[c[1] - Len(messages)]
    BY <1>5, <2>1, GrowOneByOne
  <2>3. messages'[c[1]].calls = 0
    BY <1>4, <1>6, <2>2 DEF Tool, Ai
  <2> QED BY <2>1, <2>3
<1>13. ASSUME NEW c, Open(c), c # pending.call
       PROVE  Open(c)'
  <2>1. c \in Call
    BY <1>13, CallsAre DEF Open, Calls, CallsOf, IInv, TypeOK
  <2>2. \A i \in 1 .. Len(new) : new[i].kind # "human" /\ new[i].answers # c
    BY <1>4, <1>6, <1>13, <2>1, NoneAssumption DEF Tool, Ai
  <2> QED BY <1>5, <1>13, <2>2, GrowOpen
<1> QED BY <1>8, <1>9, <1>10, <1>11, <1>12, <1>13

(* An action that says nothing leaves the thread's invariants alone.       *)
LEMMA ThreadUnmoved ==
    ASSUME IInv, UNCHANGED threadVars
    PROVE  /\ MergedOnce' /\ WholeTurns' /\ AnswersOK' /\ Calls' = Calls
           /\ messages' \in Seq(Message) /\ Len(messages') = Len(messages)
           /\ merged' \in Seq(Nat) /\ Len(merged') = Len(messages')
           /\ cursor' \in 0 .. Len(messages')
           /\ \A c : Answered(c)' <=> Answered(c)
           /\ \A c : Open(c)' <=> Open(c)
<1>1. messages' = messages /\ merged' = merged /\ cursor' = cursor
  BY DEF threadVars, foldVars
<1>2. MergedOnce' /\ WholeTurns'
  BY <1>1 DEF IInv, MergedOnce, WholeTurns, TurnsAfter, HumansIn
<1>3. Calls' = Calls /\ \A c : Answered(c)' <=> Answered(c)
  BY <1>1 DEF Calls, Answered
<1>4. AnswersOK'
  BY <1>1, <1>3 DEF IInv, AnswersOK, NoHuman
<1>5. \A c : Open(c)' <=> Open(c)
  BY <1>1, <1>3 DEF Open, NoHuman
<1>6. /\ messages' \in Seq(Message) /\ Len(messages') = Len(messages)
      /\ merged' \in Seq(Nat) /\ Len(merged') = Len(messages')
      /\ cursor' \in 0 .. Len(messages')
  BY <1>1 DEF IInv, TypeOK
<1> QED BY <1>2, <1>3, <1>4, <1>5, <1>6

-----------------------------------------------------------------------------
(* Every action preserves the invariant.                                   *)

(* A new message of the user finds its thread free of calls in hand.       *)
LEMMA InvokeKeeps ==
    ASSUME IInv, Invoke
    PROVE  IInv'
<1>1. PICK size \in Sizes : messages' = Append(messages, Human(size))
  BY DEF Invoke, StartTurn
<1>2. /\ Human(size) \in Message /\ Human(size).kind # "tool" /\ Human(size).answers = Unset
      /\ Human(size).calls = 0
      /\ merged' = Append(merged, 0) /\ cursor' = cursor
  BY SizeAssumption DEF Human, Message, Invoke, StartTurn, foldVars
<1>3. /\ MergedOnce' /\ WholeTurns' /\ AnswersOK'
      /\ messages' \in Seq(Message) /\ merged' \in Seq(Nat) /\ Len(merged') = Len(messages')
      /\ cursor' \in 0 .. Len(messages')
  BY <1>1, <1>2, Speaks
<1>4. /\ \A c : Answered(c) => Answered(c)'
      /\ \A c \in Calls' : c \in Calls
  <2>1. \A c \in Calls' : c \in Calls \/ (c[1] = Len(messages') /\ c[2] \in 1 .. Human(size).calls)
    BY <1>1, <1>2, Speaks
  <2> QED BY <1>1, <1>2, <2>1, Speaks
<1>5. phase' = "context" /\ pending' = Unset /\ queue' = <<>>
  BY DEF Invoke, StartTurn
<1>6. PhasesOK' /\ HandOK'
  BY <1>5 DEF PhasesOK, HandOK
<1>7. dropped' \subseteq Call
  <2>1. \A c \in Unanswered : c \in Call
    BY CallsAre DEF Unanswered, Calls, CallsOf, IInv, TypeOK
  <2>2. dropped' \subseteq dropped \cup Unanswered /\ dropped \subseteq Call
    BY DEF Invoke, StartTurn, IInv, TypeOK
  <2> QED BY <2>1, <2>2
<1>8. TypeOK'
  <2>1. prompt' \in Nat /\ badDigest' \in BOOLEAN /\ fresh' \in BOOLEAN
        /\ summary' = summary /\ facts' = facts
    BY SizeAssumption DEF Invoke, StartTurn, foldVars
  <2> QED BY <1>3, <1>5, <1>7, <2>1 DEF IInv, TypeOK, Pending
<1>9. ASSUME NEW c \in Calls, ~Answered(c)
      PROVE  c \in dropped'
  <2>1. CASE phase = "idle"
    <3>1. c \in dropped \/ Held(c)
      BY <1>9, <2>1 DEF IInv, AccountedOK
    <3>2. pending = Unset /\ queue = <<>>
      BY <2>1 DEF IInv, PhasesOK
    <3>3. ~Held(c)
      BY <2>1, <3>2 DEF Held
    <3> QED BY <2>1, <3>1, <3>3 DEF Invoke, StartTurn
  <2>2. CASE phase # "idle"
    <3>1. c \in Unanswered
      BY <1>9 DEF Unanswered, Answers, Answered
    <3> QED BY <2>2, <3>1 DEF Invoke, StartTurn
  <2> QED BY <2>1, <2>2
<1>10. AccountedOK'
  BY <1>4, <1>9 DEF AccountedOK
<1> QED BY <1>3, <1>6, <1>8, <1>10 DEF IInv

(* Steps of the compression and the supervisor that leave the thread.      *)
LEMMA PassesKeep ==
    ASSUME IInv, UNCHANGED threadVars, UNCHANGED callVars, TypeOK',
           \/ /\ phase \in {"idle", "context", "supervisor", "specialist"}
              /\ phase' \in {"idle", "context", "supervisor", "specialist"}
           \/ phase = "approval" /\ phase' = "execute"
           \/ phase' = "failed"
           \/ phase' = phase
    PROVE  IInv'
<1>1. /\ MergedOnce' /\ WholeTurns' /\ AnswersOK' /\ Calls' = Calls
      /\ \A c : Answered(c)' <=> Answered(c)
      /\ \A c : Open(c)' <=> Open(c)
  BY ThreadUnmoved
<1>2. pending' = pending /\ queue' = queue /\ dropped' = dropped
  BY DEF callVars
<1>3. PhasesOK'
  BY <1>2 DEF IInv, PhasesOK, threadVars
<1>4. HandOK'
  BY <1>1, <1>2 DEF IInv, HandOK
<1>5. AccountedOK'
  BY <1>1, <1>2 DEF IInv, AccountedOK, Held, threadVars
<1> QED BY <1>1, <1>3, <1>4, <1>5 DEF IInv

(* The older messages are followed by no fewer turns.                      *)
LEMMA TurnsFall ==
    ASSUME NEW i \in Nat, NEW j \in Nat, i <= j, Len(messages) \in Nat
    PROVE  TurnsAfter(j) \in Nat /\ TurnsAfter(i) \in Nat /\ TurnsAfter(j) <= TurnsAfter(i)
<1>1. j + 1 \in Int /\ i + 1 \in Int /\ j + 1 >= i + 1 /\ Len(messages) \in Int
      /\ Len(messages) <= Len(messages)
  OBVIOUS
<1>2. /\ Cardinality(HumansOf(messages, j + 1, Len(messages))) \in Nat
      /\ Cardinality(HumansOf(messages, i + 1, Len(messages))) \in Nat
      /\ Cardinality(HumansOf(messages, j + 1, Len(messages)))
           <= Cardinality(HumansOf(messages, i + 1, Len(messages)))
  BY <1>1, HumansFewer
<1> QED BY <1>2 DEF TurnsAfter, HumansIn, HumansOf

(* The summary takes every message up to the last candidate.               *)
LEMMA CompressKeeps ==
    ASSUME IInv, CompressContext
    PROVE  IInv'
<1> DEFINE n == Len(messages)
<1> DEFINE top == Max(Candidates)
<1>1. /\ messages \in Seq(Message) /\ n \in Nat /\ cursor \in 0 .. n
      /\ merged \in Seq(Nat) /\ Len(merged) = n
  BY DEF IInv, TypeOK
<1>2. Candidates = {i \in cursor + 1 .. n : TurnsAfter(i) >= RecentTurns}
  BY DEF CompressContext, IInv, PhasesOK, Candidates, TurnIsPending
<1>3. top \in Candidates /\ \A i \in Candidates : i <= top
  <2>1. Candidates \subseteq Nat /\ \A i \in Candidates : i <= n
    BY <1>1, <1>2
  <2>2. Candidates # {}
    BY DEF CompressContext
  <2> HIDE DEF n
  <2> QED BY <1>1, <2>1, <2>2, MaxIsReached
<1> HIDE DEF top
<1>4. top \in cursor + 1 .. n /\ TurnsAfter(top) >= RecentTurns /\ top \in Nat
  BY <1>1, <1>2, <1>3
<1>5. ASSUME NEW i \in cursor + 1 .. n
      PROVE  i \in Candidates <=> i <= top
  <2>1. ASSUME i <= top PROVE i \in Candidates
    <3>1. TurnsAfter(i) >= TurnsAfter(top) /\ TurnsAfter(i) \in Nat /\ TurnsAfter(top) \in Nat
      BY <1>1, <1>4, <2>1, TurnsFall
    <3> QED BY <1>2, <1>4, <3>1, RecentAssumption
  <2> QED BY <1>3, <2>1
<1>6. /\ messages' = messages /\ cursor' = top /\ phase = "context" /\ phase' = "supervisor"
      /\ merged' = [i \in 1 .. n |-> IF i \in Candidates THEN merged[i] + 1 ELSE merged[i]]
  BY DEF CompressContext, top
<1>7. ASSUME NEW i \in 1 .. n
      PROVE  merged'[i] = IF i <= top THEN 1 ELSE 0
  <2>1. merged[i] = IF i <= cursor THEN 1 ELSE 0
    BY DEF IInv, MergedOnce
  <2>2. CASE i <= cursor
    <3>1. i \notin Candidates /\ i <= top
      BY <1>1, <1>2, <1>4, <2>2
    <3> QED BY <1>6, <2>1, <2>2, <3>1
  <2>3. CASE i > cursor
    <3>1. i \in cursor + 1 .. n
      BY <1>1, <2>3
    <3>2. i \in Candidates <=> i <= top
      BY <1>5, <3>1
    <3> QED BY <1>1, <1>6, <2>1, <2>3, <3>2
  <2> QED BY <1>1, <2>2, <2>3
<1>8. MergedOnce'
  BY <1>6, <1>7 DEF MergedOnce
<1>9. merged' \in Seq(Nat) /\ Len(merged') = n
  <2>1. \A i \in 1 .. n : (IF i \in Candidates THEN merged[i] + 1 ELSE merged[i]) \in Nat
    BY <1>1
  <2> QED BY <1>1, <1>6, <2>1
<1>10. WholeTurns'
  <2>1. TurnsAfter(top) >= RecentTurns
    BY <1>4
  <2>2. (cursor > 0 => TurnsAfter(cursor) >= RecentTurns)'
    BY <1>6, <2>1 DEF TurnsAfter, HumansIn
  <2>3. ASSUME NEW i \in 1 .. n, messages[i].kind = "tool"
        PROVE  i <= top <=> messages[i].answers[1] <= top
    <3> DEFINE a == messages[i].answers[1]
    <3>1. messages[i].answers \in Calls /\ a < i /\ NoHuman(a, i)
      BY <2>3 DEF IInv, AnswersOK
    <3>2. a \in 1 .. n
      BY <1>1, <3>1, CallsAre DEF Calls, CallsOf
    <3>3. ASSUME a <= top, i > top PROVE FALSE
      <4>1. i \in cursor + 1 .. n
        BY <1>1, <1>4, <3>3
      <4>2. ~ (TurnsAfter(i) >= RecentTurns)
        BY <1>2, <1>5, <3>3, <4>1, <1>4
      <4>3. HumansIn(top + 1, n) \subseteq HumansIn(i + 1, n)
        <5>1. SUFFICES ASSUME NEW k \in top + 1 .. n, messages[k].kind = "human" PROVE k > i
          BY <1>1, <1>4, <3>3 DEF HumansIn
        <5>2. ASSUME k <= i PROVE k \in a + 1 .. i
          BY <1>1, <1>4, <3>2, <3>3, <5>2
        <5> QED BY <1>1, <1>4, <3>1, <5>1, <5>2 DEF NoHuman
      <4>4. HumansIn(i + 1, n) \subseteq HumansIn(top + 1, n)
        BY <1>1, <1>4, <3>3 DEF HumansIn
      <4>5. HumansIn(i + 1, Len(messages)) = HumansIn(top + 1, Len(messages))
        BY <4>3, <4>4
      <4>6. TurnsAfter(i) = TurnsAfter(top)
        BY <4>5 DEF TurnsAfter
      <4> QED BY <2>1, <4>2, <4>6
    <3> QED BY <1>1, <1>4, <3>1, <3>2, <3>3
  <2> QED BY <1>6, <2>2, <2>3 DEF WholeTurns
<1>11. /\ Calls' = Calls /\ \A c : Answered(c)' <=> Answered(c)
  BY <1>6 DEF Calls, Answered
<1>12. AnswersOK'
  BY <1>6, <1>11 DEF IInv, AnswersOK, NoHuman
<1>13. pending' = pending /\ queue' = queue /\ dropped' = dropped
       /\ pending = Unset /\ queue = <<>>
  BY <1>6 DEF CompressContext, callVars, IInv, PhasesOK
<1>14. TypeOK'
  <2>1. summary' \in Nat /\ facts' \in Nat
    BY SizeAssumption DEF CompressContext, IInv, TypeOK
  <2> QED BY <1>1, <1>4, <1>6, <1>9, <1>13, <2>1 DEF CompressContext, turnVars, IInv, TypeOK
<1>15. PhasesOK' /\ HandOK'
  BY <1>6, <1>13 DEF PhasesOK, HandOK
<1>16. AccountedOK'
  BY <1>6, <1>11, <1>13 DEF IInv, AccountedOK, Held
<1> QED BY <1>8, <1>10, <1>12, <1>14, <1>15, <1>16 DEF IInv

(* The supervisor hands the turn on or answers by itself.                  *)
LEMMA SupervisorKeeps ==
    ASSUME IInv, Supervisor
    PROVE  IInv'
<1>1. phase = "supervisor" /\ cursor' = cursor
      /\ pending' = pending /\ queue' = queue /\ dropped' = dropped
      /\ UNCHANGED foldVars /\ UNCHANGED turnVars
  BY DEF Supervisor, callVars, foldVars
<1>2. pending = Unset /\ queue = <<>>
  BY <1>1 DEF IInv, PhasesOK
<1>3. CASE phase' = "specialist" /\ UNCHANGED <<messages, merged>>
  <2>1. UNCHANGED threadVars /\ UNCHANGED callVars
    BY <1>1, <1>3 DEF threadVars, callVars
  <2>2. TypeOK'
    BY <1>1, <1>3 DEF foldVars, turnVars, IInv, TypeOK
  <2> QED BY <1>1, <1>3, <2>1, <2>2, PassesKeep
<1>4. CASE /\ \E size \in Sizes : messages' = Append(messages, Ai(0, size))
           /\ merged' = Append(merged, 0) /\ phase' = "idle"
  <2>0. PICK size \in Sizes : messages' = Append(messages, Ai(0, size))
    BY <1>4
  <2> DEFINE ai == Ai(0, size)
  <2>1. /\ messages' = Append(messages, ai)
        /\ ai \in Message /\ ai.kind # "tool" /\ ai.answers = Unset /\ ai.calls = 0
    BY <2>0, SizeAssumption DEF Ai, Message
  <2> HIDE DEF ai
  <2>2. /\ MergedOnce' /\ WholeTurns' /\ AnswersOK'
        /\ messages' \in Seq(Message) /\ merged' \in Seq(Nat) /\ Len(merged') = Len(messages')
        /\ cursor' \in 0 .. Len(messages')
        /\ \A c : Answered(c) => Answered(c)'
        /\ \A c \in Calls' : c \in Calls \/ (c[1] = Len(messages') /\ c[2] \in 1 .. ai.calls)
    BY <1>1, <1>4, <2>1, Speaks
  <2>3. TypeOK'
    BY <1>1, <1>4, <2>2 DEF foldVars, turnVars, IInv, TypeOK, Stopped
  <2>4. PhasesOK' /\ HandOK'
    BY <1>1, <1>2, <1>4 DEF PhasesOK, HandOK
  <2>5. \A c \in Calls : Answered(c) \/ c \in dropped
    BY <1>1, <1>2 DEF IInv, AccountedOK, Held
  <2>6. AccountedOK'
    BY <1>1, <2>1, <2>2, <2>5 DEF AccountedOK
  <2> QED BY <2>2, <2>3, <2>4, <2>6 DEF IInv
<1> QED BY <1>3, <1>4 DEF Supervisor

(* A specialist answers, or asks for calls that the tool loop then takes.  *)
LEMMA SpecialistKeeps ==
    ASSUME IInv, Specialist
    PROVE  IInv'
<1>0. PICK n \in 0 .. MaxCalls, size \in Sizes :
        /\ messages' = Append(messages, Ai(n, size))
        /\ phase' = IF n = 0 THEN "idle" ELSE "prepare_tool"
  BY DEF Specialist
<1> DEFINE ai == Ai(n, size)
<1>1. /\ messages' = Append(messages, ai) /\ merged' = Append(merged, 0)
      /\ phase' = IF n = 0 THEN "idle" ELSE "prepare_tool"
  BY <1>0 DEF Specialist
<1>2. /\ phase = "specialist" /\ cursor' = cursor /\ n \in Nat
      /\ pending' = pending /\ queue' = queue /\ dropped' = dropped
      /\ summary' = summary /\ facts' = facts
      /\ prompt' = prompt /\ badDigest' = badDigest /\ fresh' = FALSE
  BY SizeAssumption DEF Specialist, callVars, foldVars
<1>3. pending = Unset /\ queue = <<>>
  BY <1>2 DEF IInv, PhasesOK
<1>4. ai \in Message /\ ai.kind = "ai" /\ ai.answers = Unset /\ ai.calls = n
  BY <1>2, SizeAssumption DEF Ai, Message
<1> HIDE DEF ai
<1>5. /\ MergedOnce' /\ WholeTurns' /\ AnswersOK'
      /\ messages' \in Seq(Message) /\ merged' \in Seq(Nat) /\ Len(merged') = Len(messages')
      /\ messages'[Len(messages')] = ai /\ Len(messages') = Len(messages) + 1
      /\ cursor' \in 0 .. Len(messages')
      /\ \A c : Answered(c) => Answered(c)'
      /\ \A c \in Calls' : c \in Calls \/ (c[1] = Len(messages') /\ c[2] \in 1 .. ai.calls)
  BY <1>1, <1>2, <1>4, Speaks
<1>6. TypeOK'
  BY <1>1, <1>2, <1>5 DEF IInv, TypeOK, Stopped
<1>7. messages' # <<>>
  <2>1. Len(messages) \in Nat
    BY DEF IInv, TypeOK
  <2> QED BY <1>5, <2>1
<1>8. PhasesOK' /\ HandOK'
  BY <1>1, <1>2, <1>3, <1>4, <1>5, <1>7 DEF PhasesOK, HandOK
<1>9. \A c \in Calls : Answered(c) \/ c \in dropped
  BY <1>2, <1>3 DEF IInv, AccountedOK, Held
<1>10. ASSUME NEW c \in Calls'
       PROVE  Answered(c)' \/ c \in dropped' \/ Held(c)'
  <2>1. CASE c \in Calls
    BY <1>2, <1>5, <1>9, <2>1
  <2>2. CASE c \notin Calls
    <3>1. c[1] = Len(messages') /\ n # 0
      BY <1>2, <1>4, <1>5, <2>2
    <3> QED BY <1>1, <1>2, <1>3, <3>1 DEF Held
  <2> QED BY <2>1, <2>2
<1>11. AccountedOK'
  BY <1>10 DEF AccountedOK
<1> QED BY <1>5, <1>6, <1>8, <1>11 DEF IInv

(* The calls the tool loop takes next are open, each once.                 *)
LEMMA TodoOpen ==
    ASSUME IInv, phase = "prepare_tool"
    PROVE  /\ Todo \in Seq(Call)
           /\ \A k \in 1 .. Len(Todo) : Open(Todo[k])
           /\ \A j, k \in 1 .. Len(Todo) : Todo[j] = Todo[k] => j = k
           /\ \A c \in Calls : Held(c) => \E k \in 1 .. Len(Todo) : c = Todo[k]
<1> DEFINE n == Len(messages)
<1>1. messages \in Seq(Message) /\ n \in Nat /\ pending = Unset /\ queue \in Seq(Call)
  BY DEF IInv, TypeOK, PhasesOK
<1>2. CASE queue # <<>>
  <2>1. Todo = queue
    BY <1>2 DEF Todo
  <2>2. \A c \in Calls : Held(c) => \E k \in 1 .. Len(queue) : c = queue[k]
    BY <1>1, <1>2 DEF Held
  <2> QED BY <1>1, <2>1, <2>2 DEF IInv, HandOK
<1>3. CASE queue = <<>>
  <2>1. messages # <<>> /\ messages[n].kind = "ai"
    BY <1>3 DEF IInv, PhasesOK
  <2>2. n \in 1 .. n
    BY <1>1, <2>1
  <2> DEFINE said == {i \in 1 .. n : messages[i].kind = "ai"}
  <2>3. n \in said /\ said \subseteq Nat /\ \A i \in said : i <= n
    BY <1>1, <2>1, <2>2
  <2>4. Max(said) = n
    <3>1. Max(said) \in said /\ \A i \in said : i <= Max(said)
      <4> HIDE DEF said, n
      <4> QED BY <1>1, <2>3, MaxIsReached
    <3> QED BY <1>1, <2>3, <3>1
  <2>5. LatestAi = n
    BY <2>4 DEF LatestAi
  <2> DEFINE m == messages[n].calls
  <2>6. m \in Nat
    <3>1. messages[n] \in Message
      BY <1>1, <2>2
    <3> QED BY <3>1 DEF Message
  <2>7. Todo = [k \in 1 .. m |-> <<n, k>>]
    BY <1>3, <2>5 DEF Todo, LatestCalls
  <2>8. Len(Todo) = m /\ Todo \in Seq(Call) /\ \A k \in 1 .. m : Todo[k] = <<n, k>>
    <3>1. \A k \in 1 .. m : <<n, k>> \in Call
      BY <1>1 DEF Call
    <3> HIDE DEF n, m
    <3> QED BY <2>6, <2>7, <3>1
  <2>9. ASSUME NEW k \in 1 .. m
        PROVE  Open(<<n, k>>)
    <3>1. <<n, k>> \in Calls
      BY <1>1, <2>2, CallsAre DEF Calls, CallsOf, Call
    <3>2. ~Answered(<<n, k>>)
      <4>1. SUFFICES ASSUME NEW i \in 1 .. n, messages[i].answers = <<n, k>> PROVE FALSE
        BY DEF Answered
      <4>2. messages[i].answers # Unset
        BY <4>1, <1>1, NoneAssumption DEF Call
      <4>3. messages[i].answers[1] < i
        BY <4>2 DEF IInv, AnswersOK
      <4> QED BY <1>1, <4>1, <4>3
    <3>3. NoHuman(n, n)
      BY <1>1 DEF NoHuman
    <3> QED BY <3>1, <3>2, <3>3 DEF Open
  <2>10. ASSUME NEW c \in Calls, Held(c)
         PROVE  \E k \in 1 .. m : c = Todo[k]
    <3>1. c[1] = n
      BY <1>1, <1>3, <2>10 DEF Held
    <3>2. c \in Call /\ c[2] \in 1 .. m
      BY <1>1, <3>1, CallsAre DEF Calls, CallsOf
    <3>3. c = <<n, c[2]>>
      BY <3>1, <3>2 DEF Call
    <3> QED BY <2>8, <3>2, <3>3
  <2>11. \A j, k \in 1 .. m : Todo[j] = Todo[k] => j = k
    BY <2>8
  <2> HIDE DEF n, m
  <2> QED BY <2>8, <2>9, <2>10, <2>11
<1> QED BY <1>2, <1>3

(* The tool loop takes the first call in hand and keeps the others.        *)
LEMMA PrepareToolKeeps ==
    ASSUME IInv, PrepareTool
    PROVE  IInv'
<1>1. /\ phase = "prepare_tool" /\ Todo # <<>> /\ queue' = Tail(Todo) /\ dropped' = dropped
      /\ UNCHANGED threadVars /\ UNCHANGED turnVars
  BY DEF PrepareTool
<1>2. PICK gated \in BOOLEAN : /\ pending' = [call |-> Head(Todo), gated |-> gated]
                               /\ phase' = IF gated THEN "approval" ELSE "execute"
  BY DEF PrepareTool
<1>3. /\ Todo \in Seq(Call)
      /\ \A k \in 1 .. Len(Todo) : Open(Todo[k])
      /\ \A j, k \in 1 .. Len(Todo) : Todo[j] = Todo[k] => j = k
      /\ \A c \in Calls : Held(c) => \E k \in 1 .. Len(Todo) : c = Todo[k]
  BY <1>1, TodoOpen
<1>4. /\ Head(Todo) = Todo[1] /\ Head(Todo) \in Call /\ 1 \in 1 .. Len(Todo)
      /\ queue' \in Seq(Call) /\ Len(queue') = Len(Todo) - 1 /\ Len(Todo) \in Nat
      /\ \A k \in 1 .. Len(queue') : queue'[k] = Todo[k + 1] /\ k + 1 \in 1 .. Len(Todo)
  BY <1>1, <1>3
<1>5. pending' \in Pending /\ pending' # Unset /\ pending'.call = Todo[1]
  <2>1. pending' \in Pending
    BY <1>2, <1>4 DEF Pending
  <2> QED BY <1>2, <1>4, <2>1, NoneAssumption
<1>6. /\ MergedOnce' /\ WholeTurns' /\ AnswersOK' /\ Calls' = Calls
      /\ messages' \in Seq(Message) /\ merged' \in Seq(Nat) /\ Len(merged') = Len(messages')
      /\ cursor' \in 0 .. Len(messages')
      /\ \A c : Answered(c)' <=> Answered(c)
      /\ \A c : Open(c)' <=> Open(c)
  BY <1>1, ThreadUnmoved
<1>7. TypeOK'
  BY <1>1, <1>2, <1>4, <1>5, <1>6 DEF threadVars, foldVars, turnVars, IInv, TypeOK, Stopped
<1>8. PhasesOK'
  BY <1>2, <1>5 DEF PhasesOK
<1>9. HandOK'
  <2>1. ASSUME NEW k \in 1 .. Len(Todo)
        PROVE  /\ Todo[k] \in Calls'
               /\ \A i \in 1 .. Len(messages') : messages'[i].answers # Todo[k]
               /\ \A i \in Todo[k][1] + 1 .. Len(messages') : messages'[i].kind # "human"
    BY <1>1, <1>3, <1>6 DEF Open, Answered, NoHuman, threadVars
  <2>2. (pending # Unset => Open(pending.call))'
    BY <1>4, <1>5, <2>1 DEF Open, Answered, NoHuman
  <2>3. (\A k \in 1 .. Len(queue) : Open(queue[k]))'
    BY <1>4, <2>1 DEF Open, Answered, NoHuman
  <2>4. \A j, k \in 1 .. Len(queue') : queue'[j] = queue'[k] => j = k
    <3>1. ASSUME NEW j \in 1 .. Len(queue'), NEW k \in 1 .. Len(queue'), queue'[j] = queue'[k]
          PROVE  j = k
      <4>1. Todo[j + 1] = Todo[k + 1] /\ j + 1 \in 1 .. Len(Todo) /\ k + 1 \in 1 .. Len(Todo)
        BY <1>4, <3>1
      <4>2. j + 1 = k + 1
        BY <1>3, <4>1
      <4> QED BY <4>2
    <3> QED BY <3>1
  <2>5. \A k \in 1 .. Len(queue') : queue'[k] # pending'.call
    <3>1. ASSUME NEW k \in 1 .. Len(queue'), queue'[k] = pending'.call PROVE FALSE
      <4>1. Todo[k + 1] = Todo[1] /\ k + 1 \in 1 .. Len(Todo)
        BY <1>4, <1>5, <3>1
      <4>2. k + 1 = 1
        BY <1>3, <1>4, <4>1
      <4> QED BY <4>2
    <3> QED BY <3>1
  <2> QED BY <2>2, <2>3, <2>4, <2>5 DEF HandOK
<1>10. AccountedOK'
  <2>1. SUFFICES ASSUME NEW c \in Calls PROVE Answered(c)' \/ c \in dropped' \/ Held(c)'
    BY <1>6 DEF AccountedOK
  <2>2. Answered(c) \/ c \in dropped \/ \E k \in 1 .. Len(Todo) : c = Todo[k]
    BY <1>1, <1>3 DEF IInv, AccountedOK
  <2>3. ASSUME NEW k \in 1 .. Len(Todo), c = Todo[k] PROVE Held(c)'
    <3>1. CASE k = 1
      BY <1>5, <2>3, <3>1 DEF Held
    <3>2. CASE k # 1
      <4>1. k - 1 \in 1 .. Len(queue') /\ queue'[k - 1] = c
        BY <1>4, <2>3, <3>2
      <4> QED BY <4>1 DEF Held
    <3> QED BY <3>1, <3>2
  <2> QED BY <1>1, <1>6, <2>2, <2>3
<1> QED BY <1>6, <1>7, <1>8, <1>9, <1>10 DEF IInv

(* A tool runs: its call is answered, the others keep waiting.             *)
LEMMA ExecuteKeeps ==
    ASSUME IInv, Execute
    PROVE  IInv'
<1> DEFINE closing == pending.gated /\ queue = <<>>
<1>1. /\ phase = "execute" /\ pending # Unset /\ phase' = RouteAfterExecute(closing, queue)
      /\ UNCHANGED foldVars /\ cursor' = cursor
      /\ queue' = queue /\ dropped' = dropped /\ UNCHANGED turnVars
  BY DEF Execute, IInv, PhasesOK, foldVars
<1>2. closing \in BOOLEAN
  BY <1>1 DEF IInv, TypeOK, Pending
<1>3. Answer(closing)
  BY DEF Execute
<1>5. /\ MergedOnce' /\ WholeTurns' /\ AnswersOK'
      /\ messages' \in Seq(Message) /\ merged' \in Seq(Nat) /\ Len(merged') = Len(messages')
      /\ cursor' \in 0 .. Len(messages')
      /\ \A c : Answered(c) => Answered(c)'
      /\ \E i \in 1 .. Len(messages') : messages'[i].answers = pending.call
      /\ Calls' \subseteq Calls
      /\ \A c : Open(c) /\ c # pending.call => Open(c)'
  <2> HIDE DEF closing
  <2> QED BY <1>1, <1>2, <1>3, AnswerGrows
<1>6. pending' = Unset
  BY <1>3 DEF Answer
<1>7. /\ phase' \in {"idle", "specialist"} => queue = <<>>
      /\ phase' \in {"idle", "specialist", "prepare_tool"}
      /\ phase' = "prepare_tool" => queue # <<>>
  BY <1>1 DEF RouteAfterExecute
<1>8. TypeOK'
  BY <1>1, <1>5, <1>6, <1>7 DEF foldVars, turnVars, IInv, TypeOK, Stopped
<1>9. PhasesOK'
  BY <1>1, <1>6, <1>7 DEF PhasesOK
<1>10. HandOK'
  <2>1. ASSUME NEW k \in 1 .. Len(queue), NEW c, c = queue[k]
        PROVE  Open(c)'
    BY <1>1, <1>5, <2>1 DEF IInv, HandOK
  <2>2. (\A k \in 1 .. Len(queue) : Open(queue[k]))'
    BY <1>1, <2>1 DEF Open, Answered, NoHuman
  <2>3. \A j, k \in 1 .. Len(queue') : queue'[j] = queue'[k] => j = k
    BY <1>1 DEF IInv, HandOK
  <2> QED BY <1>6, <2>2, <2>3 DEF HandOK
<1>11. AccountedOK'
  <2>1. SUFFICES ASSUME NEW c \in Calls PROVE Answered(c)' \/ c \in dropped' \/ Held(c)'
    BY <1>5 DEF AccountedOK
  <2>2. Answered(c) \/ c \in dropped \/ Held(c)
    BY <1>1 DEF IInv, AccountedOK
  <2>3. Answered(c) \/ c \in dropped \/ c = pending.call
          \/ \E k \in 1 .. Len(queue) : c = queue[k]
    BY <1>1, <2>2 DEF Held
  <2>4. CASE c = pending.call
    BY <1>5, <2>4 DEF Answered
  <2>5. CASE \E k \in 1 .. Len(queue) : c = queue[k]
    BY <1>1, <2>5 DEF Held
  <2> QED BY <1>1, <1>5, <2>3, <2>4, <2>5
<1> QED BY <1>5, <1>8, <1>9, <1>10, <1>11 DEF IInv

(* A call is answered and those behind it are given up.                    *)
LEMMA GivesUpKeeps ==
    ASSUME IInv, NEW closing \in BOOLEAN, phase \in {"approval", "execute"},
           Answer(closing), GiveUpQueue, UNCHANGED foldVars, UNCHANGED turnVars,
           phase' \in {"idle", "specialist"}
    PROVE  IInv'
<1>1. pending # Unset /\ pending' = Unset /\ queue' = <<>>
      /\ dropped' = dropped \cup {queue[k] : k \in 1 .. Len(queue)}
  BY DEF IInv, PhasesOK, Answer, GiveUpQueue
<1>2. /\ MergedOnce' /\ WholeTurns' /\ AnswersOK'
      /\ messages' \in Seq(Message) /\ merged' \in Seq(Nat) /\ Len(merged') = Len(messages')
      /\ cursor' \in 0 .. Len(messages')
      /\ \A c : Answered(c) => Answered(c)'
      /\ \E i \in 1 .. Len(messages') : messages'[i].answers = pending.call
      /\ Calls' \subseteq Calls
  BY <1>1, AnswerGrows DEF foldVars
<1>3. dropped' \subseteq Call
  <2>1. queue \in Seq(Call) /\ dropped \subseteq Call
    BY DEF IInv, TypeOK
  <2> QED BY <1>1, <2>1
<1>4. TypeOK'
  BY <1>1, <1>2, <1>3 DEF foldVars, turnVars, IInv, TypeOK, Stopped
<1>5. PhasesOK' /\ HandOK'
  BY <1>1 DEF PhasesOK, HandOK
<1>6. AccountedOK'
  <2>1. SUFFICES ASSUME NEW c \in Calls PROVE Answered(c)' \/ c \in dropped'
    BY <1>2 DEF AccountedOK
  <2>2. Answered(c) \/ c \in dropped \/ c = pending.call
          \/ \E k \in 1 .. Len(queue) : c = queue[k]
    BY DEF IInv, AccountedOK, Held
  <2>3. CASE c = pending.call
    BY <1>2, <2>3 DEF Answered
  <2> QED BY <1>1, <1>2, <2>2, <2>3
<1> QED BY <1>2, <1>4, <1>5, <1>6 DEF IInv

(* Every step preserves the invariant.                                     *)
LEMMA StepKeeps ==
    ASSUME IInv, [Next]_vars
    PROVE  IInv'
<1>1. CASE Invoke
  BY <1>1, InvokeKeeps
<1>2. CASE KeepContext
  <2>1. /\ UNCHANGED threadVars /\ UNCHANGED callVars /\ badDigest' \in BOOLEAN
        /\ prompt' = prompt /\ fresh' = fresh
        /\ phase = "context" /\ phase' = "supervisor"
    BY <1>2 DEF KeepContext, IInv, TypeOK
  <2>2. TypeOK'
    BY <2>1 DEF threadVars, foldVars, callVars, IInv, TypeOK
  <2> QED BY <2>1, <2>2, PassesKeep
<1>3. CASE CompressContext
  BY <1>3, CompressKeeps
<1>4. CASE Supervisor
  BY <1>4, SupervisorKeeps
<1>5. CASE DoesNotFit
  <2>1. /\ UNCHANGED threadVars /\ UNCHANGED callVars /\ UNCHANGED turnVars
        /\ phase' = "failed"
    BY <1>5 DEF DoesNotFit
  <2>2. TypeOK'
    BY <2>1 DEF threadVars, foldVars, callVars, turnVars, IInv, TypeOK, Stopped
  <2> QED BY <2>1, <2>2, PassesKeep
<1>6. CASE Specialist
  BY <1>6, SpecialistKeeps
<1>7. CASE PrepareTool
  BY <1>7, PrepareToolKeeps
<1>8. CASE Approve
  <2>1. /\ UNCHANGED threadVars /\ UNCHANGED callVars /\ UNCHANGED turnVars
        /\ phase = "approval" /\ phase' = "execute"
    BY <1>8 DEF Approve
  <2>2. TypeOK'
    BY <2>1 DEF threadVars, foldVars, callVars, turnVars, IInv, TypeOK
  <2> QED BY <2>1, <2>2, PassesKeep
<1>9. CASE Execute
  BY <1>9, ExecuteKeeps
<1>10. CASE HandOff
  <2>1. PICK limit \in BOOLEAN : Answer(limit) /\ phase' = RouteAfterExecute(limit, <<>>)
    BY <1>10 DEF HandOff
  <2>2. phase' \in {"idle", "specialist"}
    BY <2>1 DEF RouteAfterExecute
  <2> QED BY <1>10, <2>1, <2>2, GivesUpKeeps DEF HandOff
<1>11. CASE Reject
  BY <1>11, GivesUpKeeps DEF Reject
<1>12. CASE Feedback
  BY <1>12, GivesUpKeeps DEF Feedback
<1>13. CASE NodeFails
  <2>1. /\ UNCHANGED threadVars /\ UNCHANGED callVars /\ UNCHANGED turnVars
        /\ phase' = "failed"
    BY <1>13 DEF NodeFails
  <2>2. TypeOK'
    BY <2>1 DEF threadVars, foldVars, callVars, turnVars, IInv, TypeOK, Stopped
  <2> QED BY <2>1, <2>2, PassesKeep
<1>14. CASE UNCHANGED vars
  <2>1. /\ UNCHANGED threadVars /\ UNCHANGED callVars /\ UNCHANGED turnVars
        /\ phase' = phase
    BY <1>14 DEF vars
  <2>2. TypeOK'
    BY <2>1 DEF threadVars, foldVars, callVars, turnVars, IInv, TypeOK
  <2> QED BY <2>1, <2>2, PassesKeep
<1> QED BY <1>1, <1>2, <1>3, <1>4, <1>5, <1>6, <1>7, <1>8, <1>9, <1>10, <1>11, <1>12,
           <1>13, <1>14 DEF Next

(* An empty thread satisfies the invariant.                                *)
LEMMA InitHolds == Init => IInv
<1> SUFFICES ASSUME Init PROVE IInv
  OBVIOUS
<1>1. /\ messages = <<>> /\ cursor = 0 /\ merged = <<>> /\ pending = Unset /\ queue = <<>>
      /\ phase = "idle" /\ dropped = {} /\ summary = 0 /\ facts = 0
      /\ prompt = 0 /\ badDigest = FALSE /\ fresh = TRUE
  BY DEF Init
<1>2. TypeOK
  <2>1. messages \in Seq(Message) /\ merged \in Seq(Nat) /\ queue \in Seq(Call)
        /\ Len(messages) = 0 /\ Len(merged) = 0
    BY <1>1
  <2>2. cursor \in 0 .. Len(messages) /\ summary \in Nat /\ facts \in Nat /\ prompt \in Nat
    BY <1>1, <2>1
  <2>3. pending \in Pending \cup {Unset} /\ phase \in Stopped /\ dropped \subseteq Call
    BY <1>1 DEF Stopped
  <2>4. badDigest \in BOOLEAN /\ fresh \in BOOLEAN
    BY <1>1
  <2> QED BY <2>1, <2>2, <2>3, <2>4 DEF TypeOK
<1>3. MergedOnce /\ WholeTurns /\ AnswersOK
  BY <1>1 DEF MergedOnce, WholeTurns, AnswersOK
<1>4. PhasesOK /\ HandOK
  BY <1>1 DEF PhasesOK, HandOK
<1>5. AccountedOK
  BY <1>1 DEF AccountedOK, Calls
<1> QED BY <1>2, <1>3, <1>4, <1>5 DEF IInv

(* The invariant holds in every reachable state.                           *)
LEMMA InvariantHolds == Spec => []IInv
<1>1. IInv /\ [Next]_vars => IInv'
  BY StepKeeps
<1> QED BY <1>1, InitHolds, PTL DEF Spec

-----------------------------------------------------------------------------
(* What follows from it.                                                   *)

(* A conversation only ever holds well-formed messages and calls.          *)
THEOREM ConversationTypes == Spec => []TypeOK
<1>1. IInv => TypeOK
  BY DEF IInv
<1> QED BY <1>1, InvariantHolds, PTL

(* The summary stands for each message up to the cursor exactly once, for  *)
(* any window, trigger and sizes, though the summariser may fail           *)
(* (compress_context).                                                     *)
THEOREM SummaryIsExact == Spec => []MergedOnce
<1>1. IInv => MergedOnce
  BY DEF IInv
<1> QED BY <1>1, InvariantHolds, PTL

(* The summary never parts a call from its tool message and leaves the     *)
(* last RecentTurns turns alone (_candidate_messages).                     *)
THEOREM SummaryTakesWholeTurns == Spec => []WholeTurns
<1>1. IInv => WholeTurns
  BY DEF IInv
<1> QED BY <1>1, InvariantHolds, PTL

(* A set in which any two elements are equal has at most one.              *)
LEMMA AtMostOne ==
    ASSUME NEW S, \A x, y \in S : x = y
    PROVE  Cardinality(S) <= 1
<1>1. CASE S = {}
  BY <1>1, FS_EmptySet
<1>2. CASE S # {}
  <2>1. PICK x \in S : S = {x}
    BY <1>2
  <2>2. Cardinality({x}) = 1
    BY FS_Singleton
  <2> QED BY <2>1, <2>2
<1> QED BY <1>1, <1>2

(* The model is only shown legal exchanges: every tool message follows the *)
(* call it answers within the turn, no call is answered twice, and when a  *)
(* specialist speaks each call is answered or was given up (the tool loop).*)
THEOREM ExchangeIsLegal == Spec => []CallsAnswered
<1>1. ASSUME IInv PROVE CallsAnswered
  <2>1. messages \in Seq(Message) /\ Len(messages) \in Nat
    BY <1>1 DEF IInv, TypeOK
  <2>2. ASSUME NEW c \in Calls PROVE Cardinality(Answers(c)) <= 1
    <3>1. c # Unset
      BY <2>1, CallsAre, NoneAssumption DEF Calls, CallsOf
    <3>2. \A x, y \in Answers(c) : x = y
      BY <1>1, <3>1 DEF Answers, IInv, AnswersOK
    <3> QED BY <3>2, AtMostOne
  <2>3. ASSUME NEW i \in 1 .. Len(messages), messages[i].kind = "tool"
        PROVE  /\ messages[i].answers \in Calls /\ messages[i].answers[1] < i
               /\ SameTurn(messages[i].answers[1], i)
    <3> DEFINE a == messages[i].answers[1]
    <3>1. messages[i].answers \in Calls /\ a < i /\ NoHuman(a, i)
      BY <1>1, <2>3 DEF IInv, AnswersOK
    <3>2. a \in 1 .. Len(messages)
      BY <2>1, <3>1, CallsAre DEF Calls, CallsOf
    <3> HIDE DEF a
    <3>3. Min({a, i}) = a
      BY <3>1, <3>2 DEF Min
    <3>4. Max({a, i}) = i
      BY <3>1, <3>2 DEF Max
    <3>5. HumansIn(a + 1, i) = {}
      BY <3>1 DEF HumansIn, NoHuman
    <3>6. SameTurn(a, i)
      BY <3>3, <3>4, <3>5 DEF SameTurn
    <3> QED BY <3>1, <3>6 DEF a
  <2>4. phase = "specialist" => Unanswered \subseteq dropped
    <3>1. SUFFICES ASSUME phase = "specialist", NEW c \in Unanswered PROVE c \in dropped
      OBVIOUS
    <3>2. c \in Calls /\ ~Answered(c)
      BY DEF Unanswered, Answers, Answered
    <3>3. c \in dropped \/ Held(c)
      BY <1>1, <3>1, <3>2 DEF IInv, AccountedOK
    <3>4. ~Held(c)
      BY <1>1, <3>1 DEF IInv, PhasesOK, Held
    <3> QED BY <3>3, <3>4
  <2> QED BY <2>2, <2>3, <2>4 DEF CallsAnswered
<1> QED BY <1>1, InvariantHolds, PTL

-----------------------------------------------------------------------------
(* The sum of the sizes of messages.                                       *)

(* A set of numbers that is not empty has a least one.                     *)
LEMMA LeastIsReached ==
    ASSUME NEW S, S \subseteq Nat, S # {}
    PROVE  \E x \in S : \A y \in S : ~(y < x)
<1>1. S \subseteq Nat /\ S # {}
  OBVIOUS
<1>2. \E x \in S : \A y \in S : ~ (<<y, x>> \in OpToRel(<, Nat))
  BY <1>1, WFMin, NatLessThanWellFounded
<1> QED
  BY <1>1, <1>2 DEF OpToRel

(* SumFunctionOnSet takes one element of a set after the other; how it     *)
(* picks them is its own affair.                                           *)
Pick(s) == CHOOSE x \in s : TRUE

SumStep(f, S, g) ==
    [s \in SUBSET S |-> IF s = {} THEN 0 ELSE f[Pick(s)] + g[s \ {Pick(s)}]]

LEMMA PickTakesOne ==
    ASSUME NEW S, IsFiniteSet(S), NEW s \in SUBSET S, s # {}
    PROVE  /\ Pick(s) \in s /\ s \ {Pick(s)} \in SUBSET S
           /\ Cardinality(s) \in Nat /\ Cardinality(s \ {Pick(s)}) \in Nat
           /\ Cardinality(s) = Cardinality(s \ {Pick(s)}) + 1
<1>1. Pick(s) \in s
  BY DEF Pick
<1>2. IsFiniteSet(s)
  BY FS_Subset
<1>3. IsFiniteSet(s \ {Pick(s)}) /\ Cardinality(s \ {Pick(s)}) = Cardinality(s) - 1
  BY <1>1, <1>2, FS_RemoveElement
<1>4. Cardinality(s) \in Nat /\ Cardinality(s \ {Pick(s)}) \in Nat
  BY <1>2, <1>3, FS_CardinalityType
<1> QED
  BY <1>1, <1>3, <1>4

LEMMA SubsetCounts ==
    ASSUME NEW S, IsFiniteSet(S), NEW s \in SUBSET S
    PROVE  Cardinality(s) \in Nat /\ (Cardinality(s) = 0 <=> s = {})
<1>1. IsFiniteSet(s)
  BY FS_Subset
<1> QED
  BY <1>1, FS_CardinalityType, FS_EmptySet

(* The equation of the sum has a solution: one that is right for the sets  *)
(* of up to n elements becomes right for one more by SumStep.              *)
LEMMA SumHasSolution ==
    ASSUME NEW S, IsFiniteSet(S), NEW f, \A x \in S : f[x] \in Nat
    PROVE  \E g : g = SumStep(f, S, g)
<1> DEFINE Right(g, n) ==
             \A s \in SUBSET S : Cardinality(s) <= n => g[s] = SumStep(f, S, g)[s]
           Hopeless == {n \in Nat : \A g \in [SUBSET S -> Nat] : ~Right(g, n)}
<1>1. \A g : SumStep(f, S, g) = [s \in SUBSET S |-> SumStep(f, S, g)[s]]
  BY DEF SumStep
<1>2. \A g : \A s \in SUBSET S :
        SumStep(f, S, g)[s] = IF s = {} THEN 0 ELSE f[Pick(s)] + g[s \ {Pick(s)}]
  BY DEF SumStep
<1>3. Hopeless = {}
  <2> SUFFICES ASSUME Hopeless # {} PROVE FALSE
    OBVIOUS
  <2>1. Hopeless \subseteq Nat
    OBVIOUS
  <2>2. PICK n \in Hopeless : \A m \in Hopeless : ~(m < n)
    <3> HIDE DEF Hopeless
    <3> QED
      BY <2>1, LeastIsReached
  <2>3. n \in Nat /\ \A g \in [SUBSET S -> Nat] : ~Right(g, n)
    OBVIOUS
  <2>4. n # 0
    <3> DEFINE zero == [s \in SUBSET S |-> 0]
    <3>1. zero \in [SUBSET S -> Nat] /\ \A s \in SUBSET S : zero[s] = 0
      OBVIOUS
    <3> HIDE DEF zero
    <3>2. ASSUME NEW s \in SUBSET S, Cardinality(s) <= 0
          PROVE  zero[s] = SumStep(f, S, zero)[s]
      <4>1. s = {}
        BY <3>2, SubsetCounts
      <4> QED
        BY <1>2, <3>1, <4>1
    <3>3. Right(zero, 0)
      BY <3>2
    <3> HIDE DEF Right
    <3> QED
      BY <2>3, <3>1, <3>3
  <2>5. n - 1 \in Nat /\ n - 1 < n
    BY <2>3, <2>4
  <2>6. PICK g \in [SUBSET S -> Nat] : Right(g, n - 1)
    <3>1. n - 1 \notin Hopeless
      <4> HIDE DEF Hopeless
      <4> QED
        BY <2>2, <2>5
    <3> QED
      BY <2>5, <3>1
  <2> DEFINE h == SumStep(f, S, g)
  <2>7. h \in [SUBSET S -> Nat]
    <3>1. ASSUME NEW s \in SUBSET S PROVE SumStep(f, S, g)[s] \in Nat
      <4>1. SumStep(f, S, g)[s] = IF s = {} THEN 0 ELSE f[Pick(s)] + g[s \ {Pick(s)}]
        BY <1>2
      <4>2. s # {} => Pick(s) \in S /\ s \ {Pick(s)} \in SUBSET S
        BY PickTakesOne
      <4> QED
        BY <4>1, <4>2
    <3> QED
      BY <1>1, <3>1
  <2>8. ASSUME NEW s \in SUBSET S, Cardinality(s) <= n
        PROVE  h[s] = SumStep(f, S, h)[s]
    <3>0. /\ h[s] = IF s = {} THEN 0 ELSE f[Pick(s)] + g[s \ {Pick(s)}]
          /\ SumStep(f, S, h)[s] = IF s = {} THEN 0 ELSE f[Pick(s)] + h[s \ {Pick(s)}]
      <4>1. h[s] = IF s = {} THEN 0 ELSE f[Pick(s)] + g[s \ {Pick(s)}]
        BY <1>2
      <4> HIDE DEF h
      <4> QED
        BY <1>2, <4>1
    <3> HIDE DEF h
    <3>1. CASE s = {}
      BY <3>0, <3>1
    <3>2. CASE s # {}
      <4> DEFINE less == s \ {Pick(s)}
      <4>1. less \in SUBSET S /\ Cardinality(less) <= n - 1
        BY <2>3, <2>8, <3>2, PickTakesOne
      <4>2. g[less] = h[less]
        <5> HIDE DEF less
        <5> QED
          BY <2>6, <4>1 DEF h
      <4>3. h[s] = f[Pick(s)] + g[less] /\ SumStep(f, S, h)[s] = f[Pick(s)] + h[less]
        BY <3>0, <3>2
      <4> QED
        BY <4>2, <4>3
    <3> QED
      BY <3>1, <3>2
  <2> HIDE DEF h
  <2> QED
    BY <2>3, <2>7, <2>8
<1>4. Cardinality(S) \in Nat
  BY FS_CardinalityType
<1>5. PICK g \in [SUBSET S -> Nat] : Right(g, Cardinality(S))
  BY <1>3, <1>4
<1>6. ASSUME NEW s \in SUBSET S
      PROVE  g[s] = SumStep(f, S, g)[s]
  BY <1>5, FS_Subset
<1>7. g = [s \in SUBSET S |-> g[s]]
  OBVIOUS
<1>8. g = SumStep(f, S, g)
  <2>1. [s \in SUBSET S |-> g[s]] = [s \in SUBSET S |-> SumStep(f, S, g)[s]]
    BY <1>6
  <2> QED
    BY <1>1, <1>7, <2>1
<1> QED
  BY <1>8

(* The sum of finitely many sizes is a number.                             *)
LEMMA SumIs ==
    ASSUME NEW S, IsFiniteSet(S), NEW f, \A x \in S : f[x] \in Nat
    PROVE  SumFunctionOnSet(f, S) \in Nat
<1> DEFINE sum == CHOOSE g : g = SumStep(f, S, g)
<1>1. SumFunctionOnSet(f, S) = sum[S]
  BY DEF SumFunctionOnSet, FoldFunctionOnSet, MapThenFoldSet, SumStep, Pick
<1>2. sum = SumStep(f, S, sum)
  BY SumHasSolution
<1> HIDE DEF sum
<1>3. ASSUME NEW s \in SUBSET S
      PROVE  sum[s] = IF s = {} THEN 0 ELSE f[Pick(s)] + sum[s \ {Pick(s)}]
  <2>1. SumStep(f, S, sum)[s] = IF s = {} THEN 0 ELSE f[Pick(s)] + sum[s \ {Pick(s)}]
    BY DEF SumStep
  <2> QED
    BY <1>2, <2>1
<1> DEFINE Fine(s) == sum[s] \in Nat
           Wrong == {n \in Nat : \E s \in SUBSET S : Cardinality(s) = n /\ ~Fine(s)}
<1>4. Wrong = {}
  <2> SUFFICES ASSUME Wrong # {} PROVE FALSE
    OBVIOUS
  <2>1. Wrong \subseteq Nat
    OBVIOUS
  <2>2. PICK n \in Wrong : \A m \in Wrong : ~(m < n)
    <3> HIDE DEF Wrong
    <3> QED
      BY <2>1, LeastIsReached
  <2>3. PICK s \in SUBSET S : Cardinality(s) = n /\ ~Fine(s)
    OBVIOUS
  <2>4. s # {}
    BY <1>3, <2>3, SubsetCounts
  <2> DEFINE less == s \ {Pick(s)}
  <2>5. /\ Pick(s) \in S /\ less \in SUBSET S /\ n = Cardinality(less) + 1
        /\ Cardinality(less) \in Nat /\ Cardinality(less) < n
    BY <2>3, <2>4, PickTakesOne
  <2>6. Fine(less)
    <3>1. Cardinality(less) \notin Wrong
      <4> HIDE DEF Wrong, less
      <4> QED
        BY <2>2, <2>5
    <3> QED
      BY <2>5, <3>1
  <2>7. sum[s] = f[Pick(s)] + sum[less]
    BY <1>3, <2>4
  <2> HIDE DEF less
  <2> QED
    BY <2>3, <2>5, <2>6, <2>7
<1>5. Fine(S)
  <2>1. Cardinality(S) \in Nat
    BY FS_CardinalityType
  <2> QED
    BY <1>4, <2>1
<1> QED
  BY <1>1, <1>5

-----------------------------------------------------------------------------
(* Turns that do not fit.                                                  *)

(* Whatever is not folded belongs to the last turns.                       *)
OnlyRecent == \A i \in cursor + 1 .. Len(messages) : TurnsAfter(i) < RecentTurns

(* A turn starts with the context compressed as far as it can be; once a   *)
(* specialist has spoken nothing is promised.                              *)
CompressedOK ==
    /\ phase \in {"supervisor", "specialist"} /\ fresh /\ ~badDigest =>
         Load < Trigger \/ OnlyRecent
    /\ phase \in {"prepare_tool", "approval", "execute"} => ~fresh

LEMMA ThreadIs ==
    ASSUME IInv
    PROVE  /\ Len(messages) \in Nat /\ cursor \in Nat /\ cursor <= Len(messages)
           /\ prompt \in Nat /\ summary \in Nat /\ facts \in Nat
           /\ \A i \in 1 .. Len(messages) : messages[i] \in Message /\ messages[i].size \in Nat
<1>1. \A m \in Message : m.size \in Nat
  BY DEF Message
<1> QED BY <1>1 DEF IInv, TypeOK

(* The input is a number of tokens.                                        *)
LEMMA LoadIs ==
    ASSUME IInv
    PROVE  Load \in Nat
<1> DEFINE size == [i \in 1 .. Len(messages) |-> messages[i].size]
           S == cursor + 1 .. Len(messages)
           sum == SumFunctionOnSet(size, S)
<1>1. /\ Len(messages) \in Nat /\ cursor \in Nat /\ cursor <= Len(messages)
      /\ prompt \in Nat /\ summary \in Nat /\ facts \in Nat
      /\ \A i \in 1 .. Len(messages) : messages[i].size \in Nat
  BY ThreadIs
<1>2. \A i \in S : size[i] \in Nat
  BY <1>1
<1>3. IsFiniteSet(S)
  <2>1. PICK a \in Int : a = cursor + 1
    BY <1>1
  <2>2. IsFiniteSet(a .. Len(messages))
    BY <1>1, FS_Interval
  <2> QED BY <2>1, <2>2
<1>4. sum \in Nat
  <2> HIDE DEF size, S
  <2> QED BY <1>2, <1>3, SumIs
<1>5. Load = prompt + summary + facts + sum
  BY DEF Load
<1> HIDE DEF size, S, sum
<1> QED BY <1>1, <1>4, <1>5

(* What is no candidate belongs to the last turns.                         *)
LEMMA OthersAreRecent ==
    ASSUME IInv, pending = Unset, NEW i \in cursor + 1 .. Len(messages), i \notin Candidates
    PROVE  TurnsAfter(i) < RecentTurns
<1>1. Len(messages) \in Nat /\ cursor \in Nat
  BY ThreadIs
<1>2. i \in Nat
  BY <1>1
<1>3. TurnsAfter(i) \in Nat
  BY <1>1, <1>2, TurnsFall
<1>4. ~(TurnsAfter(i) >= RecentTurns)
  BY DEF Candidates, TurnIsPending
<1> QED BY <1>3, <1>4, RecentAssumption

(* The thread is as it was.                                                *)
LEMMA RecentStays ==
    ASSUME UNCHANGED <<threadVars, prompt>>
    PROVE  Load' = Load /\ OnlyRecent' = OnlyRecent
<1>1. messages' = messages /\ cursor' = cursor /\ summary' = summary /\ facts' = facts
      /\ prompt' = prompt
  BY DEF threadVars, foldVars
<1> QED BY <1>1 DEF Load, OnlyRecent, TurnsAfter, HumansIn

(* A compression leaves nothing but the last turns.                        *)
LEMMA CompressLeavesRecent ==
    ASSUME IInv, CompressContext
    PROVE  OnlyRecent'
<1>1. /\ pending = Unset /\ Len(messages) \in Nat /\ cursor \in Nat
      /\ messages' = messages /\ Candidates # {} /\ cursor' = Max(Candidates)
  BY ThreadIs DEF CompressContext, IInv, PhasesOK
<1>2. Max(Candidates) \in Candidates /\ \A i \in Candidates : i <= Max(Candidates)
  <2>1. Candidates \subseteq Nat /\ \A i \in Candidates : i <= Len(messages)
    BY <1>1 DEF Candidates
  <2> QED BY <1>1, <2>1, MaxIsReached
<1>3. PICK top \in cursor + 1 .. Len(messages) :
        top = Max(Candidates) /\ \A i \in Candidates : i <= top
  BY <1>2 DEF Candidates
<1>4. ASSUME NEW i \in top + 1 .. Len(messages)
      PROVE  TurnsAfter(i) < RecentTurns
  <2>1. i \in cursor + 1 .. Len(messages) /\ ~(i <= top)
    BY <1>1, <1>3
  <2> QED BY <1>1, <1>3, <2>1, OthersAreRecent
<1> QED BY <1>1, <1>3, <1>4 DEF OnlyRecent, TurnsAfter, HumansIn

(* Every step keeps the turn's promise.                                    *)
LEMMA CompressionStep ==
    ASSUME IInv, CompressedOK, [Next]_vars
    PROVE  CompressedOK'
<1>1. CASE Invoke
  BY <1>1 DEF Invoke, StartTurn, CompressedOK
<1>2. CASE KeepContext
  <2>1. /\ phase = "context" /\ phase' = "supervisor" /\ pending = Unset
        /\ badDigest' = (Load >= Trigger /\ Candidates # {})
        /\ UNCHANGED <<threadVars, prompt>>
    BY <1>2 DEF KeepContext, IInv, PhasesOK
  <2>2. ASSUME ~badDigest' PROVE Load < Trigger \/ OnlyRecent
    <3>1. CASE Candidates = {}
      BY <2>1, <3>1, OthersAreRecent DEF OnlyRecent
    <3>2. CASE ~(Load >= Trigger)
      BY <3>2, LoadIs, SizeAssumption
    <3> QED BY <2>1, <2>2, <3>1, <3>2
  <2>3. Load' = Load /\ OnlyRecent' = OnlyRecent
    BY <2>1, RecentStays
  <2> QED BY <2>1, <2>2, <2>3 DEF CompressedOK
<1>3. CASE CompressContext
  <2>1. OnlyRecent' /\ phase' = "supervisor"
    BY <1>3, CompressLeavesRecent DEF CompressContext
  <2> QED BY <2>1 DEF CompressedOK
<1>4. CASE Supervisor
  <2>1. CASE phase' = "specialist" /\ UNCHANGED <<messages, merged>>
    <3>1. UNCHANGED <<threadVars, prompt>> /\ phase = "supervisor"
          /\ fresh' = fresh /\ badDigest' = badDigest
      BY <1>4, <2>1 DEF Supervisor, threadVars, turnVars
    <3>2. Load' = Load /\ OnlyRecent' = OnlyRecent
      BY <3>1, RecentStays
    <3> QED BY <2>1, <3>1, <3>2 DEF CompressedOK
  <2>2. CASE phase' = "idle"
    BY <2>2 DEF CompressedOK
  <2> QED BY <1>4, <2>1, <2>2 DEF Supervisor
<1>5. CASE DoesNotFit
  BY <1>5 DEF DoesNotFit, CompressedOK
<1>6. CASE Specialist
  BY <1>6 DEF Specialist, CompressedOK
<1>7. CASE PrepareTool \/ Approve \/ Execute \/ HandOff \/ Reject \/ Feedback
  <2>1. phase \in {"prepare_tool", "approval", "execute"} /\ fresh' = fresh
    BY <1>7 DEF PrepareTool, Approve, Execute, HandOff, Reject, Feedback, turnVars
  <2> QED BY <2>1 DEF CompressedOK
<1>8. CASE NodeFails
  BY <1>8 DEF NodeFails, CompressedOK
<1>9. CASE UNCHANGED vars
  <2>1. UNCHANGED <<threadVars, prompt>> /\ fresh' = fresh /\ badDigest' = badDigest
        /\ phase' = phase
    BY <1>9 DEF vars, turnVars
  <2>2. Load' = Load /\ OnlyRecent' = OnlyRecent
    BY <2>1, RecentStays
  <2> QED BY <2>1, <2>2 DEF CompressedOK
<1> QED BY <1>1, <1>2, <1>3, <1>4, <1>5, <1>6, <1>7, <1>8, <1>9 DEF Next

(* If no role adds more to the input than the largest input leaves above   *)
(* the trigger, the first call of a turn whose digest did not fail is      *)
(* refused only for the summary, the facts and the last RecentTurns turns, *)
(* however long messages are (compress_context, ContextWindowExceeded).    *)
THEOREM OnlyRecentTurnsAreRefused ==
    ASSUME \A extra \in RoleExtras : Trigger + extra <= MaxInput + 1
    PROVE  Spec => []OldTurnsMakeRoom
<1>1. Init => CompressedOK
  BY DEF Init, CompressedOK
<1>2. IInv /\ CompressedOK /\ [Next]_vars => CompressedOK'
  BY CompressionStep
<1>3. IInv /\ CompressedOK => OldTurnsMakeRoom
  <2> SUFFICES ASSUME IInv, CompressedOK, phase = "specialist", fresh, ~badDigest,
                      NEW extra \in RoleExtras, Load + extra > MaxInput
               PROVE  OnlyRecent
    BY DEF OldTurnsMakeRoom, OnlyRecent
  <2>1. Load \in Nat /\ extra \in Int /\ Trigger \in Nat /\ MaxInput \in Nat
    BY LoadIs, SizeAssumption
  <2>2. ~(Load < Trigger)
    BY <2>1
  <2> QED BY <2>2 DEF CompressedOK
<1> QED BY <1>1, <1>2, <1>3, InvariantHolds, PTL DEF Spec

-----------------------------------------------------------------------------
(* The pages of a tool result.                                             *)

LEMMA MaxOfTwo ==
    ASSUME NEW x \in Int, NEW y \in Int
    PROVE  Max({x, y}) = IF x >= y THEN x ELSE y
<1>1. CASE x >= y
  BY <1>1 DEF Max
<1>2. CASE ~(x >= y)
  BY <1>2 DEF Max
<1> QED
  BY <1>1, <1>2

LEMMA MinOfTwo ==
    ASSUME NEW x \in Int, NEW y \in Int
    PROVE  Min({x, y}) = IF x <= y THEN x ELSE y
<1>1. CASE x <= y
  BY <1>1 DEF Min
<1>2. CASE ~(x <= y)
  BY <1>2 DEF Min
<1> QED
  BY <1>1, <1>2

(* The pages of a result of some items, counted from one.                  *)
LEMMA PagesFollow ==
    ASSUME NEW page \in Nat \ {0}, NEW total \in Nat
    PROVE  LET upto == Min({page * PageSize, total})
           IN  /\ (page - 1) * PageSize \in Nat
               /\ Start(page) = (page - 1) * PageSize
               /\ page * PageSize = (page - 1) * PageSize + PageSize
               /\ upto \in Nat
               /\ Shown(total, page) = Start(page) + 1 .. upto
<1>1. PageSize \in Nat \ {0}
  BY PageAssumption
<1>2. Max({page - 1, 0}) = page - 1
  BY MaxOfTwo
<1>3. (page - 1) * PageSize \in Nat /\ page * PageSize = (page - 1) * PageSize + PageSize
  BY <1>1
<1>4. Min({page * PageSize, total}) \in Nat
  BY <1>3, <1>1, MinOfTwo
<1> QED
  BY <1>2, <1>3, <1>4 DEF Start, Shown

(* The first page shows the first items, ...                               *)
LEMMA FirstPage ==
    ASSUME NEW total \in Nat
    PROVE  Shown(total, 1) = 1 .. Min({1 * PageSize, total})
<1>1. PageSize \in Nat \ {0}
  BY PageAssumption
<1>2. Start(1) = 0
  <2>1. Max({1 - 1, 0}) = 0
    BY MaxOfTwo
  <2> QED
    BY <1>1, <2>1 DEF Start
<1> QED
  BY <1>2, PagesFollow

(* ... the next page those that follow, ...                                *)
LEMMA NextPageShows ==
    ASSUME NEW page \in Nat \ {0}, NEW total \in Nat
    PROVE  1 .. Min({page * PageSize, total}) \cup Shown(total, page + 1)
             = 1 .. Min({(page + 1) * PageSize, total})
<1> DEFINE from == page * PageSize
<1>1. PageSize \in Nat \ {0} /\ page + 1 \in Nat \ {0} /\ (page + 1) - 1 = page
  BY PageAssumption
<1>2. /\ from \in Nat /\ (page + 1) * PageSize = from + PageSize /\ Start(page + 1) = from
      /\ Shown(total, page + 1) = from + 1 .. Min({from + PageSize, total})
  BY <1>1, PagesFollow
<1> HIDE DEF from
<1>3. /\ Min({from, total}) = IF from <= total THEN from ELSE total
      /\ Min({from + PageSize, total}) = IF from + PageSize <= total THEN from + PageSize ELSE total
  BY <1>1, <1>2, MinOfTwo
<1>4. 1 .. Min({from, total}) \cup (from + 1 .. Min({from + PageSize, total}))
        = 1 .. Min({from + PageSize, total})
  BY <1>1, <1>2, <1>3
<1> QED
  BY <1>2, <1>4 DEF from

(* ... and there is more exactly when the items are not all shown.         *)
LEMMA MoreUntilAll ==
    ASSUME NEW page \in Nat \ {0}, NEW total \in Nat
    PROVE  HasMore(total, page) <=> 1 .. Min({page * PageSize, total}) # 1 .. total
<1> DEFINE from == (page - 1) * PageSize
<1>1. PageSize \in Nat \ {0}
  BY PageAssumption
<1>2. /\ from \in Nat /\ page * PageSize = from + PageSize /\ Start(page) = from
      /\ Shown(total, page) = from + 1 .. Min({from + PageSize, total})
  BY PagesFollow
<1> HIDE DEF from
<1>3. Min({from + PageSize, total}) = IF from + PageSize <= total THEN from + PageSize ELSE total
  BY <1>1, <1>2, MinOfTwo
<1>4. PICK upto \in Nat : upto = Min({from + PageSize, total})
  BY <1>1, <1>2, <1>3
<1>5. Cardinality(from + 1 .. upto) = IF from + 1 <= upto THEN upto - (from + 1) + 1 ELSE 0
  <2>1. PICK first \in Int : first = from + 1
    BY <1>2
  <2>2. Cardinality(first .. upto) = IF first > upto THEN 0 ELSE upto - first + 1
    <3>1. upto \in Int
      BY <1>4
    <3> QED
      BY <3>1, FS_Interval
  <2> QED
    BY <1>4, <2>1, <2>2
<1>6. HasMore(total, page) <=> from + PageSize < total
  BY <1>1, <1>2, <1>3, <1>4, <1>5 DEF HasMore
<1>7. 1 .. upto # 1 .. total <=> from + PageSize < total
  <2>1. CASE from + PageSize < total
    <3>1. upto < total /\ total \in 1 .. total /\ total \notin 1 .. upto
      BY <1>1, <1>2, <1>3, <1>4, <2>1
    <3> QED
      BY <2>1, <3>1
  <2>2. CASE ~(from + PageSize < total)
    BY <1>1, <1>2, <1>3, <1>4, <2>2
  <2> QED
    BY <2>1, <2>2
<1> QED
  BY <1>2, <1>4, <1>6, <1>7

-----------------------------------------------------------------------------
(* The references stand for stored results, each for one of its own.       *)

StoreOK == stored \in [Artifacts -> Totals \cup {Unset}]

RefsOK ==
    /\ refs \in Seq(Reference)
    /\ \A i \in 1 .. Len(refs) : stored[refs[i].id] # Unset
    /\ \A i, j \in 1 .. Len(refs) : refs[i].id = refs[j].id => i = j

(* A result whose pages were turned is shown up to the page it is at.      *)
TurnedOK ==
    /\ seen \in [Artifacts -> SUBSET Int] /\ turned \in [Artifacts -> BOOLEAN]
    /\ \A i \in 1 .. Len(refs) :
         turned[refs[i].id] =>
           /\ refs[i].lastPage \in Nat \ {0}
           /\ seen[refs[i].id] =
                1 .. Min({refs[i].lastPage * PageSize, stored[refs[i].id]})

ArtifactInv == StoreOK /\ RefsOK /\ TurnedOK

LEMMA RefsAre ==
    ASSUME RefsOK
    PROVE  Len(refs) \in Nat /\ \A i \in 1 .. Len(refs) : refs[i] \in Reference /\ refs[i].id \in Artifacts
<1>1. Len(refs) \in Nat /\ \A i \in 1 .. Len(refs) : refs[i] \in Reference
  BY DEF RefsOK
<1>2. \A r \in Reference : r.id \in Artifacts
  BY DEF Reference
<1> QED
  BY <1>1, <1>2

LEMMA InitArtifacts == ArtifactInit => ArtifactInv
<1> SUFFICES ASSUME ArtifactInit PROVE ArtifactInv
  OBVIOUS
<1>1. StoreOK
  BY DEF ArtifactInit, StoreOK
<1>2. RefsOK /\ TurnedOK
  BY DEF ArtifactInit, RefsOK, TurnedOK
<1> QED
  BY <1>1, <1>2 DEF ArtifactInv

LEMMA ArtifactsStay ==
    ASSUME ArtifactInv, UNCHANGED artifactVars
    PROVE  ArtifactInv'
<1>1. stored' = stored /\ refs' = refs /\ seen' = seen /\ turned' = turned
  BY DEF artifactVars
<1> QED
  BY <1>1 DEF ArtifactInv, StoreOK, RefsOK, TurnedOK

LEMMA PersistKeeps ==
    ASSUME ArtifactInv, Persist
    PROVE  ArtifactInv'
<1>1. PICK a \in Artifacts, total \in Totals :
        /\ stored[a] = Unset
        /\ stored' = [stored EXCEPT ![a] = total]
        /\ refs' = Append(refs, [id |-> a, lastPage |-> 1])
        /\ seen' = [seen EXCEPT ![a] = Shown(total, 1)]
        /\ turned' = turned
  BY DEF Persist
<1>2. total \in Nat /\ PageSize \in Nat \ {0}
  BY PageAssumption
<1>4. total # Unset
  BY <1>2, UnsetAssumption
<1>5. /\ stored' \in [Artifacts -> Totals \cup {Unset}]
      /\ stored'[a] = total /\ \A b \in Artifacts : b # a => stored'[b] = stored[b]
  BY <1>1 DEF ArtifactInv, StoreOK
<1>8. StoreOK'
  BY <1>5 DEF StoreOK
<1>9. PICK ref : ref = [id |-> a, lastPage |-> 1]
  OBVIOUS
<1>10. ref \in Reference /\ ref.id = a /\ ref.lastPage = 1
  BY <1>9 DEF Reference
<1>11. /\ refs' \in Seq(Reference) /\ Len(refs') = Len(refs) + 1 /\ refs'[Len(refs) + 1] = ref
       /\ \A i \in 1 .. Len(refs) : refs'[i] = refs[i]
  BY <1>1, <1>9, <1>10 DEF ArtifactInv, RefsOK
<1>12. \A i \in 1 .. Len(refs) : refs[i].id \in Artifacts /\ refs[i].id # a
  BY <1>1, RefsAre DEF ArtifactInv, RefsOK
<1>13. Len(refs) \in Nat
  BY RefsAre DEF ArtifactInv
<1>14. RefsOK'
  <2>1. \A i \in 1 .. Len(refs') : stored'[refs'[i].id] # Unset
    BY <1>4, <1>5, <1>10, <1>11, <1>12, <1>13 DEF ArtifactInv, RefsOK
  <2>2. \A i, j \in 1 .. Len(refs') : refs'[i].id = refs'[j].id => i = j
    BY <1>10, <1>11, <1>12, <1>13 DEF ArtifactInv, RefsOK
  <2> QED
    BY <1>11, <2>1, <2>2 DEF RefsOK
<1>15. Shown(total, 1) = 1 .. Min({1 * PageSize, total})
  BY <1>2, FirstPage
<1>16. /\ seen' \in [Artifacts -> SUBSET Int] /\ seen'[a] = Shown(total, 1)
       /\ \A b \in Artifacts : b # a => seen'[b] = seen[b]
  <2>1. seen \in [Artifacts -> SUBSET Int]
    BY DEF ArtifactInv, TurnedOK
  <2>2. Shown(total, 1) \in SUBSET Int
    BY DEF Shown
  <2> QED
    BY <1>1, <2>1, <2>2
<1>17. TurnedOK'
  <2>1. ASSUME NEW i \in 1 .. Len(refs'), turned'[refs'[i].id]
        PROVE  /\ refs'[i].lastPage \in Nat \ {0}
               /\ seen'[refs'[i].id] =
                    1 .. Min({refs'[i].lastPage * PageSize, stored'[refs'[i].id]})
    <3>1. CASE i = Len(refs) + 1
      <4>1. refs'[i].id = a /\ refs'[i].lastPage = 1 /\ stored'[a] = total
        BY <1>5, <1>10, <1>11, <3>1
      <4> QED
        BY <1>15, <1>16, <4>1
    <3>2. CASE i \in 1 .. Len(refs)
      <4>1. PICK b : b = refs[i].id
        OBVIOUS
      <4>2. refs'[i] = refs[i] /\ b \in Artifacts /\ b # a
        BY <1>11, <1>12, <3>2, <4>1
      <4>3. turned[b] /\ stored'[b] = stored[b] /\ seen'[b] = seen[b]
        BY <1>1, <1>5, <1>16, <2>1, <4>1, <4>2
      <4>4. /\ refs[i].lastPage \in Nat \ {0}
            /\ seen[b] = 1 .. Min({refs[i].lastPage * PageSize, stored[b]})
        BY <3>2, <4>1, <4>3 DEF ArtifactInv, TurnedOK
      <4> QED
        BY <4>1, <4>2, <4>3, <4>4
    <3> QED
      BY <1>11, <1>13, <3>1, <3>2
  <2> QED
    BY <1>1, <1>16, <2>1 DEF ArtifactInv, TurnedOK
<1> QED
  BY <1>8, <1>14, <1>17 DEF ArtifactInv

(* A read leaves the references where they are, but for their last page.   *)
LEMMA RememberIs ==
    ASSUME RefsOK, NEW a, NEW page, page \in Nat \/ page = Unset, refs' = Remember(a, page),
           stored' = stored
    PROVE  /\ RefsOK' /\ Len(refs') = Len(refs)
           /\ \A i \in 1 .. Len(refs) :
                /\ refs'[i].id = refs[i].id
                /\ refs'[i].lastPage = IF refs[i].id = a THEN page ELSE refs[i].lastPage
<1>1. Len(refs) \in Nat /\ \A i \in 1 .. Len(refs) : refs[i] \in Reference
  BY DEF RefsOK
<1>2. \A i \in 1 .. Len(refs) :
        /\ [refs[i] EXCEPT !.lastPage = page] \in Reference
        /\ [refs[i] EXCEPT !.lastPage = page].id = refs[i].id
        /\ [refs[i] EXCEPT !.lastPage = page].lastPage = page
  BY <1>1 DEF Reference
<1>3. /\ refs' \in Seq(Reference) /\ Len(refs') = Len(refs)
      /\ \A i \in 1 .. Len(refs) :
           refs'[i] = IF refs[i].id = a THEN [refs[i] EXCEPT !.lastPage = page] ELSE refs[i]
  BY <1>1, <1>2 DEF Remember
<1>4. \A i \in 1 .. Len(refs) :
        /\ refs'[i].id = refs[i].id
        /\ refs'[i].lastPage = IF refs[i].id = a THEN page ELSE refs[i].lastPage
  BY <1>2, <1>3
<1>5. RefsOK'
  BY <1>3, <1>4 DEF RefsOK
<1> QED
  BY <1>3, <1>4, <1>5

LEMMA ReadPageKeeps ==
    ASSUME ArtifactInv, NEW a \in Artifacts, NEW page \in Int, ReadPage(a, page)
    PROVE  ArtifactInv'
<1>1. CASE stored[a] = Unset
  BY <1>1, ArtifactsStay DEF ReadPage
<1>2. CASE stored[a] # Unset
  <2>1. PICK at : at = Max({page, 1})
    OBVIOUS
  <2>2. at \in Nat \ {0}
    BY <2>1, MaxOfTwo
  <2>3. /\ seen' = [seen EXCEPT ![a] = @ \cup Shown(stored[a], at)]
        /\ refs' = Remember(a, at)
        /\ turned' = [turned EXCEPT ![a] =
             @ /\ \E i \in 1 .. Len(refs) : refs[i].id = a /\ NextPage(refs[i]) = at]
        /\ stored' = stored
    BY <1>2, <2>1 DEF ReadPage
  <2>4. stored[a] \in Nat
    BY <1>2, PageAssumption DEF ArtifactInv, StoreOK
  <2>5. PICK total \in Nat : total = stored[a]
    BY <2>4
  <2>6. StoreOK'
    BY <2>3 DEF ArtifactInv, StoreOK
  <2>7. /\ RefsOK' /\ Len(refs') = Len(refs)
        /\ \A i \in 1 .. Len(refs) :
             /\ refs'[i].id = refs[i].id
             /\ refs'[i].lastPage = IF refs[i].id = a THEN at ELSE refs[i].lastPage
    BY <2>2, <2>3, RememberIs DEF ArtifactInv
  <2>8. Shown(total, at) \subseteq Int
    BY DEF Shown
  <2>9. /\ seen' \in [Artifacts -> SUBSET Int] /\ seen'[a] = seen[a] \cup Shown(total, at)
        /\ \A b \in Artifacts : b # a => seen'[b] = seen[b]
    BY <2>3, <2>4, <2>5, <2>8 DEF ArtifactInv, TurnedOK
  <2>10. /\ turned' \in [Artifacts -> BOOLEAN]
         /\ \A b \in Artifacts : b # a => turned'[b] = turned[b]
         /\ turned'[a] => turned[a] /\
              \E i \in 1 .. Len(refs) : refs[i].id = a /\ NextPage(refs[i]) = at
    BY <2>3 DEF ArtifactInv, TurnedOK
  <2>11. TurnedOK'
    <3>1. ASSUME NEW i \in 1 .. Len(refs), turned'[refs[i].id]
          PROVE  /\ refs'[i].lastPage \in Nat \ {0}
                 /\ seen'[refs[i].id] =
                      1 .. Min({refs'[i].lastPage * PageSize, stored[refs[i].id]})
      <4>1. refs[i].id \in Artifacts
        BY RefsAre DEF ArtifactInv
      <4>2. CASE refs[i].id # a
        BY <2>7, <2>9, <2>10, <3>1, <4>1, <4>2 DEF ArtifactInv, TurnedOK
      <4>3. CASE refs[i].id = a
        <5>1. turned[a] /\ NextPage(refs[i]) = at
          BY <2>10, <3>1, <4>3 DEF ArtifactInv, RefsOK
        <5>2. PICK last : last = refs[i].lastPage
          OBVIOUS
        <5>3. /\ last \in Nat \ {0} /\ at = last + 1
              /\ seen[a] = 1 .. Min({last * PageSize, total})
          BY <2>5, <4>3, <5>1, <5>2, UnsetAssumption DEF ArtifactInv, TurnedOK, NextPage
        <5>4. seen'[a] = 1 .. Min({(last + 1) * PageSize, total})
          BY <2>9, <5>3, NextPageShows
        <5> QED
          BY <2>2, <2>5, <2>7, <4>3, <5>3, <5>4
      <4> QED
        BY <4>2, <4>3
    <3>2. ASSUME NEW i \in 1 .. Len(refs'), turned'[refs'[i].id]
          PROVE  /\ refs'[i].lastPage \in Nat \ {0}
                 /\ seen'[refs'[i].id] =
                      1 .. Min({refs'[i].lastPage * PageSize, stored'[refs'[i].id]})
      <4>1. i \in 1 .. Len(refs) /\ refs'[i].id = refs[i].id
        BY <2>7, <3>2
      <4> QED
        BY <2>3, <3>1, <3>2, <4>1
    <3> QED
      BY <2>9, <2>10, <3>2 DEF TurnedOK
  <2> QED
    BY <2>6, <2>7, <2>11 DEF ArtifactInv
<1> QED
  BY <1>1, <1>2

LEMMA ReadDetailKeeps ==
    ASSUME ArtifactInv, NEW a \in Artifacts, ReadDetail(a)
    PROVE  ArtifactInv'
<1>1. CASE stored[a] = Unset
  BY <1>1, ArtifactsStay DEF ReadDetail
<1>2. CASE stored[a] # Unset
  <2>1. /\ refs' = Remember(a, Unset) /\ turned' = [turned EXCEPT ![a] = FALSE]
        /\ stored' = stored /\ seen' = seen
    BY <1>2 DEF ReadDetail
  <2>2. /\ RefsOK' /\ Len(refs') = Len(refs)
        /\ \A i \in 1 .. Len(refs) :
             /\ refs'[i].id = refs[i].id
             /\ refs'[i].lastPage = IF refs[i].id = a THEN Unset ELSE refs[i].lastPage
    <3>1. PICK at : at = Unset
      OBVIOUS
    <3>2. RefsOK /\ refs' = Remember(a, at) /\ stored' = stored
      BY <2>1, <3>1 DEF ArtifactInv
    <3>3. /\ RefsOK' /\ Len(refs') = Len(refs)
          /\ \A i \in 1 .. Len(refs) :
               /\ refs'[i].id = refs[i].id
               /\ refs'[i].lastPage = IF refs[i].id = a THEN at ELSE refs[i].lastPage
      BY <3>1, <3>2, RememberIs
    <3> QED
      BY <3>1, <3>3
  <2>3. /\ turned' \in [Artifacts -> BOOLEAN] /\ ~turned'[a]
        /\ \A b \in Artifacts : b # a => turned'[b] = turned[b]
    BY <2>1 DEF ArtifactInv, TurnedOK
  <2>4. \A i \in 1 .. Len(refs) : refs[i].id \in Artifacts
    BY RefsAre DEF ArtifactInv
  <2>5. TurnedOK'
    <3>1. ASSUME NEW i \in 1 .. Len(refs'), turned'[refs'[i].id]
          PROVE  /\ refs'[i].lastPage \in Nat \ {0}
                 /\ seen'[refs'[i].id] =
                      1 .. Min({refs'[i].lastPage * PageSize, stored'[refs'[i].id]})
      <4>1. i \in 1 .. Len(refs) /\ refs'[i].id = refs[i].id /\ refs[i].id \in Artifacts
        BY <2>2, <2>4, <3>1
      <4>2. refs[i].id # a /\ turned[refs[i].id]
        BY <2>3, <3>1, <4>1
      <4>3. refs'[i].lastPage = refs[i].lastPage
        BY <2>2, <4>1, <4>2
      <4> QED
        BY <2>1, <4>1, <4>2, <4>3 DEF ArtifactInv, TurnedOK
    <3>2. seen' \in [Artifacts -> SUBSET Int]
      BY <2>1 DEF ArtifactInv, TurnedOK
    <3> QED
      BY <2>3, <3>1, <3>2 DEF TurnedOK
  <2>6. StoreOK'
    BY <2>1 DEF ArtifactInv, StoreOK
  <2> QED
    BY <2>2, <2>5, <2>6 DEF ArtifactInv
<1> QED
  BY <1>1, <1>2

(* Only an executed tool touches the results.                              *)
LEMMA ArtifactsHold == Spec => []ArtifactInv
<1>1. Init => ArtifactInv
  BY InitArtifacts DEF Init
<1>2. ArtifactInv /\ [Next]_vars => ArtifactInv'
  <2> SUFFICES ASSUME ArtifactInv, [Next]_vars PROVE ArtifactInv'
    OBVIOUS
  <2>1. CASE Execute
    <3>1. ToolOutcome(pending.gated)
      BY <2>1 DEF Execute
    <3>2. Pages \subseteq Int
      BY DEF Pages
    <3> QED
      BY <3>1, <3>2, ArtifactsStay, PersistKeeps, ReadPageKeeps, ReadDetailKeeps
         DEF ToolOutcome, Inline
  <2>2. CASE ~Execute
    <3>1. UNCHANGED artifactVars
      BY <2>2 DEF Next, Invoke, StartTurn, KeepContext, CompressContext, Supervisor, DoesNotFit, Specialist,
                  PrepareTool, Approve, HandOff, Reject, Feedback, NodeFails, vars
    <3> QED
      BY <3>1, ArtifactsStay
  <2> QED
    BY <2>1, <2>2
<1> QED
  BY <1>1, <1>2, PTL DEF Spec

(* A result of any length whose pages are turned one by one shows its      *)
(* items once and in order, and says that there is more exactly while      *)
(* there is, for any page size (artifacts.py, artifact_page_payload).      *)
THEOREM PagesShowEveryItem == Spec => []PagesInOrder
<1>1. ArtifactInv => PagesInOrder
  <2> SUFFICES ASSUME ArtifactInv, NEW i \in 1 .. Len(refs), turned[refs[i].id]
               PROVE  /\ seen[refs[i].id] =
                           1 .. Min({refs[i].lastPage * PageSize, stored[refs[i].id]})
                      /\ HasMore(stored[refs[i].id], refs[i].lastPage)
                           <=> seen[refs[i].id] # 1 .. stored[refs[i].id]
    BY DEF PagesInOrder
  <2>1. refs[i].id \in Artifacts /\ stored[refs[i].id] # Unset
    BY RefsAre DEF ArtifactInv, RefsOK
  <2>2. stored[refs[i].id] \in Nat
    BY <2>1, PageAssumption DEF ArtifactInv, StoreOK
  <2>3. /\ refs[i].lastPage \in Nat \ {0}
        /\ seen[refs[i].id] = 1 .. Min({refs[i].lastPage * PageSize, stored[refs[i].id]})
    BY DEF ArtifactInv, TurnedOK
  <2> QED
    BY <2>2, <2>3, MoreUntilAll
<1> QED
  BY <1>1, ArtifactsHold, PTL

=============================================================================

--------------------------- MODULE WorkspaceProofs ---------------------------
(* Proofs about Workspace for any number of sessions, tasks, approvals and *)
(* callbacks that overlap.                                                 *)
EXTENDS Workspace, FiniteSetTheorems, WellFoundedInduction, TLAPS

(* The task at the newest rank of those in S.                              *)
NewestOf(r, t, S) == \E i \in 1 .. Len(r) : r[i] = t /\ \A j \in i + 1 .. Len(r) : r[j] \notin S

LEMMA TouchRanks ==
    ASSUME recent \in Seq(Tasks), NEW t \in Tasks, Touch(t)
    PROVE  /\ recent' \in Seq(Tasks) /\ Len(recent') # 0 /\ recent'[Len(recent')] = t
           /\ \E i \in 1 .. Len(recent) + 1 :
                /\ Len(recent') = IF i = Len(recent) + 1 THEN Len(recent) + 1 ELSE Len(recent)
                /\ i # Len(recent) + 1 => recent[i] = t
                /\ \A j \in 1 .. Len(recent') - 1 :
                     recent'[j] = recent[IF j < i THEN j ELSE j + 1]
<1>1. CASE Ranks(t) = {}
  <2>1. recent' = Append(recent, t)
    BY <1>1 DEF Touch
  <2>2. /\ recent' \in Seq(Tasks) /\ Len(recent') = Len(recent) + 1
        /\ recent'[Len(recent) + 1] = t /\ \A j \in 1 .. Len(recent) : recent'[j] = recent[j]
    BY <2>1
  <2> QED
    BY <2>2
<1>2. CASE Ranks(t) # {}
  <2>1. PICK i \in 1 .. Len(recent) :
          /\ recent[i] = t
          /\ recent' = SubSeq(recent, 1, i - 1) \o SubSeq(recent, i + 1, Len(recent)) \o <<t>>
    BY <1>2 DEF Touch, Ranks
  <2>2. PICK p, q : p = SubSeq(recent, 1, i - 1) /\ q = SubSeq(recent, i + 1, Len(recent))
    OBVIOUS
  <2>3. SubSeq(recent, 1, i - 1) \in Seq(Tasks) /\ SubSeq(recent, i + 1, Len(recent)) \in Seq(Tasks)
    OBVIOUS
  <2>4. /\ Len(SubSeq(recent, 1, i - 1)) = i - 1
        /\ \A j \in 1 .. i - 1 : SubSeq(recent, 1, i - 1)[j] = recent[j]
    OBVIOUS
  <2>5. /\ Len(SubSeq(recent, i + 1, Len(recent))) = Len(recent) - i
        /\ \A j \in 1 .. Len(recent) - i : SubSeq(recent, i + 1, Len(recent))[j] = recent[i + j]
    OBVIOUS
  <2>6. recent' = (p \o q) \o <<t>> /\ p \in Seq(Tasks) /\ q \in Seq(Tasks)
        /\ Len(p) = i - 1 /\ Len(q) = Len(recent) - i
        /\ (\A j \in 1 .. i - 1 : p[j] = recent[j])
        /\ (\A j \in 1 .. Len(recent) - i : q[j] = recent[i + j])
    BY <2>1, <2>2, <2>3, <2>4, <2>5
  <2>7. /\ recent' \in Seq(Tasks) /\ Len(recent') = Len(recent) /\ recent'[Len(recent')] = t
    BY <2>6
  <2>8. ASSUME NEW j \in 1 .. Len(recent') - 1
        PROVE  recent'[j] = recent[IF j < i THEN j ELSE j + 1]
    <3>1. recent'[j] = (p \o q)[j]
      BY <2>6, <2>7
    <3>2. CASE j < i
      BY <2>6, <3>1, <3>2
    <3>3. CASE j >= i
      <4>1. (p \o q)[j] = q[j - (i - 1)]
        BY <2>6, <2>7, <3>3
      <4>2. q[j - (i - 1)] = recent[i + (j - (i - 1))]
        BY <2>6, <2>7, <3>3
      <4>3. i + (j - (i - 1)) = j + 1
        OBVIOUS
      <4> QED
        BY <3>1, <3>3, <4>1, <4>2, <4>3
    <3> QED
      BY <3>2, <3>3
  <2>9. i \in 1 .. Len(recent) + 1 /\ i # Len(recent) + 1 /\ Len(recent') # 0
    BY <2>7
  <2>10. /\ Len(recent') = IF i = Len(recent) + 1 THEN Len(recent) + 1 ELSE Len(recent)
         /\ i # Len(recent) + 1 => recent[i] = t
         /\ \A j \in 1 .. Len(recent') - 1 : recent'[j] = recent[IF j < i THEN j ELSE j + 1]
    BY <2>1, <2>7, <2>8, <2>9
  <2> QED
    BY <2>7, <2>9, <2>10
<1> QED
  BY <1>1, <1>2

(* A touch makes its task the newest, and leaves the order of the others.  *)
LEMMA TouchNewest ==
    ASSUME recent \in Seq(Tasks), NEW t \in Tasks, Touch(t), NEW S
    PROVE  /\ NewestOf(recent', t, S)
           /\ t \notin S => \A u : u # t /\ NewestOf(recent, u, S) => NewestOf(recent', u, S)
           /\ \A u : u # t /\ (\E i \in 1 .. Len(recent) : recent[i] = u)
                => \E i \in 1 .. Len(recent') : recent'[i] = u
<1>1. /\ recent' \in Seq(Tasks) /\ Len(recent') # 0 /\ recent'[Len(recent')] = t
  BY TouchRanks
<1>2. PICK i \in 1 .. Len(recent) + 1 :
        /\ Len(recent') = IF i = Len(recent) + 1 THEN Len(recent) + 1 ELSE Len(recent)
        /\ i # Len(recent) + 1 => recent[i] = t
        /\ \A j \in 1 .. Len(recent') - 1 : recent'[j] = recent[IF j < i THEN j ELSE j + 1]
  BY TouchRanks
<1>3. NewestOf(recent', t, S)
  BY <1>1 DEF NewestOf
<1>4. ASSUME NEW u, u # t, NEW r \in 1 .. Len(recent), recent[r] = u
      PROVE  \E q \in 1 .. Len(recent') - 1 :
               /\ recent'[q] = u
               /\ \A j \in q + 1 .. Len(recent') - 1 :
                    \E k \in r + 1 .. Len(recent) : recent'[j] = recent[k]
  <2>1. CASE r < i
    <3>1. r \in 1 .. Len(recent') - 1 /\ recent'[r] = u
      BY <1>2, <1>4, <2>1
    <3>2. ASSUME NEW j \in r + 1 .. Len(recent') - 1
          PROVE  \E k \in r + 1 .. Len(recent) : recent'[j] = recent[k]
      BY <1>2, <2>1, <3>2
    <3> QED
      BY <3>1, <3>2
  <2>2. CASE r > i
    <3>1. r - 1 \in 1 .. Len(recent') - 1 /\ recent'[r - 1] = u
      BY <1>2, <1>4, <2>2
    <3>2. ASSUME NEW j \in (r - 1) + 1 .. Len(recent') - 1
          PROVE  \E k \in r + 1 .. Len(recent) : recent'[j] = recent[k]
      <4>1. recent'[j] = recent[j + 1] /\ j + 1 \in r + 1 .. Len(recent)
        BY <1>2, <2>2, <3>2
      <4> QED
        BY <4>1
    <3> QED
      BY <3>1, <3>2
  <2>3. r # i
    BY <1>2, <1>4
  <2> QED
    BY <2>1, <2>2, <2>3
<1>5. ASSUME t \notin S, NEW u, u # t, NewestOf(recent, u, S)
      PROVE  NewestOf(recent', u, S)
  <2>1. PICK r \in 1 .. Len(recent) : recent[r] = u /\ \A j \in r + 1 .. Len(recent) : recent[j] \notin S
    BY <1>5 DEF NewestOf
  <2>2. PICK q \in 1 .. Len(recent') - 1 :
               /\ recent'[q] = u
               /\ \A j \in q + 1 .. Len(recent') - 1 :
                    \E k \in r + 1 .. Len(recent) : recent'[j] = recent[k]
    BY <1>4, <1>5, <2>1
  <2>3. \A j \in q + 1 .. Len(recent') : recent'[j] \notin S
    <3>1. ASSUME NEW j \in q + 1 .. Len(recent') PROVE recent'[j] \notin S
      <4>1. CASE j = Len(recent')
        BY <1>1, <1>5, <4>1
      <4>2. CASE j \in q + 1 .. Len(recent') - 1
        BY <2>1, <2>2, <4>2
      <4> QED
        BY <1>1, <4>1, <4>2
    <3> QED
      BY <3>1
  <2> QED
    BY <1>1, <2>2, <2>3 DEF NewestOf
<1>6. ASSUME NEW u, u # t, NEW r \in 1 .. Len(recent), recent[r] = u
      PROVE  \E q \in 1 .. Len(recent') : recent'[q] = u
  <2>1. PICK q \in 1 .. Len(recent') - 1 : recent'[q] = u
    BY <1>4, <1>6
  <2> QED
    BY <1>1, <2>1
<1> QED
  BY <1>3, <1>5, <1>6

-----------------------------------------------------------------------------
(* What holds whatever fails and races: types, and a way out of every lock.*)

WayOut(o) ==
    o.locked =>
      \/ o.timer /\ TaskIsActive(o.ws)
      \/ o.card \notin {None, Keep} /\ o.ws.status = "interrupted" /\ o.card.task = o.ws.task

(* A state, and an output, that a callback may have put together.          *)
SnapshotOK(w) ==
    w \in Snapshot /\ (w.status = "interrupted" => w.task # None)

OutputOK(o) ==
    /\ o \in Outputs /\ SnapshotOK(o.ws) /\ WayOut(o)
    /\ o.card = Keep => o.ws.status # "interrupted"

RowsOK ==
    /\ task \in [Tasks -> [session : Sessions \cup {None}, status : Status, approval : Nat]]
    /\ recent \in Seq(Tasks)
    /\ \A t \in Kept : task[t].session \in Sessions /\ \E i \in 1 .. Len(recent) : recent[i] = t

TabOK ==
    /\ SnapshotOK(ws) /\ LockedHasWayOut
    /\ view \in [card : Card \cup {None}, locked : BOOLEAN, timer : BOOLEAN, picker : Sessions]
    /\ change \in Sessions \cup {None}

FlightOK ==
    /\ flight \in [Callbacks -> Outputs \cup {None}]
    /\ \A k \in Callbacks : flight[k] # None => OutputOK(flight[k])

CountsOK == stale \subseteq Callbacks /\ raced \in BOOLEAN /\ mishaps \in Nat

BaseInv == RowsOK /\ TabOK /\ FlightOK /\ CountsOK

-----------------------------------------------------------------------------
(* What holds as long as nothing fails and nothing races.                  *)

Calm == ~raced /\ mishaps = 0

Live(t) == task[t].status \in {"active", "interrupted"}

(* The submission of t is in flight: the tab does not know of t yet.       *)
Sending(t) == flight["submit"] # None /\ flight["submit"].ws.task = t

(* The state w knows what is under way in its session.                     *)
Believes(w) ==
    \A t \in Tasks :
      Live(t) /\ task[t].session = w.session =>
        (w.task = t /\ w.status \in {"active", "interrupted"}) \/ Sending(t)

(* An approval that w stands at is the task's own, and so is its card.     *)
Current(w, card) ==
    w.status = "interrupted" /\ Live(w.task) =>
      /\ task[w.task].status = "interrupted"
      /\ card # None => card = CardOf(w.task)

(* Ids are handed out before they are used.                                *)
IdsAreKnown ==
    /\ Kept \subseteq known /\ \A t \in Kept : task[t].session \in known
    /\ ws.session \in known /\ ws.task \in known \cup {None}
    /\ view.picker \in known /\ change \in known \cup {None}
    /\ \A k \in Callbacks : flight[k] # None =>
         /\ flight[k].ws.session \in known /\ flight[k].ws.task \in known \cup {None}
         /\ flight[k].picker \in known \cup {Keep}

(* A task under way is alone in its session, and the newest there.         *)
OneLive ==
    /\ \A t, u \in Tasks : Live(t) /\ Live(u) /\ task[t].session = task[u].session => t = u
    /\ \A s \in Sessions : \A t \in TasksOf(s) : Live(t) => NewestOf(recent, t, TasksOf(s))

SentAreActive ==
    \A k \in Decisions \cup {"submit"} : flight[k] # None => flight[k].ws.status = "active"

AllBelieve ==
    /\ Believes(ws)
    /\ \A k \in Callbacks \ stale : flight[k] # None => Believes(flight[k].ws)

(* A decision in flight may have made the cards old; it takes them away.   *)
AllCurrent ==
    ~Deciding =>
      /\ Current(ws, view.card)
      /\ \A k \in Callbacks \ stale : flight[k] # None => Current(flight[k].ws, flight[k].card)

CalmInv == Calm => OneLive /\ SentAreActive /\ AllBelieve /\ AllCurrent

Inv == BaseInv /\ IdsAreKnown /\ CalmInv

(* The listeners that answer an approval are none of the others.           *)
LEMMA Listeners ==
    /\ OtherCallbacks \subseteq Callbacks /\ Decisions \subseteq Callbacks
    /\ \A k \in OtherCallbacks : k \notin Decisions
    /\ "submit" \in OtherCallbacks
  BY DecisionsAssumption DEF Callbacks, OtherCallbacks

-----------------------------------------------------------------------------
(* The outputs of the callbacks.                                           *)

LEMMA OutputIs ==
    ASSUME NEW w, NEW card, NEW locked, NEW timer, NEW picker
    PROVE  LET o == Output(w, card, locked, timer, picker)
           IN  o.ws = w /\ o.card = card /\ o.locked = locked /\ o.timer = timer /\ o.picker = picker
  BY DEF Output

LEMMA OutputFits ==
    ASSUME NEW w, SnapshotOK(w), NEW card \in Card \cup {None, Keep},
           NEW locked \in BOOLEAN, NEW timer \in BOOLEAN, NEW picker \in Sessions \cup {Keep},
           card = Keep => w.status # "interrupted",
           locked => \/ timer /\ TaskIsActive(w)
                     \/ card \notin {None, Keep} /\ w.status = "interrupted" /\ card.task = w.task
    PROVE  OutputOK(Output(w, card, locked, timer, picker))
  BY DEF Output, OutputOK, Outputs, WayOut, SnapshotOK

LEMMA CardsAre ==
    ASSUME RowsOK, NEW t \in Tasks
    PROVE  CardOf(t) \in Card /\ CardOf(t) \notin {None, Keep} /\ CardOf(t).task = t
<1>1. task[t].approval \in Nat
  BY DEF RowsOK
<1> QED
  BY <1>1, IdAssumption DEF CardOf, Card

LEMMA NewIsOK ==
    ASSUME NEW s \in Sessions
    PROVE  /\ SnapshotOK(NewWorkspace(s))
           /\ NewWorkspace(s).session = s /\ NewWorkspace(s).task = None
           /\ NewWorkspace(s).status = "active"
  BY DEF NewWorkspace, SnapshotOK, Snapshot, Status

LEMMA StatusIsOK ==
    ASSUME NEW w, SnapshotOK(w), NEW status \in Status, status = "interrupted" => w.task # None
    PROVE  /\ SnapshotOK([w EXCEPT !.status = status])
           /\ [w EXCEPT !.status = status].status = status
           /\ [w EXCEPT !.status = status].task = w.task
           /\ [w EXCEPT !.status = status].session = w.session
  BY DEF SnapshotOK, Snapshot

(* The newest of some tasks that have rows is one of them.                 *)
LEMMA LatestIsOne ==
    ASSUME RowsOK, NEW S, S # {}, S \subseteq Kept
    PROVE  Latest(S) \in S
<1> DEFINE At == {i \in 1 .. Len(recent) : recent[i] \in S}
           n == Len(recent)
<1>1. n \in Nat /\ At \subseteq 1 .. n
  BY DEF RowsOK
<1>2. At # {}
  <2>1. PICK t \in S : TRUE
    OBVIOUS
  <2>2. \E i \in 1 .. Len(recent) : recent[i] = t
    BY <2>1 DEF RowsOK
  <2> QED
    BY <2>1, <2>2
<1> DEFINE Below == {m \in Nat : n - m \in At}
<1>3. Below \subseteq Nat /\ Below # {}
  <2> HIDE DEF At, n
  <2>1. PICK i \in At : TRUE
    BY <1>2
  <2>2. n - i \in Nat /\ n - (n - i) = i
    BY <1>1, <2>1
  <2>3. n - i \in Below
    BY <2>1, <2>2
  <2> QED
    BY <2>3
<1>4. \E x \in Below : \A y \in Below : ~ (<<y, x>> \in OpToRel(<, Nat))
  <2> HIDE DEF Below
  <2> QED
    BY <1>3, WFMin, NatLessThanWellFounded
<1>5. PICK x \in Below : \A y \in Below : ~ (y < x)
  BY <1>3, <1>4 DEF OpToRel
<1>6. \A j \in n - x + 1 .. n : recent[j] \notin S
  <2> SUFFICES ASSUME NEW j \in n - x + 1 .. n, recent[j] \in S PROVE FALSE
    OBVIOUS
  <2>1. j \in At /\ n - j \in Nat /\ n - (n - j) = j /\ n - j < x
    BY <1>1, <1>5
  <2>2. n - j \in Below
    BY <2>1
  <2> QED
    BY <1>5, <2>1, <2>2
<1>7. n - x \in 1 .. Len(recent) /\ recent[n - x] \in S
  BY <1>5
<1>8. \E i \in 1 .. Len(recent) :
        recent[i] \in S /\ \A j \in i + 1 .. Len(recent) : recent[j] \notin S
  BY <1>6, <1>7
<1> QED
  BY <1>8 DEF Latest

(* ... and a task known to be the newest of them is that one.              *)
LEMMA LatestIsNewest ==
    ASSUME RowsOK, NEW S, NEW t \in S, NewestOf(recent, t, S)
    PROVE  Latest(S) = t
<1>1. PICK i \in 1 .. Len(recent) : recent[i] = t /\ \A j \in i + 1 .. Len(recent) : recent[j] \notin S
  BY DEF NewestOf
<1>2. Len(recent) \in Nat
  BY DEF RowsOK
<1>3. ASSUME NEW k \in 1 .. Len(recent), recent[k] \in S,
             \A j \in k + 1 .. Len(recent) : recent[j] \notin S
      PROVE  k = i
  BY <1>1, <1>2, <1>3
<1>4. (CHOOSE k \in 1 .. Len(recent) :
         recent[k] \in S /\ \A j \in k + 1 .. Len(recent) : recent[j] \notin S) = i
  BY <1>1, <1>3
<1> QED
  BY <1>1, <1>4 DEF Latest

(* What a session's rows say of it.                                        *)
LEMMA StateIsOK ==
    ASSUME RowsOK, NEW s \in Sessions
    PROVE  LET w == StateFromSession(s)
           IN  /\ SnapshotOK(w) /\ w.session = s
               /\ \/ w.task = None /\ w.status = "active" /\ TasksOf(s) = {}
                  \/ /\ w.task \in TasksOf(s) /\ w.task = Latest(TasksOf(s))
                     /\ w.status = task[w.task].status
<1>1. CASE TasksOf(s) = {}
  BY <1>1, NewIsOK DEF StateFromSession
<1>2. CASE TasksOf(s) # {}
  <2>1. PICK t : t = LatestOf(s)
    OBVIOUS
  <2>2. t \in TasksOf(s) /\ t \in Tasks /\ t # None /\ t = Latest(TasksOf(s))
    BY <1>2, <2>1, LatestIsOne, IdAssumption DEF LatestOf, TasksOf, Kept
  <2>3. task[t].status \in Status
    BY <2>2 DEF RowsOK
  <2>4. StateFromSession(s) =
          [session |-> s, task |-> t, status |-> task[t].status, listed |-> TRUE,
           shown |-> task[t].status \in Final, persisted |-> TRUE]
    BY <1>2, <2>1 DEF StateFromSession
  <2> QED
    BY <2>2, <2>3, <2>4 DEF SnapshotOK, Snapshot
<1> QED
  BY <1>1, <1>2

LEMMA LoadedIsOK ==
    ASSUME RowsOK, NEW s \in Sessions, NEW picker \in Sessions \cup {Keep}
    PROVE  LET w == StateFromSession(s)
               o == Loaded(w, picker)
           IN  /\ OutputOK(o) /\ o.ws = w /\ o.card # Keep /\ o.picker = picker
               /\ o.card = IF w.status = "interrupted" THEN CardOf(w.task) ELSE None
<1>1. PICK w : w = StateFromSession(s)
  OBVIOUS
<1>2. SnapshotOK(w)
  BY <1>1, StateIsOK
<1>3. PICK card : card = IF w.status = "interrupted" THEN CardOf(w.task) ELSE None
  OBVIOUS
<1>4. w.status = "interrupted" => w.task \in Tasks
  BY <1>2 DEF SnapshotOK, Snapshot
<1>5. /\ card \in Card \cup {None} /\ card # Keep
      /\ w.status = "interrupted" => card \notin {None, Keep} /\ card.task = w.task
  BY <1>3, <1>4, CardsAre, IdAssumption
<1>6. PICK locked : locked = (TaskIsActive(w) \/ w.status = "interrupted")
  OBVIOUS
<1>7. Loaded(w, picker) = Output(w, card, locked, TaskIsActive(w), picker)
  BY <1>3, <1>6 DEF Loaded
<1>8. locked \in BOOLEAN /\ TaskIsActive(w) \in BOOLEAN
  BY <1>6 DEF TaskIsActive
<1>9. OutputOK(Output(w, card, locked, TaskIsActive(w), picker))
  BY <1>2, <1>5, <1>6, <1>8, OutputFits
<1> QED
  BY <1>1, <1>3, <1>5, <1>7, <1>9, OutputIs

(* poll_status: every output tells the status of the tab's task.           *)
LEMMA PolledIsOK ==
    ASSUME RowsOK, SnapshotOK(ws), ws.task # None, NEW o \in Polled
    PROVE  /\ OutputOK(o) /\ o.ws.session = ws.session /\ o.ws.task = ws.task
           /\ o.ws.status = task[ws.task].status /\ o.picker \in {ws.session, Keep}
           /\ o.ws.status = "interrupted" => o.card = CardOf(ws.task)
<1>1. PICK t : t = ws.task
  OBVIOUS
<1>2. t \in Tasks /\ task[t].status \in Status /\ ws.session \in Sessions
  BY <1>1 DEF SnapshotOK, Snapshot, RowsOK
<1>3. PICK w : w = [ws EXCEPT !.status = task[t].status]
  OBVIOUS
<1>4. /\ SnapshotOK(w) /\ w.status = task[t].status /\ w.task = t /\ w.session = ws.session
      /\ t # None
  BY <1>1, <1>2, <1>3, StatusIsOK
<1>5. PICK news : news = [w EXCEPT !.listed = TRUE, !.shown = @ \/ ~w.listed]
  OBVIOUS
<1>6. /\ SnapshotOK(news) /\ news.status = w.status /\ news.task = w.task
      /\ news.session = w.session
  <2>1. w \in Snapshot /\ (w.shown \/ ~w.listed) \in BOOLEAN
    BY <1>4 DEF SnapshotOK, Snapshot
  <2> QED
    BY <1>4, <1>5, <2>1 DEF SnapshotOK, Snapshot
<1>7. Keep \in Sessions \cup {Keep} /\ None \in Card \cup {None, Keep} /\ None # Keep
  BY IdAssumption
<1>8. CASE task[t].status = "active"
  <2>1. PICK locked \in BOOLEAN : o = Output(w, None, locked, locked, Keep)
    BY <1>1, <1>3, <1>8 DEF Polled
  <2>2. TaskIsActive(w)
    BY <1>4, <1>8 DEF TaskIsActive
  <2>3. OutputOK(o)
    BY <1>4, <1>7, <2>1, <2>2, OutputFits
  <2>4. o.ws = w /\ o.picker = Keep
    BY <2>1 DEF Output
  <2> QED
    BY <1>1, <1>4, <1>8, <2>3, <2>4
<1>9. CASE task[t].status = "interrupted"
  <2>1. o = Output(w, CardOf(t), TRUE, FALSE, Keep)
    BY <1>1, <1>3, <1>9 DEF Polled
  <2>2. CardOf(t) \in Card /\ CardOf(t) \notin {None, Keep} /\ CardOf(t).task = t
    BY <1>2, CardsAre
  <2>3. OutputOK(o)
    BY <1>4, <1>7, <1>9, <2>1, <2>2, OutputFits
  <2>4. o.ws = w /\ o.card = CardOf(t) /\ o.picker = Keep
    BY <2>1 DEF Output
  <2> QED
    BY <1>1, <1>4, <2>3, <2>4
<1>10. CASE task[t].status \notin {"active", "interrupted"}
  <2>1. PICK picker \in {ws.session, Keep} : o = Output(news, None, FALSE, FALSE, picker)
    BY <1>1, <1>3, <1>5, <1>10 DEF Polled
  <2>2. OutputOK(o)
    BY <1>2, <1>6, <1>7, <2>1, OutputFits
  <2>3. o.ws = news /\ o.picker = picker
    BY <2>1 DEF Output
  <2> QED
    BY <1>1, <1>4, <1>6, <1>10, <2>2, <2>3
<1> QED
  BY <1>8, <1>9, <1>10

(* A callback that starts adds its output to those in flight.              *)
LEMMA FlightGrows ==
    ASSUME FlightOK, NEW k \in Callbacks, NEW o, OutputOK(o), Returns(k, o)
    PROVE  /\ FlightOK' /\ flight'[k] = o /\ o # None
           /\ \A j \in Callbacks : j # k => flight'[j] = flight[j]
<1>1. o \in Outputs /\ o # None
  BY IdAssumption DEF OutputOK
<1>2. /\ flight' \in [Callbacks -> Outputs \cup {None}] /\ flight'[k] = o
      /\ \A j \in Callbacks : j # k => flight'[j] = flight[j]
  BY <1>1 DEF Returns, FlightOK
<1>3. \A j \in Callbacks : flight'[j] # None => OutputOK(flight'[j])
  BY <1>2 DEF FlightOK
<1> QED
  BY <1>1, <1>2, <1>3 DEF FlightOK

(* What a submission does to the rows, if it arrives.                      *)
LEMMA RowsGrow ==
    ASSUME RowsOK, SnapshotOK(ws), NEW t \in Tasks,
           task' = [task EXCEPT ![t] = [session |-> ws.session, status |-> "active",
                                        approval |-> 0]],
           Touch(t)
    PROVE  RowsOK'
<1>1. ws.session \in Sessions /\ recent \in Seq(Tasks)
  BY DEF SnapshotOK, Snapshot, RowsOK
<1>2. PICK r : r = [session |-> ws.session, status |-> "active", approval |-> 0]
  OBVIOUS
<1>3. r \in [session : Sessions \cup {None}, status : Status, approval : Nat]
      /\ r.session = ws.session
  BY <1>1, <1>2 DEF Status
<1>4. /\ task' \in [Tasks -> [session : Sessions \cup {None}, status : Status, approval : Nat]]
      /\ task'[t].session = ws.session
      /\ \A u \in Tasks : u # t => task'[u] = task[u]
  BY <1>2, <1>3 DEF RowsOK
<1>5. recent' \in Seq(Tasks) /\ recent'[Len(recent')] = t /\ Len(recent') \in 1 .. Len(recent')
  BY <1>1, TouchRanks
<1>6. ASSUME NEW u \in Kept' PROVE task'[u].session \in Sessions
                                   /\ \E i \in 1 .. Len(recent') : recent'[i] = u
  <2>1. CASE u = t
    BY <1>1, <1>4, <1>5, <2>1
  <2>2. CASE u # t
    <3>1. u \in Kept
      BY <1>4, <1>6, <2>2 DEF Kept
    <3>2. \E i \in 1 .. Len(recent) : recent[i] = u
      BY <3>1 DEF RowsOK
    <3>3. \E i \in 1 .. Len(recent') : recent'[i] = u
      BY <1>1, <2>2, <3>2, TouchNewest
    <3> QED
      BY <1>4, <2>2, <3>1, <3>3 DEF Kept, RowsOK
  <2> QED
    BY <2>1, <2>2
<1> QED
  BY <1>4, <1>5, <1>6 DEF RowsOK

(* A worker, or a decision, that moves the task t on.                      *)
LEMMA RowMoves ==
    ASSUME RowsOK, NEW t \in Kept, NEW status \in Status \ {"not_found"}, NEW n \in Nat,
           task' = [task EXCEPT ![t].status = status, ![t].approval = n], Touch(t)
    PROVE  /\ RowsOK' /\ Kept' = Kept
           /\ task'[t].status = status /\ task'[t].session = task[t].session
           /\ task'[t].approval = n
           /\ \A u \in Tasks : u # t => task'[u] = task[u]
<1>1. t \in Tasks /\ recent \in Seq(Tasks) /\ task[t].status # "not_found"
  BY DEF Kept, RowsOK
<1>2. /\ task' \in [Tasks -> [session : Sessions \cup {None}, status : Status, approval : Nat]]
      /\ task'[t].status = status /\ task'[t].session = task[t].session
      /\ task'[t].approval = n
      /\ \A u \in Tasks : u # t => task'[u] = task[u]
  <2> DEFINE Rows == [session : Sessions \cup {None}, status : Status, approval : Nat]
             new == [task[t] EXCEPT !.status = status, !.approval = n]
  <2>1. task \in [Tasks -> Rows] /\ task[t] \in Rows
    BY <1>1 DEF RowsOK
  <2>2. task' = [task EXCEPT ![t] = new]
    BY <2>1
  <2>3. new.session = task[t].session /\ new.status = status /\ new.approval = n
    BY <2>1
  <2>4. new \in Rows
    BY <2>1
  <2> HIDE DEF Rows
  <2> HIDE DEF new
  <2>5. task' \in [Tasks -> Rows] /\ task'[t] = new
        /\ \A u \in Tasks : u # t => task'[u] = task[u]
    BY <1>1, <2>1, <2>2, <2>4
  <2> QED
    BY <2>3, <2>5 DEF Rows
<1>3. Kept' = Kept
  BY <1>1, <1>2 DEF Kept
<1>4. recent' \in Seq(Tasks) /\ recent'[Len(recent')] = t /\ Len(recent') \in 1 .. Len(recent')
  BY <1>1, TouchRanks
<1>5. ASSUME NEW u \in Kept PROVE task'[u].session \in Sessions
                                  /\ \E i \in 1 .. Len(recent') : recent'[i] = u
  <2>1. task[u].session \in Sessions /\ u \in Tasks /\ \E i \in 1 .. Len(recent) : recent[i] = u
    BY DEF RowsOK, Kept
  <2>2. task'[u].session \in Sessions
    BY <1>2, <2>1
  <2>3. \E i \in 1 .. Len(recent') : recent'[i] = u
    BY <1>1, <1>4, <2>1, TouchNewest
  <2> QED
    BY <2>2, <2>3
<1> QED
  BY <1>2, <1>3, <1>4, <1>5 DEF RowsOK

-----------------------------------------------------------------------------
(* Every step keeps the types, and the way out.                            *)

LEMMA FreshIds ==
    /\ Tasks \ known # {} => FreshTask \in Tasks /\ FreshTask \notin known
    /\ Sessions \ known # {} => FreshSession \in Sessions /\ FreshSession \notin known
<1>1. ASSUME Tasks \ known # {} PROVE FreshTask \in Tasks /\ FreshTask \notin known
  <2>1. \E t \in Tasks : t \notin known
    BY <1>1
  <2> QED
    BY <2>1 DEF FreshTask
<1>2. ASSUME Sessions \ known # {} PROVE FreshSession \in Sessions /\ FreshSession \notin known
  <2>1. \E s \in Sessions : s \notin known
    BY <1>2
  <2> QED
    BY <2>1 DEF FreshSession
<1> QED
  BY <1>1, <1>2

LEMMA MishapCounts ==
    ASSUME CountsOK, UNCHANGED races, Mishap \/ UNCHANGED mishaps
    PROVE  CountsOK' /\ (Mishap => ~Calm') /\ (Calm' => Calm)
  BY DEF CountsOK, races, Mishap, Calm

LEMMA TabStays ==
    ASSUME TabOK, UNCHANGED tab
    PROVE  TabOK'
<1>1. ws' = ws /\ view' = view /\ change' = change
  BY DEF tab
<1> QED
  BY <1>1 DEF TabOK, LockedHasWayOut, TaskIsActive

(* The state a submission leaves the tab in.                               *)
LEMMA SentIsOK ==
    ASSUME SnapshotOK(ws), NEW t \in Tasks, NEW sent,
           sent = [ws EXCEPT !.task = t, !.status = "active", !.listed = FALSE,
                             !.shown = FALSE, !.persisted = TRUE]
    PROVE  /\ SnapshotOK(sent) /\ sent.task = t /\ sent.status = "active"
           /\ sent.session = ws.session /\ TaskIsActive(sent)
<1>1. /\ sent \in Snapshot /\ sent.task = t /\ sent.status = "active"
      /\ sent.session = ws.session
  BY DEF SnapshotOK, Snapshot, Status
<1>2. t # None
  BY IdAssumption
<1> QED
  BY <1>1, <1>2 DEF SnapshotOK, TaskIsActive

(* What a submission comes to, whether it and its answer arrive or not.    *)
SubmitGoes(t, o) ==
    /\ t \notin known /\ known' = known \cup {t}
    /\ ~TaskIsActive(ws) /\ ws.status # "interrupted"
    /\ flight["submit"] = None /\ Returns("submit", o) /\ OutputOK(o)
    /\ o.ws.session = ws.session /\ o.ws.task = t /\ o.card = None /\ o.picker = ws.session
    /\ \/ /\ task' = [task EXCEPT ![t] = [session |-> ws.session, status |-> "active",
                                          approval |-> 0]]
          /\ Touch(t)
       \/ UNCHANGED server /\ Mishap
    /\ \/ o.ws.status = "active" /\ UNCHANGED mishaps
       \/ Mishap
    /\ UNCHANGED <<tab, races>>

LEMMA SubmitIs ==
    ASSUME BaseInv, Submit
    PROVE  \E t \in Tasks : \E o : SubmitGoes(t, o)
<1>1. PICK t : t = FreshTask
  OBVIOUS
<1>2. t \in Tasks /\ t \notin known
  BY <1>1, FreshIds DEF Submit
<1>3. PICK sent : sent = [ws EXCEPT !.task = t, !.status = "active", !.listed = FALSE,
                                    !.shown = FALSE, !.persisted = TRUE]
  OBVIOUS
<1>4. PICK failed : failed = [sent EXCEPT !.status = "error"]
  OBVIOUS
<1>5. /\ SnapshotOK(sent) /\ sent.task = t /\ sent.status = "active"
      /\ sent.session = ws.session /\ TaskIsActive(sent) /\ ws.session \in Sessions
  BY <1>2, <1>3, SentIsOK DEF BaseInv, TabOK, SnapshotOK, Snapshot
<1>6. /\ SnapshotOK(failed) /\ failed.task = t /\ failed.session = ws.session
      /\ failed.status = "error"
  <2>1. "error" \in Status /\ "error" # "interrupted"
    BY DEF Status, Final
  <2> QED
    BY <1>4, <1>5, <2>1, StatusIsOK
<1>7. /\ t \notin known /\ known' = known \cup {t}
      /\ ~TaskIsActive(ws) /\ ws.status # "interrupted" /\ flight["submit"] = None
      /\ UNCHANGED <<tab, races>>
  BY <1>1, <1>2 DEF Submit, Starts
<1>8. None \in Card \cup {None, Keep} /\ None # Keep /\ ws.session \in Sessions \cup {Keep}
  BY <1>5, IdAssumption
<1>9. CASE /\ task' = [task EXCEPT ![t] = [session |-> ws.session, status |-> "active",
                                           approval |-> 0]]
           /\ Touch(t) /\ UNCHANGED mishaps
           /\ Returns("submit", Output(sent, None, TRUE, TRUE, ws.session))
  <2>1. PICK o : o = Output(sent, None, TRUE, TRUE, ws.session)
    OBVIOUS
  <2>2. OutputOK(o)
    BY <1>5, <1>8, <2>1, OutputFits
  <2>3. o.ws = sent /\ o.card = None /\ o.picker = ws.session
    BY <2>1 DEF Output
  <2>4. SubmitGoes(t, o)
    BY <1>5, <1>7, <1>9, <2>1, <2>2, <2>3 DEF SubmitGoes
  <2> QED
    BY <1>2, <2>4
<1>10. CASE /\ \/ /\ task' = [task EXCEPT ![t] = [session |-> ws.session, status |-> "active",
                                                 approval |-> 0]]
                  /\ Touch(t)
               \/ UNCHANGED server
            /\ Mishap /\ Returns("submit", Output(failed, None, FALSE, FALSE, ws.session))
  <2>1. PICK o : o = Output(failed, None, FALSE, FALSE, ws.session)
    OBVIOUS
  <2>2. OutputOK(o)
    BY <1>6, <1>8, <2>1, OutputFits
  <2>3. o.ws = failed /\ o.card = None /\ o.picker = ws.session
    BY <2>1 DEF Output
  <2>4. SubmitGoes(t, o)
    BY <1>6, <1>7, <1>10, <2>1, <2>2, <2>3 DEF SubmitGoes
  <2> QED
    BY <1>2, <2>4
<1>11. \/ /\ task' = [task EXCEPT ![t] = [session |-> ws.session, status |-> "active",
                                         approval |-> 0]]
          /\ Touch(t) /\ UNCHANGED mishaps
          /\ Returns("submit", Output(sent, None, TRUE, TRUE, ws.session))
       \/ /\ \/ /\ task' = [task EXCEPT ![t] = [session |-> ws.session, status |-> "active",
                                               approval |-> 0]]
                /\ Touch(t)
             \/ UNCHANGED server
          /\ Mishap /\ Returns("submit", Output(failed, None, FALSE, FALSE, ws.session))
  BY <1>1, <1>3, <1>4 DEF Submit
<1> QED
  BY <1>9, <1>10, <1>11

(* What a poll comes to.                                                   *)
PollGoes(k, o) ==
    /\ ws.task # None /\ flight[k] = None /\ Returns(k, o) /\ OutputOK(o)
    /\ o.ws.session = ws.session /\ o.ws.task = ws.task /\ o.picker \in {ws.session, Keep}
    /\ \/ /\ o.ws.status = task[ws.task].status /\ UNCHANGED mishaps
          /\ o.ws.status = "interrupted" => o.card = CardOf(ws.task)
       \/ Mishap
    /\ UNCHANGED <<server, known, tab, races>>

LEMMA PollIs ==
    ASSUME BaseInv, NEW k, Poll(k)
    PROVE  \E o : PollGoes(k, o)
<1>1. /\ ws.task # None /\ flight[k] = None /\ UNCHANGED <<server, known, tab, races>>
      /\ SnapshotOK(ws) /\ RowsOK
  BY DEF Poll, Starts, BaseInv, TabOK
<1>2. ASSUME NEW o \in Polled, Returns(k, o), UNCHANGED mishaps PROVE PollGoes(k, o)
  <2>1. /\ OutputOK(o) /\ o.ws.session = ws.session /\ o.ws.task = ws.task
        /\ o.ws.status = task[ws.task].status /\ o.picker \in {ws.session, Keep}
        /\ o.ws.status = "interrupted" => o.card = CardOf(ws.task)
    BY <1>1, PolledIsOK
  <2> QED
    BY <1>1, <1>2, <2>1 DEF PollGoes
<1>3. ASSUME Returns(k, Failed(ws)), Mishap PROVE \E o : PollGoes(k, o)
  <2>1. PICK failed : failed = [ws EXCEPT !.status = "error"]
    OBVIOUS
  <2>2. PICK o : o = Output(failed, None, FALSE, FALSE, Keep)
    OBVIOUS
  <2>3. "error" \in Status /\ "error" # "interrupted"
    BY DEF Status, Final
  <2>4. /\ SnapshotOK(failed) /\ failed.task = ws.task /\ failed.session = ws.session
        /\ failed.status = "error"
    BY <1>1, <2>1, <2>3, StatusIsOK
  <2>5. OutputOK(o)
    BY <2>2, <2>4, IdAssumption, OutputFits
  <2>6. o.ws = failed /\ o.picker = Keep
    BY <2>2 DEF Output
  <2>7. Returns(k, o)
    BY <1>3, <2>1, <2>2 DEF Failed
  <2>8. PollGoes(k, o)
    BY <1>1, <1>3, <2>4, <2>5, <2>6, <2>7 DEF PollGoes
  <2> QED
    BY <2>8
<1> QED
  BY <1>2, <1>3 DEF Poll

(* What a decision comes to.                                               *)
ResumeGoes(k, t, o) ==
    /\ k \in Decisions /\ t = ws.task /\ view.card # None /\ ws.status = "interrupted"
    /\ task[t].status = "interrupted" /\ flight[k] = None
    /\ task' = [task EXCEPT ![t].status = "active", ![t].approval = task[t].approval]
    /\ Touch(t)
    /\ \/ /\ Returns(k, o) /\ OutputOK(o) /\ UNCHANGED mishaps
          /\ o.ws.session = ws.session /\ o.ws.task = t /\ o.ws.status = "active"
          /\ o.picker = Keep
       \/ Mishap /\ UNCHANGED flight
    /\ UNCHANGED <<known, tab, races>>

LEMMA ResumeIs ==
    ASSUME BaseInv, NEW k \in Decisions, Resume(k)
    PROVE  \E t \in Kept : \E o : ResumeGoes(k, t, o)
<1>1. PICK t : t = ws.task
  OBVIOUS
<1>2. PICK w : w = [ws EXCEPT !.status = "active"]
  OBVIOUS
<1>3. PICK o : o = Output(w, None, TRUE, TRUE, Keep)
  OBVIOUS
<1>4. t \in Tasks /\ t # None /\ task[t].status = "interrupted" /\ t \in Kept
  BY <1>1 DEF Resume, BaseInv, TabOK, SnapshotOK, Snapshot, Kept
<1>5. "active" \in Status /\ "active" # "interrupted" /\ SnapshotOK(ws)
  BY DEF Status, BaseInv, TabOK
<1>6. SnapshotOK(w) /\ w.status = "active" /\ w.task = t /\ w.session = ws.session
  BY <1>1, <1>2, <1>5, StatusIsOK
<1>7. TaskIsActive(w)
  BY <1>4, <1>6 DEF TaskIsActive
<1>8. OutputOK(o)
  BY <1>3, <1>5, <1>6, <1>7, IdAssumption, OutputFits
<1>9. o.ws = w /\ o.picker = Keep
  BY <1>3 DEF Output
<1>10. task' = [task EXCEPT ![t].status = "active", ![t].approval = task[t].approval]
  <2>1. task[t] \in [session : Sessions \cup {None}, status : Status, approval : Nat]
    BY <1>4 DEF BaseInv, RowsOK
  <2>2. [task[t] EXCEPT !.status = "active"] =
          [task[t] EXCEPT !.status = "active", !.approval = task[t].approval]
    BY <2>1
  <2> QED
    BY <1>1, <2>2 DEF Resume, BaseInv, RowsOK
<1>11. \/ Returns(k, o) /\ UNCHANGED mishaps
       \/ Mishap /\ UNCHANGED flight
  BY <1>2, <1>3 DEF Resume
<1>12. /\ view.card # None /\ ws.status = "interrupted" /\ flight[k] = None /\ Touch(t)
       /\ UNCHANGED <<known, tab, races>>
  BY <1>1 DEF Resume, Starts
<1>13. ResumeGoes(k, t, o)
  BY <1>1, <1>4, <1>6, <1>8, <1>9, <1>10, <1>11, <1>12 DEF ResumeGoes
<1> QED
  BY <1>4, <1>13

(* What a load comes to.                                                   *)
LoadGoes(s, o) ==
    /\ change = s /\ change' = None /\ flight["load"] = None
    /\ Returns("load", o) /\ OutputOK(o) /\ o.picker = Keep
    /\ \/ /\ o.ws = StateFromSession(s) /\ UNCHANGED mishaps
          /\ o.ws.status = "interrupted" => o.card = CardOf(o.ws.task)
       \/ Mishap /\ o.ws = ws
    /\ UNCHANGED <<server, known, ws, view, races>>

LEMMA LoadIs ==
    ASSUME BaseInv, Load
    PROVE  \E s \in Sessions : \E o : LoadGoes(s, o)
<1>1. PICK s : s = change
  OBVIOUS
<1>2. /\ s \in Sessions /\ RowsOK /\ SnapshotOK(ws)
      /\ change' = None /\ flight["load"] = None /\ UNCHANGED <<server, known, ws, view, races>>
  BY <1>1 DEF Load, Starts, BaseInv, TabOK
<1>3. PICK w : w = StateFromSession(s)
  OBVIOUS
<1>4. PICK o : o = Loaded(w, Keep)
  OBVIOUS
<1>5. /\ OutputOK(o) /\ o.ws = w /\ o.picker = Keep
      /\ o.card = IF w.status = "interrupted" THEN CardOf(w.task) ELSE None
  BY <1>2, <1>3, <1>4, LoadedIsOK
<1>6. CASE Returns("load", o) /\ UNCHANGED mishaps
  BY <1>1, <1>2, <1>3, <1>5, <1>6 DEF LoadGoes
<1>7. CASE Returns("load", Output(ws, None, FALSE, FALSE, Keep)) /\ Mishap
  <2>1. PICK e : e = Output(ws, None, FALSE, FALSE, Keep)
    OBVIOUS
  <2>2. OutputOK(e)
    BY <1>2, <2>1, IdAssumption, OutputFits
  <2>3. e.ws = ws /\ e.picker = Keep
    BY <2>1 DEF Output
  <2> QED
    BY <1>1, <1>2, <1>7, <2>1, <2>2, <2>3 DEF LoadGoes
<1> QED
  BY <1>1, <1>3, <1>4, <1>6, <1>7 DEF Load

(* A callback that ends in a new session.                                  *)
NewGoes(k, s, o) ==
    /\ s \notin known /\ known' = known \cup {s}
    /\ flight[k] = None /\ Returns(k, o) /\ OutputOK(o)
    /\ o.ws.session = s /\ o.ws.task = None /\ o.ws.status = "active" /\ o.picker = s

LEMMA NewIs ==
    ASSUME NEW k \in {"create", "delete"}, NEW s \in Sessions, s \notin known,
           known' = known \cup {s}, flight[k] = None,
           NEW card \in {None, Keep},
           Returns(k, Output(NewWorkspace(s), card, FALSE, FALSE, s))
    PROVE  \E o : NewGoes(k, s, o)
<1>1. PICK w : w = NewWorkspace(s)
  OBVIOUS
<1>2. PICK o : o = Output(w, card, FALSE, FALSE, s)
  OBVIOUS
<1>3. SnapshotOK(w) /\ w.session = s /\ w.task = None /\ w.status = "active"
  BY <1>1, NewIsOK
<1>4. OutputOK(o)
  BY <1>2, <1>3, OutputFits
<1>5. o.ws = w /\ o.picker = s
  BY <1>2 DEF Output
<1> QED
  BY <1>1, <1>2, <1>3, <1>4, <1>5 DEF NewGoes

(* A deletion takes rows away.                                             *)
RowsGo(gone) ==
    /\ \A t \in Tasks : IF t \in gone THEN task'[t].status = "not_found" /\ t \in Kept
                                           /\ task'[t].session = task[t].session
                                           /\ task'[t].approval = task[t].approval
                        ELSE task'[t] = task[t]
    /\ UNCHANGED recent

LEMMA DeleteIs ==
    ASSUME BaseInv, DeleteCurrentSession
    PROVE  /\ RowsOK' /\ (\E gone : RowsGo(gone)) /\ UNCHANGED <<tab, races>>
           /\ \/ UNCHANGED mishaps /\ \E s \in Sessions : \E o : NewGoes("delete", s, o)
              \/ Mishap /\ UNCHANGED <<known, flight>>
<1>1. PICK gone : gone = IF ws.persisted THEN TasksOf(ws.session) ELSE {}
  OBVIOUS
<1>2. /\ task' = [t \in Tasks |-> IF t \in gone THEN [task[t] EXCEPT !.status = "not_found"]
                                  ELSE task[t]]
      /\ UNCHANGED recent /\ UNCHANGED <<tab, races>>
  BY <1>1 DEF DeleteCurrentSession
<1>3. \A t \in Tasks : task[t] \in [session : Sessions \cup {None}, status : Status, approval : Nat]
  BY DEF BaseInv, RowsOK
<1>4. "not_found" \in Status /\ gone \subseteq Kept
  BY <1>1 DEF Status, Final, TasksOf
<1>5. RowsGo(gone)
  BY <1>2, <1>3, <1>4 DEF RowsGo
<1>6. RowsOK'
  <2>1. task' \in [Tasks -> [session : Sessions \cup {None}, status : Status, approval : Nat]]
    <3>1. \A t \in Tasks : [task[t] EXCEPT !.status = "not_found"]
                             \in [session : Sessions \cup {None}, status : Status, approval : Nat]
      BY <1>3, <1>4
    <3> QED
      BY <1>2, <1>3, <3>1
  <2>2. \A t \in Kept' : t \in Kept /\ task'[t].session = task[t].session
    BY <1>5 DEF RowsGo, Kept
  <2> QED
    BY <1>2, <2>1, <2>2 DEF BaseInv, RowsOK
<1>7. CASE /\ known' = known \cup {FreshSession}
           /\ Returns("delete", Output(NewWorkspace(FreshSession), Keep, FALSE, FALSE,
                                       FreshSession))
           /\ UNCHANGED mishaps
  <2>1. PICK s : s = FreshSession
    OBVIOUS
  <2>2. s \in Sessions /\ s \notin known /\ flight["delete"] = None
    BY <2>1, FreshIds DEF DeleteCurrentSession, Starts
  <2>3. \E o : NewGoes("delete", s, o)
    BY <1>7, <2>1, <2>2, NewIs
  <2> QED
    BY <1>2, <1>5, <1>6, <1>7, <2>2, <2>3
<1>8. CASE Mishap /\ UNCHANGED <<known, flight>>
  BY <1>2, <1>5, <1>6, <1>8
<1> QED
  BY <1>7, <1>8 DEF DeleteCurrentSession

LEMMA CreateIs ==
    ASSUME CreateSession
    PROVE  /\ \E s \in Sessions : \E o : NewGoes("create", s, o)
           /\ UNCHANGED <<server, tab, races, mishaps>>
<1>1. PICK s : s = FreshSession
  OBVIOUS
<1>2. s \in Sessions /\ s \notin known /\ flight["create"] = None /\ known' = known \cup {s}
  BY <1>1, FreshIds DEF CreateSession, Starts
<1>3. \E o : NewGoes("create", s, o)
  BY <1>1, <1>2, NewIs DEF CreateSession
<1> QED
  BY <1>2, <1>3 DEF CreateSession

(* What a worker's step comes to.                                          *)
WorkGoes(t, status, n) ==
    /\ task[t].status = "active"
    /\ status \in {"completed", "interrupted"}
    /\ task' = [task EXCEPT ![t].status = status, ![t].approval = n] /\ Touch(t)
    /\ UNCHANGED <<known, tab, flight, races, mishaps>>

LEMMA WorkIs ==
    ASSUME BaseInv, NEW t \in Tasks, Work(t)
    PROVE  t \in Kept /\ \E status \in Status, n \in Nat : WorkGoes(t, status, n)
<1>1. /\ task[t] \in [session : Sessions \cup {None}, status : Status, approval : Nat]
      /\ task \in [Tasks -> [session : Sessions \cup {None}, status : Status, approval : Nat]]
  BY DEF BaseInv, RowsOK
<1>2. /\ task[t].status = "active" /\ Touch(t)
      /\ UNCHANGED <<known, tab, flight, races, mishaps>>
      /\ t \in Kept
  BY DEF Work, Kept
<1>3. "completed" \in Status /\ "interrupted" \in Status
  BY DEF Status, Final
<1>4. CASE task' = [task EXCEPT ![t].status = "completed"]
  <2>1. [task[t] EXCEPT !.status = "completed"] =
          [task[t] EXCEPT !.status = "completed", !.approval = task[t].approval]
    BY <1>1
  <2>2. task' = [task EXCEPT ![t].status = "completed", ![t].approval = task[t].approval]
    BY <1>1, <1>4, <2>1
  <2>3. WorkGoes(t, "completed", task[t].approval)
    BY <1>2, <2>2 DEF WorkGoes
  <2> QED
    BY <1>1, <1>2, <1>3, <2>3
<1>5. CASE task' = [task EXCEPT ![t].status = "interrupted", ![t].approval = @ + 1]
  <2>1. WorkGoes(t, "interrupted", task[t].approval + 1)
    BY <1>2, <1>5 DEF WorkGoes
  <2> QED
    BY <1>1, <1>2, <1>3, <2>1
<1> QED
  BY <1>4, <1>5 DEF Work

-----------------------------------------------------------------------------
(* The types and the way out are kept by every step.                       *)

LEMMA RowsStay ==
    ASSUME RowsOK, UNCHANGED server
    PROVE  RowsOK'
<1>1. task' = task /\ recent' = recent /\ Kept' = Kept
  BY DEF server, Kept
<1> QED
  BY <1>1 DEF RowsOK

LEMMA FlightStays ==
    ASSUME FlightOK, UNCHANGED flight
    PROVE  FlightOK'
  BY DEF FlightOK

LEMMA SubmitKeepsBase ==
    ASSUME BaseInv, NEW t \in Tasks, NEW o, SubmitGoes(t, o)
    PROVE  BaseInv'
<1>1. RowsOK'
  <2>1. CASE /\ task' = [task EXCEPT ![t] = [session |-> ws.session, status |-> "active",
                                             approval |-> 0]]
             /\ Touch(t)
    BY <2>1, RowsGrow DEF BaseInv, TabOK
  <2>2. CASE UNCHANGED server
    BY <2>2, RowsStay DEF BaseInv
  <2> QED
    BY <2>1, <2>2 DEF SubmitGoes
<1>2. FlightOK'
  BY FlightGrows DEF BaseInv, SubmitGoes, Callbacks, OtherCallbacks
<1>3. TabOK' /\ CountsOK'
  BY TabStays, MishapCounts DEF BaseInv, SubmitGoes
<1> QED
  BY <1>1, <1>2, <1>3 DEF BaseInv

LEMMA PollKeepsBase ==
    ASSUME BaseInv, NEW k \in Callbacks, NEW o, PollGoes(k, o)
    PROVE  BaseInv'
<1>1. RowsOK' /\ FlightOK'
  BY RowsStay, FlightGrows DEF BaseInv, PollGoes
<1>2. TabOK' /\ CountsOK'
  BY TabStays, MishapCounts DEF BaseInv, PollGoes
<1> QED
  BY <1>1, <1>2 DEF BaseInv

LEMMA ResumeKeepsBase ==
    ASSUME BaseInv, NEW k \in Decisions, NEW t \in Kept, NEW o,
           ResumeGoes(k, t, o)
    PROVE  BaseInv'
<1>1. t \in Tasks /\ task[t].approval \in Nat /\ "active" \in Status \ {"not_found"}
  BY DEF Kept, BaseInv, RowsOK, Status
<1>2. RowsOK'
  BY <1>1, RowMoves DEF BaseInv, ResumeGoes
<1>3. FlightOK'
  BY FlightGrows, FlightStays DEF BaseInv, ResumeGoes, Callbacks, OtherCallbacks
<1>4. TabOK' /\ CountsOK'
  BY TabStays, MishapCounts DEF BaseInv, ResumeGoes
<1> QED
  BY <1>2, <1>3, <1>4 DEF BaseInv

LEMMA PickKeepsBase ==
    ASSUME BaseInv, NEW s \in Sessions, PickSession(s)
    PROVE  BaseInv' /\ UNCHANGED <<server, known, ws, flight, races, mishaps>>
           /\ view'.card = view.card /\ view'.picker = s /\ change' = s
<1>1. /\ view' = [view EXCEPT !.picker = s] /\ change' = s
      /\ UNCHANGED <<server, known, ws, flight, races, mishaps>>
  BY DEF PickSession
<1>2. view \in [card : Card \cup {None}, locked : BOOLEAN, timer : BOOLEAN, picker : Sessions]
  BY DEF BaseInv, TabOK
<1>3. /\ view' \in [card : Card \cup {None}, locked : BOOLEAN, timer : BOOLEAN, picker : Sessions]
      /\ view'.card = view.card /\ view'.locked = view.locked /\ view'.timer = view.timer
      /\ view'.picker = s
  BY <1>1, <1>2
<1>4. TabOK'
  BY <1>1, <1>3 DEF BaseInv, TabOK, LockedHasWayOut, TaskIsActive
<1>5. RowsOK' /\ FlightOK' /\ CountsOK'
  BY <1>1, RowsStay, FlightStays, MishapCounts DEF BaseInv
<1> QED
  BY <1>1, <1>3, <1>4, <1>5 DEF BaseInv

LEMMA LoadKeepsBase ==
    ASSUME BaseInv, NEW s \in Sessions, NEW o, LoadGoes(s, o)
    PROVE  BaseInv'
<1>1. RowsOK' /\ FlightOK'
  BY RowsStay, FlightGrows DEF BaseInv, LoadGoes, Callbacks, OtherCallbacks
<1>2. CountsOK'
  BY MishapCounts DEF BaseInv, LoadGoes
<1>3. ws' = ws /\ view' = view /\ change' = None
  BY DEF LoadGoes
<1>4. TabOK'
  BY <1>3 DEF BaseInv, TabOK, LockedHasWayOut, TaskIsActive
<1> QED
  BY <1>1, <1>2, <1>4 DEF BaseInv

LEMMA CreateKeepsBase ==
    ASSUME BaseInv, NEW s \in Sessions, NEW o, NewGoes("create", s, o),
           UNCHANGED <<server, tab, races, mishaps>>
    PROVE  BaseInv'
<1>1. RowsOK' /\ FlightOK'
  BY RowsStay, FlightGrows DEF BaseInv, NewGoes, Callbacks, OtherCallbacks
<1>2. TabOK' /\ CountsOK'
  BY TabStays, MishapCounts DEF BaseInv
<1> QED
  BY <1>1, <1>2 DEF BaseInv

LEMMA DeleteKeepsBase ==
    ASSUME BaseInv, DeleteCurrentSession
    PROVE  BaseInv'
<1>1. RowsOK' /\ UNCHANGED <<tab, races>>
  BY DeleteIs
<1>2. \/ UNCHANGED mishaps /\ \E s \in Sessions : \E o : NewGoes("delete", s, o)
      \/ Mishap /\ UNCHANGED <<known, flight>>
  BY DeleteIs
<1>3. FlightOK'
  BY <1>2, FlightGrows, FlightStays DEF BaseInv, NewGoes, Callbacks, OtherCallbacks
<1>4. TabOK' /\ CountsOK'
  BY <1>1, <1>2, TabStays, MishapCounts DEF BaseInv
<1> QED
  BY <1>1, <1>3, <1>4 DEF BaseInv

(* What the tab has after a callback has returned.                         *)
LEMMA DeliverIs ==
    ASSUME BaseInv, NEW k \in Callbacks, Deliver(k)
    PROVE  LET o == flight[k]
           IN  /\ o # None /\ OutputOK(o) /\ ws' = o.ws
               /\ view'.card = IF o.card = Keep THEN view.card ELSE o.card
               /\ view'.picker = IF o.picker = Keep THEN view.picker ELSE o.picker
               /\ change' = IF view'.picker # view.picker THEN view'.picker ELSE change
               /\ stale' = {j \in Callbacks \ {k} : flight[j] # None}
               /\ raced' = (raced \/ k \in stale)
               /\ flight' \in [Callbacks -> Outputs \cup {None}] /\ flight'[k] = None
               /\ \A j \in Callbacks : j # k => flight'[j] = flight[j]
               /\ UNCHANGED <<server, known, mishaps>>
               /\ BaseInv'
<1>1. PICK o : o = flight[k]
  OBVIOUS
<1>2. o # None /\ OutputOK(o) /\ o \in Outputs
  BY <1>1 DEF Deliver, BaseInv, FlightOK, OutputOK
<1>3. /\ ws' = o.ws
      /\ view' = [card |-> IF o.card = Keep THEN view.card ELSE o.card, locked |-> o.locked,
                  timer |-> o.timer,
                  picker |-> IF o.picker = Keep THEN view.picker ELSE o.picker]
      /\ change' = IF view'.picker # view.picker THEN view'.picker ELSE change
      /\ stale' = {j \in Callbacks \ {k} : flight[j] # None}
      /\ raced' = (raced \/ k \in stale)
      /\ Returns(k, None) /\ UNCHANGED <<server, known, mishaps>>
  BY <1>1 DEF Deliver
<1>4. /\ flight' \in [Callbacks -> Outputs \cup {None}] /\ flight'[k] = None
      /\ \A j \in Callbacks : j # k => flight'[j] = flight[j]
  BY <1>3 DEF Returns, BaseInv, FlightOK
<1>5. FlightOK'
  BY <1>4 DEF BaseInv, FlightOK
<1>6. /\ view \in [card : Card \cup {None}, locked : BOOLEAN, timer : BOOLEAN, picker : Sessions]
      /\ change \in Sessions \cup {None}
  BY DEF BaseInv, TabOK
<1>7. /\ o.card \in Card \cup {None, Keep} /\ o.picker \in Sessions \cup {Keep}
      /\ o.locked \in BOOLEAN /\ o.timer \in BOOLEAN
  BY <1>2 DEF Outputs
<1>8. /\ view' \in [card : Card \cup {None}, locked : BOOLEAN, timer : BOOLEAN, picker : Sessions]
      /\ view'.card = (IF o.card = Keep THEN view.card ELSE o.card)
      /\ view'.locked = o.locked /\ view'.timer = o.timer
      /\ view'.picker = (IF o.picker = Keep THEN view.picker ELSE o.picker)
  BY <1>3, <1>6, <1>7
<1>9. change' \in Sessions \cup {None}
  BY <1>3, <1>6, <1>8
<1>10. LockedHasWayOut'
  BY <1>2, <1>3, <1>8 DEF LockedHasWayOut, OutputOK, WayOut, TaskIsActive
<1>11. TabOK'
  BY <1>2, <1>3, <1>8, <1>9, <1>10 DEF TabOK, OutputOK, SnapshotOK
<1>12. RowsOK'
  BY <1>3, RowsStay DEF BaseInv
<1>13. CountsOK'
  BY <1>3 DEF BaseInv, CountsOK
<1> QED
  BY <1>1, <1>2, <1>3, <1>4, <1>5, <1>8, <1>11, <1>12, <1>13 DEF BaseInv

(* ... and after the page was reloaded.                                    *)
LEMMA ReloadIs ==
    ASSUME BaseInv, Reload
    PROVE  \E s \in Sessions :
             /\ ws' = StateFromSession(s) /\ known' = known \cup {s}
             /\ view'.card = IF ws'.status = "interrupted" THEN CardOf(ws'.task) ELSE None
             /\ view'.picker = s /\ change' = s
             /\ flight' = [k \in Callbacks |-> None] /\ stale' = {}
             /\ UNCHANGED <<server, raced, mishaps>>
             /\ BaseInv'
<1>1. PICK s : s = NewestSession
  OBVIOUS
<1>2. s \in Sessions
  <2>1. CASE Kept = {}
    BY <1>1, <2>1, FreshIds DEF Reload, NewestSession
  <2>2. CASE Kept # {}
    <3>1. Latest(Kept) \in Kept
      BY <2>2, LatestIsOne DEF BaseInv
    <3> QED
      BY <1>1, <2>2, <3>1 DEF NewestSession, BaseInv, RowsOK
  <2> QED
    BY <2>1, <2>2
<1>3. PICK w : w = StateFromSession(s)
  OBVIOUS
<1>4. PICK o : o = Loaded(w, s)
  OBVIOUS
<1>5. /\ OutputOK(o) /\ o.ws = w /\ o.card # Keep
      /\ o.card = IF w.status = "interrupted" THEN CardOf(w.task) ELSE None
  BY <1>2, <1>3, <1>4, LoadedIsOK DEF BaseInv
<1>6. /\ known' = known \cup {s} /\ ws' = o.ws
      /\ view' = [card |-> o.card, locked |-> o.locked, timer |-> o.timer, picker |-> s]
      /\ change' = s
      /\ flight' = [k \in Callbacks |-> None] /\ stale' = {}
      /\ UNCHANGED <<server, raced, mishaps>>
  BY <1>1, <1>3, <1>4 DEF Reload
<1>7. o \in Outputs
  BY <1>5 DEF OutputOK
<1>8. /\ view' \in [card : Card \cup {None}, locked : BOOLEAN, timer : BOOLEAN, picker : Sessions]
      /\ view'.card = o.card /\ view'.locked = o.locked /\ view'.timer = o.timer
      /\ view'.picker = s
  BY <1>2, <1>5, <1>6, <1>7 DEF Outputs
<1>9. LockedHasWayOut'
  BY <1>5, <1>6, <1>8 DEF LockedHasWayOut, OutputOK, WayOut, TaskIsActive
<1>10. TabOK'
  BY <1>2, <1>5, <1>6, <1>8, <1>9 DEF TabOK, OutputOK, SnapshotOK
<1>11. FlightOK' /\ CountsOK'
  BY <1>6 DEF BaseInv, FlightOK, CountsOK
<1>12. RowsOK'
  BY <1>6, RowsStay DEF BaseInv
<1> QED
  BY <1>2, <1>3, <1>5, <1>6, <1>8, <1>10, <1>11, <1>12 DEF BaseInv

LEMMA WorkKeepsBase ==
    ASSUME BaseInv, NEW t \in Kept, NEW status \in Status, NEW n \in Nat, WorkGoes(t, status, n)
    PROVE  BaseInv'
<1>1. RowsOK'
  <2>1. status \in Status \ {"not_found"}
    BY DEF WorkGoes
  <2> QED
    BY <2>1, RowMoves DEF BaseInv, WorkGoes
<1>2. FlightOK' /\ TabOK' /\ CountsOK'
  BY FlightStays, TabStays, MishapCounts DEF BaseInv, WorkGoes
<1> QED
  BY <1>1, <1>2 DEF BaseInv

LEMMA InitBase == Init => BaseInv
<1> SUFFICES ASSUME Init PROVE BaseInv
  OBVIOUS
<1>1. PICK s : s = CHOOSE x \in Sessions : TRUE
  OBVIOUS
<1>2. s \in Sessions
  BY <1>1, IdAssumption
<1>3. /\ ws = NewWorkspace(s)
      /\ view = [card |-> None, locked |-> FALSE, timer |-> FALSE, picker |-> s]
      /\ change = None
  BY <1>1 DEF Init
<1>4. TabOK
  BY <1>2, <1>3, NewIsOK DEF TabOK, LockedHasWayOut
<1>5. RowsOK
  BY DEF Init, RowsOK, NoTask, Kept, Status, Final
<1>6. FlightOK /\ CountsOK
  BY DEF Init, FlightOK, CountsOK
<1> QED
  BY <1>4, <1>5, <1>6 DEF BaseInv

LEMMA BaseStep ==
    ASSUME BaseInv, [Next]_vars
    PROVE  BaseInv'
<1>1. CASE Submit
  BY <1>1, SubmitIs, SubmitKeepsBase
<1>2. ASSUME NEW k \in Callbacks, Poll(k) PROVE BaseInv'
  BY <1>2, PollIs, PollKeepsBase
<1>3. ASSUME NEW k \in Decisions, Resume(k) PROVE BaseInv'
  BY <1>3, ResumeIs, ResumeKeepsBase
<1>4. ASSUME NEW s \in Sessions, PickSession(s) PROVE BaseInv'
  BY <1>4, PickKeepsBase
<1>5. CASE Load
  BY <1>5, LoadIs, LoadKeepsBase
<1>6. CASE CreateSession
  BY <1>6, CreateIs, CreateKeepsBase
<1>7. CASE DeleteCurrentSession
  BY <1>7, DeleteKeepsBase
<1>8. ASSUME NEW k \in Callbacks, Deliver(k) PROVE BaseInv'
  BY <1>8, DeliverIs
<1>9. CASE Reload
  BY <1>9, ReloadIs
<1>10. ASSUME NEW t \in Tasks, Work(t) PROVE BaseInv'
  <2>1. t \in Kept
    BY <1>10, WorkIs
  <2>2. PICK status \in Status, n \in Nat : WorkGoes(t, status, n)
    BY <1>10, WorkIs
  <2> QED
    BY <2>1, <2>2, WorkKeepsBase
<1>11. CASE UNCHANGED vars
  BY <1>11, RowsStay, TabStays, FlightStays, MishapCounts DEF vars, BaseInv
<1>12. "refresh" \in Callbacks /\ "tick" \in Callbacks
  BY DEF Callbacks, OtherCallbacks
<1> QED
  BY <1>1, <1>2, <1>3, <1>4, <1>5, <1>6, <1>7, <1>8, <1>9, <1>10, <1>11, <1>12 DEF Next, User

(* Whatever overlaps, fails or is lost, a locked composer has its way out: *)
(* the timer polls the task the state stands at, or its approval card is   *)
(* there (web/app.py, every callback's outputs).                           *)
THEOREM LocksHaveWaysOut == Spec => []LockedHasWayOut
<1>1. Init => BaseInv
  BY InitBase
<1>2. BaseInv /\ [Next]_vars => BaseInv'
  BY BaseStep
<1>3. BaseInv => LockedHasWayOut
  BY DEF BaseInv, TabOK
<1> QED
  BY <1>1, <1>2, <1>3, PTL DEF Spec

-----------------------------------------------------------------------------
(* Ids are handed out before they are used.                                *)

IdsOf(o) ==
    /\ o.ws.session \in known /\ o.ws.task \in known \cup {None}
    /\ o.picker \in known \cup {Keep}

LEMMA FlightIds ==
    ASSUME FlightOK, IdsAreKnown, NEW k \in Callbacks, NEW o, OutputOK(o), Returns(k, o),
           known \subseteq known', IdsOf(o)'
    PROVE  \A j \in Callbacks : flight'[j] # None => IdsOf(flight[j])'
<1>1. flight'[k] = o /\ \A j \in Callbacks : j # k => flight'[j] = flight[j]
  BY FlightGrows
<1> QED
  BY <1>1 DEF IdsAreKnown, IdsOf

LEMMA RowIds ==
    ASSUME IdsAreKnown, known \subseteq known', Kept' \subseteq Kept,
           \A t \in Kept' : task'[t].session = task[t].session
    PROVE  Kept' \subseteq known' /\ \A t \in Kept' : task'[t].session \in known'
  BY DEF IdsAreKnown

LEMMA InitIds == Init => IdsAreKnown
<1> SUFFICES ASSUME Init PROVE IdsAreKnown
  OBVIOUS
<1>1. PICK s : s = CHOOSE x \in Sessions : TRUE
  OBVIOUS
<1>2. /\ known = {s} /\ ws = NewWorkspace(s) /\ view.picker = s /\ change = None
      /\ flight = [k \in Callbacks |-> None] /\ Kept = {}
  BY <1>1 DEF Init, Kept, NoTask
<1>3. ws.session = s /\ ws.task = None
  BY <1>2 DEF NewWorkspace
<1> QED
  BY <1>2, <1>3 DEF IdsAreKnown

LEMMA SubmitIds ==
    ASSUME BaseInv, IdsAreKnown, NEW t \in Tasks, NEW o, SubmitGoes(t, o)
    PROVE  IdsAreKnown'
<1>1. /\ known' = known \cup {t} /\ ws' = ws /\ view' = view /\ change' = change
      /\ ws.session \in known
  BY DEF SubmitGoes, tab, IdsAreKnown
<1>2. \A j \in Callbacks : flight'[j] # None => IdsOf(flight[j])'
  BY <1>1, FlightIds DEF SubmitGoes, BaseInv, Callbacks, OtherCallbacks, IdsOf
<1>3. Kept' \subseteq known' /\ \A u \in Kept' : task'[u].session \in known'
  <2>1. CASE task' = [task EXCEPT ![t] = [session |-> ws.session, status |-> "active",
                                          approval |-> 0]]
    <3>1. task'[t].session = ws.session /\ \A u \in Tasks : u # t => task'[u] = task[u]
      BY <2>1 DEF BaseInv, RowsOK
    <3>2. \A u \in Kept' : u = t \/ (u \in Kept /\ task'[u] = task[u])
      BY <3>1 DEF Kept
    <3> QED
      BY <1>1, <3>1, <3>2 DEF IdsAreKnown
  <2>2. CASE UNCHANGED server
    BY <1>1, <2>2, RowIds DEF server, Kept
  <2> QED
    BY <2>1, <2>2 DEF SubmitGoes
<1> QED
  BY <1>1, <1>2, <1>3 DEF IdsAreKnown, IdsOf

LEMMA PollIds ==
    ASSUME BaseInv, IdsAreKnown, NEW k \in Callbacks, NEW o, PollGoes(k, o)
    PROVE  IdsAreKnown'
<1>1. /\ known' = known /\ ws' = ws /\ view' = view /\ change' = change
      /\ task' = task /\ Kept' = Kept
  BY DEF PollGoes, tab, server, Kept
<1>2. \A j \in Callbacks : flight'[j] # None => IdsOf(flight[j])'
  BY <1>1, FlightIds DEF PollGoes, BaseInv, IdsAreKnown, IdsOf
<1> QED
  BY <1>1, <1>2 DEF IdsAreKnown, IdsOf

LEMMA ResumeIds ==
    ASSUME BaseInv, IdsAreKnown, NEW k \in Decisions, NEW t \in Kept, NEW o,
           ResumeGoes(k, t, o)
    PROVE  IdsAreKnown'
<1>1. known' = known /\ ws' = ws /\ view' = view /\ change' = change
  BY DEF ResumeGoes, tab
<1>2. \A j \in Callbacks : flight'[j] # None => IdsOf(flight[j])'
  <2>1. CASE /\ Returns(k, o) /\ OutputOK(o) /\ o.ws.session = ws.session
             /\ o.ws.task = t /\ o.picker = Keep
    BY <1>1, <2>1, FlightIds DEF BaseInv, Callbacks, OtherCallbacks, IdsAreKnown, IdsOf
  <2>2. CASE UNCHANGED flight
    BY <1>1, <2>2 DEF IdsAreKnown, IdsOf
  <2> QED
    BY <2>1, <2>2 DEF ResumeGoes
<1>3. Kept' = Kept /\ \A u \in Kept : task'[u].session = task[u].session
  <2>1. t \in Tasks /\ task[t].approval \in Nat /\ "active" \in Status \ {"not_found"}
    BY DEF Kept, BaseInv, RowsOK, Status
  <2> QED
    BY <2>1, RowMoves DEF BaseInv, ResumeGoes, Kept
<1> QED
  BY <1>1, <1>2, <1>3 DEF IdsAreKnown, IdsOf

LEMMA StateIds ==
    ASSUME RowsOK, IdsAreKnown, NEW s \in Sessions
    PROVE  /\ StateFromSession(s).session = s
           /\ StateFromSession(s).task \in known \cup {None}
<1>1. TasksOf(s) \subseteq known
  BY DEF TasksOf, IdsAreKnown
<1> QED
  BY <1>1, StateIsOK

LEMMA LoadIds ==
    ASSUME BaseInv, IdsAreKnown, NEW s \in Sessions, NEW o, LoadGoes(s, o)
    PROVE  IdsAreKnown'
<1>1. /\ known' = known /\ ws' = ws /\ view' = view /\ change' = None
      /\ task' = task /\ Kept' = Kept
  BY DEF LoadGoes, server, Kept
<1>2. s \in known
  BY IdAssumption DEF LoadGoes, IdsAreKnown
<1>3. o.ws.session \in known /\ o.ws.task \in known \cup {None} /\ o.picker = Keep
  BY <1>2, StateIds DEF LoadGoes, IdsAreKnown, BaseInv
<1>4. \A j \in Callbacks : flight'[j] # None => IdsOf(flight[j])'
  BY <1>1, <1>3, FlightIds DEF LoadGoes, BaseInv, Callbacks, OtherCallbacks, IdsOf
<1> QED
  BY <1>1, <1>4 DEF IdsAreKnown, IdsOf

LEMMA NewIds ==
    ASSUME BaseInv, IdsAreKnown, NEW k \in Callbacks, NEW s \in Sessions, NEW o,
           NewGoes(k, s, o), UNCHANGED tab, Kept' \subseteq Kept,
           \A t \in Kept' : task'[t].session = task[t].session
    PROVE  IdsAreKnown'
<1>1. known' = known \cup {s} /\ ws' = ws /\ view' = view /\ change' = change
  BY DEF NewGoes, tab
<1>2. \A j \in Callbacks : flight'[j] # None => IdsOf(flight[j])'
  BY <1>1, FlightIds DEF NewGoes, BaseInv, IdsOf
<1>3. Kept' \subseteq known' /\ \A u \in Kept' : task'[u].session \in known'
  BY <1>1, RowIds
<1> QED
  BY <1>1, <1>2, <1>3 DEF IdsAreKnown, IdsOf

LEMMA GoneRows ==
    ASSUME NEW gone, RowsGo(gone)
    PROVE  Kept' \subseteq Kept /\ \A t \in Kept' : task'[t] = task[t]
  BY DEF RowsGo, Kept

LEMMA DeleteIds ==
    ASSUME BaseInv, IdsAreKnown, DeleteCurrentSession
    PROVE  IdsAreKnown'
<1>1. UNCHANGED tab /\ Kept' \subseteq Kept /\ \A t \in Kept' : task'[t].session = task[t].session
  BY DeleteIs, GoneRows
<1>2. CASE \E s \in Sessions : \E o : NewGoes("delete", s, o)
  BY <1>1, <1>2, NewIds DEF Callbacks, OtherCallbacks
<1>3. CASE UNCHANGED <<known, flight>>
  <2>1. known' = known /\ flight' = flight /\ ws' = ws /\ view' = view /\ change' = change
    BY <1>1, <1>3 DEF tab
  <2>2. Kept' \subseteq known' /\ \A u \in Kept' : task'[u].session \in known'
    BY <1>1, <2>1, RowIds
  <2> QED
    BY <2>1, <2>2 DEF IdsAreKnown
<1> QED
  BY <1>2, <1>3, DeleteIs

LEMMA DeliverIds ==
    ASSUME BaseInv, IdsAreKnown, NEW k \in Callbacks, Deliver(k)
    PROVE  IdsAreKnown'
<1>1. PICK o : o = flight[k]
  OBVIOUS
<1>2. /\ o # None /\ ws' = o.ws
      /\ view'.picker = IF o.picker = Keep THEN view.picker ELSE o.picker
      /\ change' = IF view'.picker # view.picker THEN view'.picker ELSE change
      /\ flight'[k] = None /\ \A j \in Callbacks : j # k => flight'[j] = flight[j]
      /\ UNCHANGED <<server, known, mishaps>>
  BY <1>1, DeliverIs
<1>3. IdsOf(o) /\ task' = task /\ Kept' = Kept /\ known' = known
  BY <1>1, <1>2 DEF IdsAreKnown, IdsOf, server, Kept
<1>4. view'.picker \in known /\ change' \in known \cup {None}
  BY <1>2, <1>3 DEF IdsAreKnown, IdsOf
<1>5. \A j \in Callbacks : flight'[j] # None => flight'[j] = flight[j]
  BY <1>2
<1> QED
  BY <1>2, <1>3, <1>4, <1>5 DEF IdsAreKnown, IdsOf

LEMMA ReloadIds ==
    ASSUME BaseInv, IdsAreKnown, Reload
    PROVE  IdsAreKnown'
<1>1. PICK s \in Sessions :
        /\ ws' = StateFromSession(s) /\ known' = known \cup {s}
        /\ view'.picker = s /\ change' = s
        /\ flight' = [k \in Callbacks |-> None]
        /\ UNCHANGED <<server, raced, mishaps>>
  BY ReloadIs
<1>2. ws'.session = s /\ ws'.task \in known \cup {None}
  BY <1>1, StateIds DEF BaseInv
<1>3. Kept' \subseteq known' /\ \A u \in Kept' : task'[u].session \in known'
  BY <1>1, RowIds DEF server, Kept
<1> QED
  BY <1>1, <1>2, <1>3 DEF IdsAreKnown

LEMMA WorkIds ==
    ASSUME BaseInv, IdsAreKnown, NEW t \in Kept, NEW status \in Status, NEW n \in Nat,
           WorkGoes(t, status, n)
    PROVE  IdsAreKnown'
<1>1. known' = known /\ ws' = ws /\ view' = view /\ change' = change /\ flight' = flight
  BY DEF WorkGoes, tab
<1>2. Kept' = Kept /\ \A u \in Kept : task'[u].session = task[u].session
  <2>1. status \in Status \ {"not_found"}
    BY DEF WorkGoes
  <2> QED
    BY <2>1, RowMoves DEF BaseInv, WorkGoes, Kept
<1> QED
  BY <1>1, <1>2 DEF IdsAreKnown

LEMMA IdsStep ==
    ASSUME BaseInv, IdsAreKnown, [Next]_vars
    PROVE  IdsAreKnown'
<1>1. CASE Submit
  BY <1>1, SubmitIs, SubmitIds
<1>2. ASSUME NEW k \in Callbacks, Poll(k) PROVE IdsAreKnown'
  BY <1>2, PollIs, PollIds
<1>3. ASSUME NEW k \in Decisions, Resume(k) PROVE IdsAreKnown'
  BY <1>3, ResumeIs, ResumeIds
<1>4. ASSUME NEW s \in Sessions, PickSession(s) PROVE IdsAreKnown'
  <2>1. /\ UNCHANGED <<server, known, ws, flight, races, mishaps>>
        /\ view'.picker = s /\ change' = s
    BY <1>4, PickKeepsBase
  <2>2. s \in known
    BY <1>4 DEF PickSession, TasksOf, IdsAreKnown
  <2> QED
    BY <2>1, <2>2 DEF IdsAreKnown, server, Kept
<1>5. CASE Load
  BY <1>5, LoadIs, LoadIds
<1>6. CASE CreateSession
  <2>1. PICK s \in Sessions : \E o : NewGoes("create", s, o)
    BY <1>6, CreateIs
  <2>2. UNCHANGED tab /\ task' = task
    BY <1>6, CreateIs DEF server
  <2> QED
    BY <2>1, <2>2, NewIds DEF Callbacks, OtherCallbacks, Kept
<1>7. CASE DeleteCurrentSession
  BY <1>7, DeleteIds
<1>8. ASSUME NEW k \in Callbacks, Deliver(k) PROVE IdsAreKnown'
  BY <1>8, DeliverIds
<1>9. CASE Reload
  BY <1>9, ReloadIds
<1>10. ASSUME NEW t \in Tasks, Work(t) PROVE IdsAreKnown'
  <2>1. t \in Kept
    BY <1>10, WorkIs
  <2>2. PICK status \in Status, n \in Nat : WorkGoes(t, status, n)
    BY <1>10, WorkIs
  <2> QED
    BY <2>1, <2>2, WorkIds
<1>11. CASE UNCHANGED vars
  BY <1>11 DEF vars, server, tab, IdsAreKnown, Kept
<1>12. "refresh" \in Callbacks /\ "tick" \in Callbacks
  BY DEF Callbacks, OtherCallbacks
<1> QED
  BY <1>1, <1>2, <1>3, <1>4, <1>5, <1>6, <1>7, <1>8, <1>9, <1>10, <1>11, <1>12 DEF Next, User

-----------------------------------------------------------------------------
(* Without failures and races, the tab knows what is under way.            *)

CalmParts == OneLive /\ SentAreActive /\ AllBelieve /\ AllCurrent

(* No task gets under way unseen: what is live was, or is being sent.      *)
NothingNew ==
    \A t \in Tasks :
      Live(t)' => \/ Sending(t)'
                  \/ Live(t) /\ task'[t].session = task[t].session /\ (Sending(t) => Sending(t)')

LEMMA BelieveStays ==
    ASSUME NEW w, Believes(w), NothingNew
    PROVE  Believes(w)'
<1> SUFFICES ASSUME NEW t \in Tasks, Live(t)', task'[t].session = w.session, ~Sending(t)'
             PROVE  w.task = t /\ w.status \in {"active", "interrupted"}
  BY DEF Believes, Live, Sending
<1>1. Live(t) /\ task[t].session = w.session /\ ~Sending(t)
  BY DEF NothingNew
<1> QED
  BY <1>1 DEF Believes

LEMMA BelieveGrows ==
    ASSUME FlightOK, AllBelieve, NothingNew, NEW k \in Callbacks, NEW o, OutputOK(o),
           Returns(k, o), ws' = ws, stale' = stale, Believes(o.ws)'
    PROVE  AllBelieve'
<1>1. flight'[k] = o /\ \A j \in Callbacks : j # k => flight'[j] = flight[j]
  BY FlightGrows
<1>2. Believes(ws)'
  BY BelieveStays DEF AllBelieve, Believes, Live, Sending
<1>3. ASSUME NEW j \in Callbacks \ stale', flight'[j] # None PROVE Believes(flight[j].ws)'
  <2>1. CASE j = k
    BY <1>1, <2>1 DEF Believes, Live, Sending
  <2>2. CASE j # k
    <3>1. PICK w : w = flight[j].ws
      OBVIOUS
    <3>2. Believes(w)
      BY <1>1, <1>3, <2>2, <3>1 DEF AllBelieve
    <3>3. Believes(w)'
      BY <3>2, BelieveStays
    <3>4. flight'[j].ws = w
      BY <1>1, <2>2, <3>1
    <3> QED
      BY <3>3, <3>4 DEF Believes, Live, Sending
  <2> QED
    BY <2>1, <2>2
<1> QED
  BY <1>2, <1>3 DEF AllBelieve

(* An approval that something stands at is left alone.                     *)
LEMMA CurrentStays ==
    ASSUME NEW w, NEW card, SnapshotOK(w), Current(w, card),
           w.status = "interrupted" /\ Live(w.task)' => task'[w.task] = task[w.task]
    PROVE  Current(w, card)'
  BY DEF Current, Live, CardOf

LEMMA CurrentGrows ==
    ASSUME TabOK, FlightOK, AllCurrent, NEW k \in Callbacks, NEW o, OutputOK(o),
           Returns(k, o), ws' = ws, view'.card = view.card, stale' = stale,
           k \notin Decisions, Current(o.ws, o.card)',
           IdsAreKnown, \A u \in known \cap Tasks : Live(u)' => task'[u] = task[u]
    PROVE  AllCurrent'
<1>1. /\ flight'[k] = o /\ \A j \in Callbacks : j # k => flight'[j] = flight[j]
      /\ Decisions \subseteq Callbacks
  BY FlightGrows DEF Callbacks
<1> SUFFICES ASSUME ~Deciding
             PROVE  /\ Current(ws, view.card)'
                    /\ \A j \in Callbacks \ stale' : flight'[j] # None =>
                         Current(flight[j].ws, flight[j].card)'
  BY <1>1 DEF AllCurrent, Deciding
<1>2. ASSUME NEW w, NEW card, SnapshotOK(w), w.task \in known \cup {None}, Current(w, card)
      PROVE  Current(w, card)'
  <2>1. w.status = "interrupted" => w.task \in known \cap Tasks
    BY <1>2 DEF SnapshotOK, Snapshot
  <2> QED
    BY <1>2, <2>1, CurrentStays
<1>3. Current(ws, view.card)'
  <2>1. PICK w, card : w = ws /\ card = view.card
    OBVIOUS
  <2>2. Current(w, card)'
    BY <1>2, <2>1 DEF TabOK, IdsAreKnown, AllCurrent
  <2> QED
    BY <2>1, <2>2 DEF Current, Live, CardOf
<1>4. ASSUME NEW j \in Callbacks \ stale', flight'[j] # None
      PROVE  Current(flight[j].ws, flight[j].card)'
  <2>1. CASE j = k
    BY <1>1, <2>1 DEF Current, Live, CardOf
  <2>2. CASE j # k
    <3>1. PICK w, card : w = flight[j].ws /\ card = flight[j].card
      OBVIOUS
    <3>2. Current(w, card) /\ SnapshotOK(w) /\ w.task \in known \cup {None}
      BY <1>1, <1>4, <2>2, <3>1 DEF AllCurrent, FlightOK, OutputOK, IdsAreKnown
    <3>3. Current(w, card)'
      BY <1>2, <3>2
    <3>4. flight'[j].ws = w /\ flight'[j].card = card
      BY <1>1, <2>2, <3>1
    <3> QED
      BY <3>3, <3>4 DEF Current, Live, CardOf
  <2> QED
    BY <2>1, <2>2
<1> QED
  BY <1>3, <1>4

LEMMA SentStay ==
    ASSUME FlightOK, SentAreActive, NEW k \in Callbacks, NEW o, OutputOK(o), Returns(k, o),
           k \in Decisions \cup {"submit"} => o.ws.status = "active"
    PROVE  SentAreActive'
<1>1. flight'[k] = o /\ \A j \in Callbacks : j # k => flight'[j] = flight[j]
  BY FlightGrows
<1> QED
  BY <1>1 DEF SentAreActive, Callbacks, OtherCallbacks

(* Fewer tasks under way, in fewer rows, and the order as it was.          *)
LEMMA OneLiveStays ==
    ASSUME OneLive, recent' = recent, Kept' \subseteq Kept,
           \A t \in Kept' : task'[t] = task[t]
    PROVE  OneLive'
<1>1. \A t \in Tasks : Live(t)' => t \in Kept' /\ Live(t)
  BY DEF Live, Kept
<1>2. \A s \in Sessions : TasksOf(s)' \subseteq TasksOf(s)
  BY DEF TasksOf
<1>3. ASSUME NEW s \in Sessions, NEW t \in TasksOf(s)', Live(t)'
      PROVE  NewestOf(recent', t, TasksOf(s)')
  <2>1. t \in TasksOf(s) /\ Live(t)
    BY <1>1, <1>2, <1>3 DEF TasksOf, Kept
  <2>2. NewestOf(recent, t, TasksOf(s))
    BY <2>1, <1>3 DEF OneLive
  <2> QED
    BY <1>2, <2>2 DEF NewestOf
<1>4. \A t, u \in Tasks : Live(t)' /\ Live(u)' /\ task'[t].session = task'[u].session => t = u
  BY <1>1 DEF OneLive
<1> QED
  BY <1>3, <1>4 DEF OneLive, NewestOf

(* A live task that moves on goes to the end of the order.                 *)
LEMMA OneLiveMoves ==
    ASSUME RowsOK, OneLive, NEW t \in Kept, Live(t), Touch(t),
           Kept' = Kept, task'[t].session = task[t].session,
           \A u \in Tasks : u # t => task'[u] = task[u]
    PROVE  OneLive'
<1>1. \A u \in Tasks : task'[u].session = task[u].session /\ (Live(u)' => Live(u))
  BY DEF Live
<1>2. \A s \in Sessions : TasksOf(s)' = TasksOf(s)
  BY <1>1 DEF TasksOf, Kept
<1>3. ASSUME NEW s \in Sessions, NEW u \in TasksOf(s), Live(u)'
      PROVE  NewestOf(recent', u, TasksOf(s))
  <2>1. Live(u) /\ t \in Tasks /\ u \in Tasks
    BY <1>1, <1>3 DEF TasksOf, Kept
  <2>2. CASE u = t
    BY <2>1, <2>2, TouchNewest DEF RowsOK
  <2>3. CASE u # t
    <3>1. t \notin TasksOf(s) /\ NewestOf(recent, u, TasksOf(s))
      BY <2>1, <2>3 DEF OneLive, TasksOf
    <3> QED
      BY <2>1, <2>3, <3>1, TouchNewest DEF RowsOK
  <2> QED
    BY <2>2, <2>3
<1>4. \A s \in Sessions : \A u \in TasksOf(s)' : Live(u)' => NewestOf(recent', u, TasksOf(s)')
  BY <1>2, <1>3
<1>5. \A u, v \in Tasks : Live(u)' /\ Live(v)' /\ task'[u].session = task'[v].session => u = v
  BY <1>1 DEF OneLive
<1> QED
  BY <1>4, <1>5 DEF OneLive, NewestOf

(* What a snapshot taken from the rows of a session believes.              *)
LEMMA StateBelieves ==
    ASSUME RowsOK, OneLive, NEW s \in Sessions
    PROVE  /\ \A t \in Tasks : Live(t) /\ task[t].session = s =>
                /\ StateFromSession(s).task = t
                /\ StateFromSession(s).status = task[t].status
           /\ StateFromSession(s).status = "interrupted" =>
                task[StateFromSession(s).task].status = "interrupted"
<1>1. ASSUME NEW t \in Tasks, Live(t), task[t].session = s
      PROVE  /\ StateFromSession(s).task = t
             /\ StateFromSession(s).status = task[t].status
  <2>1. t \in TasksOf(s) /\ NewestOf(recent, t, TasksOf(s))
    BY <1>1 DEF OneLive, TasksOf, Kept, Live
  <2>2. Latest(TasksOf(s)) = t
    BY <2>1, LatestIsNewest
  <2> QED
    BY <2>1, <2>2, StateIsOK
<1> QED
  BY <1>1, StateIsOK

LEMMA SubmitIsCalm ==
    ASSUME BaseInv, IdsAreKnown, CalmParts, NEW t \in Tasks, NEW o, SubmitGoes(t, o),
           ~Mishap
    PROVE  CalmParts'
<1>1. /\ o.ws.session = ws.session /\ o.ws.task = t /\ o.ws.status = "active"
      /\ task' = [task EXCEPT ![t] = [session |-> ws.session, status |-> "active",
                                      approval |-> 0]]
      /\ Touch(t) /\ Returns("submit", o) /\ OutputOK(o)
      /\ ws' = ws /\ view' = view /\ stale' = stale /\ t \notin known
      /\ flight["submit"] = None /\ ~TaskIsActive(ws) /\ ws.status # "interrupted"
  BY DEF SubmitGoes, tab, races
<1>2. /\ task'[t].session = ws.session /\ task'[t].status = "active"
      /\ \A u \in Tasks : u # t => task'[u] = task[u]
  BY <1>1 DEF BaseInv, RowsOK
<1>3. t \notin Kept /\ "submit" \in Callbacks /\ ~Live(t)
  BY <1>1 DEF IdsAreKnown, Callbacks, OtherCallbacks, Kept, Live
<1>4. flight'["submit"] = o /\ o # None /\ Sending(t)'
  BY <1>1, <1>3, FlightGrows DEF BaseInv, Sending
<1>5. \A u \in Tasks : Live(u) => task[u].session # ws.session
  <2> SUFFICES ASSUME NEW u \in Tasks, Live(u), task[u].session = ws.session PROVE FALSE
    OBVIOUS
  <2>1. ws.task = u /\ ws.status \in {"active", "interrupted"}
    BY <1>1 DEF CalmParts, AllBelieve, Believes, Sending
  <2> QED
    BY <1>1, <2>1, IdAssumption DEF TaskIsActive
<1>6. OneLive'
  <2>1. \A u, v \in Tasks : Live(u)' /\ Live(v)' /\ task'[u].session = task'[v].session => u = v
    BY <1>2, <1>5 DEF CalmParts, OneLive, Live
  <2>2. ASSUME NEW s \in Sessions, NEW u \in TasksOf(s)', Live(u)'
        PROVE  NewestOf(recent', u, TasksOf(s)')
    <3>1. PICK S : S = TasksOf(s)'
      OBVIOUS
    <3>2. CASE u = t
      BY <1>1, <3>1, <3>2, TouchNewest DEF BaseInv, RowsOK
    <3>3. CASE u # t
      <4>1. /\ u \in Tasks /\ Live(u) /\ task'[u] = task[u] /\ task[u].session = s
            /\ s # ws.session
        BY <1>2, <1>5, <2>2, <3>3 DEF Live, TasksOf, Kept
      <4>2. S = TasksOf(s) /\ t \notin S
        <5>1. S \subseteq Tasks /\ TasksOf(s) \subseteq Tasks
          BY <3>1 DEF TasksOf, Kept
        <5>2. t \notin S /\ t \notin TasksOf(s)
          BY <1>2, <1>3, <3>1, <4>1 DEF TasksOf
        <5>3. \A v \in Tasks : v # t => (v \in S <=> v \in TasksOf(s))
          BY <1>2, <3>1 DEF TasksOf, Kept
        <5> QED
          BY <5>1, <5>2, <5>3
      <4>3. NewestOf(recent, u, S)
        BY <2>2, <3>1, <4>1, <4>2 DEF CalmParts, OneLive
      <4>4. NewestOf(recent', u, S)
        BY <1>1, <3>3, <4>2, <4>3, TouchNewest DEF BaseInv, RowsOK
      <4> QED
        BY <3>1, <4>4
    <3> QED
      BY <3>2, <3>3
  <2> QED
    BY <2>1, <2>2 DEF OneLive, NewestOf
<1>7. SentAreActive'
  BY <1>1, <1>3, SentStay DEF BaseInv, CalmParts
<1>8. NothingNew
  <2> SUFFICES ASSUME NEW u \in Tasks, Live(u)', u # t
               PROVE  Live(u) /\ task'[u].session = task[u].session /\ ~Sending(u)
    BY <1>4 DEF NothingNew
  <2> QED
    BY <1>1, <1>2 DEF Live, Sending
<1>9. Believes(o.ws)'
  <2> SUFFICES ASSUME NEW u \in Tasks, Live(u)', task'[u].session = o.ws.session PROVE Sending(u)'
    BY <1>1, <1>4 DEF Believes, Live, Sending
  <2>1. u = t
    BY <1>1, <1>2, <1>5 DEF Live
  <2> QED
    BY <1>4, <2>1
<1>10. AllBelieve'
  BY <1>1, <1>3, <1>8, <1>9, BelieveGrows DEF BaseInv, CalmParts
<1>11. Current(o.ws, o.card)'
  BY <1>1 DEF Current
<1>12. AllCurrent'
  BY <1>1, <1>2, <1>3, <1>11, Listeners, CurrentGrows DEF BaseInv, CalmParts
<1> QED
  BY <1>6, <1>7, <1>10, <1>12 DEF CalmParts

(* Rows as they were, or fewer, raise no doubt about what is in flight.    *)
LEMMA NothingNewHere ==
    ASSUME Kept' \subseteq Kept, \A t \in Kept' : task'[t] = task[t],
           \A t \in Tasks : Sending(t) => Sending(t)'
    PROVE  NothingNew /\ \A t \in Tasks : Live(t)' => Live(t) /\ task'[t] = task[t]
  BY DEF NothingNew, Live, Kept

LEMMA SendingStays ==
    ASSUME FlightOK, NEW k \in Callbacks \ {"submit"}, NEW o, OutputOK(o), Returns(k, o)
    PROVE  \A t \in Tasks : Sending(t)' <=> Sending(t)
<1>1. flight'["submit"] = flight["submit"]
  BY FlightGrows DEF Callbacks, OtherCallbacks
<1> QED
  BY <1>1 DEF Sending

(* A callback starts that makes no task, and knows what is under way.      *)
LEMMA StartIsCalm ==
    ASSUME BaseInv, IdsAreKnown, CalmParts, NEW k \in OtherCallbacks \ {"submit"},
           NEW o, OutputOK(o), Returns(k, o),
           recent' = recent, Kept' \subseteq Kept, \A t \in Kept' : task'[t] = task[t],
           ws' = ws, view' = view, stale' = stale,
           Believes(o.ws), Current(o.ws, o.card)'
    PROVE  CalmParts'
<1>0. k \in Callbacks /\ k \notin Decisions
  BY Listeners
<1>1. NothingNew /\ \A t \in Tasks : Live(t)' => Live(t) /\ task'[t] = task[t]
  BY <1>0, NothingNewHere, SendingStays DEF BaseInv
<1>2. OneLive'
  BY OneLiveStays DEF CalmParts
<1>3. SentAreActive'
  BY <1>0, SentStay DEF BaseInv, CalmParts
<1>4. Believes(o.ws)'
  BY <1>1, BelieveStays
<1>5. AllBelieve'
  BY <1>0, <1>1, <1>4, BelieveGrows DEF BaseInv, CalmParts
<1>6. AllCurrent'
  BY <1>0, <1>1, CurrentGrows DEF BaseInv, CalmParts
<1> QED
  BY <1>2, <1>3, <1>5, <1>6 DEF CalmParts

LEMMA PollIsCalm ==
    ASSUME BaseInv, IdsAreKnown, CalmParts, NEW k \in {"tick", "refresh"}, NEW o,
           PollGoes(k, o), ~Mishap
    PROVE  CalmParts'
<1>1. /\ o.ws.session = ws.session /\ o.ws.task = ws.task /\ o.ws.status = task[ws.task].status
      /\ o.ws.status = "interrupted" => o.card = CardOf(ws.task)
      /\ Returns(k, o) /\ OutputOK(o) /\ task' = task /\ recent' = recent
      /\ ws' = ws /\ view' = view /\ stale' = stale
  BY DEF PollGoes, server, tab, races
<1>2. Believes(o.ws)
  BY <1>1 DEF CalmParts, AllBelieve, Believes, Live
<1>3. Current(o.ws, o.card)'
  BY <1>1 DEF Current, CardOf, Live
<1> QED
  BY <1>1, <1>2, <1>3, StartIsCalm DEF Callbacks, OtherCallbacks, Kept

LEMMA LoadIsCalm ==
    ASSUME BaseInv, IdsAreKnown, CalmParts, NEW s \in Sessions, NEW o, LoadGoes(s, o), ~Mishap
    PROVE  CalmParts'
<1>1. /\ o.ws = StateFromSession(s) /\ o.ws.session = s
      /\ o.ws.status = "interrupted" => o.card = CardOf(o.ws.task)
      /\ Returns("load", o) /\ OutputOK(o) /\ task' = task /\ recent' = recent
      /\ ws' = ws /\ view' = view /\ stale' = stale
  BY StateIsOK DEF LoadGoes, server, races, BaseInv
<1>2. Believes(o.ws)
  BY <1>1, StateBelieves DEF BaseInv, CalmParts, Believes, Live
<1>3. Current(o.ws, o.card)'
  <2>1. o.ws.status = "interrupted" => task[o.ws.task].status = "interrupted"
    BY <1>1, StateBelieves DEF BaseInv, CalmParts
  <2> QED
    BY <1>1, <2>1 DEF Current, CardOf, Live
<1> QED
  BY <1>1, <1>2, <1>3, StartIsCalm DEF Callbacks, OtherCallbacks, Kept

LEMMA NewIsCalm ==
    ASSUME BaseInv, IdsAreKnown, CalmParts, NEW k \in {"create", "delete"},
           NEW s \in Sessions, NEW o, NewGoes(k, s, o), UNCHANGED <<tab, races>>,
           recent' = recent, Kept' \subseteq Kept, \A t \in Kept' : task'[t] = task[t]
    PROVE  CalmParts'
<1>1. /\ o.ws.session = s /\ o.ws.status = "active" /\ s \notin known
      /\ Returns(k, o) /\ OutputOK(o) /\ ws' = ws /\ view' = view /\ stale' = stale
  BY DEF NewGoes, tab, races
<1>2. Believes(o.ws)
  BY <1>1 DEF Believes, Live, IdsAreKnown, Kept
<1>3. Current(o.ws, o.card)'
  BY <1>1 DEF Current
<1> QED
  BY <1>1, <1>2, <1>3, StartIsCalm DEF Callbacks, OtherCallbacks

LEMMA ResumeIsCalm ==
    ASSUME BaseInv, IdsAreKnown, CalmParts, NEW k \in Decisions, NEW t \in Kept, NEW o,
           ResumeGoes(k, t, o), ~Mishap
    PROVE  CalmParts'
<1>1. /\ o.ws.session = ws.session /\ o.ws.task = t /\ o.ws.status = "active" /\ t = ws.task
      /\ task[t].status = "interrupted" /\ Touch(t)
      /\ task' = [task EXCEPT ![t].status = "active", ![t].approval = task[t].approval]
      /\ Returns(k, o) /\ OutputOK(o) /\ ws' = ws /\ stale' = stale
  BY DEF ResumeGoes, tab, races
<1>2. t \in Tasks /\ task[t].approval \in Nat /\ "active" \in Status \ {"not_found"}
  BY DEF Kept, BaseInv, RowsOK, Status
<1>3. /\ Kept' = Kept /\ task'[t].status = "active" /\ task'[t].session = task[t].session
      /\ \A u \in Tasks : u # t => task'[u] = task[u]
  BY <1>1, <1>2, RowMoves DEF BaseInv
<1>4. flight'[k] = o /\ o # None /\ k \in Callbacks \ {"submit"}
  BY <1>1, FlightGrows, Listeners DEF BaseInv
<1>5. OneLive'
  BY <1>1, <1>3, OneLiveMoves DEF BaseInv, CalmParts, Live
<1>6. SentAreActive'
  BY <1>1, <1>4, SentStay DEF BaseInv, CalmParts
<1>7. \A u \in Tasks : Sending(u)' <=> Sending(u)
  BY <1>1, <1>4, SendingStays DEF BaseInv
<1>8. \A u \in Tasks : Live(u)' => Live(u) /\ task'[u].session = task[u].session
  BY <1>1, <1>3 DEF Live
<1>9. NothingNew
  BY <1>7, <1>8 DEF NothingNew
<1>10. Believes(o.ws)
  BY <1>1 DEF CalmParts, AllBelieve, Believes
<1>11. Believes(o.ws)'
  BY <1>9, <1>10, BelieveStays
<1>12. AllBelieve'
  BY <1>1, <1>4, <1>9, <1>11, BelieveGrows DEF BaseInv, CalmParts
<1>13. AllCurrent'
  BY <1>4 DEF AllCurrent, Deciding
<1> QED
  BY <1>5, <1>6, <1>12, <1>13 DEF CalmParts

LEMMA WorkIsCalm ==
    ASSUME BaseInv, IdsAreKnown, CalmParts, NEW t \in Kept, NEW status \in Status, NEW n \in Nat,
           WorkGoes(t, status, n)
    PROVE  CalmParts'
<1>1. /\ task[t].status = "active" /\ Touch(t) /\ status \in Status \ {"not_found"}
      /\ task' = [task EXCEPT ![t].status = status, ![t].approval = n]
      /\ ws' = ws /\ view' = view /\ flight' = flight /\ stale' = stale
  BY DEF WorkGoes, tab, races
<1>2. t \in Tasks /\ Live(t)
  BY <1>1 DEF Kept, Live
<1>3. /\ Kept' = Kept /\ task'[t].session = task[t].session
      /\ \A u \in Tasks : u # t => task'[u] = task[u]
  BY <1>1, RowMoves DEF BaseInv
<1>4. OneLive'
  BY <1>1, <1>2, <1>3, OneLiveMoves DEF BaseInv, CalmParts
<1>5. SentAreActive'
  BY <1>1 DEF CalmParts, SentAreActive
<1>6. NothingNew
  BY <1>1, <1>2, <1>3 DEF NothingNew, Live, Sending
<1>7. AllBelieve'
  <2>1. ASSUME NEW w, Believes(w) PROVE Believes(w)'
    BY <1>6, <2>1, BelieveStays
  <2>2. Believes(ws)'
    <3>1. PICK w : w = ws
      OBVIOUS
    <3>2. Believes(w)'
      BY <2>1, <3>1 DEF CalmParts, AllBelieve
    <3> QED
      BY <1>1, <3>1, <3>2 DEF Believes, Live, Sending
  <2>3. ASSUME NEW j \in Callbacks \ stale, flight[j] # None PROVE Believes(flight[j].ws)'
    <3>1. PICK w : w = flight[j].ws
      OBVIOUS
    <3>2. Believes(w)'
      BY <2>1, <2>3, <3>1 DEF CalmParts, AllBelieve
    <3> QED
      BY <1>1, <3>1, <3>2 DEF Believes, Live, Sending
  <2> QED
    BY <1>1, <2>2, <2>3 DEF AllBelieve
<1>8. AllCurrent'
  <2> SUFFICES ASSUME ~Deciding
               PROVE  /\ Current(ws, view.card)'
                      /\ \A j \in Callbacks \ stale' : flight'[j] # None =>
                           Current(flight[j].ws, flight[j].card)'
    BY <1>1 DEF AllCurrent, Deciding
  <2>1. ASSUME NEW w, NEW card, SnapshotOK(w), Current(w, card) PROVE Current(w, card)'
    <3>1. w.status = "interrupted" => w.task \in Tasks /\ w.task # t
      BY <1>1, <1>2, <2>1 DEF Current, SnapshotOK, Snapshot
    <3> QED
      BY <1>3, <2>1, <3>1, CurrentStays
  <2>2. Current(ws, view.card)'
    <3>1. PICK w, card : w = ws /\ card = view.card
      OBVIOUS
    <3>2. Current(w, card)'
      BY <2>1, <3>1 DEF BaseInv, TabOK, CalmParts, AllCurrent
    <3> QED
      BY <1>1, <3>1, <3>2 DEF Current, Live, CardOf
  <2>3. ASSUME NEW j \in Callbacks \ stale, flight[j] # None
        PROVE  Current(flight[j].ws, flight[j].card)'
    <3>1. PICK w, card : w = flight[j].ws /\ card = flight[j].card
      OBVIOUS
    <3>2. Current(w, card)'
      BY <2>1, <2>3, <3>1 DEF BaseInv, FlightOK, OutputOK, CalmParts, AllCurrent
    <3> QED
      BY <1>1, <3>1, <3>2 DEF Current, Live, CardOf
  <2> QED
    BY <1>1, <2>2, <2>3
<1> QED
  BY <1>4, <1>5, <1>7, <1>8 DEF CalmParts

(* Only a callback whose snapshot is current returns to a calm tab.        *)
LEMMA DeliverIsCalm ==
    ASSUME BaseInv, CalmParts, NEW k \in Callbacks, Deliver(k), ~raced'
    PROVE  CalmParts'
<1>1. PICK o : o = flight[k]
  OBVIOUS
<1>2. /\ o # None /\ OutputOK(o) /\ ws' = o.ws /\ k \notin stale
      /\ view'.card = (IF o.card = Keep THEN view.card ELSE o.card)
      /\ stale' = {j \in Callbacks \ {k} : flight[j] # None}
      /\ flight'[k] = None /\ \A j \in Callbacks : j # k => flight'[j] = flight[j]
      /\ task' = task /\ recent' = recent
  BY <1>1, DeliverIs DEF server
<1>3. Believes(o.ws) /\ (~Deciding => Current(o.ws, o.card))
  BY <1>1, <1>2 DEF CalmParts, AllBelieve, AllCurrent
<1>4. \A j \in Callbacks \ stale' : flight'[j] = None
  BY <1>2
<1>5. OneLive'
  BY <1>2, OneLiveStays DEF CalmParts, Kept
<1>6. SentAreActive'
  BY <1>2 DEF CalmParts, SentAreActive, Callbacks, OtherCallbacks
<1>7. Believes(ws)'
  <2>1. CASE k = "submit"
    BY <1>1, <1>2, <1>3, <2>1 DEF CalmParts, SentAreActive, Believes, Sending, Live
  <2>2. CASE k # "submit"
    <3>1. flight'["submit"] = flight["submit"]
      BY <1>2, <2>2 DEF Callbacks, OtherCallbacks
    <3> QED
      BY <1>2, <1>3, <3>1 DEF Believes, Sending, Live
  <2> QED
    BY <2>1, <2>2
<1>8. ~Deciding' => Current(ws, view.card)'
  <2>1. CASE k \in Decisions
    BY <1>1, <1>2, <2>1 DEF CalmParts, SentAreActive, Current
  <2>2. CASE k \notin Decisions /\ o.card # Keep
    <3>1. ~Deciding' => ~Deciding
      BY <1>2, <2>2 DEF Deciding, Callbacks
    <3> QED
      BY <1>2, <1>3, <2>2, <3>1 DEF Current, Live, CardOf
  <2>3. CASE o.card = Keep
    BY <1>2, <2>3 DEF OutputOK, Current
  <2> QED
    BY <2>1, <2>2, <2>3
<1> QED
  BY <1>4, <1>5, <1>6, <1>7, <1>8 DEF CalmParts, AllBelieve, AllCurrent

LEMMA ReloadIsCalm ==
    ASSUME BaseInv, CalmParts, Reload
    PROVE  CalmParts'
<1>1. PICK s \in Sessions :
        /\ ws' = StateFromSession(s)
        /\ view'.card = IF ws'.status = "interrupted" THEN CardOf(ws'.task) ELSE None
        /\ flight' = [k \in Callbacks |-> None]
        /\ UNCHANGED server
  BY ReloadIs
<1>2. task' = task /\ recent' = recent /\ Kept' = Kept /\ ws'.session = s
  BY <1>1, StateIsOK DEF server, Kept, BaseInv
<1>3. OneLive'
  BY <1>2, OneLiveStays DEF CalmParts
<1>4. Believes(ws)'
  BY <1>1, <1>2, StateBelieves DEF BaseInv, CalmParts, Believes, Live
<1>5. Current(ws, view.card)'
  <2>1. ws'.status = "interrupted" => task[ws'.task].status = "interrupted"
    BY <1>1, StateBelieves DEF BaseInv, CalmParts
  <2> QED
    BY <1>1, <1>2, <2>1 DEF Current, CardOf, Live
<1>6. \A k \in Callbacks : flight'[k] = None
  BY <1>1
<1> QED
  BY <1>3, <1>4, <1>5, <1>6 DEF CalmParts, SentAreActive, AllBelieve, AllCurrent, Callbacks, OtherCallbacks

LEMMA PickIsCalm ==
    ASSUME CalmParts, UNCHANGED <<server, known, ws, flight, races, mishaps>>,
           view'.card = view.card
    PROVE  CalmParts'
<1>1. /\ task' = task /\ recent' = recent /\ ws' = ws /\ flight' = flight /\ stale' = stale
      /\ Kept' = Kept
  BY DEF server, races, Kept
<1>2. OneLive'
  BY <1>1, OneLiveStays DEF CalmParts
<1>3. SentAreActive'
  BY <1>1 DEF CalmParts, SentAreActive
<1>4. AllBelieve'
  BY <1>1 DEF CalmParts, AllBelieve, Believes, Sending, Live
<1>5. AllCurrent'
  BY <1>1 DEF CalmParts, AllCurrent, Deciding, Current, Live, CardOf
<1> QED
  BY <1>2, <1>3, <1>4, <1>5 DEF CalmParts

LEMMA CalmStep ==
    ASSUME Inv, [Next]_vars
    PROVE  CalmInv'
<1> SUFFICES ASSUME Calm' PROVE CalmParts'
  BY DEF CalmInv, CalmParts
<1>1. BaseInv /\ IdsAreKnown /\ CountsOK /\ (Calm => CalmParts)
  BY DEF Inv, BaseInv, CalmInv, CalmParts
<1>2. CASE Submit
  <2>1. PICK t \in Tasks : \E o : SubmitGoes(t, o)
    BY <1>1, <1>2, SubmitIs
  <2>2. Calm /\ ~Mishap
    BY <1>1, <2>1, MishapCounts DEF SubmitGoes
  <2> QED
    BY <1>1, <2>1, <2>2, SubmitIsCalm
<1>3. ASSUME NEW k \in {"tick", "refresh"}, Poll(k) PROVE CalmParts'
  <2>1. PICK o : PollGoes(k, o)
    BY <1>1, <1>3, PollIs
  <2>2. Calm /\ ~Mishap
    BY <1>1, <2>1, MishapCounts DEF PollGoes
  <2> QED
    BY <1>1, <2>1, <2>2, PollIsCalm
<1>4. ASSUME NEW k \in Decisions, Resume(k) PROVE CalmParts'
  <2>1. PICK t \in Kept : \E o : ResumeGoes(k, t, o)
    BY <1>1, <1>4, ResumeIs
  <2>2. Calm /\ ~Mishap
    BY <1>1, <2>1, MishapCounts DEF ResumeGoes
  <2> QED
    BY <1>1, <2>1, <2>2, ResumeIsCalm
<1>5. ASSUME NEW s \in Sessions, PickSession(s) PROVE CalmParts'
  <2>1. UNCHANGED <<server, known, ws, flight, races, mishaps>> /\ view'.card = view.card
    BY <1>1, <1>5, PickKeepsBase
  <2>2. Calm
    BY <1>1, <2>1, MishapCounts
  <2> QED
    BY <1>1, <2>1, <2>2, PickIsCalm
<1>6. CASE Load
  <2>1. PICK s \in Sessions : \E o : LoadGoes(s, o)
    BY <1>1, <1>6, LoadIs
  <2>2. Calm /\ ~Mishap
    BY <1>1, <2>1, MishapCounts DEF LoadGoes
  <2> QED
    BY <1>1, <2>1, <2>2, LoadIsCalm
<1>7. CASE CreateSession
  <2>1. PICK s \in Sessions : \E o : NewGoes("create", s, o)
    BY <1>7, CreateIs
  <2>2. UNCHANGED <<server, tab, races, mishaps>>
    BY <1>7, CreateIs
  <2>3. Calm /\ task' = task /\ recent' = recent /\ Kept' = Kept
    BY <1>1, <2>2, MishapCounts DEF server, Kept
  <2> QED
    BY <1>1, <2>1, <2>2, <2>3, NewIsCalm
<1>8. CASE DeleteCurrentSession
  <2>1. UNCHANGED <<tab, races>> /\ (UNCHANGED mishaps \/ Mishap)
    BY <1>1, <1>8, DeleteIs
  <2>2. Calm /\ ~Mishap
    BY <1>1, <2>1, MishapCounts
  <2>3. PICK s \in Sessions : \E o : NewGoes("delete", s, o)
    BY <1>1, <1>8, <2>2, DeleteIs
  <2>4. PICK gone : RowsGo(gone)
    BY <1>1, <1>8, DeleteIs
  <2>5. recent' = recent /\ Kept' \subseteq Kept /\ \A t \in Kept' : task'[t] = task[t]
    BY <2>4, GoneRows DEF RowsGo
  <2> QED
    BY <1>1, <2>1, <2>2, <2>3, <2>5, NewIsCalm
<1>9. ASSUME NEW k \in Callbacks, Deliver(k) PROVE CalmParts'
  <2>1. raced' = (raced \/ k \in stale) /\ UNCHANGED mishaps
    BY <1>1, <1>9, DeliverIs
  <2>2. Calm /\ ~raced'
    BY <2>1 DEF Calm
  <2> QED
    BY <1>1, <1>9, <2>2, DeliverIsCalm
<1>10. CASE Reload
  <2>1. raced' = raced /\ mishaps' = mishaps
    BY <1>1, <1>10, ReloadIs
  <2> QED
    BY <1>1, <1>10, <2>1, ReloadIsCalm DEF Calm
<1>11. ASSUME NEW t \in Tasks, Work(t) PROVE CalmParts'
  <2>1. t \in Kept
    BY <1>1, <1>11, WorkIs
  <2>2. PICK status \in Status, n \in Nat : WorkGoes(t, status, n)
    BY <1>1, <1>11, WorkIs
  <2>3. Calm
    BY <1>1, <2>2, MishapCounts DEF WorkGoes
  <2> QED
    BY <1>1, <2>1, <2>2, <2>3, WorkIsCalm
<1>12. CASE UNCHANGED vars
  <2>1. UNCHANGED <<server, known, ws, flight, races, mishaps>> /\ view' = view
    BY <1>12 DEF vars, tab
  <2>2. Calm
    BY <1>1, <2>1, MishapCounts
  <2> QED
    BY <1>1, <2>1, <2>2, PickIsCalm
<1> QED
  BY <1>2, <1>3, <1>4, <1>5, <1>6, <1>7, <1>8, <1>9, <1>10, <1>11, <1>12 DEF Next, User

LEMMA InvHolds == Spec => []Inv
<1>1. Init => Inv
  <2> SUFFICES ASSUME Init PROVE Inv
    OBVIOUS
  <2>1. /\ task = [t \in Tasks |-> NoTask] /\ flight = [k \in Callbacks |-> None]
        /\ ws.status = "active"
    BY NewIsOK, IdAssumption DEF Init
  <2>2. (\A t \in Tasks : ~Live(t)) /\ \A k \in Callbacks : flight[k] = None
    BY <2>1 DEF Live, NoTask
  <2>3. OneLive
    BY <2>2 DEF OneLive, TasksOf, Kept
  <2>4. SentAreActive /\ AllBelieve /\ AllCurrent
    BY <2>1, <2>2 DEF SentAreActive, AllBelieve, AllCurrent, Believes, Current, Callbacks, OtherCallbacks
  <2> QED
    BY <2>3, <2>4, InitBase, InitIds DEF Inv, CalmInv
<1>2. Inv /\ [Next]_vars => Inv'
  BY BaseStep, IdsStep, CalmStep DEF Inv
<1> QED
  BY <1>1, <1>2, PTL DEF Spec

-----------------------------------------------------------------------------
(* What a calm tab promises.                                               *)

LEMMA AtMostOne ==
    ASSUME NEW S, \A x, y \in S : x = y
    PROVE  Cardinality(S) <= 1
<1>1. CASE S = {}
  BY <1>1, FS_EmptySet
<1>2. CASE S # {}
  <2>1. PICK x : S = {x}
    BY <1>2
  <2> QED
    BY <2>1, FS_Singleton
<1> QED
  BY <1>1, <1>2

(* While no call fails and no callback writes over what it has not read, a *)
(* session has at most one task under way, for any number of sessions,     *)
(* tasks and overlapping callbacks (web/app.py:669).                       *)
THEOREM CalmTabsRunOneTask == Spec => []OneTaskAtATime
<1>1. Inv => OneTaskAtATime
  <2> SUFFICES ASSUME Inv, Calm, NEW s \in Sessions
               PROVE  Cardinality({t \in TasksOf(s) : task[t].status \in {"active", "interrupted"}})
                        <= 1
    BY DEF OneTaskAtATime, Calm
  <2>1. \A t, u \in {t \in TasksOf(s) : task[t].status \in {"active", "interrupted"}} : t = u
    BY DEF Inv, CalmInv, OneLive, Live, TasksOf, Kept
  <2> QED
    BY <2>1, AtMostOne
<1> QED
  BY <1>1, InvHolds, PTL

(* While no call fails and no callback writes over what it has not read, a *)
(* decision that is sent while no other is on its way reaches the approval *)
(* that is on the card, however many approvals a task asks for and buttons *)
(* answer them (web/app.py:860-905,1164-1180).                             *)
THEOREM CalmTabsDecideAsShown == Spec => DecidedAsShown
<1> DEFINE Decided == \A t \in Tasks :
             /\ task[t].status = "interrupted" /\ task'[t].status = "active"
             /\ ~raced /\ mishaps = 0 /\ ~Deciding
             => view.card = CardOf(t)
<1>1. Inv /\ [Next]_vars => [Decided]_vars
  <2> SUFFICES ASSUME Inv, [Next]_vars, NEW t \in Tasks, Calm, ~Deciding,
                      task[t].status = "interrupted", task'[t].status = "active"
               PROVE  view.card = CardOf(t)
    BY DEF Calm
  <2>1. BaseInv /\ IdsAreKnown /\ AllCurrent
    BY DEF Inv, CalmInv
  <2>2. t \in Kept /\ t \in known
    BY <2>1 DEF Kept, IdsAreKnown
  <2>3. ASSUME NEW k \in Decisions, Resume(k) PROVE view.card = CardOf(t)
    <3>1. PICK u \in Kept : \E o : ResumeGoes(k, u, o)
      BY <2>1, <2>3, ResumeIs
    <3>2. /\ u = ws.task /\ view.card # None /\ ws.status = "interrupted"
          /\ task[u].status = "interrupted"
          /\ task' = [task EXCEPT ![u].status = "active", ![u].approval = task[u].approval]
      BY <3>1 DEF ResumeGoes
    <3>3. t = u
      BY <3>2, <2>1 DEF BaseInv, RowsOK
    <3> QED
      BY <2>1, <3>2, <3>3 DEF AllCurrent, Current, Live
  <2>4. CASE Submit
    <3>1. PICK u \in Tasks : \E o : SubmitGoes(u, o)
      BY <2>1, <2>4, SubmitIs
    <3>2. u \notin known /\ task'[t] = task[t]
      <4>1. t # u
        BY <2>2, <3>1 DEF SubmitGoes
      <4> QED
        BY <2>1, <3>1, <4>1 DEF SubmitGoes, server, BaseInv, RowsOK
    <3> QED
      BY <3>2
  <2>5. CASE DeleteCurrentSession
    BY <2>1, <2>5, DeleteIs DEF RowsGo
  <2>6. ASSUME NEW u \in Tasks, Work(u) PROVE FALSE
    <3>1. PICK status \in Status, n \in Nat : WorkGoes(u, status, n)
      BY <2>1, <2>6, WorkIs
    <3> QED
      BY <2>1, <3>1 DEF WorkGoes, BaseInv, RowsOK
  <2>7. CASE \/ \E k \in Callbacks : Poll(k) \/ Deliver(k)
             \/ \E s \in Sessions : PickSession(s)
             \/ Load \/ CreateSession \/ Reload \/ UNCHANGED vars
    <3>1. task' = task
      BY <2>7 DEF Poll, Deliver, PickSession, Load, CreateSession, Reload, vars, server
    <3> QED
      BY <3>1
  <2>8. "refresh" \in Callbacks /\ "tick" \in Callbacks
    BY DEF Callbacks, OtherCallbacks
  <2> QED
    BY <2>3, <2>4, <2>5, <2>6, <2>7, <2>8 DEF Next, User
<1>2. Spec => [][Decided]_vars
  BY <1>1, InvHolds, PTL DEF Spec
<1> QED
  BY <1>2 DEF DecidedAsShown

=============================================================================

----------------------------- MODULE ToolArtifacts -----------------------------
(***************************************************************************)
(* Large tool results of agent/artifacts.py: kept whole in the store,      *)
(* shown to the model one page at a time.  An item of a result is its      *)
(* position, so a result is how many items it has.  The namespace keeps    *)
(* sessions apart; what is here is one session's.                          *)
(* The reference kept in the conversation state remembers the last page    *)
(* read (agent/graph.py); the model turns the pages.                       *)
(***************************************************************************)
EXTENDS Integers, Sequences, FiniteSets, FiniteSetsExt

CONSTANTS
    Artifacts,   \* artifact ids
    Totals,      \* how many items a tool may return
    PageSize,    \* tool_artifact_page_size
    Unset        \* Python None

ASSUME PageAssumption == PageSize \in Nat \ {0} /\ Totals \subseteq Nat

VARIABLES
    stored,      \* stored[a]: how many items result a has, or Unset
    refs,        \* tool_artifact_refs of the conversation, in order
    seen,        \* seen[a]: the items of a that this session was shown
    turned       \* turned[a]: its pages were only ever read one after the other

artifactVars == <<stored, refs, seen, turned>>

Reference == [id : Artifacts, lastPage : Nat \cup {Unset}]

ASSUME UnsetAssumption == Unset \notin Nat

-----------------------------------------------------------------------------
(* artifact_page_payload.                                                  *)

StartMutant(page) == page * PageSize

Start(page) == Max({page - 1, 0}) * PageSize

Shown(total, page) == Start(page) + 1 .. Min({Start(page) + PageSize, total})

HasMoreMutant(total, page) == Start(page) + PageSize + 1 < total

HasMore(total, page) == Start(page) + Cardinality(Shown(total, page)) < total

(* The reference read last, and the page its prompt asks to read next; a   *)
(* missing page is page 1.                                                 *)
NextPage(ref) == IF ref.lastPage = Unset THEN 1 ELSE ref.lastPage + 1

Remember(a, page) ==
    [i \in 1 .. Len(refs) |->
        IF refs[i].id = a THEN [refs[i] EXCEPT !.lastPage = page] ELSE refs[i]]

-----------------------------------------------------------------------------
(* A tool result small enough is inlined and leaves no trace here.         *)
Inline == UNCHANGED artifactVars

(* persist_tool_result: stored whole, its first page shown.                *)
Persist ==
    \E a \in Artifacts, total \in Totals :
      /\ stored[a] = Unset
      /\ stored' = [stored EXCEPT ![a] = total]
      /\ refs' = Append(refs, [id |-> a, lastPage |-> 1])
      /\ seen' = [seen EXCEPT ![a] = Shown(total, 1)]
      /\ UNCHANGED turned

(* read_artifact_page.  The model may name any result; one that is not     *)
(* there is an error message.                                              *)
ReadPage(a, page) ==
    IF stored[a] = Unset THEN UNCHANGED artifactVars
    ELSE LET at == Max({page, 1})
             followed == \E i \in 1 .. Len(refs) : refs[i].id = a /\ NextPage(refs[i]) = at
         IN  /\ seen' = [seen EXCEPT ![a] = @ \cup Shown(stored[a], at)]
             /\ refs' = Remember(a, at)
             /\ turned' = [turned EXCEPT ![a] = @ /\ followed]
             /\ UNCHANGED stored

(* A detail has no page: the reference forgets the one it was on.          *)
ReadDetail(a) ==
    IF stored[a] = Unset THEN UNCHANGED artifactVars
    ELSE /\ refs' = Remember(a, Unset)
         /\ turned' = [turned EXCEPT ![a] = FALSE]
         /\ UNCHANGED <<stored, seen>>

(* A page the model may ask for: the next one, or any up to one past the   *)
(* end.                                                                    *)
Pages == 0 .. (Max(Totals) \div PageSize) + 2

(* The reader of artifacts is a read: it never waits for a human.          *)
ToolOutcome(gated) ==
    \/ Inline \/ Persist
    \/ /\ ~gated
       /\ \E a \in Artifacts : ReadDetail(a) \/ \E page \in Pages : ReadPage(a, page)

ArtifactInit ==
    /\ stored = [a \in Artifacts |-> Unset]
    /\ refs = <<>>
    /\ seen = [a \in Artifacts |-> {}]
    /\ turned = [a \in Artifacts |-> TRUE]

-----------------------------------------------------------------------------
(* Properties.                                                             *)

(* A result whose pages are turned one by one (graph.py:50) shows every    *)
(* item once and in order, and says that there is more exactly while       *)
(* there is.                                                               *)
PagesInOrder ==
    \A i \in 1 .. Len(refs) :
      LET a == refs[i].id
          total == stored[a]
      IN  turned[a] =>
            /\ seen[a] = 1 .. Min({refs[i].lastPage * PageSize, total})
            /\ HasMore(total, refs[i].lastPage) <=> seen[a] # 1 .. total

=============================================================================

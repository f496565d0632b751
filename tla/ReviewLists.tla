----------------------------- MODULE ReviewLists -----------------------------
(***************************************************************************)
(* A list of the review pages that updates itself: at every interval the   *)
(* page fetches the rows again and swaps them in, unless the tab is hidden *)
(* or the reviewer is using the list.  Answers keep no order.              *)
(*                                                                         *)
(* Left out: what a row says; a list is known by the state of the database *)
(* it shows.                                                               *)
(***************************************************************************)
EXTENDS Naturals

CONSTANTS
  MaxChanges,    \* bound: changes of what the list shows
  MaxFetches     \* bound: fetches at once

ASSUME ListsAssumption == MaxChanges \in Nat /\ MaxFetches \in Nat \ {0}

VARIABLES
  newest,       \* the database, as the list would show it
  shown,        \* what the list shows
  checked,      \* a row is selected
  focused,      \* the focus is in the list
  away,         \* document.hidden
  fetches       \* under way, each with what it read, if it has

lvars == <<newest, shown, checked, focused, away, fetches>>

NotYetRead == MaxChanges + 1
NoFetch == MaxChanges + 2

ListsTypeOK ==
  /\ newest \in 0 .. MaxChanges /\ shown \in 0 .. newest
  /\ checked \in BOOLEAN /\ focused \in BOOLEAN /\ away \in BOOLEAN
  /\ fetches \in [1 .. MaxFetches -> 0 .. NoFetch]

ListsInit ==
  /\ newest = 0 /\ shown = 0
  /\ checked = FALSE /\ focused = FALSE /\ away = FALSE
  /\ fetches = [f \in 1 .. MaxFetches |-> NoFetch]

----------------------------------------------------------------------------
Changed ==
  /\ newest < MaxChanges /\ newest' = newest + 1
  /\ UNCHANGED <<shown, checked, focused, away, fetches>>

\* A row is selected or unselected; the focus comes and goes; the tab is left and come back to.
SelectRow ==
  /\ checked' = ~checked /\ focused' = (focused \/ checked')
  /\ UNCHANGED <<newest, shown, away, fetches>>
MoveFocus == focused' = ~focused /\ UNCHANGED <<newest, shown, checked, away, fetches>>
LeaveOrReturn == away' = ~away /\ UNCHANGED <<newest, shown, checked, focused, fetches>>

\* setInterval's function: the list is looked at when the fetch begins.
Interval(f) ==
  /\ ~away /\ ~checked /\ ~focused
  /\ fetches[f] = NoFetch /\ fetches' = [fetches EXCEPT ![f] = NotYetRead]
  /\ UNCHANGED <<newest, shown, checked, focused, away>>

\* The server reads the rows.
ReadRows(f) ==
  /\ fetches[f] = NotYetRead /\ fetches' = [fetches EXCEPT ![f] = newest]
  /\ UNCHANGED <<newest, shown, checked, focused, away>>

\* container.innerHTML: new rows, with nothing selected and without the focus.
SwapRows(f) ==
  /\ fetches[f] < NotYetRead
  /\ shown' = fetches[f] /\ checked' = FALSE /\ focused' = FALSE
  /\ fetches' = [fetches EXCEPT ![f] = NoFetch]
  /\ UNCHANGED <<newest, away>>

SkipSwap(f) ==
  /\ fetches[f] # NoFetch /\ fetches' = [fetches EXCEPT ![f] = NoFetch]
  /\ UNCHANGED <<newest, shown, checked, focused, away>>

ListsNext ==
  \/ Changed \/ SelectRow \/ MoveFocus \/ LeaveOrReturn
  \/ \E f \in 1 .. MaxFetches : Interval(f) \/ ReadRows(f) \/ SwapRows(f) \/ SkipSwap(f)

ListsSpec == ListsInit /\ [][ListsNext]_lvars

----------------------------------------------------------------------------
(* Properties.                                                             *)

\* The rows are not swapped while one of them is selected ("Don't swap the list out from under
\* someone mid-selection (bulk reject checkboxes) or mid-typing", review.js).
NoSwapMidSelection == [][\A f \in 1 .. MaxFetches : SwapRows(f) => ~checked /\ ~focused]_lvars
=============================================================================

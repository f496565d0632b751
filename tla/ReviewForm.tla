----------------------------- MODULE ReviewForm ------------------------------
(***************************************************************************)
(* The form in which a reviewer edits a payment: lines and deductions are  *)
(* added and removed by cloning and removing parts of the page, and what   *)
(* the server reads of it depends on the names of the fields alone.        *)
(*                                                                         *)
(* Left out: the values of the fields.  A line or deduction has an         *)
(* identity, by which the reviewer knows it, and the numbers in its names. *)
(***************************************************************************)
EXTENDS Integers, Sequences, FiniteSets, SequencesExt

CONSTANTS
  MaxLines, MaxDeductions,   \* bounds: lines, and deductions of one box
  MaxParts                   \* bound: lines and deductions ever added

ASSUME FormAssumption == MaxLines \in Nat /\ MaxDeductions \in Nat /\ MaxParts \in Nat

VARIABLES
  header,   \* the box of the header's deductions
  lines,    \* the lines, in the order of the page
  parts     \* bound

fvars == <<header, lines, parts>>

\* Scopes: a line's number, or the header.
Header == -1
Scopes == Header .. MaxLines

\* A deduction's fields are named scope.deductions[number].
Deduction == [id : 1 .. MaxParts, scope : Scopes, number : 0 .. MaxDeductions]

\* scope, add: data-scope of the box of deductions, and of the button that adds one.
Box == [scope : Scopes, add : Scopes, deductions : Seq(Deduction)]
Line == [id : 1 .. MaxParts, number : 0 .. MaxLines, box : Box]

FormTypeOK ==
  /\ header \in Box /\ lines \in Seq(Line)
  /\ Len(lines) <= MaxLines /\ parts \in 0 .. MaxParts

\* detail.html: lines and deductions numbered from 0.
Rendered(scope, ids) ==
  [scope |-> scope, add |-> scope,
   deductions |-> [i \in 1 .. Len(ids) |-> [id |-> ids[i], scope |-> scope, number |-> i - 1]]]

FormInit ==
  \/ /\ header = Rendered(Header, <<1>>)
     /\ lines = << [id |-> 2, number |-> 0, box |-> Rendered(0, << >>)],
                   [id |-> 3, number |-> 1, box |-> Rendered(1, <<4>>)] >>
     /\ parts = 4
  \/ header = Rendered(Header, << >>) /\ lines = << >> /\ parts = 0
  \/ header = Rendered(Header, << >>) /\ lines = << [id |-> 1, number |-> 0, box |-> Rendered(0, << >>)] >> /\ parts = 1

----------------------------------------------------------------------------
(* review.js                                                               *)

\* Mutant of RenumberLines: the scopes are left as they were.
RenumberNamesOnly(L) ==
  [i \in 1 .. Len(L) |->
     [L[i] EXCEPT !.number = i - 1,
                  !.box.deductions = [j \in 1 .. Len(@) |-> [@[j] EXCEPT !.scope = i - 1]]]]

\* renumberLines: every field of a line, its deductions' too, and both scopes.
RenumberLines(L) ==
  [i \in 1 .. Len(L) |->
     [L[i] EXCEPT !.number = i - 1,
                  !.box = [scope |-> i - 1, add |-> i - 1,
                           deductions |-> [j \in 1 .. Len(@.deductions) |->
                                             [@.deductions[j] EXCEPT !.scope = i - 1]]]]]

RenumberDeductions(D) == [j \in 1 .. Len(D) |-> [D[j] EXCEPT !.number = j - 1]]

\* The first line is cloned, emptied.
AddLine ==
  /\ lines # << >> /\ Len(lines) < MaxLines /\ parts < MaxParts
  /\ parts' = parts + 1
  /\ lines' = RenumberLines(Append(lines, [lines[1] EXCEPT !.id = parts + 1, !.box.deductions = << >>]))
  /\ UNCHANGED header

RemoveLine(i) ==
  /\ lines' = RenumberLines(RemoveAt(lines, i))
  /\ UNCHANGED <<header, parts>>

Boxes == {header} \cup {lines[i].box : i \in DOMAIN lines}

\* The first deduction of the page is cloned, whose number it keeps until the box is numbered
\* anew: without one there is nothing to clone.
WithDeduction(box, scope) ==
  [box EXCEPT !.deductions =
     RenumberDeductions(Append(@, [id |-> parts + 1, scope |-> scope, number |-> 0]))]

\* A button's scope finds the first box of that scope.
AddDeduction(scope) ==
  /\ parts < MaxParts /\ parts' = parts + 1
  /\ \E b \in Boxes : b.deductions # << >>
  /\ \/ /\ header.scope = scope /\ Len(header.deductions) < MaxDeductions
        /\ header' = WithDeduction(header, scope)
        /\ UNCHANGED lines
     \/ /\ header.scope # scope
        /\ \E i \in DOMAIN lines :
             /\ lines[i].box.scope = scope /\ \A k \in 1 .. i - 1 : lines[k].box.scope # scope
             /\ Len(lines[i].box.deductions) < MaxDeductions
             /\ lines' = [lines EXCEPT ![i].box = WithDeduction(@, scope)]
        /\ UNCHANGED header

RemoveDeduction ==
  /\ \/ \E j \in DOMAIN header.deductions :
          header' = [header EXCEPT !.deductions = RenumberDeductions(RemoveAt(@, j))]
        /\ UNCHANGED lines
     \/ \E i \in DOMAIN lines : \E j \in DOMAIN lines[i].box.deductions :
          lines' = [lines EXCEPT ![i].box.deductions = RenumberDeductions(RemoveAt(@, j))]
        /\ UNCHANGED header
  /\ UNCHANGED parts

FormNext ==
  \/ AddLine \/ RemoveDeduction
  \/ \E i \in DOMAIN lines : RemoveLine(i)
  \/ \E b \in Boxes : AddDeduction(b.add)

FormSpec == FormInit /\ [][FormNext]_fvars

----------------------------------------------------------------------------
(* parse_form_to_canonical (forms.py)                                      *)

AllDeductions == UNION {{b.deductions[j] : j \in DOMAIN b.deductions} : b \in Boxes}

\* sorted(...): the members of S, whose numbers differ, in the order of their numbers.
ByNumber(S) ==
  [i \in 1 .. Cardinality(S) |-> CHOOSE x \in S : Cardinality({y \in S : y.number < x.number}) = i - 1]

\* Fields of one name overwrite each other.
Overwritten(S) == Cardinality({x.number : x \in S}) < Cardinality(S)

\* Lines and deductions are sorted by their numbers.
ParsedDeductions(scope) ==
  LET D == {d \in AllDeductions : d.scope = scope}
  IN IF Overwritten(D) THEN <<"overwritten">>
     ELSE [j \in 1 .. Cardinality(D) |-> ByNumber(D)[j].id]

Parsed ==
  LET L == {lines[i] : i \in DOMAIN lines}
      sorted == ByNumber(L)
  IN [header |-> ParsedDeductions(Header),
      lines |-> IF Overwritten(L) THEN <<"overwritten">>
                ELSE [i \in 1 .. Cardinality(L) |-> <<sorted[i].id, ParsedDeductions(sorted[i].number)>>]]

\* What the reviewer sees.
Ids(D) == [j \in DOMAIN D |-> D[j].id]
Seen ==
  [header |-> Ids(header.deductions),
   lines |-> [i \in DOMAIN lines |-> <<lines[i].id, Ids(lines[i].box.deductions)>>]]

----------------------------------------------------------------------------
(* Properties.                                                             *)

\* Whatever was added and removed in whichever order, the server reads the payment that the
\* reviewer sees: every line once and in its place, with its own deductions, none merged with
\* another or moved to another line (renumberLines, renumberDeductions, parse_form_to_canonical).
FormIsWhatIsSeen == Parsed = Seen
=============================================================================

------------------------ MODULE InvoicePostingProofs ------------------------
(***************************************************************************)
(* Proofs about InvoicePosting: its type invariant, for any sessions; that *)
(* a payment's rows in the ledger are those of its approval, that no       *)
(* approval overpays an invoice of the books unseen, and that the sessions *)
(* implement InvoiceLedger if all invoices are in the books, when one      *)
(* reviewer decides at a time.  Two reviewers who approve one payment with *)
(* different lines break the second: the later one's lines are shown and   *)
(* the earlier one's are posted.  Two payments of an invoice that is not   *)
(* in the books break the third: it is not looked up again under the lock. *)
(***************************************************************************)
EXTENDS InvoicePosting, DataLemmas, TLAPS

OneReviewer == \A q, r \in Requests : q = r

-----------------------------------------------------------------------------
(* The inductive invariant.                                                 *)

CheckFields == {"phase", "by", "payments", "lines", "approve", "shown", "nth", "at",
                "check", "rows", "keys", "exts", "decided", "wrote", "opened"}
RecordFields == {"phase", "by", "payment", "lines", "rows", "keys", "exts", "decided",
                 "wrote", "opened"}
ImportFields == {"phase", "by", "books", "created", "refreshed", "rows", "keys", "exts"}

\* A session that checks the lines of payments, one after the other.
Checks(s) ==
  LET x == session[s] IN
  /\ x.by \in {"route", "edit", "use"}
  /\ DOMAIN x = CheckFields
  /\ x.phase \in {"checking", "waiting", "returned"}
  /\ x.payments \in Seq(Payments) \ {<<>>}
  /\ \A n \in DOMAIN x.payments : /\ x.payments[n] \in DOMAIN x.lines
                                  /\ x.lines[x.payments[n]] \in Seq(Line)
  /\ x.nth \in 1..(Len(x.payments) + 1)
  /\ x.at \in Nat \ {0}
  /\ x.phase # "returned" => x.nth <= Len(x.payments)
  /\ x.phase = "waiting" => LineLeft(s) /\ LineOf(s).kind = "invoice"

\* A session that posts a payment unchecked.
Records(s) ==
  LET x == session[s] IN
  /\ x.by = "record"
  /\ DOMAIN x = RecordFields
  /\ x.phase \in {"recording", "returned"}
  /\ x.payment \in Payments
  /\ x.lines \in Seq(Line)

\* A session that imports the books.
Imports(s) ==
  LET x == session[s] IN
  /\ x.by = "import"
  /\ DOMAIN x = ImportFields
  /\ x.phase \in {"importing", "returned"}
  /\ DOMAIN x.books \subseteq Keys
  /\ \A k \in DOMAIN x.books : x.books[k] \in InvoiceRow

\* What a session has inserted.
Inserts(s) ==
  LET x == session[s] IN
  /\ x.wrote \subseteq Post
  /\ IsFiniteSet(x.wrote)
  /\ DOMAIN x.opened \subseteq Keys
  /\ \A k \in DOMAIN x.opened : x.opened[k] \in InvoiceRow
  /\ \A p \in DOMAIN x.decided :
       /\ p \in Payments
       /\ x.decided[p].lines \in Seq(Line)
       /\ x.decided[p].status \in {"pending_review", "approved", "already_recorded", "kept"}

Locks(s) ==
  /\ session[s].rows \subseteq Keys
  /\ session[s].keys \subseteq Keys
  /\ session[s].exts \subseteq Payments

SessionOK(s) ==
  Busy(s) => /\ Locks(s)
             /\ Checks(s) \/ Records(s) \/ Imports(s)
             /\ ~Imports(s) => Inserts(s)

\* The type invariant, strengthened.
TInv ==
  /\ TypeOK
  /\ IsFiniteSet(posted)
  /\ DOMAIN session = Sessions
  /\ \A s \in Sessions : SessionOK(s)

\* The payments a session decides on.
About(s) ==
  IF session[s].by = "record" THEN {session[s].payment}
  ELSE {session[s].payments[n] : n \in DOMAIN session[s].payments}

\* Those it has decided on.
Done(s) ==
  IF session[s].by = "record"
  THEN IF session[s].phase = "returned" THEN {session[s].payment} ELSE {}
  ELSE {session[s].payments[n] : n \in 1..(session[s].nth - 1)}

NoRows(rows, p) == \A r \in rows : r.payment # p

\* What session s has inserted is what it decided.
WritesWhatItDecides(s) ==
  LET x == session[s] IN
  /\ DOMAIN x.decided = Done(s)
  /\ \A r \in x.wrote : r.payment \in Done(s)
  /\ \A p \in Done(s) :
       IF x.decided[p].status \in Final THEN Shows(x.wrote, p, x.decided[p].lines)
       ELSE NoRows(x.wrote, p)

\* Nobody else has decided on its payments meanwhile.
IsCurrent(s) ==
  /\ s \in Workers <=> session[s].by = "route"
  /\ session[s].by = "route" => session[s].payments \in Mail
  /\ session[s].by \in {"edit", "use"} => Len(session[s].payments) = 1
  /\ \A p \in About(s) :
       status[p] = IF session[s].by = "route" THEN "unread" ELSE "pending_review"

PInv ==
  /\ PostedAsApproved
  /\ \A s \in Sessions : Busy(s) /\ session[s].by # "import" =>
       WritesWhatItDecides(s) /\ IsCurrent(s)
  /\ \A v, w \in Workers : Busy(v) /\ Busy(w) /\ v # w =>
       session[v].payments # session[w].payments

-----------------------------------------------------------------------------
(* The ledger's operators.                                                  *)

\* The numbers of the lines up to each are those up to the one before, and perhaps its own.
LEMMA NumbersGrow ==
  ASSUME NEW lines \in Seq(Line), NEW kind
  PROVE  \E f : /\ Numbers(lines, kind) = f[Len(lines)] /\ f[0] = <<>>
                /\ \A n \in 1..Len(lines) :
                     f[n] = IF lines[n].kind = kind THEN Append(f[n - 1], n) ELSE f[n - 1]
<1> DEFINE S == Seq(DOMAIN lines)
           step(g, n) == IF lines[n].kind = kind THEN Append(g[n - 1], n) ELSE g[n - 1]
           Is(g) == g = [n \in 0..Len(lines) |-> IF n = 0 THEN <<>> ELSE step(g, n)]
           f == CHOOSE g : Is(g)
<1>1. Len(lines) \in Nat /\ DOMAIN lines = 1..Len(lines)
  OBVIOUS
<1>2. \E g : Is(g)
  <2> DEFINE op == [x \in S \X Nat |->
                      IF x[2] \in DOMAIN lines /\ lines[x[2]].kind = kind
                      THEN Append(x[1], x[2]) ELSE x[1]]
  <2>1. op \in [S \X Nat -> S] /\ <<>> \in S
    <3>1. \A x \in S \X Nat : op[x] \in S
      <4> SUFFICES ASSUME NEW z \in S, NEW m \in Nat PROVE op[<<z, m>>] \in S
        OBVIOUS
      <4>1. op[<<z, m>>] = IF m \in DOMAIN lines /\ lines[m].kind = kind
                           THEN Append(z, m) ELSE z
        OBVIOUS
      <4>2. m \in DOMAIN lines => Append(z, m) \in S
        OBVIOUS
      <4> HIDE DEF op, S
      <4> QED BY <4>1, <4>2
    <3>2. op = [x \in S \X Nat |-> op[x]] /\ <<>> \in S
      OBVIOUS
    <3> HIDE DEF op, S
    <3> QED BY <3>1, <3>2
  <2>2. PICK h : Recurs(h, S, <<>>, op)
    <3> DEFINE base == <<>>
    <3> HIDE DEF op, S
    <3>1. base \in S BY <2>1
    <3> HIDE DEF base
    <3>2. \E h : Recurs(h, S, base, op)
      BY <2>1, <3>1, DefinedByRecursion
    <3> QED BY <3>2 DEF base
  <2> DEFINE g == [n \in 0..Len(lines) |-> h[n]]
  <2>3. ASSUME NEW n \in 1..Len(lines) PROVE g[n] = step(g, n)
    <3>1. n - 1 \in Nat /\ (n - 1) + 1 = n /\ n \in Nat /\ n \in DOMAIN lines
      BY <1>1
    <3>2. h[n] = op[<<h[n - 1], n>>] /\ h[n - 1] \in S
      <4> HIDE DEF op, S
      <4> QED BY <2>2, <3>1 DEF Recurs
    <3>3. g[n] = h[n] /\ g[n - 1] = h[n - 1]
      BY <1>1
    <3> QED BY <3>1, <3>2, <3>3
  <2>4. Is(g)
    <3>1. g[0] = <<>> BY <1>1, <2>2 DEF Recurs
    <3> HIDE DEF step
    <3>2. g = [n \in 0..Len(lines) |-> g[n]] OBVIOUS
    <3> HIDE DEF g
    <3>3. \A n \in 0..Len(lines) : g[n] = IF n = 0 THEN <<>> ELSE step(g, n)
      BY <1>1, <2>3, <3>1
    <3> QED BY <3>2, <3>3
  <2> QED BY <2>4
<1>3. Is(f)
  <2> HIDE DEF Is
  <2> QED BY <1>2
<1>4. Numbers(lines, kind) = f[Len(lines)]
  BY DEF Numbers
<1>5. f[0] = <<>> /\ \A n \in 1..Len(lines) : f[n] = step(f, n)
  <2> HIDE DEF f, step
  <2>1. 0 \in 0..Len(lines) /\ \A n \in 1..Len(lines) : n \in 0..Len(lines) /\ n # 0
    BY <1>1
  <2> QED BY <1>3, <2>1
<1> HIDE DEF f
<1> QED BY <1>4, <1>5

\* Each line of one kind among the first n, once.
Lists(q, lines, kind, n) ==
  /\ q \in Seq(DOMAIN lines)
  /\ \A i, j \in 1..Len(q) : q[i] = q[j] => i = j
  /\ \A i \in 1..Len(q) : q[i] \in 1..n /\ lines[q[i]].kind = kind
  /\ \A x \in 1..n : lines[x].kind = kind => \E i \in 1..Len(q) : q[i] = x

LEMMA ListsMore ==
  ASSUME NEW lines \in Seq(Line), NEW kind, NEW n \in Nat, n + 1 \in DOMAIN lines, NEW q,
         Lists(q, lines, kind, n)
  PROVE  Lists(IF lines[n + 1].kind = kind THEN Append(q, n + 1) ELSE q, lines, kind, n + 1)
<1> DEFINE m == n + 1
           r == Append(q, m)
<1>1. q \in Seq(DOMAIN lines) /\ m \in DOMAIN lines /\ m \in Nat /\ m \notin 1..n
      /\ \A x : x \in 1..m <=> x \in 1..n \/ x = m
  BY DEF Lists
<1> HIDE DEF m
<1>2. r \in Seq(DOMAIN lines) /\ Len(r) = Len(q) + 1 /\ Len(q) \in Nat
      /\ (\A i \in 1..Len(q) : r[i] = q[i]) /\ r[Len(q) + 1] = m
  BY <1>1
<1> HIDE DEF r
<1>3. CASE lines[m].kind = kind
  <2>1. \A i \in 1..Len(r) : i \in 1..Len(q) \/ i = Len(q) + 1
    BY <1>2
  <2>2. \A i, j \in 1..Len(r) : r[i] = r[j] => i = j
    BY <1>1, <1>2, <2>1 DEF Lists
  <2>3. \A i \in 1..Len(q) : q[i] \in 1..m /\ lines[q[i]].kind = kind
    BY <1>1 DEF Lists
  <2>4. \A i \in 1..Len(r) : r[i] \in 1..m /\ lines[r[i]].kind = kind
    BY <1>1, <1>2, <1>3, <2>1, <2>3
  <2>5. \A x \in 1..m : lines[x].kind = kind => \E i \in 1..Len(r) : r[i] = x
    <3>1. \A i \in 1..Len(q) : i \in 1..Len(r)
      BY <1>2
    <3>2. Len(q) + 1 \in 1..Len(r)
      BY <1>2
    <3>3. \A x \in 1..n : lines[x].kind = kind => \E i \in 1..Len(q) : q[i] = x
      BY DEF Lists
    <3>4. ASSUME NEW x \in 1..m, lines[x].kind = kind PROVE \E i \in 1..Len(r) : r[i] = x
      <4>1. CASE x = m
        BY <1>2, <3>2, <4>1
      <4>2. CASE x \in 1..n
        <5>1. PICK i \in 1..Len(q) : q[i] = x
          BY <3>3, <3>4, <4>2
        <5> QED BY <1>2, <3>1, <5>1
      <4> QED BY <1>1, <4>1, <4>2
    <3> QED BY <3>4
  <2> QED BY <1>2, <1>3, <2>2, <2>4, <2>5 DEF Lists, m, r
<1>4. CASE lines[m].kind # kind
  <2>1. Lists(q, lines, kind, m)
    BY <1>1, <1>4 DEF Lists
  <2> QED BY <1>4, <2>1 DEF m
<1> QED BY <1>3, <1>4

\* What is numbered are the lines of that kind.
LEMMA NumbersAreOfLines ==
  ASSUME NEW lines \in Seq(Line), NEW kind
  PROVE  Lists(Numbers(lines, kind), lines, kind, Len(lines))
<1>1. Len(lines) \in Nat /\ DOMAIN lines = 1..Len(lines)
  OBVIOUS
<1>2. PICK f : /\ Numbers(lines, kind) = f[Len(lines)] /\ f[0] = <<>>
               /\ \A n \in 1..Len(lines) :
                    f[n] = IF lines[n].kind = kind THEN Append(f[n - 1], n) ELSE f[n - 1]
  BY NumbersGrow
<1> DEFINE G == {n \in Nat : n <= Len(lines) => Lists(f[n], lines, kind, n)}
<1>3. 0 \in G
  <2>1. Lists(<<>>, lines, kind, 0)
    BY DEF Lists
  <2> QED BY <1>2, <2>1
<1>4. ASSUME NEW n \in Nat, n \in G PROVE n + 1 \in G
  <2>1. CASE n + 1 <= Len(lines)
    <3>1. n <= Len(lines) /\ n + 1 \in DOMAIN lines /\ n + 1 \in 1..Len(lines) /\ (n + 1) - 1 = n
      BY <1>1, <2>1
    <3>2. Lists(f[n], lines, kind, n)
      BY <1>4, <3>1
    <3>3. f[n + 1] = IF lines[n + 1].kind = kind THEN Append(f[n], n + 1) ELSE f[n]
      BY <1>2, <3>1
    <3> QED BY <3>1, <3>2, <3>3, ListsMore
  <2> QED BY <2>1
<1> HIDE DEF G
<1>5. Nat \subseteq G
  BY <1>3, <1>4, AllNat
<1> QED BY <1>1, <1>2, <1>5 DEF G

\* Every line of the form is checked, and each once.
LEMMA OrderedAreOfLines ==
  ASSUME NEW lines \in Seq(Line)
  PROVE  /\ Ordered(lines) \in Seq(DOMAIN lines)
         /\ \A i, j \in 1..Len(Ordered(lines)) : Ordered(lines)[i] = Ordered(lines)[j] => i = j
         /\ \A x \in DOMAIN lines : \E i \in 1..Len(Ordered(lines)) : Ordered(lines)[i] = x
<1> DEFINE a == Numbers(lines, "invoice")
           b == Numbers(lines, "adjustment")
           q == a \o b
<1>1. Lists(a, lines, "invoice", Len(lines)) /\ Lists(b, lines, "adjustment", Len(lines))
  BY NumbersAreOfLines
<1>2. \A x \in DOMAIN lines : x \in 1..Len(lines) /\ lines[x].kind \in {"invoice", "adjustment"}
  BY DEF Line
<1> HIDE DEF a, b
<1>3. a \in Seq(DOMAIN lines) /\ b \in Seq(DOMAIN lines)
  BY <1>1 DEF Lists
<1>4. /\ q \in Seq(DOMAIN lines) /\ Len(q) = Len(a) + Len(b)
      /\ \A i \in 1..Len(q) : q[i] = IF i <= Len(a) THEN a[i] ELSE b[i - Len(a)]
  BY <1>3, ConcatProperties
<1> HIDE DEF q
<1>5. Len(a) \in Nat /\ Len(b) \in Nat
  BY <1>3
<1>6. \A i \in 1..Len(q) : i \in 1..Len(a) \/ (~(i <= Len(a)) /\ i - Len(a) \in 1..Len(b))
  BY <1>4, <1>5
<1>7. ASSUME NEW i \in 1..Len(q), NEW j \in 1..Len(q), q[i] = q[j] PROVE i = j
  <2>1. CASE i \in 1..Len(a) /\ j \in 1..Len(a)
    <3>1. \A m, n \in 1..Len(a) : a[m] = a[n] => m = n
      BY <1>1 DEF Lists
    <3>2. q[i] = a[i] /\ q[j] = a[j]
      BY <1>4, <1>5, <2>1
    <3> QED BY <1>7, <2>1, <3>1, <3>2
  <2>2. CASE ~(i <= Len(a)) /\ ~(j <= Len(a))
    <3> DEFINE m == i - Len(a)
               n == j - Len(a)
    <3>1. m \in 1..Len(b) /\ n \in 1..Len(b) /\ b[m] = b[n]
      BY <1>4, <1>5, <1>6, <1>7, <2>2
    <3>2. m = n
      <4> HIDE DEF m, n
      <4> QED BY <1>1, <3>1 DEF Lists
    <3> QED BY <1>5, <3>2
  <2>3. ASSUME NEW m \in 1..Len(q), NEW n \in 1..Len(q), m \in 1..Len(a), ~(n <= Len(a)) PROVE q[m] # q[n]
    <3>1. q[m] = a[m] /\ q[n] = b[n - Len(a)] /\ n - Len(a) \in 1..Len(b)
      BY <1>4, <1>5, <1>6, <2>3
    <3>2. lines[q[m]].kind = "invoice" /\ lines[q[n]].kind = "adjustment"
      BY <1>1, <2>3, <3>1 DEF Lists
    <3> QED BY <3>2
  <2> QED BY <1>5, <1>6, <1>7, <2>1, <2>2, <2>3
<1>8. ASSUME NEW x \in DOMAIN lines PROVE \E i \in 1..Len(q) : q[i] = x
  <2>1. CASE lines[x].kind = "invoice"
    <3>1. PICK i \in 1..Len(a) : a[i] = x
      BY <1>1, <1>2, <2>1 DEF Lists
    <3>2. i \in 1..Len(q) /\ i <= Len(a)
      BY <1>4, <1>5
    <3> QED BY <1>4, <3>1, <3>2
  <2>2. CASE lines[x].kind = "adjustment"
    <3>1. PICK i \in 1..Len(b) : b[i] = x
      BY <1>1, <1>2, <2>2 DEF Lists
    <3>2. i + Len(a) \in 1..Len(q) /\ ~(i + Len(a) <= Len(a)) /\ (i + Len(a)) - Len(a) = i
      BY <1>4, <1>5
    <3> QED BY <1>4, <3>1, <3>2
  <2> QED BY <1>2, <2>1, <2>2
<1> QED BY <1>4, <1>7, <1>8 DEF Ordered, q, a, b

\* What was paid is a number.
LEMMA SumIsInt ==
  ASSUME NEW R, IsFiniteSet(R), \A r \in R : r.settled \in Int
  PROVE  MapThenSumSet(LAMBDA r : r.settled, R) \in Int
<1> DEFINE Is(g) == g = [s \in SUBSET R |->
     IF s = {} THEN 0 ELSE (CHOOSE x \in s : TRUE).settled + g[s \ {CHOOSE x \in s : TRUE}]]
           f == CHOOSE g : Is(g)
           val == [r \in R |-> r.settled]
           pick == [s \in SUBSET R |-> CHOOSE x \in s : TRUE]
<1>1. MapThenSumSet(LAMBDA r : r.settled, R) = f[R]
  BY DEF MapThenSumSet, MapThenFoldSet
<1>2. val \in [R -> Int] /\ \A s \in SUBSET R : s # {} => pick[s] \in s
  OBVIOUS
<1>3. ASSUME NEW g PROVE Sums(g, R, val, pick) <=> Is(g)
  <2>1. ASSUME NEW s \in SUBSET R, s # {}
        PROVE  val[pick[s]] = (CHOOSE x \in s : TRUE).settled /\ pick[s] = CHOOSE x \in s : TRUE
    BY <2>1
  <2> HIDE DEF val, pick
  <2>2. \A s \in SUBSET R :
          (IF s = {} THEN 0 ELSE val[pick[s]] + g[s \ {pick[s]}])
            = IF s = {} THEN 0 ELSE (CHOOSE x \in s : TRUE).settled + g[s \ {CHOOSE x \in s : TRUE}]
    BY <2>1
  <2> QED BY <2>2 DEF Sums
<1> HIDE DEF Is, val, pick
<1>4. \E g : Is(g)
  BY <1>2, <1>3, SumsExist
<1>5. Sums(f, R, val, pick)
  BY <1>3, <1>4
<1> HIDE DEF f
<1> QED BY <1>1, <1>2, <1>5, SumsAreInt

LEMMA PaidIsInt ==
  ASSUME NEW L, NEW k \in Keys, L.invoice[k] \in InvoiceRow, L.posted \subseteq Post,
         IsFiniteSet(L.posted)
  PROVE  Paid(L, k) \in Int
<1> DEFINE R == {r \in L.posted : r.key = k}
<1>1. IsFiniteSet(R) /\ \A r \in R : r.settled \in Int
  BY FS_Subset DEF Post
<1>2. MapThenSumSet(LAMBDA r : r.settled, R) \in Int
  <2> HIDE DEF R
  <2> QED BY <1>1, SumIsInt
<1>3. L.invoice[k].before \in Int
  BY DEF InvoiceRow
<1> QED BY <1>2, <1>3 DEF Paid

\* The rows of a payment: one for each line it posts, all of them invoice lines or
\* adjustments of an invoice there is.
LEMMA PostsOfShow ==
  ASSUME NEW L, NEW p \in Payments, NEW lines \in Seq(Line)
  PROVE  /\ PostsOf(L, p, lines) \subseteq Post
         /\ IsFiniteSet(PostsOf(L, p, lines))
         /\ \A r \in PostsOf(L, p, lines) : r.payment = p
         /\ Shows(PostsOf(L, p, lines), p, lines)
<1> DEFINE rows == PostsOf(L, p, lines)
           D == DOMAIN lines
           own == {lines[i].key : i \in {j \in D : lines[j].kind = "invoice"}}
           kept == {j \in D : ~(lines[j].kind = "adjustment"
                       /\ (lines[j].off = 0 \/ lines[j].key \notin own \cup Known(L)))}
           row(i) == [payment |-> p, line |-> i, kind |-> lines[i].kind, key |-> lines[i].key,
                      settled |-> IF lines[i].kind = "invoice" THEN Settled(lines[i])
                                  ELSE lines[i].off,
                      cash |-> IF lines[i].kind = "invoice" THEN lines[i].cash ELSE 0,
                      opens |-> IF lines[i].stated > 0 THEN lines[i].stated
                                ELSE Settled(lines[i])]
<1>1. rows = {row(i) : i \in kept}
  BY DEF PostsOf
<1>2. \A i \in D : /\ lines[i] \in Line
                   /\ i \in Nat
                   /\ lines[i].kind \in {"invoice", "adjustment"}
                   /\ lines[i].stated \in Int /\ lines[i].cash \in Int /\ lines[i].off \in Int
                   /\ lines[i].kind = "invoice" => lines[i].key \in Keys
  BY DEF Line
<1>3. own \subseteq Keys /\ Known(L) \subseteq Keys
  BY <1>2 DEF Known
<1>4. \A i \in kept : i \in D /\ lines[i].key \in Keys
  BY <1>2, <1>3
<1>5. \A i \in D : lines[i].kind = "invoice" => i \in kept
  OBVIOUS
<1>6. ASSUME NEW i \in kept PROVE row(i) \in Post
  <2>1. i \in D /\ lines[i].key \in Keys BY <1>4
  <2>2. Settled(lines[i]) \in Int BY <1>2, <2>1 DEF Settled
  <2> HIDE DEF kept
  <2> QED BY <1>2, <2>1, <2>2 DEF Post
<1> HIDE DEF rows, kept, own
<1>7. rows \subseteq Post
  BY <1>1, <1>6
<1>8. ASSUME NEW r \in rows
      PROVE  /\ r.line \in D /\ r.payment = p /\ r = row(r.line)
             /\ r.kind = lines[r.line].kind /\ r.key = lines[r.line].key
             /\ r.kind = "invoice" => r.settled = Settled(lines[r.line])
  <2>1. PICK i \in kept : r = row(i) BY <1>1
  <2>2. r.line = i /\ i \in D BY <1>4, <2>1
  <2> QED BY <2>1, <2>2
<1>9. ASSUME NEW i \in D, lines[i].kind = "invoice"
      PROVE  \E r \in rows : r.line = i /\ r.kind = "invoice"
  <2>1. row(i) \in rows BY <1>1, <1>5, <1>9
  <2> QED BY <1>9, <2>1
<1>10. IsFiniteSet(rows)
  <2> DEFINE f == [r \in rows |-> r.line]
  <2>1. f \in [rows -> D] BY <1>8
  <2>2. \A q, r \in rows : f[q] = f[r] => q = r BY <1>8
  <2>3. f \in Injection(rows, D) BY <2>1, <2>2 DEF Injection, IsInjective
  <2>4. IsFiniteSet(D)
    <3>1. D = 1..Len(lines) /\ Len(lines) \in Int OBVIOUS
    <3> QED BY <3>1, FS_Interval
  <2> QED BY <2>3, <2>4, FS_Injection
<1>11. Shows(rows, p, lines)
  <2>1. {r \in rows : r.payment = p} = rows BY <1>8
  <2>2. {r.line : r \in {q \in rows : q.kind = "invoice"}} = {i \in D : lines[i].kind = "invoice"}
    BY <1>8, <1>9
  <2>3. \A q, r \in rows : q.line = r.line => q = r BY <1>8
  <2> HIDE DEF D, row
  <2> QED BY <1>8, <2>1, <2>2, <2>3 DEF Shows, D
<1> QED BY <1>7, <1>8, <1>10, <1>11 DEF rows

\* Some row of an invoice comes before all others of it.
LEMMA FirstRow ==
  ASSUME NEW new \in SUBSET Post, NEW k, \E r \in new : r.key = k
  PROVE  \E r \in new : r.key = k /\ \A q \in new : q.key = k => ~InsertedBefore(q, r)
<1> DEFINE of(kind) == {r \in new : r.key = k /\ r.kind = kind}
<1>1. \A r \in new : r.kind \in {"invoice", "adjustment"} /\ r.line \in Nat
  BY DEF Post
<1>2. ASSUME NEW kind, of(kind) # {}
      PROVE  \E r \in of(kind) : \A q \in of(kind) : r.line <= q.line
  <2> DEFINE T == {r.line : r \in of(kind)}
  <2>1. T \subseteq Nat /\ T # {} BY <1>1, <1>2
  <2> HIDE DEF T
  <2>2. PICK x \in T : \A y \in T : x <= y BY <2>1, LeastNat
  <2> QED BY <2>2 DEF T
<1>3. CASE of("invoice") # {}
  <2>1. PICK r \in of("invoice") : \A q \in of("invoice") : r.line <= q.line BY <1>2, <1>3
  <2>2. ASSUME NEW q \in new, q.key = k PROVE ~InsertedBefore(q, r)
    <3>1. q.kind = "invoice" => r.line <= q.line BY <2>1, <2>2
    <3>2. r.line \in Nat /\ q.line \in Nat /\ r.kind = "invoice" BY <1>1, <2>1
    <3> QED BY <3>1, <3>2 DEF InsertedBefore
  <2> QED BY <2>1, <2>2
<1>4. CASE of("invoice") = {}
  <2>1. \A q \in new : q.key = k => q.kind = "adjustment" BY <1>1, <1>4
  <2>2. of("adjustment") # {} BY <2>1
  <2>3. PICK r \in of("adjustment") : \A q \in of("adjustment") : r.line <= q.line
    BY <1>2, <2>2
  <2>4. ASSUME NEW q \in new, q.key = k PROVE ~InsertedBefore(q, r)
    <3>1. q.kind = "adjustment" /\ r.line <= q.line BY <2>1, <2>3, <2>4
    <3>2. r.line \in Nat /\ q.line \in Nat BY <1>1, <2>3
    <3> QED BY <3>1, <3>2 DEF InsertedBefore
  <2> QED BY <2>3, <2>4
<1> QED BY <1>3, <1>4

\* A ledger that can be: rows of invoices and of payments.
LedgerOK(L) ==
  /\ L.invoice \in [Keys -> InvoiceRow]
  /\ L.posted \subseteq Post
  /\ IsFiniteSet(L.posted)

LEMMA PostedIsLedger ==
  ASSUME NEW L, LedgerOK(L), NEW rows \in SUBSET Post, IsFiniteSet(rows)
  PROVE  LedgerOK(Posted(L, rows)) /\ Posted(L, rows).posted = L.posted \cup Fresh(L, rows)
<1> DEFINE new == Fresh(L, rows)
           first(k) == CHOOSE r \in new :
                         r.key = k /\ \A q \in new : q.key = k => ~InsertedBefore(q, r)
<1>1. new \in SUBSET Post /\ IsFiniteSet(new)
  BY FS_Subset DEF Fresh
<1>2. Posted(L, rows).posted = L.posted \cup new
  BY DEF Posted
<1>3. Posted(L, rows).invoice = [k \in Keys |->
        IF Exists(L, k) \/ \A r \in new : r.key # k THEN L.invoice[k]
        ELSE [source |-> "email", amount |-> first(k).opens, before |-> 0]]
  BY DEF Posted
<1> HIDE DEF new
<1>4. ASSUME NEW k \in Keys, ~ \A r \in new : r.key # k PROVE first(k).opens \in Int
  <2>1. \E r \in new : r.key = k /\ \A q \in new : q.key = k => ~InsertedBefore(q, r)
    BY <1>1, <1>4, FirstRow
  <2>2. first(k) \in new BY <2>1
  <2> HIDE DEF first
  <2> QED BY <1>1, <2>2 DEF Post
<1> HIDE DEF first
<1>5. Posted(L, rows).invoice \in [Keys -> InvoiceRow]
  BY <1>3, <1>4 DEF InvoiceRow, LedgerOK
<1>6. IsFiniteSet(L.posted \cup new)
  BY <1>1, FS_Union DEF LedgerOK
<1> QED BY <1>1, <1>2, <1>5, <1>6 DEF LedgerOK, new

LEMMA LedgerIsLedger ==
  ASSUME TInv
  PROVE  LedgerOK(Ledger)
BY DEF TInv, TypeOK, LedgerOK, Ledger

LEMMA ViewIsLedger ==
  ASSUME TInv, NEW s \in Sessions, Inserts(s)
  PROVE  LedgerOK(View(s))
<1>1. View(s).posted = posted \cup session[s].wrote
  BY DEF View
<1>2. View(s).posted \subseteq Post /\ IsFiniteSet(View(s).posted)
  <2>1. posted \subseteq Post /\ IsFiniteSet(posted)
    BY DEF TInv, TypeOK
  <2>2. session[s].wrote \subseteq Post /\ IsFiniteSet(session[s].wrote)
    BY DEF Inserts
  <2>3. IsFiniteSet(posted \cup session[s].wrote)
    BY <2>1, <2>2, FS_Union
  <2> QED BY <1>1, <2>1, <2>2, <2>3
<1>3. View(s).invoice \in [Keys -> InvoiceRow]
  BY DEF View, TInv, TypeOK, Inserts
<1> QED BY <1>2, <1>3 DEF LedgerOK

-----------------------------------------------------------------------------
(* The type invariant.                                                      *)

\* What a session has is its own.
LEMMA SessionKeeps ==
  ASSUME NEW s \in Sessions, SessionOK(s), session'[s] = session[s]
  PROVE  SessionOK(s)'
BY DEF SessionOK, Busy, Locks, Checks, Records, Imports, Inserts, LineLeft, LineOf, LineNo,
       FormOf, Current

\* A step of session s that leaves the tables alone.
LEMMA OneSession ==
  ASSUME TInv, NEW s \in Sessions, NEW value, Becomes(s, value), UNCHANGED tables,
         SessionOK(s)'
  PROVE  TInv'
<1>1. DOMAIN session' = Sessions /\ \A t \in Sessions \ {s} : session'[t] = session[t]
  BY DEF TInv, Becomes
<1>2. \A t \in Sessions : SessionOK(t)'
  BY <1>1, SessionKeeps DEF TInv
<1>3. TypeOK'
  BY <1>2 DEF TInv, TypeOK, tables, SessionOK, Locks, Busy
<1> QED BY <1>1, <1>2, <1>3 DEF TInv, tables

\* A session that has ended is no longer there.
LEMMA IdleIsOK ==
  ASSUME NEW s \in Sessions, s \in DOMAIN session, Becomes(s, Idle)
  PROVE  SessionOK(s)'
BY DEF Becomes, Idle, SessionOK, Busy

\* The line a session is at.
LEMMA LineIsOfForm ==
  ASSUME NEW s \in Sessions, Checks(s), session[s].phase # "returned"
  PROVE  /\ Current(s) \in Payments /\ FormOf(s) \in Seq(Line)
         /\ LineLeft(s) => LineOf(s) \in Line
<1>1. session[s].nth \in DOMAIN session[s].payments
  BY DEF Checks
<1>2. Current(s) \in Payments /\ FormOf(s) \in Seq(Line)
  BY <1>1 DEF Checks, Current, FormOf
<1>3. ASSUME LineLeft(s) PROVE LineOf(s) \in Line
  <2>1. Ordered(FormOf(s)) \in Seq(DOMAIN FormOf(s)) BY <1>2, OrderedAreOfLines
  <2>2. session[s].at \in 1..Len(Ordered(FormOf(s))) BY <1>3 DEF LineLeft, Checks
  <2>3. LineNo(s) \in DOMAIN FormOf(s) BY <2>1, <2>2 DEF LineNo
  <2> QED BY <1>2, <2>3 DEF LineOf
<1> QED BY <1>2, <1>3

\* Nothing is written or locked when a session starts.
LEMMA StartsTyped ==
  ASSUME TInv, NEW s \in Sessions, NEW by \in {"route", "edit", "use"},
         NEW ps \in Seq(Payments) \ {<<>>}, NEW lines, NEW approve, NEW shown,
         \A n \in DOMAIN ps : ps[n] \in DOMAIN lines /\ lines[ps[n]] \in Seq(Line),
         Starts(s, by, ps, lines, approve, shown)
  PROVE  TInv'
<1> DEFINE x == [phase |-> "checking", by |-> by, payments |-> ps, lines |-> lines,
                 approve |-> approve, shown |-> shown, nth |-> 1, at |-> 1,
                 check |-> FreshCheck(Ledger), rows |-> {}, keys |-> {}, exts |-> {},
                 decided |-> Nothing, wrote |-> {}, opened |-> Nothing]
<1>1. Becomes(s, x) /\ UNCHANGED tables
  BY DEF Starts
<1>2. session'[s] = x
  BY <1>1 DEF Becomes, TInv
<1>3. DOMAIN x = CheckFields
  BY DEF CheckFields
<1>4. DOMAIN Nothing = {}
  BY DEF Nothing
<1>5. Checks(s)'
  <2>1. Len(ps) \in Nat /\ Len(ps) >= 1 OBVIOUS
  <2>2. x.nth \in 1..(Len(ps) + 1) /\ x.nth <= Len(ps) /\ x.at \in Nat \ {0} BY <2>1
  <2> QED BY <1>2, <1>3, <2>2 DEF Checks
<1>6. Inserts(s)'
  BY <1>2, <1>4, FS_EmptySet DEF Inserts
<1>7. SessionOK(s)'
  BY <1>2, <1>5, <1>6 DEF SessionOK, Locks
<1> HIDE DEF x
<1> QED BY <1>1, <1>7, OneSession

LEMMA BeginRouteTyped ==
  ASSUME TInv, NEW w \in Workers, BeginRoute(w)
  PROVE  TInv'
<1>1. PICK ps \in Mail :
        \E lines \in [{ps[n] : n \in DOMAIN ps} -> UNION {Forms[p] : p \in Payments}] :
          /\ \A p \in DOMAIN lines : lines[p] \in Forms[p]
          /\ Starts(w, "route", ps, lines, TRUE, {})
  BY DEF BeginRoute
<1>2. PICK lines \in [{ps[n] : n \in DOMAIN ps} -> UNION {Forms[p] : p \in Payments}] :
        /\ \A p \in DOMAIN lines : lines[p] \in Forms[p]
        /\ Starts(w, "route", ps, lines, TRUE, {})
  BY <1>1
<1>3. ps \in Seq(Payments) \ {<<>>}
  BY RulesAssumption
<1>4. \A n \in DOMAIN ps : ps[n] \in DOMAIN lines /\ lines[ps[n]] \in Seq(Line)
  BY <1>2, <1>3, PostingAssumption
<1>5. w \in Sessions
  BY DEF Sessions
<1> QED BY <1>2, <1>3, <1>4, <1>5, StartsTyped

LEMMA BeginEditTyped ==
  ASSUME TInv, NEW r \in Requests, BeginEdit(r)
  PROVE  TInv'
<1>1. PICK p \in Payments : \E form \in Forms[p] : \E by \in {"edit", "use"}, approve \in BOOLEAN :
        Starts(r, by, <<p>>, [q \in {p} |-> form], approve, flags[p])
  BY DEF BeginEdit
<1>2. PICK form \in Forms[p] : \E by \in {"edit", "use"}, approve \in BOOLEAN :
        Starts(r, by, <<p>>, [q \in {p} |-> form], approve, flags[p])
  BY <1>1
<1>3. PICK by \in {"edit", "use"}, approve \in BOOLEAN :
        Starts(r, by, <<p>>, [q \in {p} |-> form], approve, flags[p])
  BY <1>2
<1> DEFINE ps == <<p>>
           lines == [q \in {p} |-> form]
           shown == flags[p]
<1>4. ps \in Seq(Payments) \ {<<>>}
  OBVIOUS
<1>5. \A n \in DOMAIN ps : ps[n] \in DOMAIN lines /\ lines[ps[n]] \in Seq(Line)
  BY PostingAssumption
<1>6. r \in Sessions /\ by \in {"route", "edit", "use"}
  BY DEF Sessions
<1>7. Starts(r, by, ps, lines, approve, shown)
  BY <1>3
<1> HIDE DEF ps, lines, shown
<1> QED BY <1>4, <1>5, <1>6, <1>7, StartsTyped

\* A session that goes on checking, and has decided nothing new.
GoesOn(s, x) ==
  LET y == session[s] IN
  /\ DOMAIN x = CheckFields
  /\ x.by = y.by /\ x.payments = y.payments /\ x.lines = y.lines /\ x.nth = y.nth
  /\ x.decided = y.decided /\ x.wrote = y.wrote /\ x.opened = y.opened /\ x.exts = y.exts
  /\ x.phase \in {"checking", "waiting"}
  /\ x.phase = "waiting" => x.at = y.at /\ LineLeft(s) /\ LineOf(s).kind = "invoice"
  /\ x.at \in Nat \ {0}

Continues(s) ==
  /\ session[s].phase # "returned" /\ Busy(s) /\ Checks(s)
  /\ UNCHANGED tables
  /\ \E x : GoesOn(s, x) /\ x.rows \subseteq Keys /\ x.keys \subseteq Keys /\ Becomes(s, x)

LEMMA ContinuesTyped ==
  ASSUME TInv, NEW s \in Sessions, Continues(s)
  PROVE  TInv'
<1>1. PICK x : GoesOn(s, x) /\ x.rows \subseteq Keys /\ x.keys \subseteq Keys /\ Becomes(s, x)
  BY DEF Continues
<1>2. Busy(s) /\ Checks(s) /\ session[s].phase # "returned" /\ UNCHANGED tables
  BY DEF Continues
<1>3. session'[s] = x
  BY <1>1 DEF Becomes, TInv
<1>4. Inserts(s) /\ Locks(s)
  BY <1>2 DEF TInv, SessionOK, Checks, Imports
<1>5. x.phase = "waiting" => LineLeft(s)' /\ LineOf(s)'.kind = "invoice"
  BY <1>1, <1>3 DEF GoesOn, LineLeft, LineOf, LineNo, FormOf, Current
<1>6. Checks(s)'
  BY <1>1, <1>2, <1>3, <1>5 DEF Checks, GoesOn
<1>7. Inserts(s)' /\ Locks(s)'
  BY <1>1, <1>3, <1>4 DEF Inserts, Locks, GoesOn
<1>8. SessionOK(s)'
  BY <1>6, <1>7 DEF SessionOK
<1> QED BY <1>1, <1>2, <1>8, OneSession

\* Which sessions are past their start, by what they are at.
LEMMA PhaseTells ==
  ASSUME TInv, NEW s \in Sessions, session[s].phase \in {"checking", "waiting"}
  PROVE  Busy(s) /\ Checks(s) /\ Locks(s)
BY DEF TInv, SessionOK, Busy, Records, Imports

LEMMA CheckedGoesOn ==
  ASSUME TInv, NEW s \in Sessions, Checks(s), NEW found \in BOOLEAN
  PROVE  /\ GoesOn(s, Checked(s, found))
         /\ Checked(s, found).rows = session[s].rows
         /\ Checked(s, found).keys = session[s].keys
<1> DEFINE x == Checked(s, found)
<1>1. /\ DOMAIN x = CheckFields
      /\ x.by = session[s].by /\ x.payments = session[s].payments
      /\ x.lines = session[s].lines /\ x.nth = session[s].nth
      /\ x.decided = session[s].decided /\ x.wrote = session[s].wrote
      /\ x.opened = session[s].opened /\ x.exts = session[s].exts
      /\ x.rows = session[s].rows /\ x.keys = session[s].keys
      /\ x.phase = "checking" /\ x.at = session[s].at + 1
  BY DEF Checked, Checks, CheckFields
<1>2. x.at \in Nat \ {0}
  BY <1>1 DEF Checks
<1> HIDE DEF x
<1>3. GoesOn(s, x)
  BY <1>1, <1>2 DEF GoesOn
<1> QED BY <1>1, <1>3 DEF x

LEMMA CheckFoundContinues ==
  ASSUME TInv, NEW s \in Sessions, CheckFound(s)
  PROVE  Continues(s)
<1> DEFINE x == [Checked(s, TRUE) EXCEPT !.rows = @ \cup {LineOf(s).key}]
<1>1. session[s].phase = "checking" /\ LineLeft(s) /\ Found(s) /\ Becomes(s, x) /\ UNCHANGED tables
  BY DEF CheckFound
<1>2. Busy(s) /\ Checks(s) /\ Locks(s)
  BY <1>1, PhaseTells
<1>3. LineOf(s).key \in Keys
  <2>1. LineOf(s) \in Line BY <1>1, <1>2, LineIsOfForm
  <2> QED BY <1>1, <2>1 DEF Line, Found
<1> DEFINE y == Checked(s, TRUE)
<1>4. GoesOn(s, y) /\ y.rows = session[s].rows /\ y.keys = session[s].keys
  BY <1>2, CheckedGoesOn
<1>5. DOMAIN y = CheckFields
  BY <1>4 DEF GoesOn
<1> HIDE DEF y
<1>6. /\ DOMAIN x = CheckFields /\ x.rows = y.rows \cup {LineOf(s).key} /\ x.keys = y.keys
      /\ \A f \in CheckFields \ {"rows"} : x[f] = y[f]
  BY <1>5 DEF CheckFields, y
<1> HIDE DEF x
<1>7. GoesOn(s, x)
  BY <1>4, <1>6 DEF GoesOn, CheckFields
<1>8. x.rows \subseteq Keys /\ x.keys \subseteq Keys
  BY <1>2, <1>3, <1>4, <1>6 DEF Locks
<1> QED BY <1>1, <1>2, <1>7, <1>8 DEF Continues

LEMMA FindMissingContinues ==
  ASSUME TInv, NEW s \in Sessions, FindMissing(s)
  PROVE  Continues(s)
<1> DEFINE x == [session[s] EXCEPT !.phase = "waiting"]
<1>1. /\ session[s].phase = "checking" /\ LineLeft(s) /\ LineOf(s).kind = "invoice"
      /\ Becomes(s, x) /\ UNCHANGED tables
  BY DEF FindMissing
<1>2. Busy(s) /\ Checks(s) /\ Locks(s)
  BY <1>1, PhaseTells
<1>3. /\ DOMAIN x = CheckFields /\ x.phase = "waiting"
      /\ \A f \in CheckFields \ {"phase"} : x[f] = session[s][f]
  BY <1>2 DEF Checks, CheckFields
<1> HIDE DEF x
<1>4. GoesOn(s, x)
  BY <1>1, <1>2, <1>3 DEF GoesOn, CheckFields, Checks
<1>5. x.rows \subseteq Keys /\ x.keys \subseteq Keys
  BY <1>2, <1>3 DEF Locks, CheckFields
<1> QED BY <1>1, <1>2, <1>4, <1>5 DEF Continues

LEMMA LockMissingContinues ==
  ASSUME TInv, NEW s \in Sessions, LockMissing(s)
  PROVE  Continues(s)
<1> DEFINE x == [Checked(s, FALSE) EXCEPT !.keys = @ \cup {LineOf(s).key}]
<1>1. session[s].phase = "waiting" /\ Becomes(s, x) /\ UNCHANGED tables
  BY DEF LockMissing
<1>2. Busy(s) /\ Checks(s) /\ Locks(s)
  BY <1>1, PhaseTells
<1>3. LineOf(s).key \in Keys
  <2>1. LineLeft(s) /\ LineOf(s).kind = "invoice" BY <1>1, <1>2 DEF Checks
  <2>2. LineOf(s) \in Line BY <1>1, <1>2, <2>1, LineIsOfForm
  <2> QED BY <2>1, <2>2 DEF Line
<1> DEFINE y == Checked(s, FALSE)
<1>4. GoesOn(s, y) /\ y.rows = session[s].rows /\ y.keys = session[s].keys
  BY <1>2, CheckedGoesOn
<1>5. DOMAIN y = CheckFields
  BY <1>4 DEF GoesOn
<1> HIDE DEF y
<1>6. /\ DOMAIN x = CheckFields /\ x.keys = y.keys \cup {LineOf(s).key} /\ x.rows = y.rows
      /\ \A f \in CheckFields \ {"keys"} : x[f] = y[f]
  BY <1>5 DEF CheckFields, y
<1> HIDE DEF x
<1>7. GoesOn(s, x)
  BY <1>4, <1>6 DEF GoesOn, CheckFields
<1>8. x.rows \subseteq Keys /\ x.keys \subseteq Keys
  BY <1>2, <1>3, <1>4, <1>6 DEF Locks
<1> QED BY <1>1, <1>2, <1>7, <1>8 DEF Continues

LEMMA CheckLooseContinues ==
  ASSUME TInv, NEW s \in Sessions, CheckLoose(s)
  PROVE  Continues(s)
<1> DEFINE x == Checked(s, FALSE)
<1>1. session[s].phase = "checking" /\ Becomes(s, x) /\ UNCHANGED tables
  BY DEF CheckLoose
<1>2. Busy(s) /\ Checks(s) /\ Locks(s)
  BY <1>1, PhaseTells
<1>3. GoesOn(s, x) /\ x.rows = session[s].rows /\ x.keys = session[s].keys
  BY <1>2, CheckedGoesOn
<1>4. x.rows \subseteq Keys /\ x.keys \subseteq Keys
  BY <1>2, <1>3 DEF Locks
<1> HIDE DEF x
<1> QED BY <1>1, <1>2, <1>3, <1>4 DEF Continues

\* What a decision changes.
WriteFields == {"exts", "decided", "wrote", "opened"}

Decides(x, s, p, decision, rows) ==
  LET after == Posted(View(s), rows) IN
  /\ DOMAIN x = DOMAIN session[s]
  /\ \A f \in DOMAIN x \ WriteFields : x[f] = session[s][f]
  /\ x.exts = session[s].exts \cup {p}
  /\ x.decided = [q \in DOMAIN session[s].decided \cup {p} |->
                    IF q = p THEN decision ELSE session[s].decided[q]]
  /\ x.wrote = session[s].wrote \cup (after.posted \ View(s).posted)
  /\ x.opened = [k \in Known(after) \ Known(Ledger) |-> after.invoice[k]]

LEMMA DecidingIs ==
  ASSUME NEW s, NEW p, NEW decision, NEW rows, WriteFields \subseteq DOMAIN session[s]
  PROVE  Decides(Deciding(s, p, decision, rows), s, p, decision, rows)
BY DEF Deciding, WriteFields, Decides

\* The rows a decision on p inserts, written with what was written before.
LEMMA DecidingTyped ==
  ASSUME TInv, NEW s \in Sessions, Inserts(s), NEW p \in Payments, NEW decision,
         decision.lines \in Seq(Line),
         decision.status \in {"pending_review", "approved", "already_recorded", "kept"},
         NEW rows \in SUBSET Post, IsFiniteSet(rows), NEW x,
         Decides(x, s, p, decision, rows),
         session'[s].decided = x.decided, session'[s].wrote = x.wrote,
         session'[s].opened = x.opened
  PROVE  Inserts(s)'
<1> DEFINE after == Posted(View(s), rows)
<1>1. LedgerOK(after) /\ after.posted = View(s).posted \cup Fresh(View(s), rows)
  BY ViewIsLedger, PostedIsLedger
<1> HIDE DEF after
<1>2. x.wrote \subseteq Post /\ IsFiniteSet(x.wrote)
  <2> DEFINE new == after.posted \ View(s).posted
  <2>1. new \subseteq Post /\ IsFiniteSet(new)
    BY <1>1, FS_Subset DEF LedgerOK
  <2>2. session[s].wrote \subseteq Post /\ IsFiniteSet(session[s].wrote)
    BY DEF Inserts
  <2>3. x.wrote = session[s].wrote \cup new
    BY DEF after, Decides
  <2> HIDE DEF new
  <2>4. IsFiniteSet(session[s].wrote \cup new)
    BY <2>1, <2>2, FS_Union
  <2> QED BY <2>1, <2>2, <2>3, <2>4
<1>3. DOMAIN x.opened \subseteq Keys /\ \A k \in DOMAIN x.opened : x.opened[k] \in InvoiceRow
  <2>1. x.opened = [k \in Known(after) \ Known(Ledger) |-> after.invoice[k]]
    BY DEF after, Decides
  <2> QED BY <1>1, <2>1 DEF LedgerOK, Known
<1>4. ASSUME NEW q \in DOMAIN x.decided
      PROVE  /\ q \in Payments
             /\ x.decided[q].lines \in Seq(Line)
             /\ x.decided[q].status \in {"pending_review", "approved", "already_recorded", "kept"}
  <2>1. x.decided = [o \in DOMAIN session[s].decided \cup {p} |->
                      IF o = p THEN decision ELSE session[s].decided[o]]
    BY DEF Decides
  <2>2. CASE q = p
    BY <2>1, <2>2
  <2>3. CASE q # p
    BY <2>1, <2>3 DEF Inserts
  <2> QED BY <2>2, <2>3
<1> QED BY <1>2, <1>3, <1>4 DEF Inserts

\* The rows of a decision: those its lines show if it posts, none otherwise.
RowsFor(p, d, rows) ==
  /\ d.lines \in Seq(Line)
  /\ d.status \in {"pending_review", "approved", "already_recorded", "kept"}
  /\ rows \in SUBSET Post /\ IsFiniteSet(rows)
  /\ \A r \in rows : r.payment = p
  /\ IF d.status \in Final THEN Shows(rows, p, d.lines) ELSE rows = {}

\* The decision made, a session turns to its next payment.
TurnsToNext(s, x, y) ==
  /\ DOMAIN x = CheckFields
  /\ \A f \in CheckFields \ {"phase", "nth", "at", "check"} : x[f] = y[f]
  /\ x.phase = IF session[s].nth = Len(session[s].payments) THEN "returned" ELSE y.phase
  /\ x.nth = y.nth + 1 /\ x.at = 1

\* What the decision rests on: every line is checked, what they and the form as a whole are
\* flagged for is heeded, and an approval posts the rows of the form.
Outcomes(by) == IF by = "route" THEN {"approved", "pending_review"} ELSE {"approved", "kept"}

Rests(s, x, d, rows) ==
  /\ ~LineLeft(s)
  /\ d.lines = FormOf(s) /\ d.status \in Outcomes(session[s].by)
  /\ d.flags = session[s].check.flags \cup OtherFlags(View(s), Current(s), FormOf(s))
  /\ x.at = 1 /\ x.check = FreshCheck(View(s))
  /\ IF d.status = "approved"
     THEN MayApprove(s, d.flags) /\ rows = PostsOf(View(s), Current(s), FormOf(s))
     ELSE rows = {}

DecidesNow(s, x, y, d, rows) ==
  /\ Rests(s, x, d, rows)
  /\ Decides(y, s, Current(s), d, rows)
  /\ RowsFor(Current(s), d, rows)
  /\ TurnsToNext(s, x, y)
  /\ Becomes(s, x)

LEMMA DecideIs ==
  ASSUME TInv, NEW s \in Sessions, Decide(s)
  PROVE  /\ session[s].phase = "checking" /\ Busy(s) /\ Checks(s) /\ Locks(s) /\ Inserts(s)
         /\ Current(s) \in Payments /\ UNCHANGED tables
         /\ \E x, y, d, rows : DecidesNow(s, x, y, d, rows)
<1> DEFINE p == Current(s)
           fs == session[s].check.flags \cup OtherFlags(View(s), p, FormOf(s))
           decision(st) == [lines |-> FormOf(s), flags |-> fs, status |-> st]
           posts == PostsOf(View(s), p, FormOf(s))
           next(st, rows) ==
             [Deciding(s, p, decision(st), rows) EXCEPT
                !.phase = IF session[s].nth = Len(session[s].payments) THEN "returned" ELSE @,
                !.nth = @ + 1, !.at = 1, !.check = FreshCheck(View(s))]
<1>1. session[s].phase = "checking" /\ ~LineLeft(s) /\ UNCHANGED tables
  BY DEF Decide
<1>2. \/ MayApprove(s, fs) /\ Becomes(s, next("approved", posts))
      \/ session[s].by = "route" /\ Becomes(s, next("pending_review", {}))
      \/ session[s].by # "route" /\ Becomes(s, next("kept", {}))
  BY DEF Decide
<1>3. \E st \in Outcomes(session[s].by) : \E rows :
        (IF st = "approved" THEN MayApprove(s, fs) /\ rows = posts ELSE rows = {}) /\ Becomes(s, next(st, rows))
  <2> HIDE DEF next, posts, fs
  <2>1. "approved" \in Outcomes(session[s].by)
        /\ (session[s].by = "route" => "pending_review" \in Outcomes(session[s].by))
        /\ (session[s].by # "route" => "kept" \in Outcomes(session[s].by))
    BY DEF Outcomes
  <2> QED BY <1>2, <2>1
<1>4. Busy(s) /\ Checks(s) /\ Locks(s) /\ Inserts(s)
  BY <1>1, PhaseTells DEF TInv, SessionOK, Checks, Imports
<1>5. p \in Payments /\ FormOf(s) \in Seq(Line)
  BY <1>1, <1>4, LineIsOfForm
<1>6. PICK st \in Outcomes(session[s].by) : \E rows :
        (IF st = "approved" THEN MayApprove(s, fs) /\ rows = posts ELSE rows = {}) /\ Becomes(s, next(st, rows))
  BY <1>3
<1>7. PICK rows :
        (IF st = "approved" THEN MayApprove(s, fs) /\ rows = posts ELSE rows = {}) /\ Becomes(s, next(st, rows))
  BY <1>6
<1>8. PICK d : d = decision(st)
  OBVIOUS
<1> DEFINE y == Deciding(s, p, decision(st), rows)
           x == next(st, rows)
<1>9. /\ d.lines = FormOf(s) /\ d.status = st /\ d.flags = fs
      /\ fs = session[s].check.flags \cup OtherFlags(View(s), Current(s), FormOf(s))
      /\ st \in {"approved", "pending_review", "kept"}
  BY <1>6, <1>8 DEF Outcomes
<1>10. RowsFor(p, d, rows)
  <2>1. /\ posts \subseteq Post /\ IsFiniteSet(posts)
        /\ \A r \in posts : r.payment = p
        /\ Shows(posts, p, FormOf(s))
    BY <1>5, PostsOfShow
  <2> HIDE DEF posts, p, x, y
  <2> QED BY <1>5, <1>6, <1>7, <1>9, <2>1, FS_EmptySet DEF RowsFor, Final
<1>11. IF st = "approved" THEN MayApprove(s, d.flags) /\ rows = PostsOf(View(s), Current(s), FormOf(s))
       ELSE rows = {}
  BY <1>7, <1>9
<1> HIDE DEF decision, p, posts, fs
<1>12. Decides(y, s, p, d, rows)
  <2>1. WriteFields \subseteq DOMAIN session[s]
    BY <1>4 DEF Checks, CheckFields, WriteFields
  <2>2. y = Deciding(s, p, d, rows)
    BY <1>8
  <2> HIDE DEF y
  <2> QED BY <2>1, <2>2, DecidingIs
<1>13. DOMAIN y = CheckFields
  <2> HIDE DEF y
  <2> QED BY <1>4, <1>12 DEF Decides, Checks
<1> HIDE DEF y
<1>14. TurnsToNext(s, x, y)
  BY <1>13 DEF y, CheckFields, TurnsToNext
<1>15. Becomes(s, x)
  BY <1>7
<1>16. x.at = 1 /\ x.check = FreshCheck(View(s))
  BY <1>13 DEF y, CheckFields
<1> HIDE DEF x
<1>17. Rests(s, x, d, rows)
  BY <1>1, <1>6, <1>9, <1>11, <1>16 DEF Rests
<1>18. DecidesNow(s, x, y, d, rows)
  BY <1>10, <1>12, <1>14, <1>15, <1>17 DEF DecidesNow, p
<1> QED BY <1>1, <1>4, <1>5, <1>18 DEF p

\* Where a session is after a decision.
LEMMA TurnsToNextIs ==
  ASSUME TInv, NEW s \in Sessions, Checks(s), session[s].phase = "checking",
         NEW x, NEW y, NEW d, NEW rows, DecidesNow(s, x, y, d, rows)
  PROVE  /\ session'[s] = x
         /\ x.by = session[s].by /\ x.payments = session[s].payments
         /\ x.lines = session[s].lines /\ x.nth = session[s].nth + 1
         /\ x.rows = session[s].rows /\ x.keys = session[s].keys
         /\ x.exts = session[s].exts \cup {Current(s)}
         /\ x.decided = y.decided /\ x.wrote = y.wrote /\ x.opened = y.opened
         /\ x.phase \in {"checking", "returned"} /\ x.shown = session[s].shown
<1>1. session'[s] = x
  BY DEF Becomes, TInv, DecidesNow
<1>2. /\ DOMAIN y = CheckFields
      /\ \A f \in CheckFields \ WriteFields : y[f] = session[s][f]
      /\ y.exts = session[s].exts \cup {Current(s)}
  BY DEF DecidesNow, Decides, Checks
<1>3. \A f \in CheckFields \ {"phase", "nth", "at", "check"} : x[f] = y[f]
  BY DEF DecidesNow, TurnsToNext
<1>4. x.nth = session[s].nth + 1 /\ x.phase \in {"checking", "returned"}
  BY <1>2 DEF DecidesNow, TurnsToNext, CheckFields, WriteFields
<1> QED BY <1>1, <1>2, <1>3, <1>4 DEF CheckFields, WriteFields

LEMMA DecideTyped ==
  ASSUME TInv, NEW s \in Sessions, Decide(s)
  PROVE  TInv'
<1>1. /\ session[s].phase = "checking" /\ Busy(s) /\ Checks(s) /\ Locks(s) /\ Inserts(s)
      /\ Current(s) \in Payments /\ UNCHANGED tables
  BY DecideIs
<1>2. PICK x, y, d, rows : DecidesNow(s, x, y, d, rows)
  BY DecideIs
<1>3. /\ session'[s] = x
      /\ x.by = session[s].by /\ x.payments = session[s].payments
      /\ x.lines = session[s].lines /\ x.nth = session[s].nth + 1
      /\ x.rows = session[s].rows /\ x.keys = session[s].keys
      /\ x.exts = session[s].exts \cup {Current(s)}
      /\ x.decided = y.decided /\ x.wrote = y.wrote /\ x.opened = y.opened
      /\ x.phase \in {"checking", "returned"}
  BY <1>1, <1>2, TurnsToNextIs
<1>4. Checks(s)'
  <2>1. session[s].nth \in 1..Len(session[s].payments)
    BY <1>1 DEF Checks
  <2>2. DOMAIN x = CheckFields /\ x.at = 1
        /\ (x.phase = "checking" => session[s].nth # Len(session[s].payments))
    BY <1>2, <1>3 DEF DecidesNow, TurnsToNext
  <2>3. Len(session[s].payments) \in Nat
    BY <1>1 DEF Checks
  <2>4. x.nth \in 1..(Len(x.payments) + 1) /\ (x.phase # "returned" => x.nth <= Len(x.payments))
    BY <1>3, <2>1, <2>2, <2>3
  <2> QED BY <1>1, <1>3, <2>2, <2>4 DEF Checks
<1>5. Inserts(s)'
  <2>1. Decides(y, s, Current(s), d, rows) /\ RowsFor(Current(s), d, rows)
    BY <1>2 DEF DecidesNow
  <2>2. /\ session'[s].decided = y.decided /\ session'[s].wrote = y.wrote
        /\ session'[s].opened = y.opened
    BY <1>3
  <2>3. d.lines \in Seq(Line) /\ rows \in SUBSET Post /\ IsFiniteSet(rows)
        /\ d.status \in {"pending_review", "approved", "already_recorded", "kept"}
    BY <2>1 DEF RowsFor
  <2> QED BY <1>1, <2>1, <2>2, <2>3, DecidingTyped
<1>6. Locks(s)'
  BY <1>1, <1>3 DEF Locks
<1>7. SessionOK(s)'
  BY <1>4, <1>5, <1>6 DEF SessionOK
<1>8. Becomes(s, x)
  BY <1>2 DEF DecidesNow
<1> QED BY <1>1, <1>7, <1>8, OneSession

LEMMA BeginRecordTyped ==
  ASSUME TInv, NEW r \in Requests, BeginRecord(r)
  PROVE  TInv'
<1>1. PICK p \in Historical :
        /\ Becomes(r, [phase |-> "recording", by |-> "record", payment |-> p,
                       lines |-> content[p], rows |-> {}, keys |-> {}, exts |-> {},
                       decided |-> Nothing, wrote |-> {}, opened |-> Nothing])
        /\ UNCHANGED tables
  BY DEF BeginRecord
<1> DEFINE x == [phase |-> "recording", by |-> "record", payment |-> p,
                 lines |-> content[p], rows |-> {}, keys |-> {}, exts |-> {},
                 decided |-> Nothing, wrote |-> {}, opened |-> Nothing]
<1>2. r \in Sessions /\ p \in Payments /\ content[p] \in Seq(Line)
  BY RulesAssumption DEF Sessions, TInv, TypeOK
<1>3. session'[r] = x
  BY <1>1, <1>2 DEF Becomes, TInv
<1>4. Records(r)'
  BY <1>2, <1>3 DEF Records, RecordFields
<1>5. Inserts(r)'
  BY <1>3, FS_EmptySet DEF Inserts, Nothing
<1>6. SessionOK(r)'
  BY <1>3, <1>4, <1>5 DEF SessionOK, Locks
<1> HIDE DEF x
<1> QED BY <1>1, <1>2, <1>6, OneSession DEF x

RecordsNow(r, x, y, d, rows) ==
  /\ d.status = "already_recorded" /\ x.rows = {q.key : q \in rows}
  /\ d.lines = session[r].lines /\ rows = PostsOf(Ledger, session[r].payment, d.lines)
  /\ \A k \in x.rows : Free(r, "rows", k)
  /\ Decides(y, r, session[r].payment, d, rows)
  /\ RowsFor(session[r].payment, d, rows)
  /\ DOMAIN x = RecordFields
  /\ \A f \in RecordFields \ {"phase", "rows"} : x[f] = y[f]
  /\ x.phase = "returned" /\ x.rows \subseteq Keys
  /\ Becomes(r, x)

LEMMA PostRecordedIs ==
  ASSUME TInv, NEW r \in Requests, PostRecorded(r)
  PROVE  /\ r \in Sessions /\ session[r].phase = "recording"
         /\ Busy(r) /\ Records(r) /\ Locks(r) /\ Inserts(r) /\ UNCHANGED tables
         /\ \E x, y, d, rows : RecordsNow(r, x, y, d, rows)
<1> DEFINE p == session[r].payment
           rows == PostsOf(Ledger, p, session[r].lines)
           ks == {q.key : q \in rows}
           d == [lines |-> session[r].lines, flags |-> flags[p], status |-> "already_recorded"]
           y == Deciding(r, p, d, rows)
           x == [y EXCEPT !.phase = "returned", !.rows = ks]
<1>1. session[r].phase = "recording" /\ Becomes(r, x) /\ UNCHANGED tables
      /\ \A k \in ks : Free(r, "rows", k)
  BY DEF PostRecorded
<1>2. r \in Sessions
  BY DEF Sessions
<1>3. Busy(r) /\ Records(r) /\ Locks(r) /\ Inserts(r)
  BY <1>1, <1>2 DEF TInv, SessionOK, Busy, Checks, Imports, Records
<1>4. p \in Payments /\ session[r].lines \in Seq(Line)
  BY <1>3 DEF Records
<1>5. /\ rows \subseteq Post /\ IsFiniteSet(rows)
      /\ \A q \in rows : q.payment = p
      /\ Shows(rows, p, session[r].lines)
  <2> HIDE DEF p
  <2> QED BY <1>4, PostsOfShow
<1>6. ks \subseteq Keys
  <2> HIDE DEF rows
  <2> QED BY <1>5 DEF Post
<1>7. d.lines = session[r].lines /\ d.status = "already_recorded" /\ rows = PostsOf(Ledger, p, d.lines)
  OBVIOUS
<1> HIDE DEF d, p, rows, ks
<1>8. RowsFor(p, d, rows)
  BY <1>4, <1>5, <1>7 DEF RowsFor, Final
<1>9. Decides(y, r, p, d, rows)
  <2>1. WriteFields \subseteq DOMAIN session[r]
    BY <1>3 DEF Records, RecordFields, WriteFields
  <2> QED BY <2>1, DecidingIs
<1>10. DOMAIN y = RecordFields
  <2> HIDE DEF y
  <2> QED BY <1>3, <1>9 DEF Decides, Records
<1> HIDE DEF y
<1>11. /\ DOMAIN x = RecordFields
       /\ \A f \in RecordFields \ {"phase", "rows"} : x[f] = y[f]
       /\ x.phase = "returned" /\ x.rows = ks
  BY <1>10 DEF RecordFields
<1> HIDE DEF x
<1>12. RecordsNow(r, x, y, d, rows)
  BY <1>1, <1>6, <1>7, <1>8, <1>9, <1>11 DEF RecordsNow, p, ks
<1> QED BY <1>1, <1>2, <1>3, <1>12

\* Where a session is after recording its payment.
LEMMA RecordsNowIs ==
  ASSUME TInv, NEW r \in Sessions, Records(r), NEW x, NEW y, NEW d, NEW rows,
         RecordsNow(r, x, y, d, rows)
  PROVE  /\ session'[r] = x
         /\ x.phase = "returned" /\ x.by = "record" /\ x.payment = session[r].payment
         /\ x.lines = session[r].lines /\ x.keys = session[r].keys /\ x.rows \subseteq Keys
         /\ x.exts = session[r].exts \cup {session[r].payment}
         /\ x.decided = y.decided /\ x.wrote = y.wrote /\ x.opened = y.opened
<1>1. session'[r] = x
  BY DEF Becomes, TInv, RecordsNow
<1>2. /\ DOMAIN y = RecordFields
      /\ \A f \in RecordFields \ WriteFields : y[f] = session[r][f]
      /\ y.exts = session[r].exts \cup {session[r].payment}
  BY DEF RecordsNow, Decides, Records
<1>3. /\ \A f \in RecordFields \ {"phase", "rows"} : x[f] = y[f]
      /\ x.phase = "returned" /\ x.rows \subseteq Keys
  BY DEF RecordsNow
<1> QED BY <1>1, <1>2, <1>3 DEF RecordFields, WriteFields, Records

LEMMA PostRecordedTyped ==
  ASSUME TInv, NEW r \in Requests, PostRecorded(r)
  PROVE  TInv'
<1>1. /\ r \in Sessions /\ session[r].phase = "recording"
      /\ Busy(r) /\ Records(r) /\ Locks(r) /\ Inserts(r) /\ UNCHANGED tables
  BY PostRecordedIs
<1>2. PICK x, y, d, rows : RecordsNow(r, x, y, d, rows)
  BY PostRecordedIs
<1>3. /\ session'[r] = x
      /\ x.phase = "returned" /\ x.by = "record" /\ x.payment = session[r].payment
      /\ x.lines = session[r].lines /\ x.keys = session[r].keys /\ x.rows \subseteq Keys
      /\ x.exts = session[r].exts \cup {session[r].payment}
      /\ x.decided = y.decided /\ x.wrote = y.wrote /\ x.opened = y.opened
  BY <1>1, <1>2, RecordsNowIs
<1>4. Records(r)'
  BY <1>1, <1>2, <1>3 DEF Records, RecordsNow
<1>5. Inserts(r)'
  <2> DEFINE p == session[r].payment
  <2>1. Decides(y, r, p, d, rows) /\ RowsFor(p, d, rows)
    BY <1>2 DEF RecordsNow
  <2>2. /\ session'[r].decided = y.decided /\ session'[r].wrote = y.wrote
        /\ session'[r].opened = y.opened
    BY <1>3
  <2>3. d.lines \in Seq(Line) /\ rows \in SUBSET Post /\ IsFiniteSet(rows)
        /\ d.status \in {"pending_review", "approved", "already_recorded", "kept"}
    BY <2>1 DEF RowsFor
  <2>4. p \in Payments
    BY <1>1 DEF Records
  <2> HIDE DEF p
  <2> QED BY <1>1, <2>1, <2>2, <2>3, <2>4, DecidingTyped
<1>6. Locks(r)'
  BY <1>1, <1>3 DEF Locks, Records
<1>7. SessionOK(r)'
  BY <1>4, <1>5, <1>6 DEF SessionOK
<1>8. Becomes(r, x)
  BY <1>2 DEF RecordsNow
<1> QED BY <1>1, <1>7, <1>8, OneSession

\* The row of a file is a row of the books.
LEMMA FromBooksIsRow ==
  ASSUME TInv, NEW k \in Keys, NEW row \in FileRow
  PROVE  FromBooks(k, row) \in InvoiceRow
<1>1. invoice[k].before \in Int /\ Paid(Ledger, k) \in Int
  <2>1. LedgerOK(Ledger) BY LedgerIsLedger
  <2>2. Paid(Ledger, k) \in Int BY <2>1, PaidIsInt DEF LedgerOK
  <2> QED BY <2>2 DEF TInv, TypeOK, InvoiceRow
<1>2. row.amount \in Nat /\ row.left \in Nat \cup {Blank}
  BY DEF FileRow
<1> DEFINE paid == Paid(Ledger, k)
           was == invoice[k].before
           outside == row.amount - row.left - (paid - was)
           before == IF row.left = Blank THEN was
                     ELSE IF ~Exists(Ledger, k) THEN row.amount - row.left
                     ELSE IF outside > 0 THEN outside ELSE 0
<1>3. before \in Int
  <2>1. CASE row.left = Blank BY <1>1, <2>1
  <2>2. CASE row.left # Blank
    <3>1. row.left \in Nat BY <1>2, <2>2
    <3> HIDE DEF paid, was
    <3> QED BY <1>1, <1>2, <2>2, <3>1 DEF paid, was
  <2> QED BY <2>1, <2>2
<1>4. FromBooks(k, row) = [source |-> "books", amount |-> row.amount, before |-> before]
  BY DEF FromBooks
<1> HIDE DEF before
<1> QED BY <1>2, <1>3, <1>4 DEF InvoiceRow

LEMMA BeginImportTyped ==
  ASSUME TInv, NEW r \in Requests, BeginImport(r)
  PROVE  TInv'
<1>1. PICK f \in Files :
        /\ Becomes(r, [phase |-> "importing", by |-> "import",
                       books |-> [k \in DOMAIN f |-> FromBooks(k, f[k])],
                       created |-> {k \in DOMAIN f : ~Exists(Ledger, k)},
                       refreshed |-> <<>>, rows |-> {}, keys |-> {}, exts |-> {}])
        /\ UNCHANGED tables
  BY DEF BeginImport
<1> DEFINE books == [k \in DOMAIN f |-> FromBooks(k, f[k])]
           created == {k \in DOMAIN f : ~Exists(Ledger, k)}
           x == [phase |-> "importing", by |-> "import", books |-> books, created |-> created,
                 refreshed |-> <<>>, rows |-> {}, keys |-> {}, exts |-> {}]
<1>2. r \in Sessions
  BY DEF Sessions
<1>3. DOMAIN books \subseteq Keys /\ \A k \in DOMAIN books : books[k] \in InvoiceRow
  <2>1. DOMAIN f \subseteq Keys /\ \A k \in DOMAIN f : f[k] \in FileRow
    BY PostingAssumption
  <2> QED BY <2>1, FromBooksIsRow
<1> HIDE DEF books, created
<1>4. session'[r] = x
  BY <1>1, <1>2 DEF Becomes, TInv, books, created
<1>5. Imports(r)'
  BY <1>3, <1>4 DEF Imports, ImportFields
<1>6. SessionOK(r)'
  BY <1>4, <1>5 DEF SessionOK, Locks
<1>7. Becomes(r, x) /\ UNCHANGED tables
  BY <1>1 DEF books, created
<1> HIDE DEF x
<1> QED BY <1>2, <1>6, <1>7, OneSession

LEMMA ImportRowsTyped ==
  ASSUME TInv, NEW r \in Requests, ImportRows(r)
  PROVE  TInv'
<1> DEFINE books == session[r].books
           L == WithBooks(books)
           pending == {p \in Payments : status[p] = "pending_review"}
           stale == {p \in pending : FlagsOf(L, p, content[p]) # flags[p]}
           ks == (UNION {{content[p][i].key : i \in DOMAIN content[p]} : p \in pending}) \ {NoKey}
           rows == DOMAIN books \cup (ks \cap Known(L))
           again == [p \in stale |-> FlagsOf(L, p, content[p])]
           x == [session[r] EXCEPT
                   !.phase = "returned", !.rows = rows, !.keys = ks \ Known(L), !.exts = stale,
                   !.refreshed = again]
<1>1. session[r].phase = "importing" /\ Becomes(r, x) /\ UNCHANGED tables
  BY DEF ImportRows
<1>2. r \in Sessions
  BY DEF Sessions
<1>3. Imports(r)
  BY <1>1, <1>2 DEF TInv, SessionOK, Busy, Checks, Records
<1>4. ks \subseteq Keys
  <2>1. ASSUME NEW p \in pending, NEW i \in DOMAIN content[p]
        PROVE  content[p][i].key \in Keys \cup {NoKey}
    <3>1. content[p] \in Seq(Line) BY DEF TInv, TypeOK
    <3>2. content[p][i] \in Line BY <3>1
    <3> QED BY <3>2 DEF Line
  <2> SUFFICES ASSUME NEW k \in ks PROVE k \in Keys
    OBVIOUS
  <2> DEFINE keysOf(p) == {content[p][i].key : i \in DOMAIN content[p]}
             all == {keysOf(p) : p \in pending}
  <2>2. ks = (UNION all) \ {NoKey}
    BY Zenon
  <2> HIDE DEF all
  <2>3. k # NoKey /\ k \in UNION all
    <3> HIDE DEF ks
    <3> QED BY <2>2
  <2> HIDE DEF pending, ks
  <2>4. PICK p \in pending : k \in keysOf(p)
    <3>1. PICK S \in all : k \in S
      BY <2>3
    <3> HIDE DEF keysOf
    <3> QED BY <3>1 DEF all
  <2>5. PICK i \in DOMAIN content[p] : k = content[p][i].key
    BY <2>4
  <2> QED BY <2>1, <2>3, <2>5
<1>5. rows \subseteq Keys /\ stale \subseteq Payments
  BY <1>3, <1>4 DEF Imports
<1> HIDE DEF stale, ks, rows, L, again
<1>6. /\ DOMAIN x = ImportFields /\ x.phase = "returned" /\ x.rows = rows
      /\ x.keys = ks \ Known(L) /\ x.exts = stale
      /\ x.books = session[r].books /\ x.by = session[r].by
  BY <1>3 DEF Imports, ImportFields
<1>7. session'[r] = x
  BY <1>1, <1>2 DEF Becomes, TInv
<1> HIDE DEF x
<1>8. Imports(r)'
  BY <1>3, <1>6, <1>7 DEF Imports
<1>9. SessionOK(r)'
  BY <1>4, <1>5, <1>6, <1>7, <1>8 DEF SessionOK, Locks
<1> QED BY <1>1, <1>2, <1>9, OneSession

\* What a session commits is a ledger, and what others have is not touched.
LEMMA CommitTyped ==
  ASSUME TInv, NEW s \in Sessions, Commit(s)
  PROVE  TInv'
<1>1. /\ session[s].phase = "returned" /\ session[s].by # "import" /\ Becomes(s, Idle)
      /\ invoice' = View(s).invoice /\ posted' = View(s).posted
      /\ status' = [p \in Payments |-> StatusAfter(s, p)]
      /\ content' = Written(s, "lines", content)
      /\ flags' = IF session[s].by = "record" THEN flags ELSE Written(s, "flags", flags)
  BY DEF Commit
<1>2. Inserts(s)
  BY <1>1 DEF TInv, SessionOK, Busy, Imports
<1>3. LedgerOK(View(s))
  BY <1>2, ViewIsLedger
<1>4. status' \in [Payments -> {"unread", "pending_review", "approved", "already_recorded"}]
  <2>1. ASSUME NEW p \in Payments
        PROVE  StatusAfter(s, p) \in {"unread", "pending_review", "approved", "already_recorded"}
    <3>1. status[p] \in {"unread", "pending_review", "approved", "already_recorded"}
      BY DEF TInv, TypeOK
    <3>2. Written(s, "status", status)[p] = IF p \in DOMAIN session[s].decided
             THEN session[s].decided[p].status ELSE status[p]
      BY DEF Written
    <3> QED BY <1>2, <3>1, <3>2 DEF StatusAfter, Inserts
  <2> QED BY <1>1, <2>1
<1>5. content' \in [Payments -> Seq(Line)]
  <2>1. content \in [Payments -> Seq(Line)] BY DEF TInv, TypeOK
  <2>2. content' = [p \in Payments |-> IF p \in DOMAIN session[s].decided
                                       THEN session[s].decided[p].lines ELSE content[p]]
    BY <1>1 DEF Written
  <2> QED BY <1>2, <2>1, <2>2 DEF Inserts
<1>6. DOMAIN flags' = Payments
  <2>1. DOMAIN flags = Payments BY DEF TInv, TypeOK
  <2> QED BY <1>1, <2>1 DEF Written
<1>7. DOMAIN session' = Sessions /\ \A t \in Sessions \ {s} : session'[t] = session[t]
  BY <1>1 DEF TInv, Becomes
<1>8. SessionOK(s)'
  BY <1>1, IdleIsOK DEF TInv
<1>9. \A t \in Sessions : SessionOK(t)'
  BY <1>7, <1>8, SessionKeeps DEF TInv
<1>10. invoice' \in [Keys -> InvoiceRow] /\ posted' \subseteq Post /\ IsFiniteSet(posted')
  BY <1>1, <1>3 DEF LedgerOK
<1>11. TypeOK'
  BY <1>4, <1>5, <1>6, <1>9, <1>10 DEF TypeOK, SessionOK, Locks, Busy
<1> QED BY <1>7, <1>9, <1>10, <1>11 DEF TInv

LEMMA CommitImportTyped ==
  ASSUME TInv, NEW r \in Requests, CommitImport(r)
  PROVE  TInv'
<1>1. /\ session[r].phase = "returned" /\ session[r].by = "import" /\ Becomes(r, Idle)
      /\ invoice' = WithBooks(session[r].books).invoice
      /\ DOMAIN flags' = Payments
      /\ UNCHANGED <<posted, status, content>>
  BY DEF CommitImport
<1>2. r \in Sessions
  BY DEF Sessions
<1>3. Imports(r)
  BY <1>1, <1>2 DEF TInv, SessionOK, Busy, Checks, Records
<1>4. invoice' \in [Keys -> InvoiceRow]
  <2>1. invoice' = [k \in Keys |-> IF k \in DOMAIN session[r].books THEN session[r].books[k]
                                   ELSE invoice[k]]
    BY <1>1 DEF WithBooks, Ledger
  <2> QED BY <1>3, <2>1 DEF Imports, TInv, TypeOK
<1>5. DOMAIN session' = Sessions /\ \A t \in Sessions \ {r} : session'[t] = session[t]
  BY <1>1 DEF TInv, Becomes
<1>6. SessionOK(r)'
  BY <1>1, <1>2, IdleIsOK DEF TInv
<1>7. \A t \in Sessions : SessionOK(t)'
  BY <1>5, <1>6, SessionKeeps DEF TInv
<1>8. TypeOK'
  BY <1>1, <1>4, <1>7 DEF TInv, TypeOK, SessionOK, Locks, Busy
<1> QED BY <1>1, <1>5, <1>7, <1>8 DEF TInv

LEMMA AbortTyped ==
  ASSUME TInv, NEW s \in Sessions, Abort(s)
  PROVE  TInv'
BY IdleIsOK, OneSession DEF Abort, TInv

LEMMA TInvInit == ASSUME Init PROVE TInv
<1>1. TypeOK
  BY PostingAssumption DEF Init, TypeOK, Busy, Idle
<1>2. IsFiniteSet(posted)
  BY FS_EmptySet DEF Init
<1> QED BY <1>1, <1>2 DEF Init, TInv, SessionOK, Busy, Idle

LEMMA TInvNext == ASSUME TInv, [Next]_vars PROVE TInv'
<1>1. ASSUME NEW w \in Workers, BeginRoute(w) PROVE TInv'
  BY <1>1, BeginRouteTyped
<1>2. ASSUME NEW r \in Requests,
             BeginEdit(r) \/ BeginRecord(r) \/ PostRecorded(r)
               \/ BeginImport(r) \/ ImportRows(r) \/ CommitImport(r)
      PROVE  TInv'
  BY <1>2, BeginEditTyped, BeginRecordTyped, PostRecordedTyped, BeginImportTyped,
     ImportRowsTyped, CommitImportTyped
<1>3. ASSUME NEW s \in Sessions,
             CheckFound(s) \/ FindMissing(s) \/ LockMissing(s) \/ CheckLoose(s)
               \/ Decide(s) \/ Commit(s) \/ Abort(s)
      PROVE  TInv'
  BY <1>3, CheckFoundContinues, FindMissingContinues, LockMissingContinues,
     CheckLooseContinues, ContinuesTyped, DecideTyped, CommitTyped, AbortTyped
<1>4. CASE UNCHANGED vars
  <2>1. DOMAIN session' = Sessions /\ \A t \in Sessions : session'[t] = session[t]
    BY <1>4 DEF vars, TInv
  <2>2. \A t \in Sessions : SessionOK(t)'
    BY <2>1, SessionKeeps DEF TInv
  <2> QED BY <1>4, <2>1, <2>2 DEF vars, TInv, TypeOK, Busy
<1> QED BY <1>1, <1>2, <1>3, <1>4 DEF Next

\* Sessions keep their shape and the ledger its rows, for any workers and requests.
THEOREM PostingInvariance == Spec => []TInv
<1>1. Init => TInv
  BY TInvInit
<1>2. TInv /\ [Next]_vars => TInv'
  BY TInvNext
<1> QED BY <1>1, <1>2, PTL DEF Spec

THEOREM PostingTypeCorrect == Spec => []TypeOK
<1>1. TInv => TypeOK
  BY DEF TInv
<1> QED BY <1>1, PostingInvariance, PTL

-----------------------------------------------------------------------------
(* What is posted, when one reviewer decides at a time.                     *)

\* Only the rows of the payment itself matter.
LEMMA ShowsItsRows ==
  ASSUME NEW A, NEW B, NEW p, NEW lines,
         {r \in A : r.payment = p} = {r \in B : r.payment = p}, Shows(A, p, lines)
  PROVE  Shows(B, p, lines)
<1> DEFINE a == {r \in A : r.payment = p}
           b == {r \in B : r.payment = p}
<1>1. a = b
  OBVIOUS
<1> HIDE DEF a, b
<1> QED BY <1>1 DEF Shows, a, b

\* Sessions that decide on payments, and on which.
Deciders == {s \in Sessions : Busy(s) /\ session[s].by # "import"}

LEMMA DecidersAre ==
  ASSUME TInv, NEW s \in Deciders
  PROVE  /\ Checks(s) \/ Records(s)
         /\ Inserts(s) /\ Locks(s) /\ Done(s) \subseteq About(s) /\ About(s) \subseteq Payments
<1>1. (Checks(s) \/ Records(s)) /\ Inserts(s) /\ Locks(s)
  BY DEF Deciders, TInv, SessionOK, Imports
<1>2. CASE Records(s)
  BY <1>1, <1>2 DEF Records, Done, About
<1>3. CASE Checks(s)
  <2> DEFINE ps == session[s].payments
             k == session[s].nth
  <2>1. ps \in Seq(Payments) /\ k \in 1..(Len(ps) + 1)
    BY <1>3 DEF Checks
  <2>2. About(s) = {ps[n] : n \in DOMAIN ps} /\ Done(s) = {ps[n] : n \in 1..(k - 1)}
    BY <1>3 DEF Checks, About, Done
  <2> HIDE DEF ps, k
  <2>3. DOMAIN ps = 1..Len(ps) /\ Len(ps) \in Nat
    BY <2>1
  <2>4. 1..(k - 1) \subseteq DOMAIN ps
    BY <2>1, <2>3
  <2> QED BY <1>1, <2>1, <2>2, <2>4
<1> QED BY <1>1, <1>2, <1>3

\* No two of them decide on the same payment.
LEMMA OwnPayments ==
  ASSUME TInv, PInv, OneReviewer, NEW s \in Deciders, NEW t \in Deciders, s # t
  PROVE  About(s) \cap About(t) = {}
<1>1. IsCurrent(s) /\ IsCurrent(t)
  BY DEF PInv, Deciders
<1>2. CASE s \in Workers /\ t \in Workers
  <2>1. session[s].payments \in Mail /\ session[t].payments \in Mail
        /\ session[s].payments # session[t].payments
    BY <1>1, <1>2 DEF IsCurrent, PInv, Deciders
  <2>2. session[s].by # "record" /\ session[t].by # "record"
    BY <1>1, <1>2 DEF IsCurrent
  <2> QED BY <2>1, <2>2, RulesAssumption DEF About
<1>3. CASE s \in Workers /\ t \notin Workers
  BY <1>1, <1>3 DEF IsCurrent
<1>4. CASE s \notin Workers /\ t \in Workers
  BY <1>1, <1>4 DEF IsCurrent
<1>5. CASE s \notin Workers /\ t \notin Workers
  BY <1>5 DEF OneReviewer, Deciders, Sessions
<1> QED BY <1>2, <1>3, <1>4, <1>5

\* A session that does nothing keeps what it has, unless its payments are decided on.
LEMMA DeciderKeeps ==
  ASSUME NEW s \in Sessions, WritesWhatItDecides(s), IsCurrent(s), session'[s] = session[s],
         \A p \in About(s) : status'[p] = status[p]
  PROVE  WritesWhatItDecides(s)' /\ IsCurrent(s)'
<1>1. About(s)' = About(s) /\ Done(s)' = Done(s)
  BY DEF About, Done
<1>2. WritesWhatItDecides(s)'
  BY <1>1 DEF WritesWhatItDecides
<1>3. IsCurrent(s)'
  BY <1>1 DEF IsCurrent
<1> QED BY <1>2, <1>3

\* A step of session s that leaves the tables alone.
LEMMA OneDecider ==
  ASSUME TInv, PInv, NEW s \in Sessions, NEW value, Becomes(s, value), UNCHANGED tables,
         value.phase # "idle" /\ value.by # "import" => WritesWhatItDecides(s)' /\ IsCurrent(s)',
         \A w \in Workers \ {s} : s \in Workers /\ Busy(w) /\ value.phase # "idle" =>
           session[w].payments # value.payments
  PROVE  PInv'
<1>1. /\ session'[s] = value
      /\ \A t \in Sessions \ {s} : session'[t] = session[t]
  BY DEF Becomes, TInv
<1>2. PostedAsApproved'
  BY DEF PInv, PostedAsApproved, tables
<1>3. ASSUME NEW t \in Sessions, Busy(t)', session'[t].by # "import"
      PROVE  WritesWhatItDecides(t)' /\ IsCurrent(t)'
  <2>1. CASE t = s
    BY <1>1, <1>3, <2>1 DEF Busy
  <2>2. CASE t # s
    <3>1. session'[t] = session[t] BY <1>1, <2>2
    <3>2. WritesWhatItDecides(t) /\ IsCurrent(t) BY <1>3, <3>1 DEF PInv, Busy
    <3>3. \A p \in About(t) : status'[p] = status[p] BY DEF tables
    <3> QED BY <3>1, <3>2, <3>3, DeciderKeeps
  <2> QED BY <2>1, <2>2
<1>4. \A v, w \in Workers : Busy(v)' /\ Busy(w)' /\ v # w =>
        session'[v].payments # session'[w].payments
  BY <1>1 DEF PInv, Busy, Sessions
<1> QED BY <1>2, <1>3, <1>4 DEF PInv

\* A session that ends without committing.
LEMMA EndsUndecided ==
  ASSUME TInv, PInv, NEW s \in Sessions, Abort(s)
  PROVE  PInv'
BY OneDecider DEF Abort, Idle

\* Nothing is decided when a session starts.
LEMMA StartsUndecided ==
  ASSUME TInv, NEW s \in Sessions, NEW by \in {"route", "edit", "use"},
         NEW ps \in Seq(Payments) \ {<<>>}, NEW lines, NEW approve, NEW shown,
         Starts(s, by, ps, lines, approve, shown),
         s \in Workers <=> by = "route",
         by = "route" => ps \in Mail,
         by # "route" => Len(ps) = 1,
         \A n \in DOMAIN ps : status[ps[n]] = IF by = "route" THEN "unread" ELSE "pending_review",
         PInv,
         \A w \in Workers \ {s} : s \in Workers /\ Busy(w) => session[w].payments # ps
  PROVE  PInv'
<1> DEFINE x == [phase |-> "checking", by |-> by, payments |-> ps, lines |-> lines,
                 approve |-> approve, shown |-> shown, nth |-> 1, at |-> 1,
                 check |-> FreshCheck(Ledger), rows |-> {}, keys |-> {}, exts |-> {},
                 decided |-> Nothing, wrote |-> {}, opened |-> Nothing]
<1>1. Becomes(s, x) /\ UNCHANGED tables
  BY DEF Starts
<1>2. session'[s] = x
  BY <1>1 DEF Becomes, TInv
<1>3. x.by = by /\ x.payments = ps /\ x.nth = 1 /\ x.wrote = {} /\ x.decided = Nothing
  OBVIOUS
<1> HIDE DEF x
<1>4. Done(s)' = {} /\ About(s)' = {ps[n] : n \in DOMAIN ps}
  BY <1>2, <1>3 DEF Done, About
<1>5. WritesWhatItDecides(s)'
  BY <1>2, <1>3, <1>4 DEF WritesWhatItDecides, Nothing
<1>6. IsCurrent(s)'
  <2>1. status' = status BY <1>1 DEF tables
  <2> QED BY <1>2, <1>3, <1>4, <2>1 DEF IsCurrent
<1> QED BY <1>1, <1>3, <1>5, <1>6, OneDecider

LEMMA BeginRouteUndecided ==
  ASSUME TInv, PInv, NEW w \in Workers, BeginRoute(w)
  PROVE  PInv'
<1>1. PICK ps \in Mail :
        /\ \A n \in DOMAIN ps : status[ps[n]] = "unread"
        /\ \A v \in Workers : Busy(v) => session[v].payments # ps
        /\ \E lines : Starts(w, "route", ps, lines, TRUE, {})
  BY DEF BeginRoute
<1>2. PICK lines : Starts(w, "route", ps, lines, TRUE, {})
  BY <1>1
<1>3. ps \in Seq(Payments) \ {<<>>} /\ w \in Sessions
  BY RulesAssumption DEF Sessions
<1> QED BY <1>1, <1>2, <1>3, StartsUndecided

LEMMA BeginEditUndecided ==
  ASSUME TInv, PInv, NEW r \in Requests, BeginEdit(r)
  PROVE  PInv'
<1>1. PICK p \in Payments :
        /\ status[p] = "pending_review"
        /\ \E form \in Forms[p] : \E by \in {"edit", "use"}, approve \in BOOLEAN :
             Starts(r, by, <<p>>, [q \in {p} |-> form], approve, flags[p])
  BY DEF BeginEdit
<1>2. PICK form \in Forms[p] : \E by \in {"edit", "use"}, approve \in BOOLEAN :
        Starts(r, by, <<p>>, [q \in {p} |-> form], approve, flags[p])
  BY <1>1
<1>3. PICK by \in {"edit", "use"} : \E approve \in BOOLEAN :
        Starts(r, by, <<p>>, [q \in {p} |-> form], approve, flags[p])
  BY <1>2
<1>4. PICK approve \in BOOLEAN : Starts(r, by, <<p>>, [q \in {p} |-> form], approve, flags[p])
  BY <1>3
<1> DEFINE ps == <<p>>
           lines == [q \in {p} |-> form]
           shown == flags[p]
<1>5. ps \in Seq(Payments) \ {<<>>} /\ Len(ps) = 1 /\ \A n \in DOMAIN ps : ps[n] = p
  OBVIOUS
<1>6. r \in Sessions /\ r \notin Workers /\ by # "route" /\ by \in {"route", "edit", "use"}
  BY PostingAssumption DEF Sessions
<1>7. Starts(r, by, ps, lines, approve, shown)
  BY <1>4
<1> HIDE DEF ps, lines, shown
<1> QED BY <1>1, <1>5, <1>6, <1>7, StartsUndecided

LEMMA BeginRecordUndecided ==
  ASSUME TInv, PInv, NEW r \in Requests, BeginRecord(r)
  PROVE  PInv'
<1>1. PICK p \in Historical :
        /\ status[p] = "pending_review"
        /\ Becomes(r, [phase |-> "recording", by |-> "record", payment |-> p,
                       lines |-> content[p], rows |-> {}, keys |-> {}, exts |-> {},
                       decided |-> Nothing, wrote |-> {}, opened |-> Nothing])
        /\ UNCHANGED tables
  BY DEF BeginRecord
<1> DEFINE x == [phase |-> "recording", by |-> "record", payment |-> p,
                 lines |-> content[p], rows |-> {}, keys |-> {}, exts |-> {},
                 decided |-> Nothing, wrote |-> {}, opened |-> Nothing]
<1>2. r \in Sessions /\ r \notin Workers
  BY PostingAssumption DEF Sessions
<1>3. session'[r] = x
  BY <1>1, <1>2 DEF Becomes, TInv
<1>4. Done(r)' = {} /\ About(r)' = {p}
  BY <1>3 DEF Done, About
<1>5. WritesWhatItDecides(r)'
  BY <1>3, <1>4 DEF WritesWhatItDecides, Nothing
<1>6. IsCurrent(r)'
  <2>1. status' = status BY <1>1 DEF tables
  <2> QED BY <1>1, <1>2, <1>3, <1>4, <2>1 DEF IsCurrent
<1>7. Becomes(r, x) /\ UNCHANGED tables
  BY <1>1
<1> HIDE DEF x
<1> QED BY <1>2, <1>5, <1>6, <1>7, OneDecider

LEMMA BeginImportUndecided ==
  ASSUME TInv, PInv, NEW r \in Requests, BeginImport(r)
  PROVE  PInv'
<1>1. \E x : x.by = "import" /\ Becomes(r, x) /\ UNCHANGED tables
  BY DEF BeginImport
<1>2. PICK x : x.by = "import" /\ Becomes(r, x) /\ UNCHANGED tables
  BY <1>1
<1>3. r \in Sessions /\ r \notin Workers
  BY PostingAssumption DEF Sessions
<1> QED BY <1>2, <1>3, OneDecider

LEMMA ImportRowsUndecided ==
  ASSUME TInv, PInv, NEW r \in Requests, ImportRows(r)
  PROVE  PInv'
<1>1. session[r].phase = "importing" /\ UNCHANGED tables
  BY DEF ImportRows
<1>2. r \in Sessions /\ r \notin Workers
  BY PostingAssumption DEF Sessions
<1>3. Imports(r)
  BY <1>1, <1>2 DEF TInv, SessionOK, Busy, Checks, Records
<1>4. PICK rows, keys, exts, again :
        Becomes(r, [session[r] EXCEPT !.phase = "returned", !.rows = rows, !.keys = keys,
                                      !.exts = exts, !.refreshed = again])
  BY DEF ImportRows
<1> DEFINE x == [session[r] EXCEPT !.phase = "returned", !.rows = rows, !.keys = keys,
                                   !.exts = exts, !.refreshed = again]
<1>5. Becomes(r, x) /\ x.by = "import"
  BY <1>3, <1>4 DEF Imports, ImportFields
<1> HIDE DEF x
<1> QED BY <1>1, <1>2, <1>5, OneDecider

LEMMA ContinuesUndecided ==
  ASSUME TInv, PInv, NEW s \in Sessions, Continues(s)
  PROVE  PInv'
<1>1. PICK x : GoesOn(s, x) /\ Becomes(s, x)
  BY DEF Continues
<1>2. Busy(s) /\ Checks(s) /\ session[s].phase # "returned" /\ UNCHANGED tables
  BY DEF Continues
<1>3. session'[s] = x
  BY <1>1 DEF Becomes, TInv
<1>4. /\ x.by = session[s].by /\ x.by \in {"route", "edit", "use"}
      /\ x.payments = session[s].payments /\ x.nth = session[s].nth
      /\ x.decided = session[s].decided /\ x.wrote = session[s].wrote
  BY <1>1, <1>2 DEF GoesOn, Checks
<1>5. About(s)' = About(s) /\ Done(s)' = Done(s)
  BY <1>3, <1>4 DEF About, Done
<1>6. WritesWhatItDecides(s) /\ IsCurrent(s)
  BY <1>2 DEF PInv, Checks
<1>7. WritesWhatItDecides(s)'
  BY <1>3, <1>4, <1>5, <1>6 DEF WritesWhatItDecides
<1>8. IsCurrent(s)'
  <2>1. status' = status BY <1>2 DEF tables
  <2> QED BY <1>3, <1>4, <1>5, <1>6, <2>1 DEF IsCurrent
<1>9. \A w \in Workers \ {s} : s \in Workers /\ Busy(w) => session[w].payments # x.payments
  BY <1>2, <1>4 DEF PInv
<1> QED BY <1>1, <1>2, <1>7, <1>8, <1>9, OneDecider

\* A session decides on each of its payments once.
LEMMA CurrentIsUndone ==
  ASSUME TInv, PInv, NEW s \in Sessions, Busy(s), Checks(s), session[s].phase # "returned"
  PROVE  Current(s) \in About(s) /\ Current(s) \notin Done(s)
<1> DEFINE ps == session[s].payments
           k == session[s].nth
<1>1. session[s].by # "record" /\ session[s].by # "import" /\ IsCurrent(s)
  BY DEF PInv, Checks
<1>2. ps \in Seq(Payments) /\ k \in 1..Len(ps) /\ Current(s) = ps[k]
  BY DEF Checks, Current
<1>3. \A m, n \in DOMAIN ps : ps[m] = ps[n] => m = n
  <2>1. CASE session[s].by = "route"
    BY <1>1, <2>1, RulesAssumption DEF IsCurrent
  <2>2. CASE session[s].by # "route"
    <3>1. Len(ps) = 1 BY <1>1, <2>2 DEF IsCurrent, Checks
    <3> HIDE DEF ps
    <3>2. DOMAIN ps = 1..1 BY <1>2, <3>1
    <3> QED BY <3>2
  <2> QED BY <2>1, <2>2
<1>4. About(s) = {ps[n] : n \in DOMAIN ps} /\ Done(s) = {ps[n] : n \in 1..(k - 1)}
  BY <1>1 DEF About, Done
<1> HIDE DEF ps, k
<1>5. Len(ps) \in Nat /\ DOMAIN ps = 1..Len(ps)
  BY <1>2
<1>6. k \in DOMAIN ps /\ \A n \in 1..(k - 1) : n \in DOMAIN ps /\ n # k
  BY <1>2, <1>5
<1> QED BY <1>2, <1>3, <1>4, <1>6

\* Rows of a payment that was not decided on are all new.
LEMMA WritesAlso ==
  ASSUME TInv, PInv, NEW s \in Deciders, NEW p \in About(s), p \notin Done(s),
         NEW y, NEW d, NEW rows, Decides(y, s, p, d, rows), RowsFor(p, d, rows)
  PROVE  /\ DOMAIN y.decided = Done(s) \cup {p}
         /\ \A r \in y.wrote : r.payment \in Done(s) \cup {p}
         /\ \A q \in Done(s) \cup {p} :
              IF y.decided[q].status \in Final THEN Shows(y.wrote, q, y.decided[q].lines)
              ELSE NoRows(y.wrote, q)
<1>1. WritesWhatItDecides(s) /\ IsCurrent(s) /\ Inserts(s) /\ p \in Payments /\ s \in Sessions
  BY DecidersAre DEF PInv, Deciders
<1>2. \A r \in posted : r.payment # p
  <2>1. status[p] \notin Final BY <1>1 DEF IsCurrent, Final
  <2> QED BY <1>1, <2>1 DEF PInv, PostedAsApproved
<1>3. \A r \in session[s].wrote : r.payment # p
  BY <1>1 DEF WritesWhatItDecides
<1>4. y.wrote = session[s].wrote \cup rows
  <2>1. View(s).posted = posted \cup session[s].wrote
    BY DEF View
  <2>2. \A r \in rows : r.payment = p /\ r \notin View(s).posted
    BY <1>2, <1>3, <2>1 DEF RowsFor
  <2>3. Fresh(View(s), rows) = rows
    BY <1>2, <1>3, <2>1, <2>2 DEF Fresh
  <2>4. Posted(View(s), rows).posted = View(s).posted \cup rows
    BY <2>3 DEF Posted
  <2>5. Posted(View(s), rows).posted \ View(s).posted = rows
    BY <2>2, <2>4
  <2> QED BY <2>5 DEF Decides
<1>5. y.decided = [q \in Done(s) \cup {p} |-> IF q = p THEN d ELSE session[s].decided[q]]
  BY <1>1 DEF Decides, WritesWhatItDecides
<1>6. ASSUME NEW q \in Done(s) \cup {p}
      PROVE  IF y.decided[q].status \in Final THEN Shows(y.wrote, q, y.decided[q].lines)
             ELSE NoRows(y.wrote, q)
  <2>1. CASE q = p
    <3>1. y.decided[q] = d BY <1>5, <2>1
    <3>2. {r \in y.wrote : r.payment = p} = {r \in rows : r.payment = p}
      BY <1>3, <1>4
    <3>3. CASE d.status \in Final
      <4>1. Shows(rows, p, d.lines) BY <3>3 DEF RowsFor
      <4> QED BY <2>1, <3>1, <3>2, <3>3, <4>1, ShowsItsRows
    <3>4. CASE d.status \notin Final
      <4>1. rows = {} BY <3>4 DEF RowsFor
      <4> QED BY <1>3, <1>4, <2>1, <3>1, <3>4, <4>1 DEF NoRows
    <3> QED BY <3>3, <3>4
  <2>2. CASE q # p
    <3>1. q \in Done(s) /\ y.decided[q] = session[s].decided[q] BY <1>5, <2>2
    <3>2. \A r \in rows : r.payment # q BY <2>2 DEF RowsFor
    <3>3. {r \in y.wrote : r.payment = q} = {r \in session[s].wrote : r.payment = q}
      BY <1>4, <3>2
    <3>4. CASE y.decided[q].status \in Final
      <4>1. Shows(session[s].wrote, q, y.decided[q].lines)
        BY <1>1, <3>1, <3>4 DEF WritesWhatItDecides
      <4> QED BY <3>3, <3>4, <4>1, ShowsItsRows
    <3>5. CASE y.decided[q].status \notin Final
      BY <1>1, <1>4, <3>1, <3>2, <3>5 DEF WritesWhatItDecides, NoRows
    <3> QED BY <3>4, <3>5
  <2> QED BY <2>1, <2>2
<1>7. \A r \in y.wrote : r.payment \in Done(s) \cup {p}
  BY <1>1, <1>4 DEF WritesWhatItDecides, RowsFor
<1> QED BY <1>5, <1>6, <1>7

LEMMA DecideWrites ==
  ASSUME TInv, PInv, NEW s \in Sessions, Decide(s)
  PROVE  PInv'
<1>1. /\ session[s].phase = "checking" /\ Busy(s) /\ Checks(s) /\ Locks(s) /\ Inserts(s)
      /\ Current(s) \in Payments /\ UNCHANGED tables
  BY DecideIs
<1>2. PICK x, y, d, rows : DecidesNow(s, x, y, d, rows)
  BY DecideIs
<1>3. /\ session'[s] = x
      /\ x.by = session[s].by /\ x.payments = session[s].payments
      /\ x.nth = session[s].nth + 1 /\ x.decided = y.decided /\ x.wrote = y.wrote
  BY <1>1, <1>2, TurnsToNextIs
<1> DEFINE ps == session[s].payments
           k == session[s].nth
           p == Current(s)
<1>4. s \in Deciders /\ WritesWhatItDecides(s) /\ IsCurrent(s) /\ session[s].by # "record"
  BY <1>1 DEF PInv, Checks, Deciders
<1>5. ps \in Seq(Payments) /\ k \in 1..Len(ps) /\ p = ps[k]
  BY <1>1 DEF Checks, Current
<1>6. About(s) = {ps[n] : n \in DOMAIN ps} /\ Done(s) = {ps[n] : n \in 1..(k - 1)}
  BY <1>4 DEF About, Done
<1>7. About(s)' = About(s) /\ Done(s)' = {ps[n] : n \in 1..k}
  <2>1. x.nth - 1 = k BY <1>3, <1>5
  <2> QED BY <1>3, <1>4, <1>6, <2>1 DEF About, Done
<1>8. p \in About(s) /\ p \notin Done(s)
  BY <1>1, CurrentIsUndone
<1> HIDE DEF ps, k, p
<1>9. Len(ps) \in Nat /\ DOMAIN ps = 1..Len(ps)
  BY <1>5
<1>10. p \in About(s) /\ p \notin Done(s) /\ Done(s)' = Done(s) \cup {p}
  <2>1. k \in DOMAIN ps /\ \A n \in 1..(k - 1) : n \in DOMAIN ps /\ n # k
    BY <1>5, <1>9
  <2>2. 1..k = (1..(k - 1)) \cup {k} BY <1>5, <1>9
  <2>3. {ps[n] : n \in (1..(k - 1)) \cup {k}} = {ps[n] : n \in 1..(k - 1)} \cup {ps[k]}
    OBVIOUS
  <2> QED BY <1>5, <1>6, <1>7, <1>8, <2>1, <2>2, <2>3
<1>11. /\ DOMAIN y.decided = Done(s)'
       /\ \A r \in y.wrote : r.payment \in Done(s)'
       /\ \A q \in Done(s)' :
            IF y.decided[q].status \in Final THEN Shows(y.wrote, q, y.decided[q].lines)
            ELSE NoRows(y.wrote, q)
  <2>1. Decides(y, s, p, d, rows) /\ RowsFor(p, d, rows) BY <1>2 DEF DecidesNow, p
  <2> QED BY <1>4, <1>10, <2>1, WritesAlso
<1>12. WritesWhatItDecides(s)'
  BY <1>3, <1>11 DEF WritesWhatItDecides
<1>13. IsCurrent(s)'
  <2>1. status' = status BY <1>1 DEF tables
  <2> QED BY <1>3, <1>4, <1>7, <2>1 DEF IsCurrent
<1>14. \A w \in Workers \ {s} : s \in Workers /\ Busy(w) => session[w].payments # x.payments
  BY <1>1, <1>3 DEF PInv
<1>15. Becomes(s, x)
  BY <1>2 DEF DecidesNow
<1> QED BY <1>1, <1>12, <1>13, <1>14, <1>15, OneDecider

LEMMA PostRecordedWrites ==
  ASSUME TInv, PInv, NEW r \in Requests, PostRecorded(r)
  PROVE  PInv'
<1>1. /\ r \in Sessions /\ session[r].phase = "recording"
      /\ Busy(r) /\ Records(r) /\ Locks(r) /\ Inserts(r) /\ UNCHANGED tables
  BY PostRecordedIs
<1>2. PICK x, y, d, rows : RecordsNow(r, x, y, d, rows)
  BY PostRecordedIs
<1>3. /\ session'[r] = x
      /\ x.phase = "returned" /\ x.by = "record" /\ x.payment = session[r].payment
      /\ x.decided = y.decided /\ x.wrote = y.wrote
  BY <1>1, <1>2, RecordsNowIs
<1> DEFINE p == session[r].payment
<1>4. r \in Deciders /\ IsCurrent(r) /\ session[r].by = "record" /\ r \notin Workers
  BY <1>1, PostingAssumption DEF PInv, Records, Deciders
<1>5. /\ About(r) = {p} /\ Done(r) = {}
      /\ About(r)' = {p} /\ Done(r)' = {p}
  BY <1>1, <1>3, <1>4 DEF About, Done
<1> HIDE DEF p
<1>6. /\ DOMAIN y.decided = Done(r)'
      /\ \A q \in y.wrote : q.payment \in Done(r)'
      /\ \A q \in Done(r)' :
           IF y.decided[q].status \in Final THEN Shows(y.wrote, q, y.decided[q].lines)
           ELSE NoRows(y.wrote, q)
  <2>1. Decides(y, r, p, d, rows) /\ RowsFor(p, d, rows) BY <1>2 DEF RecordsNow, p
  <2>2. p \in About(r) /\ p \notin Done(r) /\ Done(r) \cup {p} = Done(r)'
    BY <1>5
  <2> QED BY <1>4, <2>1, <2>2, WritesAlso
<1>7. WritesWhatItDecides(r)'
  BY <1>3, <1>6 DEF WritesWhatItDecides
<1>8. IsCurrent(r)'
  <2>1. status' = status BY <1>1 DEF tables
  <2> QED BY <1>3, <1>4, <1>5, <2>1 DEF IsCurrent
<1>9. Becomes(r, x)
  BY <1>2 DEF RecordsNow
<1> QED BY <1>1, <1>4, <1>7, <1>8, <1>9, OneDecider

\* What is committed for a payment is what was decided on it.
LEMMA CommitPosts ==
  ASSUME TInv, PInv, OneReviewer, NEW s \in Sessions, Commit(s)
  PROVE  PInv'
<1>1. /\ session[s].phase = "returned" /\ session[s].by # "import" /\ Becomes(s, Idle)
      /\ posted' = posted \cup session[s].wrote
      /\ status' = [p \in Payments |-> StatusAfter(s, p)]
      /\ content' = Written(s, "lines", content)
  BY DEF Commit, View
<1>2. s \in Deciders /\ WritesWhatItDecides(s) /\ IsCurrent(s)
  BY <1>1 DEF PInv, Busy, Deciders
<1>3. Done(s) \subseteq About(s) /\ About(s) \subseteq Payments
  BY <1>2, DecidersAre
<1>4. ASSUME NEW p \in Payments \ Done(s)
      PROVE  status'[p] = status[p] /\ content'[p] = content[p]
  <2>1. p \notin DOMAIN session[s].decided BY <1>2 DEF WritesWhatItDecides
  <2>2. Written(s, "status", status)[p] = status[p] /\ Written(s, "lines", content)[p] = content[p]
    BY <2>1 DEF Written
  <2> QED BY <1>1, <2>2 DEF StatusAfter
<1>5. ASSUME NEW p \in Payments
      PROVE  IF status'[p] \in Final THEN Shows(posted', p, content'[p])
             ELSE \A r \in posted' : r.payment # p
  <2>1. CASE p \notin Done(s)
    <3>1. \A r \in session[s].wrote : r.payment # p
      BY <1>2, <2>1 DEF WritesWhatItDecides
    <3>2. {r \in posted' : r.payment = p} = {r \in posted : r.payment = p}
      BY <1>1, <3>1
    <3>3. status'[p] = status[p] /\ content'[p] = content[p]
      BY <1>4, <2>1
    <3>4. CASE status[p] \in Final
      <4>1. Shows(posted, p, content[p]) BY <3>4 DEF PInv, PostedAsApproved
      <4> QED BY <3>2, <3>3, <3>4, <4>1, ShowsItsRows
    <3>5. CASE status[p] \notin Final
      BY <1>1, <3>1, <3>3, <3>5 DEF PInv, PostedAsApproved
    <3> QED BY <3>4, <3>5
  <2>2. CASE p \in Done(s)
    <3> DEFINE d == session[s].decided[p]
    <3>1. p \in DOMAIN session[s].decided BY <1>2, <2>2 DEF WritesWhatItDecides
    <3>2. Written(s, "status", status)[p] = d.status /\ content'[p] = d.lines
      BY <1>1, <3>1 DEF Written
    <3>3. status[p] \notin Final
      BY <1>2, <1>3, <2>2 DEF IsCurrent, Final
    <3>4. status'[p] = IF d.status = "kept" THEN status[p] ELSE d.status
      BY <1>1, <3>2 DEF StatusAfter
    <3>5. \A r \in posted : r.payment # p
      BY <3>3 DEF PInv, PostedAsApproved
    <3>6. {r \in session[s].wrote : r.payment = p} = {r \in posted' : r.payment = p}
      BY <1>1, <3>5
    <3>7. CASE d.status \in Final
      <4>1. Shows(session[s].wrote, p, d.lines)
        BY <1>2, <2>2, <3>7 DEF WritesWhatItDecides
      <4>2. Shows(posted', p, d.lines) /\ status'[p] \in Final
        BY <3>4, <3>6, <3>7, <4>1, ShowsItsRows DEF Final
      <4> QED BY <3>2, <4>2
    <3>8. CASE d.status \notin Final
      <4>1. NoRows(session[s].wrote, p) BY <1>2, <2>2, <3>8 DEF WritesWhatItDecides
      <4>2. status'[p] \notin Final BY <3>3, <3>4, <3>8
      <4> QED BY <1>1, <3>5, <4>1, <4>2 DEF NoRows
    <3> QED BY <3>7, <3>8
  <2> QED BY <2>1, <2>2
<1>6. PostedAsApproved'
  BY <1>5 DEF PostedAsApproved
<1>7. session'[s] = Idle /\ \A t \in Sessions \ {s} : session'[t] = session[t]
  BY <1>1 DEF Becomes, TInv
<1>8. ~Busy(s)'
  BY <1>7 DEF Busy, Idle
<1>9. ASSUME NEW t \in Sessions, Busy(t)', session'[t].by # "import"
      PROVE  WritesWhatItDecides(t)' /\ IsCurrent(t)'
  <2>1. t # s /\ session'[t] = session[t] BY <1>7, <1>8, <1>9
  <2>2. t \in Deciders BY <1>9, <2>1 DEF Busy, Deciders
  <2>3. About(s) \cap About(t) = {} BY <1>2, <2>1, <2>2, OwnPayments
  <2>4. \A p \in About(t) : status'[p] = status[p]
    <3>1. About(t) \subseteq Payments BY <2>2, DecidersAre
    <3> QED BY <1>3, <1>4, <2>3, <3>1
  <2>5. WritesWhatItDecides(t) /\ IsCurrent(t) BY <2>2 DEF PInv, Deciders
  <2> QED BY <2>1, <2>4, <2>5, DeciderKeeps
<1>10. \A v, w \in Workers : Busy(v)' /\ Busy(w)' /\ v # w =>
         session'[v].payments # session'[w].payments
  BY <1>7, <1>8 DEF PInv, Busy, Sessions
<1> QED BY <1>6, <1>9, <1>10 DEF PInv

LEMMA CommitImportPosts ==
  ASSUME TInv, PInv, NEW r \in Requests, CommitImport(r)
  PROVE  PInv'
<1>1. Becomes(r, Idle) /\ UNCHANGED <<posted, status, content>> /\ r \in Sessions
  BY DEF CommitImport, Sessions
<1>2. session'[r] = Idle /\ \A t \in Sessions \ {r} : session'[t] = session[t]
  BY <1>1 DEF Becomes, TInv
<1>3. ~Busy(r)'
  BY <1>2 DEF Busy, Idle
<1>4. ASSUME NEW t \in Sessions, Busy(t)', session'[t].by # "import"
      PROVE  WritesWhatItDecides(t)' /\ IsCurrent(t)'
  <2>1. session'[t] = session[t] BY <1>2, <1>3, <1>4
  <2>2. WritesWhatItDecides(t) /\ IsCurrent(t) BY <1>4, <2>1 DEF PInv, Busy
  <2> QED BY <1>1, <2>1, <2>2, DeciderKeeps
<1>5. PostedAsApproved'
  BY <1>1 DEF PInv, PostedAsApproved
<1>6. \A v, w \in Workers : Busy(v)' /\ Busy(w)' /\ v # w =>
        session'[v].payments # session'[w].payments
  BY <1>2, <1>3 DEF PInv, Busy, Sessions
<1> QED BY <1>4, <1>5, <1>6 DEF PInv

LEMMA PInvInit == ASSUME Init PROVE PInv
BY DEF Init, PInv, PostedAsApproved, Final, Busy, Idle, Sessions

LEMMA PInvNext == ASSUME TInv, PInv, OneReviewer, [Next]_vars PROVE PInv'
<1>1. ASSUME NEW w \in Workers, BeginRoute(w) PROVE PInv'
  BY <1>1, BeginRouteUndecided
<1>2. ASSUME NEW r \in Requests,
             BeginEdit(r) \/ BeginRecord(r) \/ PostRecorded(r)
               \/ BeginImport(r) \/ ImportRows(r) \/ CommitImport(r)
      PROVE  PInv'
  BY <1>2, BeginEditUndecided, BeginRecordUndecided, PostRecordedWrites, BeginImportUndecided,
     ImportRowsUndecided, CommitImportPosts
<1>3. ASSUME NEW s \in Sessions,
             CheckFound(s) \/ FindMissing(s) \/ LockMissing(s) \/ CheckLoose(s)
               \/ Decide(s) \/ Commit(s) \/ Abort(s)
      PROVE  PInv'
  BY <1>3, CheckFoundContinues, FindMissingContinues, LockMissingContinues,
     CheckLooseContinues, ContinuesUndecided, DecideWrites, CommitPosts, EndsUndecided
<1>4. CASE UNCHANGED vars
  <2>1. \A t \in Sessions : session'[t] = session[t] /\ UNCHANGED status
    BY <1>4 DEF vars
  <2>2. ASSUME NEW t \in Sessions, Busy(t)', session'[t].by # "import"
        PROVE  WritesWhatItDecides(t)' /\ IsCurrent(t)'
    <3>1. WritesWhatItDecides(t) /\ IsCurrent(t) BY <2>1, <2>2 DEF PInv, Busy
    <3> QED BY <2>1, <3>1, DeciderKeeps
  <2> QED BY <1>4, <2>1, <2>2 DEF vars, PInv, PostedAsApproved, Busy, Sessions
<1> QED BY <1>1, <1>2, <1>3, <1>4 DEF Next

\* An approved or recorded payment has each of its invoice lines in the ledger once, as shown,
\* and any other payment has none: with one reviewer, whatever the workers do.
THEOREM PostedAsApprovedHolds == OneReviewer => (Spec => []PostedAsApproved)
<1> SUFFICES ASSUME OneReviewer PROVE Spec => []PostedAsApproved
  OBVIOUS
<1>1. Init => PInv
  BY PInvInit
<1>2. TInv /\ PInv /\ [Next]_vars => PInv'
  BY PInvNext
<1>3. PInv => PostedAsApproved
  BY DEF PInv
<1> QED BY <1>1, <1>2, <1>3, PostingInvariance, PTL DEF Spec

-----------------------------------------------------------------------------
(* No approval overpays unseen, for invoices that were in the books first.  *)

SumOf(R) == MapThenSumSet(LAMBDA r : r.settled, R)

\* The sum of the rows is one that takes out one row after the other.
Worth(R) == [r \in R |-> r.settled]
Taken(R) == [s \in SUBSET R |-> CHOOSE x \in s : TRUE]

LEMMA SumIsSums ==
  ASSUME NEW R, IsFiniteSet(R), \A r \in R : r.settled \in Int
  PROVE  /\ Worth(R) \in [R -> Int] /\ Picks(Taken(R), R)
         /\ \E f : Sums(f, R, Worth(R), Taken(R)) /\ SumOf(R) = f[R]
<1> DEFINE Is(g) == g = [s \in SUBSET R |->
     IF s = {} THEN 0 ELSE (CHOOSE x \in s : TRUE).settled + g[s \ {CHOOSE x \in s : TRUE}]]
           f == CHOOSE g : Is(g)
           val == Worth(R)
           pick == Taken(R)
<1>1. SumOf(R) = f[R]
  BY DEF SumOf, MapThenSumSet, MapThenFoldSet
<1>2. val \in [R -> Int] /\ \A s \in SUBSET R : s # {} => pick[s] \in s
  BY DEF Worth, Taken
<1>3. ASSUME NEW g PROVE Sums(g, R, val, pick) <=> Is(g)
  <2>1. ASSUME NEW s \in SUBSET R, s # {}
        PROVE  val[pick[s]] = (CHOOSE x \in s : TRUE).settled /\ pick[s] = CHOOSE x \in s : TRUE
    BY <2>1 DEF Worth, Taken
  <2> HIDE DEF val, pick
  <2>2. \A s \in SUBSET R :
          (IF s = {} THEN 0 ELSE val[pick[s]] + g[s \ {pick[s]}])
            = IF s = {} THEN 0 ELSE (CHOOSE x \in s : TRUE).settled + g[s \ {CHOOSE x \in s : TRUE}]
    BY <2>1
  <2> QED BY <2>2 DEF Sums
<1> HIDE DEF Is, val, pick
<1>4. \E g : Is(g)
  BY <1>2, <1>3, SumsExist
<1>5. Sums(f, R, val, pick)
  BY <1>3, <1>4
<1> HIDE DEF f
<1> QED BY <1>1, <1>2, <1>5 DEF val, pick, Picks

LEMMA SumOfNone == SumOf({}) = 0
<1> DEFINE R == {}
<1>1. IsFiniteSet(R) /\ \A r \in R : r.settled \in Int
  BY FS_EmptySet
<1> HIDE DEF R
<1>2. PICK f : Sums(f, R, Worth(R), Taken(R)) /\ SumOf(R) = f[R]
  BY <1>1, SumIsSums
<1> USE DEF R
<1> QED BY <1>2 DEF Sums

\* One row more adds what it settles.
LEMMA SumAdds ==
  ASSUME NEW R, IsFiniteSet(R), \A r \in R : r.settled \in Int, NEW x, x \notin R, x.settled \in Int
  PROVE  SumOf(R \cup {x}) = SumOf(R) + x.settled
<1> DEFINE Q == R \cup {x}
<1>1. IsFiniteSet(Q) /\ (\A r \in Q : r.settled \in Int) /\ R \in SUBSET Q /\ x \in Q /\ Q \ {x} = R
  BY FS_AddElement
<1> HIDE DEF Q
<1>2. /\ Worth(Q) \in [Q -> Int] /\ Picks(Taken(Q), Q)
      /\ \E f : Sums(f, Q, Worth(Q), Taken(Q)) /\ SumOf(Q) = f[Q]
  BY <1>1, SumIsSums
<1>3. /\ Worth(R) \in [R -> Int]
      /\ \E f : Sums(f, R, Worth(R), Taken(R)) /\ SumOf(R) = f[R]
  BY SumIsSums
<1>4. PICK g : Sums(g, Q, Worth(Q), Taken(Q)) /\ SumOf(Q) = g[Q]
  BY <1>2
<1>5. PICK h : Sums(h, R, Worth(R), Taken(R)) /\ SumOf(R) = h[R]
  BY <1>3
<1>6. Sums(h, R, Worth(R), Taken(Q))
  <2>1. \A s \in SUBSET R : Taken(R)[s] = Taken(Q)[s]
    BY <1>1 DEF Taken
  <2>2. \A s \in SUBSET R : (IF s = {} THEN 0 ELSE Worth(R)[Taken(R)[s]] + h[s \ {Taken(R)[s]}])
                          = IF s = {} THEN 0 ELSE Worth(R)[Taken(Q)[s]] + h[s \ {Taken(Q)[s]}]
    BY <2>1
  <2> QED BY <1>5, <2>2 DEF Sums
<1>7. g[R] = h[R]
  <2>1. \A r \in R : Worth(Q)[r] = Worth(R)[r]
    BY <1>1 DEF Worth
  <2> QED BY <1>1, <1>2, <1>4, <1>6, <2>1, SumsAgree
<1>8. g[Q] = Worth(Q)[x] + g[Q \ {x}]
  <2>1. TakesAny(g, Q, Worth(Q))
    BY <1>1, <1>2, <1>4, SumsTakeAny
  <2>2. Q \in SUBSET Q
    OBVIOUS
  <2> QED BY <1>1, <2>1, <2>2 DEF TakesAny
<1>9. Worth(Q)[x] = x.settled
  BY <1>1 DEF Worth
<1>10. SumOf(R) \in Int
  BY SumIsInt DEF SumOf
<1>11. SumOf(Q) = x.settled + SumOf(R)
  BY <1>1, <1>4, <1>5, <1>7, <1>8, <1>9
<1> QED BY <1>10, <1>11 DEF Q

\* The rows of one invoice.
On(S, k) == {r \in S : r.key = k}

SameOn(L, M, k) == L.invoice[k] = M.invoice[k] /\ On(L.posted, k) = On(M.posted, k)

LEMMA PaidOn ==
  ASSUME NEW L, NEW M, NEW k, SameOn(L, M, k)
  PROVE  Paid(L, k) = Paid(M, k) /\ (Overpaid(L, k) <=> Overpaid(M, k))
<1>1. Paid(L, k) = Paid(M, k)
  BY DEF Paid, On, SameOn
<1> QED BY <1>1 DEF Overpaid, Exists, SameOn

\* The invoices there are from the start, which are never missed by a check.
Loads == {k \in Keys : Loaded[k].source # "none"}

Amount(line) == IF line.kind = "invoice" THEN Settled(line) ELSE line.off

\* The rows of a payment, one for each of its lines that is not dropped.
LEMMA RowsAre ==
  ASSUME NEW L, NEW p \in Payments, NEW lines \in Seq(Line)
  PROVE  /\ PostsOf(L, p, lines) \subseteq Post /\ IsFiniteSet(PostsOf(L, p, lines))
         /\ \A r \in PostsOf(L, p, lines) :
              /\ r.payment = p /\ r.line \in DOMAIN lines /\ r.key = lines[r.line].key /\ r.settled \in Int
              /\ \A q \in PostsOf(L, p, lines) : q.line = r.line => q = r
<1> DEFINE rows == PostsOf(L, p, lines)
<1>1. rows \subseteq Post /\ IsFiniteSet(rows) /\ (\A r \in rows : r.payment = p) /\ Shows(rows, p, lines)
  BY PostsOfShow
<1>2. \A r \in rows : r.line \in DOMAIN lines
  <2>1. \A i \in DOMAIN lines : i \in DOMAIN lines
    OBVIOUS
  <2> QED BY DEF PostsOf
<1> HIDE DEF rows
<1>3. {r \in rows : r.payment = p} = rows
  BY <1>1
<1>4. \A r \in rows : r.settled \in Int
  BY <1>1 DEF Post
<1> QED BY <1>1, <1>2, <1>3, <1>4 DEF Shows, rows

\* A line of an invoice there is has a row for what it settles, if that is not nothing.
LEMMA RowOfLine ==
  ASSUME NEW L, NEW p, NEW lines \in Seq(Line), NEW i \in DOMAIN lines, lines[i].key \in Known(L),
         lines[i].kind = "invoice" \/ lines[i].off # 0
  PROVE  \E r \in PostsOf(L, p, lines) : r.line = i /\ r.key = lines[i].key /\ r.settled = Amount(lines[i])
<1> DEFINE own == {lines[m].key : m \in {j \in DOMAIN lines : lines[j].kind = "invoice"}}
           kept == {j \in DOMAIN lines : ~(lines[j].kind = "adjustment"
                       /\ (lines[j].off = 0 \/ lines[j].key \notin own \cup Known(L)))}
           row(m) == [payment |-> p, line |-> m, kind |-> lines[m].kind, key |-> lines[m].key,
                      settled |-> IF lines[m].kind = "invoice" THEN Settled(lines[m])
                                  ELSE lines[m].off,
                      cash |-> IF lines[m].kind = "invoice" THEN lines[m].cash ELSE 0,
                      opens |-> IF lines[m].stated > 0 THEN lines[m].stated
                                ELSE Settled(lines[m])]
<1>1. PostsOf(L, p, lines) = {row(m) : m \in kept}
  BY DEF PostsOf
<1>2. i \in kept
  OBVIOUS
<1>3. row(i) \in PostsOf(L, p, lines)
  BY <1>1, <1>2
<1>4. row(i).line = i /\ row(i).key = lines[i].key /\ row(i).settled = Amount(lines[i])
  BY DEF Amount
<1> HIDE DEF row
<1> QED BY <1>3, <1>4

\* A line that settles nothing on it has none.
LEMMA NoRowOfLine ==
  ASSUME NEW L, NEW p, NEW lines, NEW r \in PostsOf(L, p, lines)
  PROVE  ~(lines[r.line].kind = "adjustment" /\ lines[r.line].off = 0)
BY DEF PostsOf

\* Which rows there are for an invoice does not depend on other invoices.
LEMMA PostsOnKey ==
  ASSUME NEW L, NEW M, NEW p, NEW lines, NEW k \in Known(L), k \in Known(M)
  PROVE  On(PostsOf(L, p, lines), k) = On(PostsOf(M, p, lines), k)
<1> DEFINE own == {lines[m].key : m \in {j \in DOMAIN lines : lines[j].kind = "invoice"}}
           kept(N) == {j \in DOMAIN lines : ~(lines[j].kind = "adjustment"
                       /\ (lines[j].off = 0 \/ lines[j].key \notin own \cup Known(N)))}
           row(m) == [payment |-> p, line |-> m, kind |-> lines[m].kind, key |-> lines[m].key,
                      settled |-> IF lines[m].kind = "invoice" THEN Settled(lines[m])
                                  ELSE lines[m].off,
                      cash |-> IF lines[m].kind = "invoice" THEN lines[m].cash ELSE 0,
                      opens |-> IF lines[m].stated > 0 THEN lines[m].stated
                                ELSE Settled(lines[m])]
<1>1. PostsOf(L, p, lines) = {row(m) : m \in kept(L)} /\ PostsOf(M, p, lines) = {row(m) : m \in kept(M)}
  BY DEF PostsOf
<1>2. \A m : row(m).key = lines[m].key
  OBVIOUS
<1>3. \A m : lines[m].key = k => (m \in kept(L) <=> m \in kept(M))
  OBVIOUS
<1> HIDE DEF row, kept
<1> QED BY <1>1, <1>2, <1>3 DEF On

-----------------------------------------------------------------------------
(* A check counts what its payment will post.                               *)

\* The payment a session is at, the lines of it that it has checked, and the ledger with their rows.
Paying(x) == x.payments[x.nth]
FormIn(x) == x.lines[Paying(x)]
Behind(x) == {Ordered(FormIn(x))[n] : n \in 1..(x.at - 1)}
RowsBehind(x, L) == {r \in PostsOf(L, Paying(x), FormIn(x)) : r.line \in Behind(x)}
Ahead(x, L) == [L EXCEPT !.posted = @ \cup RowsBehind(x, L)]

\* A flag says that money is paid on invoice k that does not owe it.
Tells(fs, lines, k) ==
  \E f \in fs : f.kind \in OverpayKinds /\ f.line \in DOMAIN lines /\ lines[f.line].key = k

CheckOK(c) == DOMAIN c = {"books", "flags", "earlier", "stated"} /\ c.earlier \in [Keys -> Int]

\* The check has counted what the lines behind it will post, with the invoice locked, and has told.
HasLine(x, k) == \E i \in Behind(x) : FormIn(x)[i].key = k

Counted(x, L, k) ==
  IF HasLine(x, k)
  THEN /\ k \in x.rows
       /\ Paid(Ahead(x, L), k) = Paid(L, k) + x.check.earlier[k]
       /\ Overpaid(Ahead(x, L), k) => Tells(x.check.flags, FormIn(x), k)
  ELSE x.check.earlier[k] = 0

\* Only the locked invoices matter to what was counted.
LEMMA SameAhead ==
  ASSUME NEW x, NEW L, NEW M, NEW k \in Known(L), k \in Known(M), SameOn(L, M, k),
         DOMAIN L = {"invoice", "posted"}, DOMAIN M = {"invoice", "posted"}
  PROVE  SameOn(Ahead(x, L), Ahead(x, M), k)
<1> DEFINE A == PostsOf(L, Paying(x), FormIn(x))
           B == PostsOf(M, Paying(x), FormIn(x))
<1>1. On(A, k) = On(B, k)
  BY PostsOnKey
<1>2. /\ Ahead(x, L).invoice = L.invoice /\ Ahead(x, M).invoice = M.invoice
      /\ Ahead(x, L).posted = L.posted \cup {r \in A : r.line \in Behind(x)}
      /\ Ahead(x, M).posted = M.posted \cup {r \in B : r.line \in Behind(x)}
  BY DEF Ahead, RowsBehind
<1> HIDE DEF A, B
<1> QED BY <1>1, <1>2 DEF SameOn, On

LEMMA CountedKeeps ==
  ASSUME NEW x, NEW L, NEW M, NEW k \in Known(L), k \in Known(M), k \in x.rows => SameOn(L, M, k),
         DOMAIN L = {"invoice", "posted"}, DOMAIN M = {"invoice", "posted"}, Counted(x, L, k)
  PROVE  Counted(x, M, k)
<1>1. CASE k \in x.rows
  <2>1. SameOn(L, M, k) /\ SameOn(Ahead(x, L), Ahead(x, M), k)
    BY <1>1, SameAhead
  <2>2. Paid(L, k) = Paid(M, k)
    BY <2>1, PaidOn
  <2>3. Paid(Ahead(x, L), k) = Paid(Ahead(x, M), k) /\ (Overpaid(Ahead(x, L), k) <=> Overpaid(Ahead(x, M), k))
    BY <2>1, PaidOn
  <2> QED BY <2>2, <2>3 DEF Counted
<1>2. CASE k \notin x.rows
  BY <1>2 DEF Counted
<1> QED BY <1>1, <1>2

\* A line checked: flags stay, and only its own invoice is counted.
LEMMA CheckLineKeeps ==
  ASSUME NEW L, NEW found \in BOOLEAN, NEW c, CheckOK(c), NEW p, NEW i, NEW line \in Line,
         found => line.key \in Keys
  PROVE  /\ CheckOK(CheckLine(L, found, c, p, i, line))
         /\ c.flags \subseteq CheckLine(L, found, c, p, i, line).flags
         /\ \A k \in Keys : k # line.key => CheckLine(L, found, c, p, i, line).earlier[k] = c.earlier[k]
<1> DEFINE k == line.key
           settled == IF line.kind = "invoice" THEN Settled(line) ELSE line.off
           counted(fs) == [c EXCEPT !.flags = @ \cup fs, !.earlier[k] = @ + settled]
<1>1. settled \in Int
  BY DEF Line, Settled
<1>2. ASSUME NEW fs, k \in Keys
      PROVE  /\ CheckOK(counted(fs)) /\ c.flags \subseteq counted(fs).flags
             /\ \A j \in Keys : j # k => counted(fs).earlier[j] = c.earlier[j]
  <2> HIDE DEF settled, k
  <2>1. /\ DOMAIN counted(fs) = DOMAIN c /\ counted(fs).flags = c.flags \cup fs
        /\ counted(fs).earlier = [c.earlier EXCEPT ![k] = @ + settled]
    BY DEF CheckOK
  <2>2. [c.earlier EXCEPT ![k] = @ + settled] \in [Keys -> Int]
    BY <1>1, <1>2 DEF CheckOK
  <2> HIDE DEF counted
  <2> QED BY <2>1, <2>2 DEF CheckOK
<1>3. ASSUME NEW fs, k \in Keys, NEW v
      PROVE  LET e == [counted(fs) EXCEPT !.stated[k] = v] IN
             /\ CheckOK(e) /\ c.flags \subseteq e.flags
             /\ \A j \in Keys : j # k => e.earlier[j] = c.earlier[j]
  <2> DEFINE e == [counted(fs) EXCEPT !.stated[k] = v]
  <2>1. CheckOK(counted(fs)) /\ c.flags \subseteq counted(fs).flags
        /\ \A j \in Keys : j # k => counted(fs).earlier[j] = c.earlier[j]
    BY <1>2, <1>3
  <2> HIDE DEF counted
  <2>2. DOMAIN e = DOMAIN counted(fs) /\ e.flags = counted(fs).flags /\ e.earlier = counted(fs).earlier
    BY <2>1 DEF CheckOK
  <2> QED BY <2>1, <2>2 DEF CheckOK
<1> DEFINE d == CheckLine(L, found, c, p, i, line)
<1>4. line.kind = "invoice" => k \in Keys
  BY DEF Line
<1>5. k # NoKey /\ line.kind = "adjustment" => k \in Keys
  BY DEF Line
<1>6. line.kind \in {"invoice", "adjustment"}
  BY DEF Line
<1>7. \/ \E fs : d = counted(fs) /\ k \in Keys
      \/ \E fs, v : d = [counted(fs) EXCEPT !.stated[k] = v] /\ k \in Keys
      \/ d = c
  <2>1. CASE line.kind = "invoice" /\ found
    <3>1. d = counted(FoundFlags(L, p, i, line, c.earlier[k]))
      BY <2>1 DEF CheckLine
    <3> HIDE DEF counted, d, k
    <3> QED BY <1>4, <2>1, <3>1
  <2>2. CASE line.kind = "invoice" /\ ~found
    <3>1. d = [counted(MissingFlags(c.books, i, line)) EXCEPT
                 !.stated[k] = IF @ = NotStated THEN line.stated ELSE @]
      BY <2>2 DEF CheckLine
    <3>2. \E fs, v : d = [counted(fs) EXCEPT !.stated[k] = v]
      <4> DEFINE e == counted(MissingFlags(c.books, i, line))
      <4> HIDE DEF d, counted
      <4>1. d = [e EXCEPT !.stated[k] = IF e.stated[k] = NotStated THEN line.stated ELSE e.stated[k]]
        BY <3>1
      <4> DEFINE v == IF e.stated[k] = NotStated THEN line.stated ELSE e.stated[k]
      <4>2. d = [counted(MissingFlags(c.books, i, line)) EXCEPT !.stated[k] = v]
        BY <4>1
      <4> HIDE DEF v
      <4> QED BY <4>2
    <3> HIDE DEF counted, d, k
    <3> QED BY <1>4, <2>2, <3>2
  <2>3. CASE line.kind = "adjustment"
    <3>1. d = c \/ (k # NoKey /\ \E fs : d = counted(fs))
      BY <2>3 DEF CheckLine
    <3> HIDE DEF counted, d, k
    <3> QED BY <1>5, <2>3, <3>1
  <2> QED BY <1>6, <2>1, <2>2, <2>3
<1>8. CASE \E fs : d = counted(fs) /\ k \in Keys
  <2> HIDE DEF counted, d
  <2> QED BY <1>2, <1>8 DEF d
<1>9. CASE \E fs, v : d = [counted(fs) EXCEPT !.stated[k] = v] /\ k \in Keys
  <2> HIDE DEF counted, d
  <2> QED BY <1>3, <1>9 DEF d
<1>10. CASE d = c
  <2> HIDE DEF d
  <2> QED BY <1>10 DEF d
<1> HIDE DEF d, counted, k
<1> QED BY <1>7, <1>8, <1>9, <1>10

LEMMA OtherKey ==
  ASSUME NEW L, NEW found \in BOOLEAN, NEW c, CheckOK(c), NEW p, NEW i, NEW line \in Line,
         found => line.key \in Keys, NEW k \in Keys, k # line.key
  PROVE  CheckLine(L, found, c, p, i, line).earlier[k] = c.earlier[k]
BY CheckLineKeeps

AddsTo(new, c, k, amount) == new.earlier[k] = c.earlier[k] + amount

TellsOf(fs, i) == \E f \in fs : f.kind \in OverpayKinds /\ f.line = i

\* A line of an invoice that is found counts what it settles, and tells if that is too much.
LEMMA FoundTells ==
  ASSUME NEW L, NEW c, CheckOK(c), NEW p, NEW i, NEW line \in Line, line.key \in Keys,
         Paid(L, line.key) \in Int, L.invoice[line.key].amount \in Int,
         NEW new, new = CheckLine(L, TRUE, c, p, i, line)
  PROVE  /\ AddsTo(new, c, line.key, Amount(line))
         /\ L.invoice[line.key].amount - (Paid(L, line.key) + new.earlier[line.key]) < -Tolerance =>
              TellsOf(new.flags, i)
<1> DEFINE k == line.key
           d == CheckLine(L, TRUE, c, p, i, line)
           paid == Paid(L, k) + c.earlier[k]
           due == L.invoice[k].amount
           full == StatusFor(due, paid) \in {"paid", "overpaid"}
           amount == Amount(line)
           settled == IF line.kind = "invoice" THEN Settled(line) ELSE line.off
           counted(fs) == [c EXCEPT !.flags = @ \cup fs, !.earlier[k] = @ + settled]
           tells(fs) == full \/ amount > due - paid + Tolerance =>
                          \E f \in fs : f.kind \in OverpayKinds /\ f.line = i
<1>1. amount \in Int /\ settled = amount /\ c.earlier[k] \in Int /\ Tolerance \in Int /\ k # NoKey
  BY RulesAssumption DEF Line, Settled, Amount, CheckOK
<1>2. PICK fs : d = counted(fs) /\ tells(fs)
  <2>1. CASE line.kind = "invoice"
    <3> DEFINE fs == FoundFlags(L, p, i, line, c.earlier[k])
    <3>1. d = counted(fs)
      BY <2>1 DEF CheckLine
    <3>2. full => Flag(i, "paid", 0, 0) \in fs
      BY DEF FoundFlags, If
    <3>3. ~full /\ amount > due - paid + Tolerance => Flag(i, "over", Settled(line), due - paid) \in fs
      BY <2>1 DEF FoundFlags, If, Amount
    <3> HIDE DEF d, counted, fs, full, amount, due, paid
    <3>4. tells(fs)
      BY <3>2, <3>3 DEF Flag, OverpayKinds
    <3> HIDE DEF tells
    <3> QED BY <3>1, <3>4
  <2>2. CASE line.kind = "adjustment"
    <3> DEFINE fs == AdjustmentBalanceFlags(i, due, paid, line.off)
    <3>1. d = counted(fs)
      BY <1>1, <2>2 DEF CheckLine
    <3>2. full => Flag(i, "paid", 0, 0) \in fs
      BY DEF AdjustmentBalanceFlags, If
    <3>3. ~full /\ amount > due - paid + Tolerance => Flag(i, "over", line.off, due - paid) \in fs
      BY <2>2 DEF AdjustmentBalanceFlags, If, Amount
    <3> HIDE DEF d, counted, fs, full, amount, due, paid
    <3>4. tells(fs)
      BY <3>2, <3>3 DEF Flag, OverpayKinds
    <3> HIDE DEF tells
    <3> QED BY <3>1, <3>4
  <2> QED BY <2>1, <2>2 DEF Line
<1>3. d.flags = c.flags \cup fs /\ d.earlier = [c.earlier EXCEPT ![k] = @ + settled]
  <2>1. counted(fs).flags = c.flags \cup fs /\ counted(fs).earlier = [c.earlier EXCEPT ![k] = @ + settled]
    BY DEF CheckOK
  <2> HIDE DEF counted, d
  <2> QED BY <1>2, <2>1
<1>4. d.earlier[k] = c.earlier[k] + amount
  <2> HIDE DEF d
  <2> QED BY <1>1, <1>3 DEF CheckOK
<1>5. due - (Paid(L, k) + d.earlier[k]) < -Tolerance => amount > due - paid + Tolerance
  <2> DEFINE a == Paid(L, k)
             e == c.earlier[k]
             g == d.earlier[k]
  <2>1. a \in Int /\ e \in Int /\ due \in Int /\ amount \in Int /\ Tolerance \in Int /\ g = e + amount /\ paid = a + e
    BY <1>1, <1>4
  <2> HIDE DEF a, e, g, due, amount, paid, d
  <2> QED BY <2>1 DEF a, g
<1>6. due - (Paid(L, k) + d.earlier[k]) < -Tolerance =>
        \E f \in d.flags : f.kind \in OverpayKinds /\ f.line = i
  <2> HIDE DEF d, amount, due, paid, full
  <2> QED BY <1>2, <1>3, <1>5
<1>7. new = d /\ due = L.invoice[k].amount
  OBVIOUS
<1> HIDE DEF d, amount, due, full, paid, counted, settled, tells
<1>8. new.earlier[k] = c.earlier[k] + amount
  BY <1>4, <1>7
<1>9. L.invoice[k].amount - (Paid(L, k) + new.earlier[k]) < -Tolerance =>
        TellsOf(new.flags, i)
  BY <1>6, <1>7 DEF TellsOf
<1> QED BY <1>8, <1>9 DEF amount, AddsTo

\* What a check must know: it is in its form, and nothing of its payment is posted.
Counting(x, L) == CheckOK(x.check) /\ \A k \in Loads : Counted(x, L, k)

InForm(x, L) ==
  /\ Paying(x) \in Payments /\ FormIn(x) \in Seq(Line) /\ x.at \in Nat \ {0}
  /\ LedgerOK(L) /\ DOMAIN L = {"invoice", "posted"}
  /\ NoRows(L.posted, Paying(x)) /\ \A k \in Loads : k \in Known(L)

\* The next line: it is not behind yet, and then it is.
LEMMA NextLine ==
  ASSUME NEW x, NEW L, InForm(x, L), x.at <= Len(Ordered(FormIn(x))),
         NEW y, y.payments = x.payments, y.nth = x.nth, y.lines = x.lines, y.at = x.at + 1
  PROVE  LET i == Ordered(FormIn(x))[x.at] IN
         /\ i \in DOMAIN FormIn(x) /\ i \notin Behind(x) /\ Behind(y) = Behind(x) \cup {i}
         /\ Behind(x) \subseteq DOMAIN FormIn(x)
         /\ Paying(y) = Paying(x) /\ FormIn(y) = FormIn(x)
         /\ RowsBehind(y, L) = RowsBehind(x, L) \cup {r \in PostsOf(L, Paying(x), FormIn(x)) : r.line = i}
<1> DEFINE o == Ordered(FormIn(x))
           at == x.at
           i == o[at]
<1>1. /\ o \in Seq(DOMAIN FormIn(x))
      /\ \A m, n \in 1..Len(o) : o[m] = o[n] => m = n
  BY OrderedAreOfLines DEF InForm
<1>2. at \in Nat \ {0} /\ Len(o) \in Nat /\ at <= Len(o)
  <2>1. x.at \in Nat \ {0} BY DEF InForm
  <2>2. Len(o) \in Nat
    <3> HIDE DEF o
    <3> QED BY <1>1
  <2> QED BY <2>1, <2>2
<1> HIDE DEF o, at
<1>3. at \in 1..Len(o) /\ Len(o) \in Nat /\ at - 1 \in Nat /\ (at + 1) - 1 = at
      /\ \A n \in 1..(at - 1) : n \in 1..Len(o) /\ n # at
  BY <1>2
<1>4. \A n \in 1..at : n = at \/ n \in 1..(at - 1)
  BY <1>3
<1>5. Paying(y) = Paying(x) /\ FormIn(y) = FormIn(x)
  BY DEF Paying, FormIn
<1>6. Behind(x) = {o[n] : n \in 1..(at - 1)} /\ Behind(y) = {o[n] : n \in 1..at}
  BY <1>3, <1>5 DEF Behind, o, at
<1>7. i \in DOMAIN FormIn(x) /\ i \notin Behind(x) /\ Behind(x) \subseteq DOMAIN FormIn(x)
  BY <1>1, <1>3, <1>6
<1>8. Behind(y) = Behind(x) \cup {i}
  <2>1. at \in 1..at /\ \A n \in 1..(at - 1) : n \in 1..at
    BY <1>3
  <2> QED BY <1>4, <1>6, <2>1
<1> HIDE DEF i
<1>9. RowsBehind(y, L) = RowsBehind(x, L) \cup {r \in PostsOf(L, Paying(x), FormIn(x)) : r.line = i}
  BY <1>5, <1>8 DEF RowsBehind
<1> QED BY <1>5, <1>7, <1>8, <1>9 DEF i, o, at

LEMMA AheadIs ==
  ASSUME NEW x, NEW L, DOMAIN L = {"invoice", "posted"}
  PROVE  Ahead(x, L).invoice = L.invoice /\ Ahead(x, L).posted = L.posted \cup RowsBehind(x, L)
BY DEF Ahead

\* What was counted is what the ledger will have, whether or not a line of the invoice is behind.
LEMMA AheadIsCounted ==
  ASSUME NEW x, NEW L, InForm(x, L), Behind(x) \subseteq DOMAIN FormIn(x), Counting(x, L),
         NEW k \in Loads
  PROVE  /\ Paid(Ahead(x, L), k) = Paid(L, k) + x.check.earlier[k]
         /\ Paid(L, k) \in Int /\ x.check.earlier[k] \in Int
         /\ ~HasLine(x, k) => On(RowsBehind(x, L), k) = {}
<1>1. k \in Keys /\ LedgerOK(L)
  BY DEF Loads, InForm
<1>2. Paid(L, k) \in Int
  BY <1>1, PaidIsInt DEF LedgerOK
<1>3. x.check.earlier[k] \in Int
  BY <1>1 DEF Counting, CheckOK
<1>4. CASE HasLine(x, k)
  BY <1>2, <1>3, <1>4 DEF Counting, Counted
<1>5. CASE ~HasLine(x, k)
  <2>1. On(RowsBehind(x, L), k) = {}
    <3>1. \A r \in PostsOf(L, Paying(x), FormIn(x)) : r.key = FormIn(x)[r.line].key
      BY RowsAre DEF InForm
    <3> QED BY <1>5, <3>1 DEF On, RowsBehind, HasLine
  <2>2. SameOn(Ahead(x, L), L, k)
    <3>1. Ahead(x, L).invoice = L.invoice /\ Ahead(x, L).posted = L.posted \cup RowsBehind(x, L)
      BY AheadIs DEF InForm
    <3> QED BY <2>1, <3>1 DEF SameOn, On
  <2>3. Paid(Ahead(x, L), k) = Paid(L, k)
    BY <2>2, PaidOn
  <2>4. x.check.earlier[k] = 0
    BY <1>5 DEF Counting, Counted
  <2> QED BY <1>2, <2>1, <2>3, <2>4
<1> QED BY <1>2, <1>3, <1>4, <1>5

\* Session x checks its next line, against ledger L.
ChecksLine(x, y, L, found) ==
  LET i == Ordered(FormIn(x))[x.at] IN
  /\ y.payments = x.payments /\ y.nth = x.nth /\ y.lines = x.lines /\ y.at = x.at + 1
  /\ y.check = CheckLine(L, found, x.check, Paying(x), i, FormIn(x)[i])
  /\ y.rows = x.rows \cup IF found THEN {FormIn(x)[i].key} ELSE {}

\* An invoice the line is not of counts as before.
LEMMA OthersCount ==
  ASSUME NEW x, NEW y, NEW L, NEW found \in BOOLEAN, InForm(x, L),
         x.at <= Len(Ordered(FormIn(x))), ChecksLine(x, y, L, found), CheckOK(x.check),
         found => FormIn(x)[Ordered(FormIn(x))[x.at]].key \in Keys,
         NEW k \in Loads, k # FormIn(x)[Ordered(FormIn(x))[x.at]].key, Counted(x, L, k)
  PROVE  Counted(y, L, k)
<1> DEFINE i == Ordered(FormIn(x))[x.at]
           line == FormIn(x)[i]
           new == {r \in PostsOf(L, Paying(x), FormIn(x)) : r.line = i}
<1>1. /\ i \in DOMAIN FormIn(x) /\ Behind(y) = Behind(x) \cup {i}
      /\ FormIn(y) = FormIn(x) /\ RowsBehind(y, L) = RowsBehind(x, L) \cup new
  BY NextLine DEF ChecksLine
<1>2. line \in Line
  BY <1>1 DEF InForm
<1>3. \A r \in new : r.key = line.key
  BY RowsAre DEF InForm
<1>4. x.check.flags \subseteq y.check.flags /\ y.check.earlier[k] = x.check.earlier[k]
  <2>1. k \in Keys /\ k # line.key /\ (found => line.key \in Keys) BY DEF Loads
  <2>2. y.check = CheckLine(L, found, x.check, Paying(x), i, line) BY DEF ChecksLine
  <2> DEFINE c == x.check
             p == Paying(x)
  <2>3. CheckOK(c) OBVIOUS
  <2> HIDE DEF i, line, c, p
  <2>4. c.flags \subseteq CheckLine(L, found, c, p, i, line).flags
    BY <1>2, <2>1, <2>3, CheckLineKeeps
  <2>5. CheckLine(L, found, c, p, i, line).earlier[k] = c.earlier[k]
    BY <1>2, <2>1, <2>3, OtherKey
  <2> QED BY <2>1, <2>2, <2>4, <2>5 DEF c, p
<1>5. x.rows \subseteq y.rows
  BY DEF ChecksLine
<1>6. HasLine(y, k) <=> HasLine(x, k)
  BY <1>1 DEF HasLine
<1> HIDE DEF new, i, line
<1>7. SameOn(Ahead(x, L), Ahead(y, L), k)
  <2>1. /\ Ahead(x, L).invoice = L.invoice /\ Ahead(x, L).posted = L.posted \cup RowsBehind(x, L)
        /\ Ahead(y, L).invoice = L.invoice /\ Ahead(y, L).posted = L.posted \cup RowsBehind(y, L)
    BY AheadIs DEF InForm
  <2>2. k # line.key BY DEF line, i
  <2> QED BY <1>1, <1>3, <2>1, <2>2 DEF SameOn, On
<1>8. /\ Paid(Ahead(x, L), k) = Paid(Ahead(y, L), k)
      /\ Overpaid(Ahead(x, L), k) <=> Overpaid(Ahead(y, L), k)
  BY <1>7, PaidOn
<1>9. CASE HasLine(x, k)
  <2>1. /\ k \in x.rows /\ Paid(Ahead(x, L), k) = Paid(L, k) + x.check.earlier[k]
        /\ Overpaid(Ahead(x, L), k) => Tells(x.check.flags, FormIn(x), k)
    BY <1>9 DEF Counted
  <2>2. Tells(x.check.flags, FormIn(x), k) => Tells(y.check.flags, FormIn(y), k)
    BY <1>1, <1>4 DEF Tells
  <2>3. Overpaid(Ahead(y, L), k) => Tells(y.check.flags, FormIn(y), k)
    BY <1>8, <2>1, <2>2
  <2> QED BY <1>4, <1>5, <1>6, <1>8, <1>9, <2>1, <2>3 DEF Counted
<1>10. CASE ~HasLine(x, k)
  BY <1>4, <1>6, <1>10 DEF Counted
<1> QED BY <1>9, <1>10

\* What a line settles is what its row adds to what is paid on its invoice.
LEMMA RowAdds ==
  ASSUME NEW x, NEW y, NEW L, InForm(x, L), x.at <= Len(Ordered(FormIn(x))),
         ChecksLine(x, y, L, TRUE), NEW i, i = Ordered(FormIn(x))[x.at], FormIn(x)[i].key \in Known(L)
  PROVE  Paid(Ahead(y, L), FormIn(x)[i].key) = Paid(Ahead(x, L), FormIn(x)[i].key) + Amount(FormIn(x)[i])
<1> DEFINE p == Paying(x)
           lines == FormIn(x)
           line == lines[i]
           k == line.key
           posts == PostsOf(L, p, lines)
           new == {r \in posts : r.line = i}
           A == On(Ahead(x, L).posted, k)
           B == On(Ahead(y, L).posted, k)
<1>1. /\ i \in DOMAIN lines /\ i \notin Behind(x) /\ Behind(y) = Behind(x) \cup {i}
      /\ FormIn(y) = lines /\ RowsBehind(y, L) = RowsBehind(x, L) \cup new
  BY NextLine DEF ChecksLine
<1>2. p \in Payments /\ lines \in Seq(Line) /\ LedgerOK(L) /\ NoRows(L.posted, p) /\ DOMAIN L = {"invoice", "posted"}
  BY DEF InForm
<1>3. line \in Line /\ k \in Keys
  BY <1>1, <1>2 DEF Known
<1> HIDE DEF p, lines
<1>4. /\ posts \subseteq Post /\ IsFiniteSet(posts)
      /\ \A r \in posts : /\ r.payment = p /\ r.line \in DOMAIN lines /\ r.key = lines[r.line].key /\ r.settled \in Int
                          /\ \A q \in posts : q.line = r.line => q = r
  BY <1>2, RowsAre
<1>5. RowsBehind(x, L) = {r \in posts : r.line \in Behind(x)}
  BY DEF RowsBehind, p, lines
<1>6. /\ Ahead(x, L).invoice = L.invoice /\ Ahead(x, L).posted = L.posted \cup RowsBehind(x, L)
      /\ Ahead(y, L).invoice = L.invoice /\ Ahead(y, L).posted = L.posted \cup RowsBehind(y, L)
  BY <1>2, AheadIs
<1>7. IsFiniteSet(A) /\ \A r \in A : r.settled \in Int
  <2> DEFINE all == L.posted \cup posts
  <2>1. IsFiniteSet(all)
    <3> HIDE DEF posts
    <3> QED BY <1>2, <1>4, FS_Union DEF LedgerOK
  <2>2. A \in SUBSET all
    <3> HIDE DEF posts
    <3> QED BY <1>5, <1>6 DEF On
  <2>3. \A r \in all : r.settled \in Int
    <3> HIDE DEF posts
    <3> QED BY <1>2, <1>4 DEF LedgerOK, Post
  <2> HIDE DEF all, A
  <2> QED BY <2>1, <2>2, <2>3, FS_Subset
<1>8. \A r \in new : r.key = k
  BY <1>4 DEF line
<1>9. Amount(line) \in Int
  BY <1>3 DEF Amount, Line, Settled
<1>10. B = A \cup new
  <2> HIDE DEF new, posts
  <2> QED BY <1>1, <1>6, <1>8 DEF On
<1>11. A \cap new = {}
  <2>1. \A r \in new : r \notin RowsBehind(x, L)
    BY <1>1, <1>5
  <2>2. \A r \in new : r \notin L.posted
    BY <1>2, <1>4 DEF NoRows
  <2> HIDE DEF new
  <2> QED BY <1>6, <2>1, <2>2 DEF On
<1>12. SumOf(A) \in Int
  <2> HIDE DEF A
  <2> QED BY <1>7, SumIsInt DEF SumOf
<1>13. SumOf(B) = SumOf(A) + Amount(line)
  <2>1. CASE line.kind = "invoice" \/ line.off # 0
    <3>1. PICK r \in posts : r.line = i /\ r.key = k /\ r.settled = Amount(line)
      <4>1. lines[i].key \in Known(L) BY DEF lines
      <4> QED BY <1>1, <1>2, <2>1, <4>1, RowOfLine
    <3>2. new = {r}
      <4> HIDE DEF posts
      <4> QED BY <1>4, <3>1
    <3>3. r \notin A /\ B = A \cup {r}
      <4> HIDE DEF A, B, new
      <4> QED BY <1>10, <1>11, <3>2
    <3>4. SumOf(A \cup {r}) = SumOf(A) + r.settled
      <4> HIDE DEF A
      <4> QED BY <1>7, <1>9, <3>1, <3>3, SumAdds
    <3> QED BY <3>1, <3>3, <3>4
  <2>2. CASE line.kind = "adjustment" /\ line.off = 0
    <3>1. \A r \in posts : ~(lines[r.line].kind = "adjustment" /\ lines[r.line].off = 0)
      BY NoRowOfLine
    <3>2. new = {} BY <2>2, <3>1
    <3>3. B = A
      <4> HIDE DEF A, B, new
      <4> QED BY <1>10, <3>2
    <3>4. Amount(line) = 0 BY <2>2 DEF Amount
    <3> HIDE DEF A, B
    <3> QED BY <1>12, <3>3, <3>4
  <2> HIDE DEF A, B, new, posts
  <2> QED BY <1>3, <2>1, <2>2 DEF Line
<1>14. L.invoice[k].before \in Int
  BY <1>2, <1>3 DEF LedgerOK, InvoiceRow
<1>15. Paid(Ahead(x, L), k) = L.invoice[k].before + SumOf(A) /\ Paid(Ahead(y, L), k) = L.invoice[k].before + SumOf(B)
  BY <1>6 DEF Paid, SumOf, On
<1>16. Paid(Ahead(y, L), k) = Paid(Ahead(x, L), k) + Amount(line)
  <2> HIDE DEF A, B, line, k
  <2> QED BY <1>9, <1>12, <1>13, <1>14, <1>15
<1> QED BY <1>16 DEF k, line, lines

\* The invoice the line is of is counted with what the line settles.
LEMMA LineCounts ==
  ASSUME NEW x, NEW y, NEW L, InForm(x, L), x.at <= Len(Ordered(FormIn(x))),
         ChecksLine(x, y, L, TRUE), Counting(x, L), NEW i, i = Ordered(FormIn(x))[x.at],
         FormIn(x)[i].key \in Loads
  PROVE  Counted(y, L, FormIn(x)[i].key)
<1> DEFINE line == FormIn(x)[i]
           k == line.key
           p == Paying(x)
           c == x.check
           d == y.check
           A == Ahead(y, L)
<1>1. /\ i \in DOMAIN FormIn(x) /\ Behind(y) = Behind(x) \cup {i} /\ FormIn(y) = FormIn(x)
      /\ Behind(x) \subseteq DOMAIN FormIn(x)
  BY NextLine DEF ChecksLine
<1>2. /\ line \in Line /\ k \in Known(L) /\ k \in Keys /\ LedgerOK(L) /\ DOMAIN L = {"invoice", "posted"}
      /\ CheckOK(c)
  BY <1>1 DEF InForm, Known, Counting
<1>3. /\ Paid(Ahead(x, L), k) = Paid(L, k) + c.earlier[k]
      /\ Paid(L, k) \in Int /\ c.earlier[k] \in Int
  BY <1>1, AheadIsCounted
<1>4. Paid(A, k) = Paid(Ahead(x, L), k) + Amount(line)
  BY <1>2, RowAdds
<1>5. HasLine(y, k)
  BY <1>1 DEF HasLine
<1>6. k \in y.rows
  BY DEF ChecksLine
<1>7. d = CheckLine(L, TRUE, c, p, i, line)
  BY DEF ChecksLine
<1>8. L.invoice[k] \in InvoiceRow /\ L.invoice[k].amount \in Int
  BY <1>2 DEF LedgerOK, InvoiceRow
<1>9. A.invoice = L.invoice
  BY <1>2, AheadIs
<1>10. FormIn(y)[i].key = k /\ i \in DOMAIN FormIn(y)
  BY <1>1
<1>11. Amount(line) \in Int /\ Tolerance \in Int
  BY <1>2, RulesAssumption DEF Amount, Line, Settled
<1> HIDE DEF line, c, d, p, A, k
<1>12. /\ d.earlier[k] = c.earlier[k] + Amount(line)
       /\ L.invoice[k].amount - (Paid(L, k) + d.earlier[k]) < -Tolerance =>
            TellsOf(d.flags, i)
  <2> USE DEF k
  <2>1. Paid(L, k) \in Int BY <1>3
  <2>2. AddsTo(d, c, k, Amount(line))
    BY <1>2, <1>7, <1>8, <2>1, FoundTells
  <2>3. L.invoice[k].amount - (Paid(L, k) + d.earlier[k]) < -Tolerance => TellsOf(d.flags, i)
    BY <1>2, <1>3, <1>7, <1>8, FoundTells
  <2> QED BY <2>2, <2>3 DEF AddsTo
<1>13. Paid(A, k) = Paid(L, k) + d.earlier[k]
  BY <1>3, <1>4, <1>11, <1>12
<1>14. ASSUME Overpaid(A, k) PROVE Tells(d.flags, FormIn(y), k)
  <2>1. A.invoice[k].amount - Paid(A, k) < -Tolerance
    BY <1>14 DEF Overpaid, StatusFor
  <2>2. PICK f \in d.flags : f.kind \in OverpayKinds /\ f.line = i
    BY <1>9, <1>12, <1>13, <2>1 DEF TellsOf
  <2> QED BY <1>10, <2>2 DEF Tells
<1>15. Counted(y, L, k)
  BY <1>5, <1>6, <1>13, <1>14 DEF Counted, A, d
<1> QED BY <1>15 DEF k, line

LEMMA CheckCounts ==
  ASSUME NEW x, NEW y, NEW L, NEW found \in BOOLEAN, InForm(x, L),
         x.at <= Len(Ordered(FormIn(x))), ChecksLine(x, y, L, found), Counting(x, L),
         NEW i, i = Ordered(FormIn(x))[x.at],
         found => FormIn(x)[i].key \in Keys, ~found => FormIn(x)[i].key \notin Loads
  PROVE  Counting(y, L)
<1>1. i \in DOMAIN FormIn(x) /\ FormIn(x)[i] \in Line
  <2>1. i \in DOMAIN FormIn(x) BY NextLine DEF ChecksLine
  <2> QED BY <2>1 DEF InForm
<1>2. CheckOK(y.check)
  <2> DEFINE line == FormIn(x)[i]
             p == Paying(x)
             c == x.check
  <2>1. y.check = CheckLine(L, found, c, p, i, line) /\ CheckOK(c) /\ line \in Line /\ (found => line.key \in Keys)
    BY <1>1 DEF ChecksLine, Counting
  <2> HIDE DEF line, p, c
  <2>2. CheckOK(CheckLine(L, found, c, p, i, line))
    BY <2>1, CheckLineKeeps
  <2> QED BY <2>1, <2>2
<1>3. ASSUME NEW k \in Loads PROVE Counted(y, L, k)
  <2>1. Counted(x, L, k) /\ CheckOK(x.check) BY DEF Counting
  <2>2. CASE k # FormIn(x)[i].key
    BY <2>1, <2>2, OthersCount
  <2>3. CASE k = FormIn(x)[i].key
    <3>1. found BY <2>3
    <3>2. ChecksLine(x, y, L, TRUE) BY <3>1
    <3> QED BY <2>3, <3>2, LineCounts
  <2> QED BY <2>2, <2>3
<1> QED BY <1>2, <1>3 DEF Counting

\* Before its first line, nothing is counted.
LEMMA FreshCounts ==
  ASSUME NEW x, NEW L, NEW M, x.at = 1, x.check = FreshCheck(M)
  PROVE  Counting(x, L)
<1>1. CheckOK(x.check) /\ \A k \in Keys : x.check.earlier[k] = 0
  BY DEF CheckOK, FreshCheck
<1>2. Behind(x) = {}
  <2>1. 1..(1 - 1) = {} OBVIOUS
  <2> QED BY <2>1 DEF Behind
<1> QED BY <1>1, <1>2 DEF Counting, Counted, HasLine, Loads

-----------------------------------------------------------------------------
(* Approvals are told of.                                                   *)

\* What an approval has posted is told of, by flags that the reviewer was shown.
Told(x, L, p) ==
  /\ x.by \in {"route", "edit", "use"}
  /\ x.decided[p].flags \subseteq IF x.by = "route" THEN {} ELSE x.shown
  /\ \A r \in x.wrote : r.payment = p /\ r.key \in Loads /\ Overpaid(L, r.key) =>
       Tells(x.decided[p].flags, x.decided[p].lines, r.key)

TellsAll(x, L) ==
  /\ \A r \in x.wrote : r.key \in Loads => r.key \in x.rows
  /\ \A p \in DOMAIN x.decided : x.decided[p].status = "approved" => Told(x, L, p)

Watches(s) ==
  LET x == session[s] IN
  IF x.by = "import"
  THEN /\ \A k \in DOMAIN x.books : x.books[k].source = "books"
       /\ x.phase = "returned" => DOMAIN x.books \subseteq x.rows
  ELSE /\ TellsAll(x, View(s))
       /\ x.by # "record" /\ x.phase # "returned" => Counting(x, View(s))
       /\ x.phase = "waiting" => LineOf(s).key \notin Loads
       /\ x.by \in {"edit", "use"} => \A p \in About(s) : x.shown = flags[p]

\* The locks on invoice rows, which are held to the end of a session, exclude each other.
Exclusive ==
  \A s, t \in Sessions : Busy(s) /\ Busy(t) /\ s # t => session[s].rows \cap session[t].rows = {}

OInv ==
  /\ Loads \subseteq Known(Ledger)
  /\ Exclusive
  /\ \A s \in Sessions : Busy(s) => Watches(s)

\* Every session sees the invoices that were loaded as they are.
LEMMA ViewOfLoads ==
  ASSUME NEW s, NEW k \in Loads, Loads \subseteq Known(Ledger)
  PROVE  View(s).invoice[k] = invoice[k] /\ k \in Known(View(s))
<1>1. k \in Keys /\ Exists(Ledger, k)
  BY DEF Loads, Known
<1>2. View(s).invoice[k] = invoice[k]
  BY <1>1 DEF View
<1> QED BY <1>1, <1>2 DEF Known, Exists, Ledger

LEMMA ViewIs ==
  ASSUME NEW s
  PROVE  DOMAIN View(s) = {"invoice", "posted"} /\ View(s).posted = posted \cup session[s].wrote
BY DEF View

LEMMA SameView ==
  ASSUME NEW s, session'[s].opened = session[s].opened, session'[s].wrote = session[s].wrote,
         UNCHANGED tables
  PROVE  View(s)' = View(s)
BY DEF View, Ledger, Exists, tables

\* Only the invoices a session has locked matter to what it has told.
LEMMA TellsAllKeeps ==
  ASSUME NEW x, NEW L, NEW M, \A k \in Loads : k \in x.rows => SameOn(L, M, k), TellsAll(x, L)
  PROVE  TellsAll(x, M)
<1>1. \A r \in x.wrote : r.key \in Loads => r.key \in x.rows
  BY DEF TellsAll
<1>2. \A r \in x.wrote : r.key \in Loads => (Overpaid(L, r.key) <=> Overpaid(M, r.key))
  <2>1. ASSUME NEW r \in x.wrote, r.key \in Loads PROVE Overpaid(L, r.key) <=> Overpaid(M, r.key)
    <3> DEFINE k == r.key
    <3>1. SameOn(L, M, k) BY <1>1, <2>1
    <3> HIDE DEF k
    <3>2. Overpaid(L, k) <=> Overpaid(M, k) BY <3>1, PaidOn
    <3> QED BY <3>2 DEF k
  <2> QED BY <2>1
<1>3. \A p \in DOMAIN x.decided : x.decided[p].status = "approved" => Told(x, M, p)
  BY <1>2 DEF TellsAll, Told
<1> QED BY <1>1, <1>3 DEF TellsAll

LEMMA CountingKeeps ==
  ASSUME NEW x, NEW L, NEW M, \A k \in Loads : k \in Known(L) /\ k \in Known(M),
         \A k \in Loads : k \in x.rows => SameOn(L, M, k),
         DOMAIN L = {"invoice", "posted"}, DOMAIN M = {"invoice", "posted"}, Counting(x, L)
  PROVE  Counting(x, M)
<1>1. ASSUME NEW k \in Loads PROVE Counted(x, M, k)
  <2>1. k \in Known(L) /\ k \in Known(M) /\ (k \in x.rows => SameOn(L, M, k)) OBVIOUS
  <2>2. Counted(x, L, k) BY DEF Counting
  <2> QED BY <2>1, <2>2, CountedKeeps
<1> QED BY <1>1 DEF Counting

\* A step of another session, which changes nothing that this one has locked.
LEMMA WatchKeeps ==
  ASSUME NEW t \in Sessions, Watches(t), session'[t] = session[t],
         Loads \subseteq Known(Ledger), Loads \subseteq Known(Ledger'),
         \A k \in Loads : k \in session[t].rows =>
           invoice'[k] = invoice[k] /\ On(View(t)'.posted, k) = On(View(t).posted, k),
         session[t].by \in {"edit", "use"} => \A p \in About(t) : flags'[p] = flags[p]
  PROVE  Watches(t)'
<1>1. CASE session[t].by = "import"
  BY <1>1 DEF Watches
<1>2. CASE session[t].by # "import"
  <2> DEFINE x == session[t]
             L == View(t)
             M == View(t)'
  <2>1. /\ TellsAll(x, L)
        /\ x.by # "record" /\ x.phase # "returned" => Counting(x, L)
        /\ x.phase = "waiting" => LineOf(t).key \notin Loads
        /\ x.by \in {"edit", "use"} => \A p \in About(t) : x.shown = flags[p]
    BY <1>2 DEF Watches
  <2>2. \A k \in Loads : L.invoice[k] = invoice[k] /\ k \in Known(L)
    BY ViewOfLoads
  <2>3. ASSUME NEW k \in Loads PROVE M.invoice[k] = invoice'[k] /\ k \in Known(M)
    <3>1. k \in Keys /\ Exists(Ledger, k)'
      BY DEF Loads, Known, Exists
    <3>2. M.invoice[k] = invoice'[k]
      BY <3>1 DEF View
    <3> QED BY <3>1, <3>2 DEF Known, Exists, Ledger
  <2>4. DOMAIN L = {"invoice", "posted"} /\ DOMAIN M = {"invoice", "posted"}
    BY DEF View
  <2>5. LineOf(t)' = LineOf(t) /\ About(t)' = About(t)
    BY DEF LineOf, FormOf, LineNo, Current, About
  <2> HIDE DEF L, M
  <2>6. \A k \in Loads : k \in x.rows => SameOn(L, M, k)
    BY <2>2, <2>3 DEF SameOn, L, M
  <2> HIDE DEF x
  <2>7. TellsAll(x, M)
    BY <2>1, <2>6, TellsAllKeeps
  <2>8. Counting(x, L) => Counting(x, M)
    BY <2>2, <2>3, <2>4, <2>6, CountingKeeps
  <2>9. x = session'[t]
    BY DEF x
  <2>10. x.by \in {"edit", "use"} => \A p \in About(t)' : x.shown = flags'[p]
    BY <2>1, <2>5 DEF x
  <2> QED BY <1>2, <2>1, <2>5, <2>7, <2>8, <2>9, <2>10 DEF Watches, M, x
<1> QED BY <1>1, <1>2

\* A step of one session that leaves the tables alone.
LEMMA OneWatch ==
  ASSUME TInv, OInv, NEW s \in Sessions, NEW value, Becomes(s, value), UNCHANGED tables,
         value.phase # "idle" => Watches(s)',
         value.phase # "idle" =>
           \A k \in value.rows : (Busy(s) /\ k \in session[s].rows) \/ Free(s, "rows", k)
  PROVE  OInv'
<1>1. session'[s] = value /\ \A t \in Sessions \ {s} : session'[t] = session[t]
  BY DEF Becomes, TInv
<1>2. Ledger' = Ledger
  BY DEF Ledger, tables
<1>3. Loads \subseteq Known(Ledger)' /\ Loads \subseteq Known(Ledger') /\ Loads \subseteq Known(Ledger)
  BY <1>2 DEF OInv, Known, Exists
<1>4. ASSUME NEW t \in Sessions \ {s}, Busy(t)' PROVE Watches(t)'
  <2>1. session'[t] = session[t] /\ Busy(t) BY <1>1, <1>4 DEF Busy
  <2>2. Watches(t) BY <2>1 DEF OInv
  <2>3. View(t)' = View(t) BY <2>1, SameView
  <2>4. invoice' = invoice /\ flags' = flags BY DEF tables
  <2>5. \A k \in Loads : k \in session[t].rows =>
          invoice'[k] = invoice[k] /\ On(View(t)'.posted, k) = On(View(t).posted, k)
    BY <2>3, <2>4
  <2> QED BY <1>3, <2>1, <2>2, <2>4, <2>5, WatchKeeps
<1>5. ASSUME NEW t \in Sessions \ {s}, Busy(t)', Busy(s)' PROVE value.rows \cap session'[t].rows = {}
  <2>1. session'[t] = session[t] /\ Busy(t) /\ value.phase # "idle" BY <1>1, <1>5 DEF Busy
  <2>2. Busy(s) => session[s].rows \cap session[t].rows = {} BY <2>1 DEF OInv, Exclusive
  <2>3. \A k \in value.rows : Free(s, "rows", k) => k \notin session[t].rows
    BY <2>1 DEF Free
  <2> QED BY <2>1, <2>2, <2>3
<1>6. Exclusive'
  <2>1. ASSUME NEW t \in Sessions \ {s}, NEW u \in Sessions \ {s}, Busy(t)', Busy(u)', t # u
        PROVE  session'[t].rows \cap session'[u].rows = {}
    <3>1. session'[t] = session[t] /\ session'[u] = session[u] /\ Busy(t) /\ Busy(u)
      BY <1>1, <2>1 DEF Busy
    <3> QED BY <2>1, <3>1 DEF OInv, Exclusive
  <2> QED BY <1>1, <1>5, <2>1 DEF Exclusive
<1>7. Busy(s)' => Watches(s)'
  BY <1>1 DEF Busy
<1> QED BY <1>3, <1>4, <1>6, <1>7 DEF OInv

LEMMA AbortWatches ==
  ASSUME TInv, OInv, NEW s \in Sessions, Abort(s)
  PROVE  OInv'
<1>1. Becomes(s, Idle) /\ UNCHANGED tables /\ Idle.phase = "idle"
  BY DEF Abort, Idle
<1> QED BY <1>1, OneWatch

\* A payment that is not decided yet has no rows.
LEMMA CheckingInForm ==
  ASSUME TInv, PInv, OInv, NEW s \in Sessions, Busy(s), Checks(s), session[s].phase # "returned"
  PROVE  /\ InForm(session[s], View(s))
         /\ Paying(session[s]) = Current(s) /\ FormIn(session[s]) = FormOf(s)
         /\ Watches(s) /\ Counting(session[s], View(s)) /\ TellsAll(session[s], View(s))
<1>1. Current(s) \in Payments /\ FormOf(s) \in Seq(Line)
  BY LineIsOfForm
<1>2. Paying(session[s]) = Current(s) /\ FormIn(session[s]) = FormOf(s)
  BY DEF Paying, FormIn, Current, FormOf
<1>3. Inserts(s)
  BY DEF TInv, SessionOK, Checks, Imports
<1>4. LedgerOK(View(s))
  BY <1>3, ViewIsLedger
<1>5. /\ session[s].by # "record" /\ session[s].by # "import"
      /\ WritesWhatItDecides(s) /\ IsCurrent(s) /\ PostedAsApproved
  BY DEF PInv, Checks
<1>6. Current(s) \in About(s) /\ Current(s) \notin Done(s)
  BY CurrentIsUndone
<1>7. NoRows(View(s).posted, Current(s))
  <2>1. status[Current(s)] \notin Final BY <1>5, <1>6 DEF IsCurrent, Final
  <2>2. \A r \in posted : r.payment # Current(s) BY <1>1, <1>5, <2>1 DEF PostedAsApproved
  <2>3. \A r \in session[s].wrote : r.payment # Current(s) BY <1>5, <1>6 DEF WritesWhatItDecides
  <2> QED BY <2>2, <2>3, ViewIs DEF NoRows
<1>8. \A k \in Loads : k \in Known(View(s))
  BY ViewOfLoads DEF OInv
<1>9. InForm(session[s], View(s))
  BY <1>1, <1>2, <1>4, <1>7, <1>8, ViewIs DEF InForm, Checks
<1>10. Watches(s)
  BY DEF OInv
<1>11. Counting(session[s], View(s)) /\ TellsAll(session[s], View(s))
  BY <1>5, <1>10 DEF Watches
<1> QED BY <1>2, <1>9, <1>10, <1>11

LEMMA SameTells ==
  ASSUME NEW x, NEW y, NEW L, y.wrote = x.wrote, y.decided = x.decided, y.by = x.by,
         y.shown = x.shown, x.rows \subseteq y.rows, TellsAll(x, L)
  PROVE  TellsAll(y, L)
BY DEF TellsAll, Told

LEMMA SameCounting ==
  ASSUME NEW x, NEW y, NEW L, y.payments = x.payments, y.nth = x.nth, y.lines = x.lines, y.at = x.at,
         y.rows = x.rows, y.check = x.check, Counting(x, L)
  PROVE  Counting(y, L)
<1>1. Paying(y) = Paying(x) /\ FormIn(y) = FormIn(x) /\ Behind(y) = Behind(x)
  BY DEF Paying, FormIn, Behind
<1>2. Ahead(y, L) = Ahead(x, L)
  BY <1>1 DEF Ahead, RowsBehind
<1>3. \A k : HasLine(y, k) <=> HasLine(x, k)
  BY <1>1 DEF HasLine
<1>4. ASSUME NEW k \in Loads PROVE Counted(y, L, k)
  <2>1. Counted(x, L, k) BY DEF Counting
  <2> QED BY <1>1, <1>2, <1>3, <2>1 DEF Counted
<1> QED BY <1>4 DEF Counting

LEMMA FindMissingWatches ==
  ASSUME TInv, PInv, OInv, NEW s \in Sessions, FindMissing(s)
  PROVE  OInv'
<1> DEFINE x == [session[s] EXCEPT !.phase = "waiting"]
<1>1. /\ session[s].phase = "checking" /\ LineLeft(s) /\ ~Found(s) /\ LineOf(s).kind = "invoice"
      /\ Becomes(s, x) /\ UNCHANGED tables
  BY DEF FindMissing
<1>2. Busy(s) /\ Checks(s)
  BY <1>1, PhaseTells
<1>3. Watches(s) /\ Counting(session[s], View(s)) /\ TellsAll(session[s], View(s))
  BY <1>1, <1>2, CheckingInForm
<1>4. LineOf(s).key \notin Loads
  <2>1. NoKey \notin Loads BY RulesAssumption DEF Loads
  <2>2. \A k \in Loads : Exists(View(s), k) BY ViewOfLoads DEF OInv, Known
  <2> QED BY <1>1, <2>1, <2>2 DEF Found
<1>5. /\ x.phase = "waiting" /\ x.by = session[s].by /\ x.payments = session[s].payments
      /\ x.lines = session[s].lines /\ x.nth = session[s].nth /\ x.at = session[s].at
      /\ x.rows = session[s].rows /\ x.check = session[s].check /\ x.shown = session[s].shown
      /\ x.wrote = session[s].wrote /\ x.decided = session[s].decided /\ x.opened = session[s].opened
  BY <1>2 DEF Checks, CheckFields
<1> HIDE DEF x
<1>6. session'[s] = x
  BY <1>1 DEF Becomes, TInv
<1>7. View(s)' = View(s)
  BY <1>1, <1>5, <1>6, SameView
<1>8. TellsAll(x, View(s)) /\ Counting(x, View(s))
  BY <1>3, <1>5, SameTells, SameCounting
<1>9. LineOf(s)' = LineOf(s) /\ About(s)' = About(s) /\ flags' = flags
  <2>1. session[s].by # "record" BY <1>2 DEF Checks
  <2> QED BY <1>1, <1>5, <1>6, <2>1 DEF LineOf, FormOf, LineNo, Current, About, tables
<1>10. session[s].by # "import"
  BY <1>2 DEF Checks
<1>11. Watches(s)'
  BY <1>3, <1>4, <1>5, <1>6, <1>7, <1>8, <1>9, <1>10 DEF Watches
<1>12. \A k \in x.rows : k \in session[s].rows
  BY <1>5
<1> QED BY <1>1, <1>2, <1>11, <1>12, OneWatch

\* A line checked: what it settles is counted, and told of if that is too much.
LEMMA CheckedWatches ==
  ASSUME TInv, PInv, OInv, NEW s \in Sessions, session[s].phase \in {"checking", "waiting"},
         LineLeft(s), NEW found \in BOOLEAN, NEW x, Becomes(s, x), UNCHANGED tables, GoesOn(s, x),
         x.phase = "checking", x.at = session[s].at + 1, x.shown = session[s].shown,
         x.check = CheckLine(View(s), found, session[s].check, Current(s), LineNo(s), LineOf(s)),
         x.rows = session[s].rows \cup IF found THEN {LineOf(s).key} ELSE {},
         found => LineOf(s).key \in Keys /\ Free(s, "rows", LineOf(s).key),
         ~found => LineOf(s).key \notin Loads
  PROVE  OInv'
<1> DEFINE y == session[s]
           L == View(s)
           i == LineNo(s)
<1>1. Busy(s) /\ Checks(s)
  BY PhaseTells
<1>2. /\ InForm(y, L) /\ Paying(y) = Current(s) /\ FormIn(y) = FormOf(s)
      /\ Watches(s) /\ Counting(y, L) /\ TellsAll(y, L)
  BY <1>1, CheckingInForm
<1>3. y.at <= Len(Ordered(FormIn(y))) /\ i = Ordered(FormIn(y))[y.at] /\ LineOf(s) = FormIn(y)[i]
  BY <1>2 DEF LineLeft, LineNo, LineOf
<1>4. /\ x.by = y.by /\ x.payments = y.payments /\ x.lines = y.lines /\ x.nth = y.nth
      /\ x.decided = y.decided /\ x.wrote = y.wrote /\ x.opened = y.opened
  BY DEF GoesOn
<1>5. ChecksLine(y, x, L, found)
  BY <1>2, <1>3, <1>4 DEF ChecksLine
<1>6. (found => FormIn(y)[i].key \in Keys) /\ (~found => FormIn(y)[i].key \notin Loads)
  BY <1>3
<1>7. session'[s] = x
  BY DEF Becomes, TInv
<1>8. View(s)' = L
  BY <1>4, <1>7, SameView
<1>9. About(s)' = About(s) /\ flags' = flags
  <2>1. session[s].by # "record" BY <1>1 DEF Checks
  <2> QED BY <1>4, <1>7, <2>1 DEF About, tables
<1>10. y.by # "import"
  BY <1>1 DEF Checks
<1>11. \A k \in x.rows : k \in session[s].rows \/ Free(s, "rows", k)
  OBVIOUS
<1>12. y.rows \subseteq x.rows
  OBVIOUS
<1> HIDE DEF y, L, i
<1>13. Counting(x, L)
  BY <1>2, <1>3, <1>5, <1>6, CheckCounts
<1>14. TellsAll(x, L)
  BY <1>2, <1>4, <1>12, SameTells DEF y
<1>15. Watches(s)'
  BY <1>2, <1>4, <1>7, <1>8, <1>9, <1>10, <1>13, <1>14 DEF Watches, y
<1> QED BY <1>1, <1>11, <1>15, OneWatch DEF y

LEMMA CheckedIs ==
  ASSUME NEW s, DOMAIN session[s] = CheckFields, NEW found \in BOOLEAN
  PROVE  /\ DOMAIN Checked(s, found) = CheckFields
         /\ Checked(s, found).phase = "checking" /\ Checked(s, found).at = session[s].at + 1
         /\ Checked(s, found).shown = session[s].shown /\ Checked(s, found).rows = session[s].rows
         /\ Checked(s, found).check =
              CheckLine(View(s), found, session[s].check, Current(s), LineNo(s), LineOf(s))
BY DEF Checked, CheckFields

LEMMA CheckFoundWatches ==
  ASSUME TInv, PInv, OInv, NEW s \in Sessions, CheckFound(s)
  PROVE  OInv'
<1> DEFINE y == Checked(s, TRUE)
           x == [y EXCEPT !.rows = @ \cup {LineOf(s).key}]
<1>1. /\ session[s].phase = "checking" /\ LineLeft(s) /\ Found(s) /\ Free(s, "rows", LineOf(s).key)
      /\ Becomes(s, x) /\ UNCHANGED tables
  BY DEF CheckFound
<1>2. Busy(s) /\ Checks(s)
  BY <1>1, PhaseTells
<1>3. LineOf(s).key \in Keys
  <2>1. LineOf(s) \in Line BY <1>1, <1>2, LineIsOfForm
  <2> QED BY <1>1, <2>1 DEF Line, Found
<1>4. GoesOn(s, y)
  BY <1>2, CheckedGoesOn
<1>5. /\ DOMAIN y = CheckFields /\ y.phase = "checking" /\ y.at = session[s].at + 1
      /\ y.shown = session[s].shown /\ y.rows = session[s].rows
      /\ y.check = CheckLine(View(s), TRUE, session[s].check, Current(s), LineNo(s), LineOf(s))
  BY <1>2, CheckedIs DEF Checks
<1> HIDE DEF y
<1>6. /\ DOMAIN x = CheckFields /\ x.rows = y.rows \cup {LineOf(s).key}
      /\ \A f \in CheckFields \ {"rows"} : x[f] = y[f]
  BY <1>5 DEF CheckFields
<1> HIDE DEF x
<1>7. GoesOn(s, x)
  BY <1>4, <1>6 DEF GoesOn, CheckFields
<1>8. x.phase = "checking" /\ x.at = session[s].at + 1 /\ x.shown = session[s].shown
  BY <1>5, <1>6 DEF CheckFields
<1>9. x.check = CheckLine(View(s), TRUE, session[s].check, Current(s), LineNo(s), LineOf(s))
  BY <1>5, <1>6 DEF CheckFields
<1>10. x.rows = session[s].rows \cup IF TRUE THEN {LineOf(s).key} ELSE {}
  BY <1>5, <1>6
<1> QED BY <1>1, <1>3, <1>7, <1>8, <1>9, <1>10, CheckedWatches

LEMMA LockMissingWatches ==
  ASSUME TInv, PInv, OInv, NEW s \in Sessions, LockMissing(s)
  PROVE  OInv'
<1> DEFINE y == Checked(s, FALSE)
           x == [y EXCEPT !.keys = @ \cup {LineOf(s).key}]
<1>1. session[s].phase = "waiting" /\ Becomes(s, x) /\ UNCHANGED tables
  BY DEF LockMissing
<1>2. Busy(s) /\ Checks(s) /\ LineLeft(s)
  BY <1>1, PhaseTells DEF Checks
<1>3. LineOf(s).key \notin Loads
  <2>1. Watches(s) /\ session[s].by # "import" BY <1>2 DEF OInv, Checks
  <2> QED BY <1>1, <2>1 DEF Watches
<1>4. GoesOn(s, y)
  BY <1>2, CheckedGoesOn
<1>5. /\ DOMAIN y = CheckFields /\ y.phase = "checking" /\ y.at = session[s].at + 1
      /\ y.shown = session[s].shown /\ y.rows = session[s].rows
      /\ y.check = CheckLine(View(s), FALSE, session[s].check, Current(s), LineNo(s), LineOf(s))
  BY <1>2, CheckedIs DEF Checks
<1> HIDE DEF y
<1>6. DOMAIN x = CheckFields /\ \A f \in CheckFields \ {"keys"} : x[f] = y[f]
  BY <1>5 DEF CheckFields
<1> HIDE DEF x
<1>7. GoesOn(s, x)
  BY <1>4, <1>6 DEF GoesOn, CheckFields
<1>8. x.phase = "checking" /\ x.at = session[s].at + 1 /\ x.shown = session[s].shown
  BY <1>5, <1>6 DEF CheckFields
<1>9. x.check = CheckLine(View(s), FALSE, session[s].check, Current(s), LineNo(s), LineOf(s))
  BY <1>5, <1>6 DEF CheckFields
<1>10. x.rows = session[s].rows \cup IF FALSE THEN {LineOf(s).key} ELSE {}
  BY <1>5, <1>6 DEF CheckFields
<1> QED BY <1>1, <1>2, <1>3, <1>7, <1>8, <1>9, <1>10, CheckedWatches

LEMMA CheckLooseWatches ==
  ASSUME TInv, PInv, OInv, NEW s \in Sessions, CheckLoose(s)
  PROVE  OInv'
<1> DEFINE x == Checked(s, FALSE)
<1>1. /\ session[s].phase = "checking" /\ LineLeft(s) /\ ~Found(s)
      /\ Becomes(s, x) /\ UNCHANGED tables
  BY DEF CheckLoose
<1>2. Busy(s) /\ Checks(s)
  BY <1>1, PhaseTells
<1>3. LineOf(s).key \notin Loads
  <2>1. NoKey \notin Loads BY RulesAssumption DEF Loads
  <2>2. \A k \in Loads : Exists(View(s), k) BY ViewOfLoads DEF OInv, Known
  <2> QED BY <1>1, <2>1, <2>2 DEF Found
<1>4. GoesOn(s, x)
  BY <1>2, CheckedGoesOn
<1>5. /\ x.phase = "checking" /\ x.at = session[s].at + 1
      /\ x.shown = session[s].shown /\ x.rows = session[s].rows
      /\ x.check = CheckLine(View(s), FALSE, session[s].check, Current(s), LineNo(s), LineOf(s))
  BY <1>2, CheckedIs DEF Checks
<1> HIDE DEF x
<1>6. x.rows = session[s].rows \cup IF FALSE THEN {LineOf(s).key} ELSE {}
  BY <1>5
<1> QED BY <1>1, <1>3, <1>4, <1>5, <1>6, CheckedWatches

-----------------------------------------------------------------------------
(* Sessions begin.                                                          *)

LEMMA StartsWatching ==
  ASSUME TInv, PInv, OInv, NEW s \in Sessions, NEW by \in {"route", "edit", "use"},
         NEW ps, NEW lines, NEW approve, NEW shown,
         Starts(s, by, ps, lines, approve, shown),
         by \in {"edit", "use"} => \A n \in DOMAIN ps : shown = flags[ps[n]]
  PROVE  OInv'
<1> DEFINE x == [phase |-> "checking", by |-> by, payments |-> ps, lines |-> lines,
                 approve |-> approve, shown |-> shown, nth |-> 1, at |-> 1,
                 check |-> FreshCheck(Ledger), rows |-> {}, keys |-> {}, exts |-> {},
                 decided |-> Nothing, wrote |-> {}, opened |-> Nothing]
<1>1. Becomes(s, x) /\ UNCHANGED tables
  BY DEF Starts
<1>2. /\ x.phase = "checking" /\ x.by = by /\ x.payments = ps /\ x.shown = shown /\ x.at = 1
      /\ x.check = FreshCheck(Ledger) /\ x.rows = {} /\ DOMAIN x.decided = {} /\ x.wrote = {}
  BY DEF Nothing
<1> HIDE DEF x
<1>3. session'[s] = x
  BY <1>1 DEF Becomes, TInv
<1>4. Counting(x, View(s)')
  BY <1>2, FreshCounts
<1>5. TellsAll(x, View(s)')
  BY <1>2 DEF TellsAll
<1>6. by \in {"edit", "use"} => \A p \in About(s)' : x.shown = flags'[p]
  BY <1>1, <1>2, <1>3 DEF About, tables
<1>7. Watches(s)'
  BY <1>2, <1>3, <1>4, <1>5, <1>6 DEF Watches
<1> QED BY <1>1, <1>2, <1>7, OneWatch

LEMMA BeginRouteWatches ==
  ASSUME TInv, PInv, OInv, NEW w \in Workers, BeginRoute(w)
  PROVE  OInv'
<1>1. \E ps, lines : Starts(w, "route", ps, lines, TRUE, {})
  BY DEF BeginRoute
<1>2. PICK ps, lines : Starts(w, "route", ps, lines, TRUE, {})
  BY <1>1
<1>3. w \in Sessions BY DEF Sessions
<1> QED BY <1>2, <1>3, StartsWatching

LEMMA BeginEditWatches ==
  ASSUME TInv, PInv, OInv, NEW r \in Requests, BeginEdit(r)
  PROVE  OInv'
<1>1. PICK p \in Payments : \E form \in Forms[p] :
         \/ \E approve \in BOOLEAN :
              Starts(r, "edit", <<p>>, [q \in {p} |-> form], approve, flags[p])
         \/ Starts(r, "use", <<p>>, [q \in {p} |-> form], FALSE, flags[p])
  BY DEF BeginEdit
<1>2. \E by, lines, approve : by \in {"edit", "use"} /\ Starts(r, by, <<p>>, lines, approve, flags[p])
  <2>1. PICK form \in Forms[p] :
           \/ \E approve \in BOOLEAN :
                Starts(r, "edit", <<p>>, [q \in {p} |-> form], approve, flags[p])
           \/ Starts(r, "use", <<p>>, [q \in {p} |-> form], FALSE, flags[p])
    BY <1>1
  <2> DEFINE lines == [q \in {p} |-> form]
  <2>2. \E by, approve : by \in {"edit", "use"} /\ Starts(r, by, <<p>>, lines, approve, flags[p])
    <3>1. CASE \E approve : Starts(r, "edit", <<p>>, lines, approve, flags[p])
      <4> HIDE DEF lines
      <4> QED BY <3>1
    <3>2. CASE Starts(r, "use", <<p>>, lines, FALSE, flags[p])
      <4> DEFINE no == FALSE
      <4>1. Starts(r, "use", <<p>>, lines, no, flags[p]) BY <3>2
      <4> HIDE DEF lines, no
      <4>2. "use" \in {"edit", "use"} OBVIOUS
      <4> QED BY <4>1, <4>2
    <3> QED BY <2>1, <3>1, <3>2
  <2> HIDE DEF lines
  <2> QED BY <2>2
<1>3. PICK by, lines, approve : by \in {"edit", "use"} /\ Starts(r, by, <<p>>, lines, approve, flags[p])
  BY <1>2
<1>4. r \in Sessions BY DEF Sessions
<1> DEFINE ps == <<p>>
<1>5. \A n \in DOMAIN ps : flags[p] = flags[ps[n]]
  OBVIOUS
<1> HIDE DEF ps
<1>6. Starts(r, by, ps, lines, approve, flags[p]) BY <1>3 DEF ps
<1> QED BY <1>3, <1>4, <1>5, <1>6, StartsWatching

LEMMA BeginRecordWatches ==
  ASSUME TInv, PInv, OInv, NEW r \in Requests, BeginRecord(r)
  PROVE  OInv'
<1>1. PICK p \in Payments :
        /\ Becomes(r, [phase |-> "recording", by |-> "record", payment |-> p,
                       lines |-> content[p], rows |-> {}, keys |-> {}, exts |-> {},
                       decided |-> Nothing, wrote |-> {}, opened |-> Nothing])
        /\ UNCHANGED tables
  BY RulesAssumption DEF BeginRecord
<1> DEFINE x == [phase |-> "recording", by |-> "record", payment |-> p,
                 lines |-> content[p], rows |-> {}, keys |-> {}, exts |-> {},
                 decided |-> Nothing, wrote |-> {}, opened |-> Nothing]
<1>2. /\ x.phase = "recording" /\ x.by = "record" /\ x.rows = {} /\ DOMAIN x.decided = {} /\ x.wrote = {}
  BY DEF Nothing
<1>3. Becomes(r, x) BY <1>1
<1> HIDE DEF x
<1>4. r \in Sessions BY DEF Sessions
<1>5. session'[r] = x
  BY <1>3, <1>4 DEF Becomes, TInv
<1>6. TellsAll(x, View(r)')
  BY <1>2 DEF TellsAll
<1>7. Watches(r)'
  BY <1>2, <1>5, <1>6 DEF Watches
<1> QED BY <1>1, <1>2, <1>3, <1>4, <1>7, OneWatch

LEMMA BeginImportWatches ==
  ASSUME TInv, PInv, OInv, NEW r \in Requests, BeginImport(r)
  PROVE  OInv'
<1>1. PICK f \in Files :
        /\ Becomes(r, [phase |-> "importing", by |-> "import",
                       books |-> [k \in DOMAIN f |-> FromBooks(k, f[k])],
                       created |-> {k \in DOMAIN f : ~Exists(Ledger, k)},
                       refreshed |-> <<>>, rows |-> {}, keys |-> {}, exts |-> {}])
        /\ UNCHANGED tables
  BY DEF BeginImport
<1> DEFINE x == [phase |-> "importing", by |-> "import",
                 books |-> [k \in DOMAIN f |-> FromBooks(k, f[k])],
                 created |-> {k \in DOMAIN f : ~Exists(Ledger, k)},
                 refreshed |-> <<>>, rows |-> {}, keys |-> {}, exts |-> {}]
<1>2. /\ x.phase = "importing" /\ x.by = "import" /\ x.rows = {}
      /\ \A k \in DOMAIN x.books : x.books[k].source = "books"
  BY DEF FromBooks
<1>3. Becomes(r, x) BY <1>1
<1> HIDE DEF x
<1>4. r \in Sessions BY DEF Sessions
<1>5. session'[r] = x
  BY <1>3, <1>4 DEF Becomes, TInv
<1>6. Watches(r)'
  BY <1>2, <1>5 DEF Watches
<1> QED BY <1>1, <1>2, <1>3, <1>4, <1>6, OneWatch

LEMMA ImportRowsWatches ==
  ASSUME TInv, PInv, OInv, NEW r \in Requests, ImportRows(r)
  PROVE  OInv'
<1> DEFINE books == session[r].books
           L == WithBooks(books)
           pending == {p \in Payments : status[p] = "pending_review"}
           stale == {p \in pending : FlagsOf(L, p, content[p]) # flags[p]}
           ks == (UNION {{content[p][i].key : i \in DOMAIN content[p]} : p \in pending}) \ {NoKey}
           rows == DOMAIN books \cup (ks \cap Known(L))
           x == [session[r] EXCEPT
                   !.phase = "returned", !.rows = rows, !.keys = ks \ Known(L), !.exts = stale,
                   !.refreshed = [p \in stale |-> FlagsOf(L, p, content[p])]]
<1>1. session[r].phase = "importing" /\ Becomes(r, x) /\ UNCHANGED tables
      /\ \A k \in rows : Free(r, "rows", k)
  BY DEF ImportRows
<1>2. r \in Sessions BY DEF Sessions
<1>3. Busy(r) /\ Imports(r) /\ Watches(r)
  BY <1>1, <1>2 DEF TInv, SessionOK, Busy, Checks, Records, OInv
<1>4. DOMAIN books \subseteq rows
  OBVIOUS
<1> HIDE DEF rows, stale, ks, L
<1>5. x.phase = "returned" /\ x.rows = rows /\ x.by = "import" /\ x.books = books
  BY <1>3 DEF Imports, ImportFields
<1> HIDE DEF x
<1>6. session'[r] = x
  BY <1>1, <1>2 DEF Becomes, TInv
<1>7. Watches(r)'
  BY <1>3, <1>4, <1>5, <1>6 DEF Watches, Imports
<1> QED BY <1>1, <1>2, <1>5, <1>7, OneWatch

-----------------------------------------------------------------------------
(* Sessions decide.                                                         *)

\* A decision on a payment with no rows yet inserts its rows, all of them.
LEMMA WritesRows ==
  ASSUME NEW s, NEW p, NEW d, NEW rows, NEW y, Decides(y, s, p, d, rows),
         NoRows(View(s).posted, p), \A r \in rows : r.payment = p,
         session'[s].wrote = y.wrote, UNCHANGED tables
  PROVE  /\ y.wrote \subseteq session[s].wrote \cup rows
         /\ View(s)'.posted = View(s).posted \cup rows
<1> DEFINE L == View(s)
           after == Posted(L, rows)
<1>1. Fresh(L, rows) = rows
  BY DEF Fresh, NoRows
<1>2. after.posted = L.posted \cup rows
  BY <1>1 DEF Posted
<1>3. y.wrote = session[s].wrote \cup (after.posted \ L.posted)
  BY DEF Decides
<1>4. L.posted = posted \cup session[s].wrote
  BY DEF View
<1>5. View(s)'.posted = posted \cup y.wrote
  BY DEF View, tables
<1> HIDE DEF L, after
<1>6. y.wrote \subseteq session[s].wrote \cup rows
  BY <1>2, <1>3
<1>7. View(s)'.posted = L.posted \cup rows
  BY <1>2, <1>3, <1>4, <1>5
<1> QED BY <1>6, <1>7 DEF L

\* Once every line is checked, what was counted is all that an approval posts.
LEMMA AllBehind ==
  ASSUME NEW x, NEW L, InForm(x, L), ~(x.at <= Len(Ordered(FormIn(x))))
  PROVE  /\ \A i \in DOMAIN FormIn(x) : i \in Behind(x)
         /\ RowsBehind(x, L) = PostsOf(L, Paying(x), FormIn(x))
<1> DEFINE o == Ordered(FormIn(x))
           at == x.at
<1>1. o \in Seq(DOMAIN FormIn(x)) /\ \A i \in DOMAIN FormIn(x) : \E n \in 1..Len(o) : o[n] = i
  BY OrderedAreOfLines DEF InForm
<1>2. at \in Nat /\ ~(at <= Len(o))
  BY DEF InForm
<1>3. Behind(x) = {o[n] : n \in 1..(at - 1)}
  BY DEF Behind
<1> HIDE DEF o, at
<1>4. Len(o) \in Nat
  BY <1>1
<1>5. \A n \in 1..Len(o) : n \in 1..(at - 1)
  BY <1>2, <1>4
<1>6. \A i \in DOMAIN FormIn(x) : i \in Behind(x)
  BY <1>1, <1>3, <1>5
<1>7. \A r \in PostsOf(L, Paying(x), FormIn(x)) : r.line \in DOMAIN FormIn(x)
  BY RowsAre DEF InForm
<1> QED BY <1>6, <1>7 DEF RowsBehind

DecidedToo(x, y, p, d) ==
  y.decided = [q \in DOMAIN x.decided \cup {p} |-> IF q = p THEN d ELSE x.decided[q]]

LEMMA ApprovalTells ==
  ASSUME NEW x, NEW L, NEW M, InForm(x, L), ~(x.at <= Len(Ordered(FormIn(x)))),
         Counting(x, L), TellsAll(x, L), \A k \in Loads : M.invoice[k] = L.invoice[k],
         NEW rows, rows = PostsOf(L, Paying(x), FormIn(x)), M.posted = L.posted \cup rows,
         NEW y, y.wrote \subseteq x.wrote \cup rows, y.by = x.by, y.shown = x.shown, y.rows = x.rows,
         NEW d, DecidedToo(x, y, Paying(x), d), d.lines = FormIn(x), x.check.flags \subseteq d.flags,
         d.flags \subseteq IF x.by = "route" THEN {} ELSE x.shown, x.by \in {"route", "edit", "use"},
         x.by # "route" => DOMAIN x.decided = {}, NoRows(x.wrote, Paying(x))
  PROVE  TellsAll(y, M)
<1> DEFINE p == Paying(x)
           A == Ahead(x, L)
<1>1. /\ \A i \in DOMAIN FormIn(x) : i \in Behind(x)
      /\ RowsBehind(x, L) = rows
  BY AllBehind
<1>2. A.invoice = L.invoice /\ A.posted = L.posted \cup rows
  BY <1>1, AheadIs DEF InForm
<1>3. \A r \in rows : r.payment = p /\ r.line \in DOMAIN FormIn(x) /\ r.key = FormIn(x)[r.line].key
  BY RowsAre DEF InForm
<1>4. \A r \in rows : HasLine(x, r.key)
  BY <1>1, <1>3 DEF HasLine
<1> HIDE DEF A, p
<1>5. ASSUME NEW k \in Loads, HasLine(x, k)
      PROVE  k \in x.rows /\ (Overpaid(M, k) => Tells(x.check.flags, FormIn(x), k))
  <2>1. k \in x.rows /\ (Overpaid(A, k) => Tells(x.check.flags, FormIn(x), k))
    BY <1>5 DEF Counting, Counted, A
  <2>2. SameOn(A, M, k)
    BY <1>2 DEF SameOn, On
  <2>3. Overpaid(A, k) <=> Overpaid(M, k)
    BY <2>2, PaidOn
  <2> QED BY <2>1, <2>3
<1>6. ASSUME NEW k \in Loads, ~HasLine(x, k) PROVE Overpaid(L, k) <=> Overpaid(M, k)
  <2>1. SameOn(L, M, k)
    BY <1>4, <1>6 DEF SameOn, On
  <2> QED BY <2>1, PaidOn
<1>7. \A r \in y.wrote : r.key \in Loads => r.key \in y.rows
  BY <1>4, <1>5 DEF TellsAll
<1>8. /\ DOMAIN y.decided = DOMAIN x.decided \cup {p} /\ y.decided[p] = d
      /\ \A q \in DOMAIN x.decided : q # p => y.decided[q] = x.decided[q]
  BY DEF DecidedToo, p
<1>9. Told(y, M, p)
  <2>1. ASSUME NEW r \in y.wrote, r.payment = p, r.key \in Loads, Overpaid(M, r.key)
        PROVE  Tells(d.flags, d.lines, r.key)
    <3>1. r \in rows BY <2>1 DEF NoRows, p
    <3>2. Tells(x.check.flags, FormIn(x), r.key) BY <1>4, <1>5, <2>1, <3>1
    <3> QED BY <3>2 DEF Tells
  <2> QED BY <1>8, <2>1 DEF Told
<1>10. ASSUME NEW q \in DOMAIN x.decided, q # p, x.decided[q].status = "approved" PROVE Told(y, M, q)
  <2>1. x.by = "route" /\ d.flags = {} /\ x.check.flags = {} BY <1>10
  <2>2. Told(x, L, q) BY <1>10 DEF TellsAll
  <2>3. \A fs, lines, k : fs = {} => ~Tells(fs, lines, k) BY DEF Tells
  <2>4. ASSUME NEW r \in y.wrote, r.payment = q, r.key \in Loads, Overpaid(M, r.key)
        PROVE  Tells(x.decided[q].flags, x.decided[q].lines, r.key)
    <3>1. r \in x.wrote BY <1>3, <1>10, <2>4
    <3>2. ~HasLine(x, r.key) BY <1>5, <2>1, <2>3, <2>4
    <3>3. Overpaid(L, r.key) BY <1>6, <2>4, <3>2
    <3> QED BY <2>2, <2>4, <3>1, <3>3 DEF Told
  <2>5. x.decided[q].flags \subseteq IF x.by = "route" THEN {} ELSE x.shown
    BY <2>2 DEF Told
  <2>6. y.decided[q] = x.decided[q] BY <1>8, <1>10
  <2> QED BY <2>1, <2>4, <2>5, <2>6 DEF Told
<1> QED BY <1>7, <1>8, <1>9, <1>10 DEF TellsAll

LEMMA RefusalTells ==
  ASSUME NEW x, NEW M, TellsAll(x, M), NEW y, y.wrote \subseteq x.wrote, y.by = x.by,
         y.shown = x.shown, y.rows = x.rows, NEW p, p \notin DOMAIN x.decided,
         NEW d, DecidedToo(x, y, p, d), d.status # "approved"
  PROVE  TellsAll(y, M)
<1>1. /\ DOMAIN y.decided = DOMAIN x.decided \cup {p} /\ y.decided[p] = d
      /\ \A q \in DOMAIN x.decided : y.decided[q] = x.decided[q]
  BY DEF DecidedToo
<1>2. ASSUME NEW q \in DOMAIN y.decided, y.decided[q].status = "approved" PROVE Told(y, M, q)
  <2>1. q \in DOMAIN x.decided /\ y.decided[q] = x.decided[q] BY <1>1, <1>2
  <2>2. Told(x, M, q) BY <1>2, <2>1 DEF TellsAll
  <2> QED BY <2>1, <2>2 DEF Told
<1>3. \A r \in y.wrote : r.key \in Loads => r.key \in y.rows
  BY DEF TellsAll
<1> QED BY <1>2, <1>3 DEF TellsAll

LEMMA DecideWatches ==
  ASSUME TInv, PInv, OInv, NEW s \in Sessions, Decide(s)
  PROVE  OInv'
<1>1. /\ session[s].phase = "checking" /\ Busy(s) /\ Checks(s) /\ Locks(s) /\ Inserts(s)
      /\ Current(s) \in Payments /\ UNCHANGED tables
  BY DecideIs
<1>2. PICK x, y, d, rows : DecidesNow(s, x, y, d, rows)
  BY DecideIs
<1>3. /\ session'[s] = x
      /\ x.by = session[s].by /\ x.payments = session[s].payments
      /\ x.rows = session[s].rows /\ x.decided = y.decided /\ x.wrote = y.wrote /\ x.opened = y.opened
      /\ x.phase \in {"checking", "returned"} /\ x.shown = session[s].shown
  BY <1>1, <1>2, TurnsToNextIs
<1> DEFINE o == session[s]
           L == View(s)
           M == View(s)'
           p == Current(s)
<1>4. /\ InForm(o, L) /\ Paying(o) = p /\ FormIn(o) = FormOf(s)
      /\ Watches(s) /\ Counting(o, L) /\ TellsAll(o, L)
  BY <1>1, CheckingInForm
<1>5. /\ Rests(s, x, d, rows) /\ Decides(y, s, p, d, rows) /\ RowsFor(p, d, rows) /\ Becomes(s, x)
  BY <1>2 DEF DecidesNow
<1>6. NoRows(L.posted, p) /\ DOMAIN L = {"invoice", "posted"}
  BY <1>4 DEF InForm
<1>7. y.wrote \subseteq o.wrote \cup rows /\ M.posted = L.posted \cup rows
  BY <1>1, <1>3, <1>5, <1>6, WritesRows DEF RowsFor
<1>8. \A k \in Loads : M.invoice[k] = L.invoice[k]
  <2>1. \A k \in Loads : k \in Keys /\ Exists(Ledger, k) BY DEF OInv, Loads, Known
  <2> QED BY <1>1, <2>1 DEF View, tables, Ledger, Exists
<1>9. NoRows(o.wrote, p)
  BY <1>6, ViewIs DEF NoRows
<1>10. /\ o.by \in {"route", "edit", "use"} /\ p \notin DOMAIN o.decided
       /\ o.by # "route" => DOMAIN o.decided = {}
  <2>1. o.by \in {"route", "edit", "use"} BY <1>1 DEF Checks
  <2>2. WritesWhatItDecides(s) /\ IsCurrent(s) BY <1>1, <2>1 DEF PInv
  <2>3. p \notin Done(s) BY <1>1, CurrentIsUndone
  <2>4. ASSUME o.by # "route" PROVE Done(s) = {}
    <3>1. Len(o.payments) = 1 BY <2>1, <2>2, <2>4 DEF IsCurrent
    <3>2. o.nth = 1 BY <1>1, <3>1 DEF Checks
    <3>3. 1..(o.nth - 1) = {} BY <3>2
    <3> HIDE DEF o
    <3>4. Done(s) = {o.payments[n] : n \in 1..(o.nth - 1)} BY <2>1 DEF Done, o
    <3> QED BY <3>3, <3>4
  <2> QED BY <2>1, <2>2, <2>3, <2>4 DEF WritesWhatItDecides
<1>11. /\ ~(o.at <= Len(Ordered(FormIn(o)))) /\ d.lines = FormIn(o) /\ o.check.flags \subseteq d.flags
       /\ x.at = 1 /\ x.check = FreshCheck(L)
       /\ IF d.status = "approved" THEN MayApprove(s, d.flags) /\ rows = PostsOf(L, p, FormIn(o))
          ELSE rows = {}
  BY <1>4, <1>5 DEF Rests, LineLeft
<1>12. DecidedToo(o, x, p, d)
  BY <1>3, <1>5 DEF DecidedToo, Decides
<1>13. MayApprove(s, d.flags) => d.flags \subseteq IF o.by = "route" THEN {} ELSE o.shown
  BY DEF MayApprove
<1>14. o.by \in {"edit", "use"} => \A q \in About(s) : o.shown = flags[q]
  BY <1>4, <1>10 DEF Watches
<1>15. o.by # "record" => About(s)' = About(s) /\ flags' = flags
  BY <1>1, <1>3 DEF About, tables
<1>16. \A k \in x.rows : k \in session[s].rows
  BY <1>3
<1> HIDE DEF M, L, p
<1>17. TellsAll(x, M)
  <2>1. x.by = o.by /\ x.shown = o.shown /\ x.rows = o.rows /\ x.wrote \subseteq o.wrote \cup rows
    BY <1>3, <1>7
  <2> HIDE DEF o
  <2>2. CASE d.status = "approved"
    <3>1. MayApprove(s, d.flags) /\ rows = PostsOf(L, Paying(o), FormIn(o))
      BY <1>4, <1>11, <2>2
    <3>2. DecidedToo(o, x, Paying(o), d) /\ NoRows(o.wrote, Paying(o))
      BY <1>4, <1>9, <1>12
    <3> QED BY <1>4, <1>7, <1>8, <1>10, <1>11, <1>13, <2>1, <3>1, <3>2, ApprovalTells
  <2>3. CASE d.status # "approved"
    <3>1. rows = {} BY <1>11, <2>3
    <3>2. \A k \in Loads : SameOn(L, M, k) BY <1>7, <1>8, <3>1 DEF SameOn, On
    <3>3. TellsAll(o, M) BY <1>4, <3>2, TellsAllKeeps
    <3> QED BY <1>10, <1>12, <2>1, <2>3, <3>1, <3>3, RefusalTells
  <2> QED BY <2>2, <2>3
<1>18. Counting(x, M)
  BY <1>11, FreshCounts
<1>19. Watches(s)'
  BY <1>3, <1>10, <1>14, <1>15, <1>17, <1>18 DEF Watches, M
<1> QED BY <1>1, <1>5, <1>16, <1>19, OneWatch

LEMMA PostRecordedWatches ==
  ASSUME TInv, PInv, OInv, NEW r \in Requests, PostRecorded(r)
  PROVE  OInv'
<1>1. /\ r \in Sessions /\ session[r].phase = "recording"
      /\ Busy(r) /\ Records(r) /\ Locks(r) /\ Inserts(r) /\ UNCHANGED tables
  BY PostRecordedIs
<1>2. PICK x, y, d, rows : RecordsNow(r, x, y, d, rows)
  BY PostRecordedIs
<1>3. /\ session'[r] = x
      /\ x.phase = "returned" /\ x.by = "record"
      /\ x.decided = y.decided /\ x.wrote = y.wrote /\ x.opened = y.opened
  BY <1>1, <1>2, RecordsNowIs
<1> DEFINE p == session[r].payment
           M == View(r)'
<1>4. /\ Decides(y, r, p, d, rows) /\ RowsFor(p, d, rows) /\ Becomes(r, x)
      /\ d.status = "already_recorded" /\ x.rows = {q.key : q \in rows}
      /\ \A k \in x.rows : Free(r, "rows", k)
  BY <1>2 DEF RecordsNow
<1>5. WritesWhatItDecides(r) /\ IsCurrent(r) /\ PostedAsApproved
  BY <1>1 DEF PInv, Records
<1>6. DOMAIN session[r].decided = {} /\ session[r].wrote = {}
  <2>1. Done(r) = {} BY <1>1 DEF Done, Records
  <2> QED BY <1>5, <2>1 DEF WritesWhatItDecides
<1>7. NoRows(View(r).posted, p)
  <2>1. p \in About(r) /\ p \in Payments BY <1>1 DEF About, Records
  <2>2. status[p] \notin Final BY <1>1, <1>5, <2>1 DEF IsCurrent, Final, Records
  <2>3. \A q \in posted : q.payment # p BY <1>5, <2>1, <2>2 DEF PostedAsApproved
  <2> QED BY <1>6, <2>3, ViewIs DEF NoRows
<1>8. x.wrote \subseteq rows
  <2>1. y.wrote \subseteq session[r].wrote \cup rows
    BY <1>1, <1>3, <1>4, <1>7, WritesRows DEF RowsFor
  <2> QED BY <1>3, <1>6, <2>1
<1>9. \A q \in DOMAIN x.decided : x.decided[q].status = "already_recorded"
  BY <1>3, <1>4, <1>6 DEF Decides
<1> HIDE DEF M
<1>10. TellsAll(x, M)
  BY <1>4, <1>8, <1>9 DEF TellsAll
<1>11. Watches(r)'
  BY <1>3, <1>10 DEF Watches, M
<1> QED BY <1>1, <1>4, <1>11, OneWatch

-----------------------------------------------------------------------------
(* Sessions end.                                                            *)

\* What a session leaves behind on its end.
LEMMA EndWatches ==
  ASSUME TInv, OInv, NEW s \in Sessions, Becomes(s, Idle),
         \A k \in Loads : invoice'[k].source # "none",
         \A k \in Loads : k \notin session[s].rows =>
           invoice'[k] = invoice[k] /\ On(posted', k) = On(posted, k),
         \A t \in Sessions \ {s} : Busy(t) /\ session[t].by \in {"edit", "use"} =>
           \A p \in About(t) : flags'[p] = flags[p],
         Busy(s)
  PROVE  OInv'
<1>1. session'[s] = Idle /\ \A t \in Sessions \ {s} : session'[t] = session[t]
  BY DEF Becomes, TInv
<1>2. ~Busy(s)'
  BY <1>1 DEF Busy, Idle
<1>3. Loads \subseteq Known(Ledger') /\ Loads \subseteq Known(Ledger)' /\ Loads \subseteq Known(Ledger)
  BY DEF OInv, Known, Exists, Ledger, Loads
<1>4. ASSUME NEW t \in Sessions, Busy(t)' PROVE Watches(t)'
  <2>1. t # s /\ session'[t] = session[t] /\ Busy(t) BY <1>1, <1>2, <1>4 DEF Busy
  <2>2. Watches(t) BY <2>1 DEF OInv
  <2>3. session[s].rows \cap session[t].rows = {} BY <2>1 DEF OInv, Exclusive
  <2>4. View(t)'.posted = posted' \cup session[t].wrote /\ View(t).posted = posted \cup session[t].wrote
    BY <2>1 DEF View
  <2>5. \A k \in Loads : k \in session[t].rows =>
          invoice'[k] = invoice[k] /\ On(View(t)'.posted, k) = On(View(t).posted, k)
    BY <2>3, <2>4 DEF On
  <2>6. session[t].by \in {"edit", "use"} => \A p \in About(t) : flags'[p] = flags[p]
    BY <2>1
  <2> QED BY <1>3, <2>1, <2>2, <2>5, <2>6, WatchKeeps
<1>5. Exclusive'
  BY <1>1, <1>2 DEF OInv, Exclusive, Busy
<1> QED BY <1>3, <1>4, <1>5 DEF OInv

LEMMA CommitWatches ==
  ASSUME TInv, PInv, OInv, OneReviewer, NEW s \in Sessions, Commit(s)
  PROVE  OInv'
<1>1. /\ session[s].phase = "returned" /\ session[s].by # "import" /\ Becomes(s, Idle)
      /\ invoice' = View(s).invoice /\ posted' = posted \cup session[s].wrote
      /\ flags' = IF session[s].by = "record" THEN flags ELSE Written(s, "flags", flags)
  BY DEF Commit, View
<1>2. Busy(s) /\ s \in Deciders /\ Watches(s)
  BY <1>1 DEF Busy, Deciders, OInv
<1>3. \A r \in session[s].wrote : r.key \in Loads => r.key \in session[s].rows
  BY <1>1, <1>2 DEF Watches, TellsAll
<1>4. \A k \in Loads : invoice'[k] = invoice[k] /\ invoice'[k].source # "none"
  <2>1. \A k \in Loads : View(s).invoice[k] = invoice[k] BY ViewOfLoads DEF OInv
  <2>2. \A k \in Loads : invoice[k].source # "none" BY DEF OInv, Known, Exists, Ledger
  <2> QED BY <1>1, <2>1, <2>2
<1>5. \A k \in Loads : k \notin session[s].rows => On(posted', k) = On(posted, k)
  BY <1>1, <1>3 DEF On
<1>6. ASSUME NEW t \in Sessions \ {s}, Busy(t), session[t].by \in {"edit", "use"}
      PROVE  \A p \in About(t) : flags'[p] = flags[p]
  <2>1. t \in Deciders BY <1>6 DEF Deciders
  <2>2. About(s) \cap About(t) = {} BY <1>2, <2>1, OwnPayments
  <2>3. Done(s) \subseteq About(s) /\ About(t) \subseteq Payments BY <1>2, <2>1, DecidersAre
  <2>4. DOMAIN session[s].decided = Done(s) BY <1>1, <1>2 DEF PInv, WritesWhatItDecides
  <2>5. \A p \in About(t) : p \in Payments /\ p \notin DOMAIN session[s].decided
    BY <2>2, <2>3, <2>4
  <2> QED BY <1>1, <2>5 DEF Written
<1> QED BY <1>1, <1>2, <1>4, <1>5, <1>6, EndWatches

LEMMA CommitImportWatches ==
  ASSUME TInv, PInv, OInv, OneReviewer, NEW r \in Requests, CommitImport(r)
  PROVE  OInv'
<1>1. /\ session[r].phase = "returned" /\ session[r].by = "import" /\ Becomes(r, Idle)
      /\ invoice' = [k \in Keys |-> IF k \in DOMAIN session[r].books THEN session[r].books[k]
                                     ELSE invoice[k]]
      /\ posted' = posted /\ r \in Sessions
  BY DEF CommitImport, WithBooks, Sessions, Ledger
<1>2. Busy(r) /\ Watches(r)
  BY <1>1 DEF Busy, OInv
<1>3. /\ \A k \in DOMAIN session[r].books : session[r].books[k].source = "books"
      /\ DOMAIN session[r].books \subseteq session[r].rows
  BY <1>1, <1>2 DEF Watches
<1>4. \A k \in Loads : k \in Keys /\ invoice[k].source # "none"
  BY DEF OInv, Known, Exists, Ledger, Loads
<1>5. \A k \in Loads : invoice'[k].source # "none"
  BY <1>1, <1>3, <1>4
<1>6. \A k \in Loads : k \notin session[r].rows =>
        invoice'[k] = invoice[k] /\ On(posted', k) = On(posted, k)
  BY <1>1, <1>3, <1>4
<1>7. ASSUME NEW t \in Sessions \ {r}, Busy(t), session[t].by \in {"edit", "use"}
      PROVE  \A p \in About(t) : flags'[p] = flags[p]
  <2>1. t \in Workers BY <1>7 DEF OneReviewer, Sessions
  <2>2. IsCurrent(t) BY <1>7 DEF PInv
  <2> QED BY <1>7, <2>1, <2>2 DEF IsCurrent
<1> QED BY <1>1, <1>2, <1>5, <1>6, <1>7, EndWatches

LEMMA OInvInit == ASSUME Init PROVE OInv
<1>1. \A s \in Sessions : ~Busy(s)
  BY DEF Init, Busy, Idle
<1>2. Loads \subseteq Known(Ledger)
  BY DEF Init, Loads, Known, Exists, Ledger
<1> QED BY <1>1, <1>2 DEF OInv, Exclusive

LEMMA OInvNext == ASSUME TInv, PInv, OInv, OneReviewer, [Next]_vars PROVE OInv'
<1>1. ASSUME NEW w \in Workers, BeginRoute(w) PROVE OInv'
  BY <1>1, BeginRouteWatches
<1>2. ASSUME NEW r \in Requests,
             BeginEdit(r) \/ BeginRecord(r) \/ PostRecorded(r)
               \/ BeginImport(r) \/ ImportRows(r) \/ CommitImport(r)
      PROVE  OInv'
  BY <1>2, BeginEditWatches, BeginRecordWatches, PostRecordedWatches, BeginImportWatches,
     ImportRowsWatches, CommitImportWatches
<1>3. ASSUME NEW s \in Sessions,
             CheckFound(s) \/ FindMissing(s) \/ LockMissing(s) \/ CheckLoose(s)
               \/ Decide(s) \/ Commit(s) \/ Abort(s)
      PROVE  OInv'
  BY <1>3, CheckFoundWatches, FindMissingWatches, LockMissingWatches, CheckLooseWatches,
     DecideWatches, CommitWatches, AbortWatches
<1>4. CASE UNCHANGED vars
  <2>1. Loads \subseteq Known(Ledger') /\ Loads \subseteq Known(Ledger)' /\ Loads \subseteq Known(Ledger)
    BY <1>4 DEF vars, OInv, Known, Exists, Ledger
  <2>2. ASSUME NEW t \in Sessions, Busy(t)' PROVE Watches(t)'
    <3>1. session'[t] = session[t] /\ Busy(t) /\ Watches(t) BY <1>4, <2>2 DEF vars, Busy, OInv
    <3>2. View(t)' = View(t) /\ invoice' = invoice /\ flags' = flags
      BY <1>4, <3>1, SameView DEF vars, tables
    <3>3. \A k \in Loads : k \in session[t].rows =>
            invoice'[k] = invoice[k] /\ On(View(t)'.posted, k) = On(View(t).posted, k)
      BY <3>2
    <3> QED BY <2>1, <3>1, <3>2, <3>3, WatchKeeps
  <2>3. Exclusive' BY <1>4 DEF vars, OInv, Exclusive, Busy
  <2> QED BY <2>1, <2>2, <2>3 DEF OInv
<1> QED BY <1>1, <1>2, <1>3, <1>4 DEF Next

-----------------------------------------------------------------------------
(* The property.                                                            *)

\* No approval leaves one of the invoices K overpaid without a flag that says so.
ShownOf(K) ==
  \A p \in Payments : status[p] # "approved" /\ status'[p] = "approved" =>
    \A r \in posted' \ posted : r.payment = p /\ r.key \in K /\ Overpaid(Ledger', r.key) =>
      \E f \in flags[p] : /\ f.kind \in OverpayKinds
                          /\ f.line \in DOMAIN content'[p]
                          /\ content'[p][f.line].key = r.key

LEMMA CommitTells ==
  ASSUME TInv, PInv, OInv, NEW s \in Sessions, Commit(s)
  PROVE  ShownOf(Loads)
<1>1. /\ session[s].phase = "returned" /\ session[s].by # "import" /\ Becomes(s, Idle)
      /\ invoice' = View(s).invoice /\ posted' = View(s).posted
      /\ status' = [p \in Payments |-> StatusAfter(s, p)]
      /\ content' = Written(s, "lines", content)
  BY DEF Commit
<1>2. Ledger' = View(s)
  BY <1>1 DEF Ledger, View
<1>3. /\ Busy(s) /\ s \in Deciders /\ TellsAll(session[s], View(s)) /\ WritesWhatItDecides(s)
      /\ session[s].by \in {"edit", "use"} => \A p \in About(s) : session[s].shown = flags[p]
  BY <1>1 DEF Busy, Deciders, OInv, Watches, PInv
<1>4. ASSUME NEW p \in Payments, status[p] # "approved", status'[p] = "approved",
             NEW r \in posted' \ posted, r.payment = p, r.key \in Loads, Overpaid(Ledger', r.key)
      PROVE  \E f \in flags[p] : /\ f.kind \in OverpayKinds
                                 /\ f.line \in DOMAIN content'[p]
                                 /\ content'[p][f.line].key = r.key
  <2> DEFINE d == session[s].decided[p]
  <2>1. p \in DOMAIN session[s].decided /\ d.status = "approved"
    <3>1. StatusAfter(s, p) = "approved" BY <1>1, <1>4
    <3> QED BY <1>4, <3>1 DEF StatusAfter, Written
  <2>2. content'[p] = d.lines
    BY <1>1, <1>4, <2>1 DEF Written
  <2>3. r \in session[s].wrote
    BY <1>1, <1>4, ViewIs
  <2>4. Told(session[s], View(s), p)
    BY <1>3, <2>1 DEF TellsAll
  <2>5. Overpaid(View(s), r.key)
    BY <1>2, <1>4
  <2>6. Tells(d.flags, d.lines, r.key)
    BY <1>4, <2>3, <2>4, <2>5 DEF Told
  <2>7. d.flags \subseteq flags[p]
    <3>1. p \in About(s) BY <1>3, <2>1, DecidersAre DEF WritesWhatItDecides
    <3> QED BY <1>3, <2>4, <3>1 DEF Told
  <2> HIDE DEF d
  <2> QED BY <2>2, <2>6, <2>7 DEF Tells
<1> QED BY <1>4 DEF ShownOf

LEMMA NextTells ==
  ASSUME TInv, PInv, OInv, [Next]_vars
  PROVE  ShownOf(Loads)
<1>1. ASSUME NEW s \in Sessions, Commit(s) PROVE ShownOf(Loads)
  BY <1>1, CommitTells
<1>2. ASSUME UNCHANGED status PROVE ShownOf(Loads)
  BY <1>2 DEF ShownOf
<1>3. ASSUME NEW w \in Workers, BeginRoute(w) PROVE UNCHANGED status
  BY <1>3 DEF BeginRoute, Starts, tables
<1>4. ASSUME NEW r \in Requests,
             BeginEdit(r) \/ BeginRecord(r) \/ PostRecorded(r)
               \/ BeginImport(r) \/ ImportRows(r) \/ CommitImport(r)
      PROVE  UNCHANGED status
  BY <1>4 DEF BeginEdit, BeginRecord, PostRecorded, BeginImport, ImportRows, CommitImport, Starts,
              tables
<1>5. ASSUME NEW s \in Sessions,
             CheckFound(s) \/ FindMissing(s) \/ LockMissing(s) \/ CheckLoose(s)
               \/ Decide(s) \/ Abort(s)
      PROVE  UNCHANGED status
  BY <1>5 DEF CheckFound, FindMissing, LockMissing, CheckLoose, Decide, Abort, tables
<1> QED BY <1>1, <1>2, <1>3, <1>4, <1>5 DEF Next, vars

\* While one reviewer decides at a time, no approval, of a reviewer or of a worker, leaves an
\* invoice overpaid that was in the books from the start unless the payment carried a flag
\* that says so: whatever the workers, the imports and the recordings do meanwhile.
THEOREM LoadedOverpaymentsWereShown == OneReviewer => (Spec => [][ShownOf(Loads)]_vars)
<1> SUFFICES ASSUME OneReviewer PROVE Spec => [][ShownOf(Loads)]_vars
  OBVIOUS
<1>1. Init => PInv /\ OInv
  BY PInvInit, OInvInit
<1>2. TInv /\ PInv /\ OInv /\ [Next]_vars => PInv' /\ OInv'
  BY PInvNext, OInvNext
<1>3. TInv /\ PInv /\ OInv /\ [Next]_vars => ShownOf(Loads)
  BY NextTells
<1> QED BY <1>1, <1>2, <1>3, PostingInvariance, PTL DEF Spec

\* The same of every invoice there can be, when all of them are in the books from the start.
THEOREM OverpaymentWasShownHolds == OneReviewer /\ Loads = Keys => (Spec => OverpaymentWasShown)
<1> SUFFICES ASSUME OneReviewer, Loads = Keys PROVE Spec => OverpaymentWasShown
  OBVIOUS
<1> DEFINE Shown ==
      \A p \in Payments : status[p] # "approved" /\ status'[p] = "approved" =>
        \A r \in posted' \ posted : r.payment = p /\ Overpaid(Ledger', r.key) =>
          \E f \in flags[p] : /\ f.kind \in OverpayKinds
                              /\ f.line \in DOMAIN content'[p]
                              /\ content'[p][f.line].key = r.key
<1>1. TInv' /\ ShownOf(Loads) => Shown
  BY DEF ShownOf, TInv, TypeOK, Post
<1>2. TInv /\ [Next]_vars => TInv'
  BY TInvNext
<1>3. OverpaymentWasShown <=> [][Shown]_vars
  BY DEF OverpaymentWasShown
<1>4. Spec => [][ShownOf(Loads)]_vars
  BY LoadedOverpaymentsWereShown
<1> HIDE DEF Shown
<1> QED BY <1>1, <1>2, <1>3, <1>4, PostingInvariance, PTL DEF Spec

-----------------------------------------------------------------------------
(* A check, line by line, of a ledger that changes only elsewhere.          *)

LEMMA MaxIs ==
  ASSUME NEW S, S \subseteq Int, NEW m \in S, \A n \in S : n <= m
  PROVE  Max(S) = m
<1>1. \A n \in S : n \in Int /\ n <= m
  OBVIOUS
<1>2. ASSUME NEW x \in S, \A y \in S : x >= y PROVE x = m
  <2>1. x >= m /\ x <= m /\ x \in Int /\ m \in Int BY <1>1, <1>2
  <2> QED BY <2>1
<1>3. \A y \in S : m >= y
  BY <1>1
<1> QED BY <1>2, <1>3 DEF Max

HasInvoice(L, k) == k # NoKey /\ Exists(L, k)

\* Line i of a payment checked after those that came to c.
Checking(L, p, lines, c, i) == CheckLine(L, HasInvoice(L, lines[i].key), c, p, i, lines[i])

\* The fold of FlagsOf: what the check comes to after the lines at each set of places.
IsScan(f, L, p, lines) ==
  f = [S \in SUBSET DOMAIN Ordered(lines) |->
         IF S = {} THEN FreshCheck(L)
         ELSE Checking(L, p, lines, f[S \ {Max(S)}], Ordered(lines)[Max(S)])]

\* What it comes to after the first n lines.
Scan(L, p, lines, n) == (CHOOSE f : IsScan(f, L, p, lines))[1..n]

LEMMA ScanExists ==
  ASSUME NEW L, NEW p, NEW lines \in Seq(Line)
  PROVE  \E f : IsScan(f, L, p, lines)
<1> DEFINE o == Ordered(lines)
           step(f, S) == IF S = {} THEN FreshCheck(L)
                         ELSE Checking(L, p, lines, f[S \ {Max(S)}], o[Max(S)])
           Is(f, n) == f = [S \in SUBSET (1..n) |-> step(f, S)]
           G == {n \in Nat : \E f : Is(f, n)}
<1>1. o \in Seq(DOMAIN lines)
  BY OrderedAreOfLines
<1> HIDE DEF o
<1>2. DOMAIN o = 1..Len(o) /\ Len(o) \in Nat
  BY <1>1
<1>3. 0 \in G
  <2> DEFINE f == [S \in SUBSET (1..0) |-> FreshCheck(L)]
  <2>1. \A S \in SUBSET (1..0) : S = {}
    OBVIOUS
  <2>2. Is(f, 0) BY <2>1
  <2> QED BY <2>2
<1>4. ASSUME NEW n \in Nat, n \in G PROVE n + 1 \in G
  <2>1. PICK f : Is(f, n) BY <1>4
  <2> DEFINE N == n + 1
             h == [S \in SUBSET (1..N) |->
                     IF N \in S THEN Checking(L, p, lines, f[S \ {N}], o[N]) ELSE f[S]]
  <2>2. /\ N \in Nat /\ 1..N \subseteq Int /\ 1..n \subseteq 1..N
        /\ \A m \in 1..N : m <= N /\ (m # N => m \in 1..n)
    OBVIOUS
  <2>3. ASSUME NEW S \in SUBSET (1..N) PROVE h[S] = step(h, S)
    <3>1. CASE N \in S
      <4>1. Max(S) = N BY <2>2, <3>1, MaxIs
      <4>2. S \ {N} \in SUBSET (1..n) /\ S \ {N} \in SUBSET (1..N) /\ N \notin S \ {N} BY <2>2
      <4> HIDE DEF N
      <4>3. h[S \ {N}] = f[S \ {N}] BY <4>2
      <4>4. h[S] = Checking(L, p, lines, f[S \ {N}], o[N]) BY <3>1
      <4> HIDE DEF h
      <4> QED BY <3>1, <4>1, <4>3, <4>4
    <3>2. CASE N \notin S
      <4>1. S \in SUBSET (1..n) BY <2>2, <3>2
      <4>2. S \ {Max(S)} \in SUBSET (1..n) /\ S \ {Max(S)} \in SUBSET (1..N) /\ N \notin S \ {Max(S)}
        BY <3>2, <4>1
      <4> HIDE DEF N
      <4>3. h[S \ {Max(S)}] = f[S \ {Max(S)}] BY <4>2
      <4>4. h[S] = f[S] BY <3>2
      <4>5. f[S] = step(f, S)
        <5> HIDE DEF step
        <5> QED BY <2>1, <4>1
      <4> HIDE DEF h
      <4> QED BY <4>3, <4>4, <4>5
    <3> QED BY <3>1, <3>2
  <2>4. h = [S \in SUBSET (1..N) |-> h[S]]
    OBVIOUS
  <2> HIDE DEF h, step
  <2>5. Is(h, N) BY <2>3, <2>4
  <2> QED BY <2>2, <2>5
<1> HIDE DEF G
<1>5. Nat \subseteq G
  BY <1>3, <1>4, AllNat
<1>6. PICK f : Is(f, Len(o))
  BY <1>2, <1>5 DEF G
<1>7. IsScan(f, L, p, lines)
  BY <1>2, <1>6 DEF IsScan, o
<1> QED BY <1>7

\* It begins afresh, and one line more is one step more.
LEMMA ScanIs ==
  ASSUME NEW L, NEW p, NEW lines \in Seq(Line)
  PROVE  /\ FlagsOf(L, p, lines)
              = OtherFlags(L, p, lines) \cup Scan(L, p, lines, Len(Ordered(lines))).flags
         /\ Scan(L, p, lines, 0) = FreshCheck(L)
         /\ \A n \in 1..Len(Ordered(lines)) :
              Scan(L, p, lines, n) = Checking(L, p, lines, Scan(L, p, lines, n - 1), Ordered(lines)[n])
<1> DEFINE f == CHOOSE g : IsScan(g, L, p, lines)
           o == Ordered(lines)
<1>1. FlagsOf(L, p, lines) = OtherFlags(L, p, lines) \cup f[DOMAIN o].flags
  BY DEF FlagsOf, FoldLeft, MapThenFoldSet, IsScan, Checking, HasInvoice
<1>2. IsScan(f, L, p, lines)
  BY ScanExists
<1>3. \A n : Scan(L, p, lines, n) = f[1..n]
  BY DEF Scan
<1>4. o \in Seq(DOMAIN lines)
  BY OrderedAreOfLines
<1>5. \A S \in SUBSET DOMAIN o :
        f[S] = IF S = {} THEN FreshCheck(L) ELSE Checking(L, p, lines, f[S \ {Max(S)}], o[Max(S)])
  <2> HIDE DEF f
  <2> QED BY <1>2 DEF IsScan
<1> HIDE DEF f, o
<1>6. DOMAIN o = 1..Len(o) /\ Len(o) \in Nat
  BY <1>4
<1>7. f[1..0] = FreshCheck(L)
  <2>1. 1..0 = {} OBVIOUS
  <2> QED BY <1>5, <2>1
<1>8. ASSUME NEW n \in 1..Len(o) PROVE f[1..n] = Checking(L, p, lines, f[1..(n - 1)], o[n])
  <2> DEFINE S == 1..n
  <2>1. S \subseteq Int /\ n \in S /\ \A m \in S : m <= n BY <1>6
  <2>2. S \in SUBSET DOMAIN o BY <1>6
  <2>3. S \ {n} = 1..(n - 1) BY <1>6
  <2> HIDE DEF S
  <2>4. Max(S) = n BY <2>1, MaxIs
  <2>5. f[S] = Checking(L, p, lines, f[S \ {n}], o[n]) BY <1>5, <2>1, <2>2, <2>4
  <2> QED BY <2>3, <2>5 DEF S
<1> QED BY <1>1, <1>3, <1>6, <1>7, <1>8 DEF o

\* Checks that differ only in whether the books were loaded when they began.
SameCheck(c, d) == c.flags = d.flags /\ c.earlier = d.earlier /\ c.stated = d.stated

LEMMA FoundSame ==
  ASSUME NEW L, NEW M, NEW p, NEW i, NEW line, NEW earlier, SameOn(L, M, line.key)
  PROVE  FoundFlags(L, p, i, line, earlier) = FoundFlags(M, p, i, line, earlier)
<1>1. Paid(L, line.key) = Paid(M, line.key) /\ L.invoice[line.key] = M.invoice[line.key]
  <2> DEFINE k == line.key
  <2>1. SameOn(L, M, k) OBVIOUS
  <2> HIDE DEF k
  <2>2. Paid(L, k) = Paid(M, k) BY <2>1, PaidOn
  <2> QED BY <2>1, <2>2 DEF SameOn, k
<1>2. (\E r \in L.posted : /\ r.key = line.key /\ r.kind = "invoice"
                           /\ Reference[r.payment] = Reference[p] /\ r.cash = line.cash)
        <=> \E r \in M.posted : /\ r.key = line.key /\ r.kind = "invoice"
                                /\ Reference[r.payment] = Reference[p] /\ r.cash = line.cash
  <2>1. \A r : r \in L.posted /\ r.key = line.key <=> r \in M.posted /\ r.key = line.key
    BY DEF SameOn, On
  <2> QED BY <2>1
<1> DEFINE a == \E r \in L.posted : /\ r.key = line.key /\ r.kind = "invoice"
                                    /\ Reference[r.payment] = Reference[p] /\ r.cash = line.cash
           b == \E r \in M.posted : /\ r.key = line.key /\ r.kind = "invoice"
                                    /\ Reference[r.payment] = Reference[p] /\ r.cash = line.cash
<1>3. If(Reference[p] # "" /\ a, Flag(i, "again", line.cash, 0))
        = If(Reference[p] # "" /\ b, Flag(i, "again", line.cash, 0))
  <2> HIDE DEF a, b
  <2>1. a <=> b BY <1>2 DEF a, b
  <2> QED BY <2>1 DEF If
<1> QED BY <1>1, <1>3 DEF FoundFlags

\* A line of an invoice that is the same in both ledgers counts and tells the same.
LEMMA CheckLineSame ==
  ASSUME NEW L, NEW M, NEW c, NEW d, CheckOK(c), CheckOK(d), SameCheck(c, d), NEW p, NEW i,
         NEW line \in Line, NEW found \in BOOLEAN, found => SameOn(L, M, line.key),
         ~found => line.key = NoKey, found => line.key \in Keys
  PROVE  SameCheck(CheckLine(L, found, c, p, i, line), CheckLine(M, found, d, p, i, line))
<1> DEFINE k == line.key
           settled == IF line.kind = "invoice" THEN Settled(line) ELSE line.off
           counted(b, fs) == [b EXCEPT !.flags = @ \cup fs, !.earlier[k] = @ + settled]
           C == CheckLine(L, found, c, p, i, line)
           D == CheckLine(M, found, d, p, i, line)
<1>1. line.kind \in {"invoice", "adjustment"} /\ (line.kind = "invoice" => k \in Keys)
  BY DEF Line
<1>2. CASE ~found
  <2>1. line.kind = "adjustment" /\ k = NoKey
    BY <1>1, <1>2, RulesAssumption
  <2>2. C = c /\ D = d
    BY <1>2, <2>1 DEF CheckLine
  <2> QED BY <2>2
<1>3. CASE found
  <2>1. k \in Keys /\ k # NoKey /\ SameOn(L, M, k)
    BY <1>3, RulesAssumption
  <2>2. c.flags = d.flags /\ c.earlier = d.earlier /\ c.stated = d.stated
    BY DEF SameCheck
  <2>3. ASSUME NEW fs PROVE SameCheck(counted(c, fs), counted(d, fs))
    <3> HIDE DEF settled, k
    <3>1. /\ counted(c, fs).flags = c.flags \cup fs /\ counted(d, fs).flags = d.flags \cup fs
          /\ counted(c, fs).earlier = [c.earlier EXCEPT ![k] = @ + settled]
          /\ counted(d, fs).earlier = [d.earlier EXCEPT ![k] = @ + settled]
          /\ counted(c, fs).stated = c.stated /\ counted(d, fs).stated = d.stated
      BY DEF CheckOK
    <3> HIDE DEF counted
    <3> QED BY <2>2, <3>1 DEF SameCheck
  <2>4. CASE line.kind = "invoice"
    <3> DEFINE fs == FoundFlags(L, p, i, line, c.earlier[k])
               gs == FoundFlags(M, p, i, line, d.earlier[k])
    <3>1. fs = gs BY <2>1, <2>2, FoundSame
    <3>2. C = counted(c, fs) /\ D = counted(d, gs)
      <4> HIDE DEF fs, gs
      <4>1. C = counted(c, FoundFlags(L, p, i, line, c.earlier[k])) BY <1>3, <2>4 DEF CheckLine
      <4>2. D = counted(d, FoundFlags(M, p, i, line, d.earlier[k])) BY <1>3, <2>4 DEF CheckLine
      <4> QED BY <4>1, <4>2 DEF fs, gs
    <3> HIDE DEF fs, gs, counted, C, D
    <3> QED BY <2>3, <3>1, <3>2 DEF C, D
  <2>5. CASE line.kind = "adjustment"
    <3> DEFINE fs == AdjustmentBalanceFlags(i, L.invoice[k].amount, Paid(L, k) + c.earlier[k], line.off)
               gs == AdjustmentBalanceFlags(i, M.invoice[k].amount, Paid(M, k) + d.earlier[k], line.off)
    <3>1. fs = gs
      <4>1. L.invoice[k] = M.invoice[k] BY <2>1 DEF SameOn
      <4> HIDE DEF k
      <4>2. Paid(L, k) = Paid(M, k) BY <2>1, PaidOn
      <4> QED BY <2>2, <4>1, <4>2
    <3>2. C = counted(c, fs) /\ D = counted(d, gs)
      BY <1>3, <2>1, <2>5 DEF CheckLine
    <3> HIDE DEF fs, gs, counted, C, D
    <3> QED BY <2>3, <3>1, <3>2 DEF C, D
  <2> QED BY <1>1, <2>4, <2>5
<1> QED BY <1>2, <1>3

AllKnown(L) == \A k \in Keys : Exists(L, k)

KeysOf(lines) == {lines[i].key : i \in DOMAIN lines} \ {NoKey}

\* What is checked by the first n lines depends on their invoices only, if all are known.
LEMMA ScanSame ==
  ASSUME NEW L, NEW M, AllKnown(L), AllKnown(M), NEW p, NEW lines \in Seq(Line),
         NEW n \in 0..Len(Ordered(lines)),
         \A m \in 1..n : lines[Ordered(lines)[m]].key \in Keys => SameOn(L, M, lines[Ordered(lines)[m]].key)
  PROVE  /\ CheckOK(Scan(L, p, lines, n)) /\ CheckOK(Scan(M, p, lines, n))
         /\ SameCheck(Scan(L, p, lines, n), Scan(M, p, lines, n))
<1> DEFINE o == Ordered(lines)
           c(m) == Scan(L, p, lines, m)
           d(m) == Scan(M, p, lines, m)
           G == {m \in Nat : m <= n => CheckOK(c(m)) /\ CheckOK(d(m)) /\ SameCheck(c(m), d(m))}
<1>1. o \in Seq(DOMAIN lines)
  BY OrderedAreOfLines
<1>2. /\ c(0) = FreshCheck(L) /\ d(0) = FreshCheck(M)
      /\ \A m \in 1..Len(o) : c(m) = Checking(L, p, lines, c(m - 1), o[m])
                             /\ d(m) = Checking(M, p, lines, d(m - 1), o[m])
  BY ScanIs
<1>3. 0 \in G
  <2>1. CheckOK(FreshCheck(L)) /\ CheckOK(FreshCheck(M)) /\ SameCheck(FreshCheck(L), FreshCheck(M))
    BY DEF FreshCheck, CheckOK, SameCheck
  <2> HIDE DEF c, d
  <2> QED BY <1>2, <2>1
<1>4. n \in Nat /\ n <= Len(o) /\ DOMAIN o = 1..Len(o) /\ Len(o) \in Nat
  <2> HIDE DEF o
  <2> QED BY <1>1 DEF o
<1>5. ASSUME NEW m \in Nat, m \in G PROVE m + 1 \in G
  <2> SUFFICES ASSUME m + 1 <= n
               PROVE  CheckOK(c(m + 1)) /\ CheckOK(d(m + 1)) /\ SameCheck(c(m + 1), d(m + 1))
    OBVIOUS
  <2> DEFINE N == m + 1
             i == o[N]
             line == lines[i]
             found == HasInvoice(L, line.key)
             a == c(m)
             b == d(m)
  <2>1. N \in 1..n /\ N \in 1..Len(o) /\ N - 1 = m /\ m <= n
    BY <1>4
  <2>2. CheckOK(a) /\ CheckOK(b) /\ SameCheck(a, b)
    BY <1>5, <2>1
  <2>3. c(N) = Checking(L, p, lines, a, i) /\ d(N) = Checking(M, p, lines, b, i)
    BY <1>2, <2>1
  <2>4. i \in DOMAIN lines
    <3> HIDE DEF o
    <3> QED BY <1>1, <1>4, <2>1
  <2>5. line \in Line
    BY <2>4
  <2>6. line.key \in Keys => SameOn(L, M, line.key)
    BY <2>1
  <2> HIDE DEF c, d, o, N, i, a, b
  <2> HIDE DEF line
  <2>7. line.key \in Keys \cup {NoKey}
    BY <2>5 DEF Line
  <2>8. found \in BOOLEAN /\ (HasInvoice(M, line.key) <=> found)
        /\ (found => line.key \in Keys) /\ (~found => line.key = NoKey)
    BY <2>7, RulesAssumption DEF HasInvoice, AllKnown
  <2>9. found => SameOn(L, M, line.key)
    BY <2>6, <2>8
  <2>10. c(N) = CheckLine(L, found, a, p, i, line)
    BY <2>3 DEF Checking, line
  <2>11. d(N) = CheckLine(M, found, b, p, i, line)
    <3>1. d(N) = CheckLine(M, HasInvoice(M, line.key), b, p, i, line) BY <2>3 DEF Checking, line
    <3>2. HasInvoice(M, line.key) = found BY <2>8 DEF HasInvoice
    <3> QED BY <3>1, <3>2
  <2> HIDE DEF found
  <2>12. CheckOK(CheckLine(L, found, a, p, i, line)) /\ CheckOK(CheckLine(M, found, b, p, i, line))
    BY <2>2, <2>5, <2>8, CheckLineKeeps
  <2>13. SameCheck(CheckLine(L, found, a, p, i, line), CheckLine(M, found, b, p, i, line))
    BY <2>2, <2>5, <2>8, <2>9, CheckLineSame
  <2> QED BY <2>10, <2>11, <2>12, <2>13 DEF N
<1> HIDE DEF G
<1>6. Nat \subseteq G
  BY <1>3, <1>5, AllNat
<1>7. n \in G /\ n <= n
  BY <1>4, <1>6
<1> QED BY <1>7 DEF G

LEMMA OtherSame ==
  ASSUME NEW L, NEW M, AllKnown(L), AllKnown(M), NEW p, NEW lines
  PROVE  /\ OtherFlags(L, p, lines) = OtherFlags(M, p, lines)
         /\ PostsOf(L, p, lines) = PostsOf(M, p, lines)
<1>1. Known(L) = Keys /\ Known(M) = Keys
  BY DEF Known, AllKnown
<1> QED BY <1>1 DEF OtherFlags, PostsOf

\* So do the flags of a payment.
LEMMA FlagsSame ==
  ASSUME NEW L, NEW M, AllKnown(L), AllKnown(M), NEW p, NEW lines \in Seq(Line),
         \A k \in KeysOf(lines) : SameOn(L, M, k)
  PROVE  FlagsOf(L, p, lines) = FlagsOf(M, p, lines)
<1> DEFINE o == Ordered(lines)
           n == Len(o)
<1>1. o \in Seq(DOMAIN lines)
  BY OrderedAreOfLines
<1>2. n \in 0..n /\ \A m \in 1..n : o[m] \in DOMAIN lines
  <2> HIDE DEF o
  <2>1. DOMAIN o = 1..n /\ n \in Nat BY <1>1
  <2> QED BY <1>1, <2>1
<1>3. \A m \in 1..n : lines[o[m]].key \in Keys => SameOn(L, M, lines[o[m]].key)
  <2> HIDE DEF o, n
  <2> QED BY <1>2, RulesAssumption DEF KeysOf
<1>4. SameCheck(Scan(L, p, lines, n), Scan(M, p, lines, n))
  BY <1>2, <1>3, ScanSame
<1>5. FlagsOf(L, p, lines) = OtherFlags(L, p, lines) \cup Scan(L, p, lines, n).flags
      /\ FlagsOf(M, p, lines) = OtherFlags(M, p, lines) \cup Scan(M, p, lines, n).flags
  BY ScanIs
<1> QED BY <1>4, <1>5, OtherSame DEF SameCheck

-----------------------------------------------------------------------------
(* Sessions do what the ledger does in one step.                            *)

\* What a session has found of the payment it is at is what a check of the ledger it sees
\* finds by then.
Scanned(x, L) ==
  /\ x.at - 1 <= Len(Ordered(FormIn(x)))
  /\ SameCheck(x.check, Scan(L, Paying(x), FormIn(x), x.at - 1))

\* The ledger with what session x has inserted for its payments before the n-th.
Before(x, n) == {r \in x.wrote : \E m \in 1..(n - 1) : r.payment = x.payments[m]}
LedgerBefore(x, n, L) == [invoice |-> L.invoice, posted |-> L.posted \cup Before(x, n)]

\* Its n-th payment was decided on by the flags of that ledger, and it has locked the invoices.
AsDecided(x, n, L) ==
  LET p == x.payments[n]
      d == x.decided[p]
  IN /\ d.lines = x.lines[p] /\ KeysOf(x.lines[p]) \subseteq x.rows
     /\ d.flags = FlagsOf(LedgerBefore(x, n, L), p, x.lines[p])
     /\ d.status \in IF x.by = "route" THEN {"approved", "pending_review"} ELSE {"approved", "kept"}
     /\ {r \in x.wrote : r.payment = p}
          = IF d.status = "approved" THEN PostsOf(L, p, x.lines[p]) ELSE {}

\* A recording posts the payment as it is stored, with contents c.
AsRecorded(x, L, c) ==
  LET p == x.payment
      d == x.decided[p]
  IN /\ p \in Historical /\ x.lines = c[p]
     /\ x.phase = "returned" => /\ d.lines = x.lines /\ d.status = "already_recorded"
                                /\ x.wrote = PostsOf(L, p, x.lines)

\* An import flags pending payments by the ledger it leaves, and has locked their invoices.
AsRefreshed(x, L, st, c) ==
  \A p \in DOMAIN x.refreshed :
    /\ p \in Payments /\ st[p] = "pending_review" /\ KeysOf(c[p]) \subseteq x.rows
    /\ x.refreshed[p] = FlagsOf(L, p, c[p])

\* Session x, when it sees ledger V and the committed one is L (W with its import in it).
Following(x, L, V, W, st, c) ==
  /\ x.by = "import" /\ x.phase = "returned" => AsRefreshed(x, W, st, c)
  /\ x.by = "record" => AsRecorded(x, L, c)
  /\ x.by \in {"route", "edit", "use"} =>
       /\ \A n \in 1..(x.nth - 1) : AsDecided(x, n, L)
       /\ x.phase = "returned" => x.nth = Len(x.payments) + 1
       /\ x.phase # "returned" => Scanned(x, V)

Follows(s) ==
  /\ Following(session[s], Ledger, View(s), WithBooks(session[s].books), status, content)
  /\ session[s].by = "import" => s \in Requests

RInv == \A s \in Sessions : Busy(s) => Follows(s)

LEMMA AllAreKnown ==
  ASSUME Loads \subseteq Known(Ledger), Loads = Keys
  PROVE  /\ AllKnown(Ledger)
         /\ \A s \in Sessions : AllKnown(View(s)) /\ \A k \in Keys : View(s).invoice[k] = invoice[k]
<1>1. AllKnown(Ledger)
  BY DEF AllKnown, Known
<1>2. ASSUME NEW s \in Sessions, NEW k \in Keys
      PROVE  View(s).invoice[k] = invoice[k] /\ k \in Known(View(s))
  BY ViewOfLoads
<1> QED BY <1>1, <1>2 DEF AllKnown, Known

LEMMA BehindLocked ==
  ASSUME NEW x, NEW L, Counting(x, L), Loads = Keys, NEW i \in Behind(x), FormIn(x)[i].key \in Keys
  PROVE  FormIn(x)[i].key \in x.rows
BY DEF Counting, Counted, HasLine

LEMMA ScannedKeeps ==
  ASSUME NEW x, NEW L, NEW M, AllKnown(L), AllKnown(M), Scanned(x, L), Counting(x, L), Loads = Keys,
         FormIn(x) \in Seq(Line), x.at \in Nat \ {0},
         \A k \in Keys : k \in x.rows => SameOn(L, M, k)
  PROVE  Scanned(x, M)
<1> DEFINE o == Ordered(FormIn(x))
           n == x.at - 1
<1>1. o \in Seq(DOMAIN FormIn(x))
  BY OrderedAreOfLines
<1>2. n \in 0..Len(o)
  <2>1. Len(o) \in Nat
    <3> HIDE DEF o
    <3> QED BY <1>1
  <2> QED BY <2>1 DEF Scanned
<1>3. \A m \in 1..n : o[m] \in Behind(x)
  BY DEF Behind
<1>4. \A m \in 1..n : FormIn(x)[o[m]].key \in Keys => SameOn(L, M, FormIn(x)[o[m]].key)
  <2> HIDE DEF o, n
  <2> QED BY <1>3, BehindLocked
<1>5. SameCheck(Scan(L, Paying(x), FormIn(x), n), Scan(M, Paying(x), FormIn(x), n))
  BY <1>2, <1>4, ScanSame
<1> QED BY <1>5 DEF Scanned, SameCheck

LEMMA DecidedKeeps ==
  ASSUME NEW x, NEW n, NEW L, NEW M, AllKnown(L), AllKnown(M), AsDecided(x, n, L),
         x.lines[x.payments[n]] \in Seq(Line),
         \A k \in Keys : k \in x.rows => SameOn(L, M, k)
  PROVE  AsDecided(x, n, M)
<1> DEFINE p == x.payments[n]
           lines == x.lines[p]
           A == LedgerBefore(x, n, L)
           B == LedgerBefore(x, n, M)
<1>1. KeysOf(lines) \subseteq Keys
  BY DEF KeysOf, Line
<1>2. KeysOf(lines) \subseteq x.rows
  BY DEF AsDecided
<1>3. A.invoice = L.invoice /\ B.invoice = M.invoice
      /\ A.posted = L.posted \cup Before(x, n) /\ B.posted = M.posted \cup Before(x, n)
  BY DEF LedgerBefore
<1> HIDE DEF A, B, p
<1>4. AllKnown(A) /\ AllKnown(B)
  BY <1>3 DEF AllKnown, Exists
<1>5. \A k \in KeysOf(lines) : SameOn(A, B, k)
  BY <1>1, <1>2, <1>3 DEF SameOn, On
<1>6. FlagsOf(A, p, lines) = FlagsOf(B, p, lines)
  <2>1. lines \in Seq(Line) BY DEF p
  <2> HIDE DEF lines
  <2> QED BY <1>4, <1>5, <2>1, FlagsSame
<1>7. PostsOf(L, p, lines) = PostsOf(M, p, lines)
  BY OtherSame
<1> QED BY <1>6, <1>7 DEF AsDecided, A, B, p

\* A step of another session, which changes nothing that this one has locked or is about.
LEMMA FollowKeeps ==
  ASSUME TInv, OInv, NEW t \in Sessions, Busy(t), Follows(t), session'[t] = session[t],
         Loads = Keys, Loads \subseteq Known(Ledger)',
         \A k \in Keys : k \in session[t].rows =>
           invoice'[k] = invoice[k] /\ On(posted', k) = On(posted, k),
         session[t].by = "record" => content'[session[t].payment] = content[session[t].payment],
         session[t].by = "import" /\ session[t].phase = "returned" =>
           \A p \in DOMAIN session[t].refreshed : status'[p] = status[p] /\ content'[p] = content[p]
  PROVE  Follows(t)'
<1> DEFINE x == session[t]
           L == Ledger
           M == Ledger'
<1>1. AllKnown(L) /\ AllKnown(View(t)) /\ \A k \in Keys : View(t).invoice[k] = invoice[k]
  BY AllAreKnown DEF OInv
<1>2. AllKnown(M)
  BY DEF AllKnown, Known, Exists
<1>3. AllKnown(View(t)') /\ \A k \in Keys : View(t)'.invoice[k] = invoice'[k]
  <2>1. \A k \in Keys : Exists(Ledger, k)'
    BY DEF Known
  <2>2. \A k \in Keys : View(t)'.invoice[k] = invoice'[k]
    BY <2>1 DEF View
  <2> QED BY <2>1, <2>2 DEF AllKnown, Exists, Ledger
<1>4. /\ L.invoice = invoice /\ L.posted = posted /\ M.invoice = invoice' /\ M.posted = posted'
      /\ View(t).posted = posted \cup x.wrote /\ View(t)'.posted = posted' \cup x.wrote
  BY DEF Ledger, View
<1> HIDE DEF L, M
<1>5. \A k \in Keys : k \in x.rows => SameOn(L, M, k)
  BY <1>4 DEF SameOn
<1>6. \A k \in Keys : k \in x.rows => SameOn(View(t), View(t)', k)
  BY <1>1, <1>3, <1>4 DEF SameOn, On
<1>7. ASSUME x.by = "import", x.phase = "returned"
      PROVE  AsRefreshed(x, WithBooks(x.books)', status', content')
  <2> DEFINE A == WithBooks(x.books)
             B == WithBooks(x.books)'
  <2>1. AsRefreshed(x, A, status, content)
    BY <1>7 DEF Follows, Following
  <2>2. /\ \A k \in Keys : A.invoice[k] = IF k \in DOMAIN x.books THEN x.books[k] ELSE invoice[k]
        /\ \A k \in Keys : B.invoice[k] = IF k \in DOMAIN x.books THEN x.books[k] ELSE invoice'[k]
        /\ A.posted = posted /\ B.posted = posted'
    BY DEF WithBooks, Ledger
  <2>3. \A k \in DOMAIN x.books : x.books[k].source # "none"
    BY <1>7 DEF OInv, Watches
  <2> HIDE DEF A, B, x
  <2>4. AllKnown(A) /\ AllKnown(B)
    BY <1>1, <1>2, <1>4, <2>2, <2>3 DEF AllKnown, Exists
  <2>5. \A k \in Keys : k \in x.rows => SameOn(A, B, k)
    BY <2>2 DEF SameOn, x
  <2>6. ASSUME NEW p \in DOMAIN x.refreshed
        PROVE  /\ p \in Payments /\ status'[p] = "pending_review" /\ KeysOf(content'[p]) \subseteq x.rows
               /\ x.refreshed[p] = FlagsOf(B, p, content'[p])
    <3>1. /\ p \in Payments /\ status[p] = "pending_review" /\ KeysOf(content[p]) \subseteq x.rows
          /\ x.refreshed[p] = FlagsOf(A, p, content[p])
      BY <2>1 DEF AsRefreshed
    <3>2. status'[p] = status[p] /\ content'[p] = content[p]
      BY <1>7 DEF x
    <3>3. content[p] \in Seq(Line)
      BY <3>1 DEF TInv, TypeOK
    <3> DEFINE lines == content[p]
    <3>4. lines \in Seq(Line) /\ KeysOf(lines) \subseteq x.rows BY <3>1, <3>3
    <3>5. KeysOf(lines) \subseteq Keys BY <3>3 DEF KeysOf, Line
    <3> HIDE DEF lines
    <3>6. \A k \in KeysOf(lines) : SameOn(A, B, k)
      BY <2>5, <3>4, <3>5
    <3>7. FlagsOf(A, p, lines) = FlagsOf(B, p, lines)
      BY <2>4, <3>4, <3>6, FlagsSame
    <3> QED BY <3>1, <3>2, <3>7 DEF lines
  <2>7. AsRefreshed(x, B, status', content')
    BY <2>6 DEF AsRefreshed
  <2> QED BY <2>7 DEF B
<1>8. ASSUME x.by = "record" PROVE AsRecorded(x, M, content')
  <2>1. AsRecorded(x, L, content) /\ content'[x.payment] = content[x.payment]
    BY <1>8 DEF Follows, Following, L
  <2>2. PostsOf(L, x.payment, x.lines) = PostsOf(M, x.payment, x.lines)
    BY <1>1, <1>2, OtherSame DEF L
  <2> QED BY <2>1, <2>2 DEF AsRecorded
<1>9. ASSUME x.by \in {"route", "edit", "use"}
      PROVE  /\ \A n \in 1..(x.nth - 1) : AsDecided(x, n, M)
             /\ x.phase = "returned" => x.nth = Len(x.payments) + 1
             /\ x.phase # "returned" => Scanned(x, View(t)')
  <2>1. /\ \A n \in 1..(x.nth - 1) : AsDecided(x, n, L)
        /\ x.phase = "returned" => x.nth = Len(x.payments) + 1
        /\ x.phase # "returned" => Scanned(x, View(t))
    BY <1>9 DEF Follows, Following, L
  <2>2. Checks(t)
    BY <1>9 DEF TInv, SessionOK, Records, Imports
  <2>3. ASSUME NEW n \in 1..(x.nth - 1) PROVE AsDecided(x, n, M)
    <3>1. AsDecided(x, n, L) BY <2>1
    <3>2. x.lines[x.payments[n]] \in Seq(Line)
      <4>1. x.payments \in Seq(Payments) /\ x.nth \in 1..(Len(x.payments) + 1) BY <2>2 DEF Checks
      <4>2. n \in DOMAIN x.payments
        <5> HIDE DEF x
        <5> QED BY <4>1
      <4> QED BY <2>2, <4>2 DEF Checks
    <3> HIDE DEF x
    <3> QED BY <1>1, <1>2, <1>5, <3>1, <3>2, DecidedKeeps DEF L
  <2>4. ASSUME x.phase # "returned" PROVE Scanned(x, View(t)')
    <3>1. FormIn(x) \in Seq(Line) /\ x.at \in Nat \ {0}
      <4>1. FormOf(t) \in Seq(Line) BY <2>2, <2>4, LineIsOfForm
      <4>2. FormIn(x) = FormOf(t) BY DEF FormIn, Paying, FormOf, Current
      <4> QED BY <2>2, <4>1, <4>2 DEF Checks
    <3>2. Counting(x, View(t))
      BY <1>9, <2>4 DEF OInv, Watches
    <3>3. Scanned(x, View(t))
      BY <2>1, <2>4
    <3> HIDE DEF x
    <3> QED BY <1>1, <1>3, <1>6, <3>1, <3>2, <3>3, ScannedKeeps
  <2> QED BY <2>1, <2>3, <2>4
<1> DEFINE V == View(t)'
           W == WithBooks(x.books)'
<1>10. Following(x, M, V, W, status', content') => Follows(t)'
  BY DEF Follows, M
<1> HIDE DEF x, M, V, W
<1>11. Following(x, M, V, W, status', content')
  BY <1>7, <1>8, <1>9 DEF Following, V, W
<1> QED BY <1>10, <1>11

\* A step of one session that leaves the tables alone.
LEMMA OneFollow ==
  ASSUME TInv, OInv, RInv, Loads = Keys, NEW s \in Sessions, NEW value, Becomes(s, value),
         UNCHANGED tables, value.phase # "idle" => Follows(s)'
  PROVE  RInv'
<1>1. session'[s] = value /\ \A t \in Sessions \ {s} : session'[t] = session[t]
  BY DEF Becomes, TInv
<1>2. Ledger' = Ledger /\ invoice' = invoice /\ posted' = posted /\ status' = status /\ content' = content
  BY DEF Ledger, tables
<1>3. Loads \subseteq Known(Ledger)'
  BY <1>2 DEF OInv, Known, Exists
<1>4. ASSUME NEW t \in Sessions \ {s}, Busy(t)' PROVE Follows(t)'
  <2>1. session'[t] = session[t] /\ Busy(t) BY <1>1, <1>4 DEF Busy
  <2>2. Follows(t) BY <2>1 DEF RInv
  <2>3. /\ \A k \in Keys : k \in session[t].rows =>
             invoice'[k] = invoice[k] /\ On(posted', k) = On(posted, k)
        /\ session[t].by = "record" => content'[session[t].payment] = content[session[t].payment]
        /\ session[t].by = "import" /\ session[t].phase = "returned" =>
             \A p \in DOMAIN session[t].refreshed : status'[p] = status[p] /\ content'[p] = content[p]
    BY <1>2
  <2> QED BY <1>3, <2>1, <2>2, <2>3, FollowKeeps
<1>5. Busy(s)' => Follows(s)'
  BY <1>1 DEF Busy
<1> QED BY <1>4, <1>5 DEF RInv

LEMMA AbortFollows ==
  ASSUME TInv, OInv, RInv, Loads = Keys, NEW s \in Sessions, Abort(s)
  PROVE  RInv'
<1>1. Becomes(s, Idle) /\ UNCHANGED tables /\ Idle.phase = "idle"
  BY DEF Abort, Idle
<1> QED BY <1>1, OneFollow

\* A check that has not begun has found nothing.
LEMMA FreshScanned ==
  ASSUME NEW x, NEW L, NEW M, x.at = 1, x.check = FreshCheck(M), FormIn(x) \in Seq(Line)
  PROVE  Scanned(x, L)
<1> DEFINE o == Ordered(FormIn(x))
<1>1. o \in Seq(DOMAIN FormIn(x))
  BY OrderedAreOfLines
<1>2. x.at - 1 = 0 /\ 0 <= Len(o)
  <2> HIDE DEF o
  <2> QED BY <1>1
<1>3. Scan(L, Paying(x), FormIn(x), 0) = FreshCheck(L)
  BY ScanIs
<1>4. SameCheck(FreshCheck(M), FreshCheck(L))
  BY DEF SameCheck, FreshCheck
<1> QED BY <1>2, <1>3, <1>4 DEF Scanned

\* What a session is at is a payment with a form.
LEMMA ChecksForm ==
  ASSUME NEW x, x.payments \in Seq(Payments), x.nth \in Nat \ {0}, x.nth <= Len(x.payments),
         \A n \in DOMAIN x.payments : x.lines[x.payments[n]] \in Seq(Line)
  PROVE  FormIn(x) \in Seq(Line) /\ x.nth \in DOMAIN x.payments
<1>1. x.nth \in DOMAIN x.payments
  OBVIOUS
<1> QED BY <1>1 DEF FormIn, Paying

-----------------------------------------------------------------------------
(* Sessions that begin follow the ledger.                                   *)

LEMMA StartsFollowing ==
  ASSUME TInv, OInv, RInv, TInv', Loads = Keys, NEW s \in Sessions, NEW by \in {"route", "edit", "use"},
         NEW ps, NEW lines, NEW approve, NEW shown, Starts(s, by, ps, lines, approve, shown)
  PROVE  RInv'
<1> DEFINE x == [phase |-> "checking", by |-> by, payments |-> ps, lines |-> lines,
                 approve |-> approve, shown |-> shown, nth |-> 1, at |-> 1,
                 check |-> FreshCheck(Ledger), rows |-> {}, keys |-> {}, exts |-> {},
                 decided |-> Nothing, wrote |-> {}, opened |-> Nothing]
<1>1. Becomes(s, x) /\ UNCHANGED tables
  BY DEF Starts
<1>2. x.phase = "checking" /\ x.by = by /\ x.nth = 1 /\ x.at = 1 /\ x.check = FreshCheck(Ledger)
  OBVIOUS
<1> HIDE DEF x
<1>3. session'[s] = x
  BY <1>1 DEF Becomes, TInv
<1>4. Checks(s)'
  BY <1>2, <1>3 DEF TInv, SessionOK, Busy, Records, Imports
<1>5. FormIn(x) \in Seq(Line)
  <2>1. /\ x.payments \in Seq(Payments) /\ x.nth \in Nat \ {0} /\ x.nth <= Len(x.payments)
        /\ \A n \in DOMAIN x.payments : x.lines[x.payments[n]] \in Seq(Line)
    BY <1>2, <1>3, <1>4 DEF Checks
  <2> QED BY <2>1, ChecksForm
<1>6. Scanned(x, View(s)')
  BY <1>2, <1>5, FreshScanned
<1>7. \A n : n \notin 1..(x.nth - 1)
  BY <1>2
<1> DEFINE L == Ledger'
           V == View(s)'
           W == WithBooks(session[s].books)'
<1>8. Following(x, L, V, W, status', content') => Follows(s)'
  BY <1>2, <1>3 DEF Follows
<1> HIDE DEF L, V, W
<1>9. Following(x, L, V, W, status', content')
  BY <1>2, <1>6, <1>7 DEF Following, V
<1> QED BY <1>1, <1>8, <1>9, OneFollow

LEMMA BeginRouteFollows ==
  ASSUME TInv, OInv, RInv, TInv', Loads = Keys, NEW w \in Workers, BeginRoute(w)
  PROVE  RInv'
<1>1. \E ps, lines : Starts(w, "route", ps, lines, TRUE, {})
  BY DEF BeginRoute
<1>2. PICK ps, lines : Starts(w, "route", ps, lines, TRUE, {})
  BY <1>1
<1>3. w \in Sessions BY DEF Sessions
<1> QED BY <1>2, <1>3, StartsFollowing

LEMMA BeginEditFollows ==
  ASSUME TInv, OInv, RInv, TInv', Loads = Keys, NEW r \in Requests, BeginEdit(r)
  PROVE  RInv'
<1>1. PICK p \in Payments : \E form \in Forms[p] : \E by \in {"edit", "use"}, approve \in BOOLEAN :
        Starts(r, by, <<p>>, [q \in {p} |-> form], approve, flags[p])
  BY DEF BeginEdit
<1>2. PICK form \in Forms[p] : \E by \in {"edit", "use"}, approve \in BOOLEAN :
        Starts(r, by, <<p>>, [q \in {p} |-> form], approve, flags[p])
  BY <1>1
<1>3. PICK by \in {"edit", "use"}, approve \in BOOLEAN :
        Starts(r, by, <<p>>, [q \in {p} |-> form], approve, flags[p])
  BY <1>2
<1> DEFINE ps == <<p>>
           lines == [q \in {p} |-> form]
           shown == flags[p]
<1>4. r \in Sessions /\ by \in {"route", "edit", "use"}
  BY DEF Sessions
<1>5. Starts(r, by, ps, lines, approve, shown)
  BY <1>3
<1> HIDE DEF ps, lines, shown
<1> QED BY <1>4, <1>5, StartsFollowing

LEMMA BeginRecordFollows ==
  ASSUME TInv, OInv, RInv, Loads = Keys, NEW r \in Requests, BeginRecord(r)
  PROVE  RInv'
<1>1. PICK p \in Historical :
        /\ Becomes(r, [phase |-> "recording", by |-> "record", payment |-> p,
                       lines |-> content[p], rows |-> {}, keys |-> {}, exts |-> {},
                       decided |-> Nothing, wrote |-> {}, opened |-> Nothing])
        /\ UNCHANGED tables
  BY DEF BeginRecord
<1> DEFINE x == [phase |-> "recording", by |-> "record", payment |-> p,
                 lines |-> content[p], rows |-> {}, keys |-> {}, exts |-> {},
                 decided |-> Nothing, wrote |-> {}, opened |-> Nothing]
<1>2. x.phase = "recording" /\ x.by = "record" /\ x.payment = p /\ x.lines = content[p]
  OBVIOUS
<1>3. Becomes(r, x) BY <1>1
<1> HIDE DEF x
<1>4. r \in Sessions BY DEF Sessions
<1>5. session'[r] = x
  BY <1>3, <1>4 DEF Becomes, TInv
<1> DEFINE L == Ledger'
           V == View(r)'
           W == WithBooks(session[r].books)'
<1>6. Following(x, L, V, W, status', content') => Follows(r)'
  BY <1>2, <1>5 DEF Follows
<1>7. content' = content BY <1>1 DEF tables
<1> HIDE DEF L, V, W
<1>8. AsRecorded(x, L, content')
  BY <1>2, <1>7 DEF AsRecorded
<1>9. Following(x, L, V, W, status', content')
  BY <1>2, <1>8 DEF Following
<1> QED BY <1>1, <1>3, <1>4, <1>6, <1>9, OneFollow

LEMMA BeginImportFollows ==
  ASSUME TInv, OInv, RInv, Loads = Keys, NEW r \in Requests, BeginImport(r)
  PROVE  RInv'
<1>1. PICK f \in Files :
        /\ Becomes(r, [phase |-> "importing", by |-> "import",
                       books |-> [k \in DOMAIN f |-> FromBooks(k, f[k])],
                       created |-> {k \in DOMAIN f : ~Exists(Ledger, k)},
                       refreshed |-> <<>>, rows |-> {}, keys |-> {}, exts |-> {}])
        /\ UNCHANGED tables
  BY DEF BeginImport
<1> DEFINE x == [phase |-> "importing", by |-> "import",
                 books |-> [k \in DOMAIN f |-> FromBooks(k, f[k])],
                 created |-> {k \in DOMAIN f : ~Exists(Ledger, k)},
                 refreshed |-> <<>>, rows |-> {}, keys |-> {}, exts |-> {}]
<1>2. x.phase = "importing" /\ x.by = "import"
  OBVIOUS
<1>3. Becomes(r, x) BY <1>1
<1> HIDE DEF x
<1>4. r \in Sessions BY DEF Sessions
<1>5. session'[r] = x
  BY <1>3, <1>4 DEF Becomes, TInv
<1> DEFINE L == Ledger'
           V == View(r)'
           W == WithBooks(session[r].books)'
<1>6. Following(x, L, V, W, status', content') => Follows(r)'
  BY <1>5 DEF Follows
<1> HIDE DEF L, V, W
<1>7. Following(x, L, V, W, status', content')
  BY <1>2 DEF Following
<1> QED BY <1>1, <1>3, <1>4, <1>6, <1>7, OneFollow

LEMMA ImportRowsFollows ==
  ASSUME TInv, OInv, RInv, Loads = Keys, NEW r \in Requests, ImportRows(r)
  PROVE  RInv'
<1> DEFINE books == session[r].books
           L == WithBooks(books)
           pending == {p \in Payments : status[p] = "pending_review"}
           stale == {p \in pending : FlagsOf(L, p, content[p]) # flags[p]}
           ks == (UNION {{content[p][i].key : i \in DOMAIN content[p]} : p \in pending}) \ {NoKey}
           rows == DOMAIN books \cup (ks \cap Known(L))
           again == [p \in stale |-> FlagsOf(L, p, content[p])]
           x == [session[r] EXCEPT
                   !.phase = "returned", !.rows = rows, !.keys = ks \ Known(L), !.exts = stale,
                   !.refreshed = again]
<1>1. session[r].phase = "importing" /\ Becomes(r, x) /\ UNCHANGED tables
  BY DEF ImportRows
<1>2. r \in Sessions BY DEF Sessions
<1>3. Busy(r) /\ Imports(r) /\ Watches(r)
  BY <1>1, <1>2 DEF TInv, SessionOK, Busy, Checks, Records, OInv
<1>4. \A p \in pending : KeysOf(content[p]) \subseteq ks
  BY DEF KeysOf
<1>5. \A p \in pending : KeysOf(content[p]) \subseteq Keys
  BY DEF KeysOf, Line, TInv, TypeOK
<1>6. Known(L) = Keys
  <2>1. \A k \in Keys : L.invoice[k] = IF k \in DOMAIN books THEN books[k] ELSE invoice[k]
    BY DEF WithBooks, Ledger
  <2>2. \A k \in DOMAIN books : books[k].source # "none"
    BY <1>3 DEF Watches, Imports
  <2>3. \A k \in Keys : invoice[k].source # "none"
    BY DEF OInv, Known, Exists, Ledger
  <2> HIDE DEF books, L
  <2> QED BY <2>1, <2>2, <2>3 DEF Known, Exists
<1>7. \A p \in stale : /\ p \in Payments /\ status[p] = "pending_review" /\ KeysOf(content[p]) \subseteq rows
                       /\ again[p] = FlagsOf(L, p, content[p])
  <2>1. \A p \in stale : p \in pending /\ p \in Payments /\ status[p] = "pending_review" OBVIOUS
  <2>2. \A p \in stale : again[p] = FlagsOf(L, p, content[p]) OBVIOUS
  <2> HIDE DEF stale, pending, ks, L, books, again
  <2> QED BY <1>4, <1>5, <1>6, <2>1, <2>2
<1>8. DOMAIN again = stale
  OBVIOUS
<1> HIDE DEF rows, stale, ks, again, pending
<1>9. x.phase = "returned" /\ x.rows = rows /\ x.by = "import" /\ x.books = books /\ x.refreshed = again
  BY <1>3 DEF Imports, ImportFields
<1> HIDE DEF x
<1>10. session'[r] = x
  BY <1>1, <1>2 DEF Becomes, TInv
<1>11. AsRefreshed(x, L, status', content')
  <2>1. status' = status /\ content' = content BY <1>1 DEF tables
  <2> HIDE DEF L, books
  <2> QED BY <1>7, <1>8, <1>9, <2>1 DEF AsRefreshed
<1>12. WithBooks(session[r].books)' = L
  <2>1. session'[r].books = books /\ invoice' = invoice /\ posted' = posted BY <1>1, <1>9, <1>10 DEF tables
  <2> HIDE DEF books
  <2> QED BY <2>1 DEF WithBooks, Ledger
<1> DEFINE M == Ledger'
           V == View(r)'
<1>13. Following(x, M, V, L, status', content') => Follows(r)'
  BY <1>10, <1>12 DEF Follows
<1> HIDE DEF L, M, V
<1>14. Following(x, M, V, L, status', content')
  BY <1>9, <1>11 DEF Following
<1> QED BY <1>1, <1>2, <1>13, <1>14, OneFollow

-----------------------------------------------------------------------------
(* Sessions that check and decide follow the ledger.                        *)

\* One line more is checked as a check of the ledger does it.
LEMMA CheckedScans ==
  ASSUME NEW x, NEW L, AllKnown(L), InForm(x, L), Counting(x, L), Scanned(x, L),
         x.at <= Len(Ordered(FormIn(x))), NEW found \in BOOLEAN,
         found = HasInvoice(L, FormIn(x)[Ordered(FormIn(x))[x.at]].key),
         NEW y, ChecksLine(x, y, L, found)
  PROVE  Scanned(y, L)
<1> DEFINE o == Ordered(FormIn(x))
           at == x.at
           p == Paying(x)
           lines == FormIn(x)
           c == Scan(L, p, lines, at - 1)
           i == o[at]
           line == lines[i]
<1>1. lines \in Seq(Line) /\ o \in Seq(DOMAIN lines)
  BY OrderedAreOfLines DEF InForm
<1>2. at \in 1..Len(o) /\ at - 1 \in 0..Len(o) /\ (at + 1) - 1 = at /\ DOMAIN o = 1..Len(o)
  <2>1. at \in Nat \ {0} BY DEF InForm
  <2>2. Len(o) \in Nat /\ DOMAIN o = 1..Len(o)
    <3> HIDE DEF o, lines
    <3> QED BY <1>1
  <2>3. at <= Len(o) OBVIOUS
  <2> HIDE DEF at, o
  <2> QED BY <2>1, <2>2, <2>3
<1>3. Paying(y) = p /\ FormIn(y) = lines /\ y.at = at + 1
  BY DEF ChecksLine, Paying, FormIn
<1>4. y.check = CheckLine(L, found, x.check, p, i, line)
  BY DEF ChecksLine
<1>5. line \in Line
  <2> HIDE DEF o, at, lines
  <2> QED BY <1>1, <1>2
<1>6. CheckOK(x.check) /\ SameCheck(x.check, c) /\ found = HasInvoice(L, line.key)
  BY DEF Counting, Scanned
<1>7. CheckOK(c)
  <2>1. \A m \in 1..(at - 1) : lines[o[m]].key \in Keys => SameOn(L, L, lines[o[m]].key)
    BY DEF SameOn
  <2> HIDE DEF at
  <2> QED BY <1>1, <1>2, <2>1, ScanSame
<1>8. Scan(L, p, lines, at) = Checking(L, p, lines, c, o[at])
  <2>1. at \in 1..Len(Ordered(lines)) /\ o = Ordered(lines) BY <1>2
  <2> HIDE DEF at, lines, o
  <2> QED BY <1>1, <2>1, ScanIs
<1>9. Scan(L, p, lines, at) = CheckLine(L, found, c, p, i, line)
  BY <1>6, <1>8 DEF Checking
<1>10. o = Ordered(lines)
  OBVIOUS
<1> HIDE DEF line, i, c, lines, at, p, o
<1>11. (found => line.key \in Keys) /\ (~found => line.key = NoKey)
  <2>1. line.key \in Keys \cup {NoKey} BY <1>5 DEF Line
  <2> QED BY <1>6, <2>1, RulesAssumption DEF HasInvoice, AllKnown
<1>12. SameCheck(CheckLine(L, found, x.check, p, i, line), CheckLine(L, found, c, p, i, line))
  <2>1. found => SameOn(L, L, line.key) BY DEF SameOn
  <2> QED BY <1>5, <1>6, <1>7, <1>11, <2>1, CheckLineSame
<1>13. y.at - 1 = at /\ at <= Len(o)
  BY <1>2, <1>3
<1>14. SameCheck(y.check, Scan(L, p, lines, at))
  BY <1>4, <1>9, <1>12
<1> QED BY <1>3, <1>10, <1>13, <1>14 DEF Scanned

LEMMA CheckedFollows ==
  ASSUME TInv, PInv, OInv, RInv, Loads = Keys, NEW s \in Sessions, session[s].phase = "checking",
         LineLeft(s), NEW found \in BOOLEAN, NEW x, Becomes(s, x), UNCHANGED tables, GoesOn(s, x),
         x.phase = "checking", x.at = session[s].at + 1,
         x.check = CheckLine(View(s), found, session[s].check, Current(s), LineNo(s), LineOf(s)),
         x.rows = session[s].rows \cup IF found THEN {LineOf(s).key} ELSE {},
         found <=> Found(s)
  PROVE  RInv'
<1> DEFINE y == session[s]
           L == View(s)
<1>1. Busy(s) /\ Checks(s)
  BY PhaseTells
<1>2. InForm(y, L) /\ Paying(y) = Current(s) /\ FormIn(y) = FormOf(s) /\ Counting(y, L)
  BY <1>1, CheckingInForm
<1>3. /\ y.at <= Len(Ordered(FormIn(y)))
      /\ LineNo(s) = Ordered(FormIn(y))[y.at] /\ LineOf(s) = FormIn(y)[LineNo(s)]
  BY <1>2 DEF LineLeft, LineNo, LineOf
<1>4. /\ x.by = y.by /\ x.payments = y.payments /\ x.lines = y.lines /\ x.nth = y.nth
      /\ x.decided = y.decided /\ x.wrote = y.wrote /\ x.opened = y.opened
  BY DEF GoesOn
<1>5. ChecksLine(y, x, L, found)
  BY <1>2, <1>3, <1>4 DEF ChecksLine
<1>6. found = HasInvoice(L, FormIn(y)[Ordered(FormIn(y))[y.at]].key)
  <2>1. Found(s) <=> HasInvoice(L, LineOf(s).key)
    BY DEF Found, HasInvoice
  <2>2. found <=> HasInvoice(L, LineOf(s).key)
    BY <2>1
  <2>3. HasInvoice(L, LineOf(s).key) \in BOOLEAN
    BY DEF HasInvoice
  <2> HIDE DEF L, y
  <2>4. found = HasInvoice(L, LineOf(s).key)
    BY <2>2, <2>3
  <2> QED BY <1>3, <2>4
<1>7. session'[s] = x
  BY DEF Becomes, TInv
<1>8. View(s)' = L
  BY <1>4, <1>7, SameView
<1>9. AllKnown(L)
  BY AllAreKnown DEF OInv
<1>10. Follows(s) /\ y.by \in {"route", "edit", "use"}
  BY <1>1 DEF RInv, Checks
<1>11. Scanned(y, L) /\ \A n \in 1..(y.nth - 1) : AsDecided(y, n, Ledger)
  BY <1>10 DEF Follows, Following
<1>12. y.rows \subseteq x.rows
  OBVIOUS
<1> DEFINE M == Ledger'
           W == WithBooks(session[s].books)'
<1>13. Following(x, M, L, W, status', content') => Follows(s)'
  BY <1>1, <1>4, <1>7, <1>8 DEF Follows, Checks
<1>14. M = Ledger BY DEF Ledger, tables
<1> HIDE DEF y, L, M, W
<1>15. Scanned(x, L)
  BY <1>2, <1>3, <1>5, <1>6, <1>9, <1>11, CheckedScans
<1>16. ASSUME NEW n \in 1..(x.nth - 1) PROVE AsDecided(x, n, M)
  <2>1. AsDecided(y, n, Ledger) BY <1>4, <1>11
  <2>2. LedgerBefore(x, n, Ledger) = LedgerBefore(y, n, Ledger) BY <1>4 DEF LedgerBefore, Before
  <2> QED BY <1>4, <1>12, <1>14, <2>1, <2>2 DEF AsDecided
<1>17. Following(x, M, L, W, status', content')
  BY <1>4, <1>10, <1>15, <1>16 DEF Following
<1> QED BY <1>13, <1>17, OneFollow

LEMMA CheckFoundFollows ==
  ASSUME TInv, PInv, OInv, RInv, Loads = Keys, NEW s \in Sessions, CheckFound(s)
  PROVE  RInv'
<1> DEFINE y == Checked(s, TRUE)
           x == [y EXCEPT !.rows = @ \cup {LineOf(s).key}]
<1>1. /\ session[s].phase = "checking" /\ LineLeft(s) /\ Found(s)
      /\ Becomes(s, x) /\ UNCHANGED tables
  BY DEF CheckFound
<1>2. Busy(s) /\ Checks(s)
  BY <1>1, PhaseTells
<1>3. GoesOn(s, y)
  BY <1>2, CheckedGoesOn
<1>4. /\ DOMAIN y = CheckFields /\ y.phase = "checking" /\ y.at = session[s].at + 1
      /\ y.rows = session[s].rows
      /\ y.check = CheckLine(View(s), TRUE, session[s].check, Current(s), LineNo(s), LineOf(s))
  BY <1>2, CheckedIs DEF Checks
<1> HIDE DEF y
<1>5. /\ DOMAIN x = CheckFields /\ x.rows = y.rows \cup {LineOf(s).key}
      /\ \A f \in CheckFields \ {"rows"} : x[f] = y[f]
  BY <1>4 DEF CheckFields
<1> HIDE DEF x
<1>6. GoesOn(s, x)
  BY <1>3, <1>5 DEF GoesOn, CheckFields
<1>7. x.phase = "checking" /\ x.at = session[s].at + 1
  BY <1>4, <1>5 DEF CheckFields
<1>8. x.check = CheckLine(View(s), TRUE, session[s].check, Current(s), LineNo(s), LineOf(s))
  BY <1>4, <1>5 DEF CheckFields
<1>9. x.rows = session[s].rows \cup IF TRUE THEN {LineOf(s).key} ELSE {}
  BY <1>4, <1>5
<1> QED BY <1>1, <1>6, <1>7, <1>8, <1>9, CheckedFollows

LEMMA CheckLooseFollows ==
  ASSUME TInv, PInv, OInv, RInv, Loads = Keys, NEW s \in Sessions, CheckLoose(s)
  PROVE  RInv'
<1> DEFINE x == Checked(s, FALSE)
<1>1. /\ session[s].phase = "checking" /\ LineLeft(s) /\ ~Found(s)
      /\ Becomes(s, x) /\ UNCHANGED tables
  BY DEF CheckLoose
<1>2. Busy(s) /\ Checks(s)
  BY <1>1, PhaseTells
<1>3. GoesOn(s, x)
  BY <1>2, CheckedGoesOn
<1>4. /\ x.phase = "checking" /\ x.at = session[s].at + 1 /\ x.rows = session[s].rows
      /\ x.check = CheckLine(View(s), FALSE, session[s].check, Current(s), LineNo(s), LineOf(s))
  BY <1>2, CheckedIs DEF Checks
<1> HIDE DEF x
<1>5. x.rows = session[s].rows \cup IF FALSE THEN {LineOf(s).key} ELSE {}
  BY <1>4
<1> QED BY <1>1, <1>3, <1>4, <1>5, CheckedFollows

\* No look-up misses when all invoices are in the books.
LEMMA NoneMissed ==
  ASSUME TInv, OInv, Loads = Keys, NEW s \in Sessions
  PROVE  ~FindMissing(s) /\ ~LockMissing(s)
<1>1. ASSUME session[s].phase \in {"checking", "waiting"}, LineLeft(s), LineOf(s).kind = "invoice"
      PROVE  LineOf(s).key \in Keys
  <2>1. Busy(s) /\ Checks(s) BY <1>1, PhaseTells
  <2>2. LineOf(s) \in Line BY <1>1, <2>1, LineIsOfForm
  <2> QED BY <1>1, <2>2 DEF Line
<1>2. ~FindMissing(s)
  <2> SUFFICES ASSUME FindMissing(s) PROVE FALSE
    OBVIOUS
  <2>1. LineOf(s).key \in Keys /\ ~Found(s)
    BY <1>1 DEF FindMissing
  <2>2. AllKnown(View(s)) BY AllAreKnown DEF OInv
  <2> QED BY <2>1, <2>2, RulesAssumption DEF Found, AllKnown
<1>3. ~LockMissing(s)
  <2> SUFFICES ASSUME LockMissing(s) PROVE FALSE
    OBVIOUS
  <2>1. session[s].phase = "waiting" BY DEF LockMissing
  <2>2. Busy(s) /\ Checks(s) BY <2>1, PhaseTells
  <2>3. LineOf(s).key \in Keys BY <1>1, <2>1, <2>2 DEF Checks
  <2>4. LineOf(s).key \notin Loads BY <2>1, <2>2 DEF OInv, Watches, Checks
  <2> QED BY <2>3, <2>4
<1> QED BY <1>2, <1>3

LEMMA WritesExactly ==
  ASSUME NEW s, NEW p, NEW d, NEW rows, NEW y, Decides(y, s, p, d, rows),
         NoRows(View(s).posted, p), \A r \in rows : r.payment = p
  PROVE  y.wrote = session[s].wrote \cup rows
<1> DEFINE L == View(s)
           after == Posted(L, rows)
<1>1. Fresh(L, rows) = rows /\ \A r \in rows : r \notin L.posted
  BY DEF Fresh, NoRows
<1>2. after.posted = L.posted \cup rows
  BY <1>1 DEF Posted
<1>3. y.wrote = session[s].wrote \cup (after.posted \ L.posted)
  BY DEF Decides
<1> HIDE DEF L, after
<1> QED BY <1>1, <1>2, <1>3

\* With every line checked, what was found is what a check of the ledger finds.
LEMMA AllScanned ==
  ASSUME NEW x, NEW L, InForm(x, L), Scanned(x, L), ~(x.at <= Len(Ordered(FormIn(x))))
  PROVE  FlagsOf(L, Paying(x), FormIn(x)) = x.check.flags \cup OtherFlags(L, Paying(x), FormIn(x))
<1> DEFINE o == Ordered(FormIn(x))
           at == x.at
           p == Paying(x)
           lines == FormIn(x)
<1>1. lines \in Seq(Line) /\ at \in Nat \ {0} /\ ~(at <= Len(o)) /\ at - 1 <= Len(o)
  BY DEF InForm, Scanned
<1>2. Len(o) \in Nat
  <2>1. o \in Seq(DOMAIN lines) BY <1>1, OrderedAreOfLines
  <2> HIDE DEF o
  <2> QED BY <2>1
<1>3. at - 1 = Len(o)
  <2> HIDE DEF o, at
  <2> QED BY <1>1, <1>2
<1>4. SameCheck(x.check, Scan(L, p, lines, at - 1))
  BY DEF Scanned
<1>5. FlagsOf(L, p, lines) = OtherFlags(L, p, lines) \cup Scan(L, p, lines, Len(o)).flags
  BY <1>1, ScanIs
<1>6. x.check.flags = Scan(L, p, lines, Len(o)).flags
  <2> HIDE DEF o, at, lines, p
  <2> QED BY <1>3, <1>4 DEF SameCheck
<1> QED BY <1>5, <1>6

\* Session o decides d on the payment it is at.
DecidesOn(o, V, d, rows) ==
  /\ d.lines = FormIn(o) /\ d.status \in Outcomes(o.by)
  /\ d.flags = o.check.flags \cup OtherFlags(V, Paying(o), FormIn(o))
  /\ rows = IF d.status = "approved" THEN PostsOf(V, Paying(o), FormIn(o)) ELSE {}

LEMMA DecisionFollows ==
  ASSUME NEW o, NEW V, NEW L, AllKnown(V), AllKnown(L), \A k \in Keys : V.invoice[k] = L.invoice[k],
         V.posted = L.posted \cup o.wrote, InForm(o, V), Counting(o, V), Scanned(o, V), Loads = Keys,
         ~(o.at <= Len(Ordered(FormIn(o)))), o.by \in {"route", "edit", "use"},
         \A r \in o.wrote : \E m \in 1..(o.nth - 1) : r.payment = o.payments[m],
         \A m \in 1..(o.nth - 1) : o.payments[m] # Paying(o),
         NEW d, NEW rows, DecidesOn(o, V, d, rows),
         NEW x, x.payments = o.payments, x.lines = o.lines, x.by = o.by, x.rows = o.rows,
         x.wrote = o.wrote \cup rows, x.decided[Paying(o)] = d
  PROVE  AsDecided(x, o.nth, L)
<1> DEFINE p == Paying(o)
           form == FormIn(o)
           M == LedgerBefore(x, o.nth, L)
<1>1. p = x.payments[o.nth] /\ form = x.lines[p] /\ form \in Seq(Line) /\ p \in Payments
  BY DEF Paying, FormIn, InForm
<1>2. \A r \in rows : r.payment = p
  <2>1. \A r \in PostsOf(V, p, form) : r.payment = p BY <1>1, RowsAre
  <2> HIDE DEF p, form
  <2> QED BY <2>1 DEF DecidesOn, p, form
<1>3. Before(x, o.nth) = o.wrote
  <2>1. \A r \in o.wrote : r \in x.wrote /\ \E m \in 1..(o.nth - 1) : r.payment = x.payments[m]
    OBVIOUS
  <2>2. \A r \in x.wrote : (\E m \in 1..(o.nth - 1) : r.payment = x.payments[m]) => r \in o.wrote
    BY <1>2
  <2> QED BY <2>1, <2>2 DEF Before
<1>4. M.invoice = L.invoice /\ M.posted = V.posted
  BY <1>3 DEF LedgerBefore
<1> HIDE DEF M
<1>5. AllKnown(M) /\ \A k \in Keys : SameOn(V, M, k)
  BY <1>4 DEF AllKnown, Exists, SameOn
<1>6. KeysOf(form) \subseteq Keys
  <2> HIDE DEF form
  <2> QED BY <1>1 DEF KeysOf, Line
<1>7. FlagsOf(V, p, form) = FlagsOf(M, p, form)
  <2>1. \A k \in KeysOf(form) : SameOn(V, M, k) BY <1>5, <1>6
  <2> HIDE DEF form, p
  <2> QED BY <1>1, <1>5, <2>1, FlagsSame
<1>8. d.flags = FlagsOf(M, p, form)
  <2>1. FlagsOf(V, p, form) = o.check.flags \cup OtherFlags(V, p, form) BY AllScanned
  <2> QED BY <1>7, <2>1 DEF DecidesOn
<1>9. KeysOf(form) \subseteq o.rows
  <2>1. \A i \in DOMAIN form : i \in Behind(o) BY AllBehind
  <2>2. \A i \in DOMAIN form : form[i].key \in Keys => form[i].key \in o.rows
    BY <2>1, BehindLocked
  <2> HIDE DEF form
  <2> QED BY <1>6, <2>2 DEF KeysOf
<1>10. PostsOf(V, p, form) = PostsOf(L, p, form)
  BY OtherSame
<1>11. {r \in x.wrote : r.payment = p} = rows
  <2>1. \A r \in o.wrote : r.payment # p
    <3> HIDE DEF p
    <3> QED BY DEF p
  <2> QED BY <1>2, <2>1
<1>12. d.lines = form /\ d.status \in Outcomes(o.by)
       /\ rows = IF d.status = "approved" THEN PostsOf(V, p, form) ELSE {}
  BY DEF DecidesOn
<1>13. x.payments[o.nth] = p /\ x.decided[p] = d /\ x.lines[p] = form
  BY <1>1
<1> HIDE DEF p, form
<1>14. d.status \in IF x.by = "route" THEN {"approved", "pending_review"} ELSE {"approved", "kept"}
  BY <1>12 DEF Outcomes
<1> QED BY <1>8, <1>9, <1>10, <1>11, <1>12, <1>13, <1>14 DEF AsDecided, M

\* What was decided before stays as it was.
LEMMA DecidedStays ==
  ASSUME NEW o, NEW x, NEW L, NEW n, NEW p, NEW rows, AsDecided(o, n, L), o.payments[n] # p,
         \A m \in 1..(n - 1) : o.payments[m] # p, \A r \in rows : r.payment = p,
         x.payments = o.payments, x.lines = o.lines, x.by = o.by, x.rows = o.rows,
         x.wrote = o.wrote \cup rows, x.decided[o.payments[n]] = o.decided[o.payments[n]]
  PROVE  AsDecided(x, n, L)
<1>1. Before(x, n) = Before(o, n)
  BY DEF Before
<1>2. LedgerBefore(x, n, L) = LedgerBefore(o, n, L)
  BY <1>1 DEF LedgerBefore
<1>3. {r \in x.wrote : r.payment = o.payments[n]} = {r \in o.wrote : r.payment = o.payments[n]}
  OBVIOUS
<1> QED BY <1>2, <1>3 DEF AsDecided

LEMMA DecideFollows ==
  ASSUME TInv, PInv, OInv, RInv, TInv', Loads = Keys, NEW s \in Sessions, Decide(s)
  PROVE  RInv'
<1>1. /\ session[s].phase = "checking" /\ Busy(s) /\ Checks(s) /\ Current(s) \in Payments
      /\ UNCHANGED tables
  BY DecideIs
<1>2. PICK x, y, d, rows : DecidesNow(s, x, y, d, rows)
  BY DecideIs
<1>3. /\ session'[s] = x
      /\ x.by = session[s].by /\ x.payments = session[s].payments
      /\ x.lines = session[s].lines /\ x.nth = session[s].nth + 1
      /\ x.rows = session[s].rows /\ x.decided = y.decided /\ x.wrote = y.wrote
      /\ x.phase \in {"checking", "returned"}
  BY <1>1, <1>2, TurnsToNextIs
<1> DEFINE o == session[s]
           V == View(s)
           L == Ledger
           p == Current(s)
           ps == o.payments
           k == o.nth
<1>4. InForm(o, V) /\ Paying(o) = p /\ FormIn(o) = FormOf(s) /\ Counting(o, V)
  BY <1>1, CheckingInForm
<1>5. /\ Rests(s, x, d, rows) /\ Decides(y, s, p, d, rows) /\ RowsFor(p, d, rows)
      /\ TurnsToNext(s, x, y) /\ Becomes(s, x)
  BY <1>2 DEF DecidesNow
<1>6. \A r \in rows : r.payment = p
  BY <1>5 DEF RowsFor
<1>7. x.wrote = o.wrote \cup rows
  <2>1. NoRows(V.posted, p) BY <1>4 DEF InForm
  <2>2. y.wrote = o.wrote \cup rows BY <1>5, <1>6, <2>1, WritesExactly
  <2> QED BY <1>3, <2>2
<1>8. /\ o.by \in {"route", "edit", "use"} /\ WritesWhatItDecides(s) /\ Follows(s)
      /\ Done(s) = {ps[m] : m \in 1..(k - 1)} /\ p \notin Done(s)
  BY <1>1, CurrentIsUndone DEF PInv, RInv, Checks, Done
<1>9. \A m \in 1..(k - 1) : ps[m] # p /\ ps[m] \in DOMAIN o.decided
  BY <1>8 DEF WritesWhatItDecides
<1>10. \A r \in o.wrote : \E m \in 1..(k - 1) : r.payment = ps[m]
  BY <1>8 DEF WritesWhatItDecides
<1>11. x.decided[p] = d /\ \A q \in DOMAIN o.decided : q # p => x.decided[q] = o.decided[q]
  BY <1>3, <1>5 DEF Decides
<1>12. AllKnown(L) /\ AllKnown(V) /\ (\A key \in Keys : V.invoice[key] = L.invoice[key])
       /\ V.posted = L.posted \cup o.wrote
  <2>1. AllKnown(L) /\ AllKnown(V) /\ \A key \in Keys : V.invoice[key] = invoice[key]
    BY AllAreKnown DEF OInv
  <2>2. L.invoice = invoice /\ L.posted = posted /\ V.posted = posted \cup o.wrote
    BY DEF Ledger, View
  <2> HIDE DEF L, V
  <2> QED BY <2>1, <2>2
<1>13. /\ DecidesOn(o, V, d, rows) /\ ~(o.at <= Len(Ordered(FormIn(o))))
       /\ x.at = 1 /\ x.check = FreshCheck(V)
  BY <1>4, <1>5 DEF Rests, LineLeft, DecidesOn
<1>14. Scanned(o, V) /\ \A n \in 1..(k - 1) : AsDecided(o, n, L)
  BY <1>1, <1>8 DEF Follows, Following
<1>15. k \in Nat \ {0} /\ x.nth - 1 = k /\ (x.phase = "returned" => x.nth = Len(x.payments) + 1)
  <2>1. y.phase = "checking" BY <1>1, <1>5 DEF Decides, Checks, CheckFields, WriteFields
  <2>2. x.phase = IF o.nth = Len(o.payments) THEN "returned" ELSE y.phase BY <1>5 DEF TurnsToNext
  <2>3. o.nth \in Nat \ {0} BY <1>1 DEF Checks
  <2> QED BY <1>3, <2>1, <2>2, <2>3
<1>16. x.phase # "returned" => Scanned(x, V')
  <2> SUFFICES ASSUME x.phase # "returned" PROVE Scanned(x, V')
    OBVIOUS
  <2>1. Checks(s)'
    BY <1>3, <1>8 DEF TInv, SessionOK, Busy, Records, Imports
  <2>2. /\ x.payments \in Seq(Payments) /\ x.nth \in Nat \ {0} /\ x.nth <= Len(x.payments)
        /\ \A n \in DOMAIN x.payments : x.lines[x.payments[n]] \in Seq(Line)
    BY <1>3, <2>1 DEF Checks
  <2>3. FormIn(x) \in Seq(Line) BY <2>2, ChecksForm
  <2> QED BY <1>13, <2>3, FreshScanned
<1> DEFINE M == Ledger'
           W == WithBooks(session[s].books)'
           Z == V'
<1>17. Following(x, M, Z, W, status', content') => Follows(s)'
  BY <1>3, <1>8 DEF Follows
<1>18. M = L BY <1>1 DEF Ledger, tables
<1>19. x.payments = ps /\ x.lines = o.lines /\ x.by = o.by /\ x.rows = o.rows
  BY <1>3
<1>20. o.payments = ps /\ o.nth = k
  OBVIOUS
<1> HIDE DEF M, W, Z, L, V, p, k, ps, o
<1>21. AsDecided(x, k, L)
  <2>1. \A m \in 1..(o.nth - 1) : o.payments[m] # Paying(o) BY <1>4, <1>9, <1>20
  <2>2. \A r \in o.wrote : \E m \in 1..(o.nth - 1) : r.payment = o.payments[m] BY <1>10, <1>20
  <2>3. x.decided[Paying(o)] = d /\ x.payments = o.payments BY <1>4, <1>11, <1>19, <1>20
  <2>4. AsDecided(x, o.nth, L)
    BY <1>4, <1>7, <1>8, <1>12, <1>13, <1>14, <1>19, <2>1, <2>2, <2>3, DecisionFollows DEF o
  <2> QED BY <1>20, <2>4
<1>22. ASSUME NEW n \in 1..(k - 1) PROVE AsDecided(x, n, L)
  <2>1. AsDecided(o, n, L) /\ o.payments[n] # p BY <1>9, <1>14, <1>20
  <2>2. \A m \in 1..(n - 1) : m \in 1..(k - 1) BY <1>15
  <2>3. \A m \in 1..(n - 1) : o.payments[m] # p BY <1>9, <1>20, <2>2
  <2>4. x.decided[o.payments[n]] = o.decided[o.payments[n]] BY <1>9, <1>11, <1>20
  <2> QED BY <1>6, <1>7, <1>19, <1>20, <2>1, <2>3, <2>4, DecidedStays
<1>23. \A n \in 1..(x.nth - 1) : AsDecided(x, n, M)
  <2>1. \A n \in 1..k : n = k \/ n \in 1..(k - 1) BY <1>15
  <2> QED BY <1>15, <1>18, <1>21, <1>22, <2>1
<1>24. Following(x, M, Z, W, status', content')
  <2>1. x.by # "import" /\ x.by # "record" BY <1>8, <1>19
  <2>2. x.phase # "returned" => Scanned(x, Z) BY <1>16 DEF Z
  <2> QED BY <1>15, <1>23, <2>1, <2>2 DEF Following
<1> QED BY <1>1, <1>5, <1>17, <1>24, OneFollow

LEMMA PostRecordedFollows ==
  ASSUME TInv, PInv, OInv, RInv, Loads = Keys, NEW r \in Requests, PostRecorded(r)
  PROVE  RInv'
<1>1. /\ r \in Sessions /\ session[r].phase = "recording"
      /\ Busy(r) /\ Records(r) /\ UNCHANGED tables
  BY PostRecordedIs
<1>2. PICK x, y, d, rows : RecordsNow(r, x, y, d, rows)
  BY PostRecordedIs
<1>3. /\ session'[r] = x
      /\ x.phase = "returned" /\ x.by = "record" /\ x.payment = session[r].payment
      /\ x.lines = session[r].lines /\ x.decided = y.decided /\ x.wrote = y.wrote
  BY <1>1, <1>2, RecordsNowIs
<1> DEFINE p == session[r].payment
           L == Ledger
<1>4. /\ Decides(y, r, p, d, rows) /\ RowsFor(p, d, rows) /\ Becomes(r, x)
      /\ d.status = "already_recorded" /\ d.lines = session[r].lines /\ rows = PostsOf(L, p, d.lines)
  BY <1>2 DEF RecordsNow
<1>5. WritesWhatItDecides(r) /\ IsCurrent(r) /\ PostedAsApproved
  BY <1>1 DEF PInv, Records
<1>6. session[r].wrote = {}
  <2>1. Done(r) = {} BY <1>1 DEF Done, Records
  <2> QED BY <1>5, <2>1 DEF WritesWhatItDecides
<1>7. NoRows(View(r).posted, p)
  <2>1. p \in About(r) /\ p \in Payments BY <1>1 DEF About, Records
  <2>2. status[p] \notin Final BY <1>1, <1>5, <2>1 DEF IsCurrent, Final, Records
  <2>3. \A q \in posted : q.payment # p BY <1>5, <2>1, <2>2 DEF PostedAsApproved
  <2> QED BY <1>6, <2>3, ViewIs DEF NoRows
<1>8. x.wrote = rows
  <2>1. y.wrote = session[r].wrote \cup rows
    BY <1>4, <1>7, WritesExactly DEF RowsFor
  <2> QED BY <1>3, <1>6, <2>1
<1>9. x.decided[p] = d
  BY <1>3, <1>4 DEF Decides
<1>10. p \in Historical /\ session[r].lines = content[p]
  <2>1. Follows(r) /\ session[r].by = "record" BY <1>1 DEF RInv, Records
  <2> QED BY <2>1 DEF Follows, Following, AsRecorded
<1> DEFINE M == Ledger'
           V == View(r)'
           W == WithBooks(session[r].books)'
<1>11. Following(x, M, V, W, status', content') => Follows(r)'
  BY <1>3 DEF Follows
<1>12. M = L /\ content' = content BY <1>1 DEF Ledger, tables
<1>13. x.payment = p BY <1>3
<1>14. d.lines = x.lines /\ x.lines = content[p] /\ rows = PostsOf(L, p, x.lines)
  BY <1>3, <1>4, <1>10
<1> HIDE DEF M, L, V, W, p
<1>15. AsRecorded(x, M, content')
  BY <1>4, <1>8, <1>9, <1>10, <1>12, <1>13, <1>14 DEF AsRecorded
<1>16. Following(x, M, V, W, status', content')
  BY <1>3, <1>15 DEF Following
<1> QED BY <1>1, <1>4, <1>11, <1>16, OneFollow

-----------------------------------------------------------------------------
(* Sessions that end leave the others following.                            *)

LEMMA EndFollows ==
  ASSUME TInv, OInv, RInv, OInv', Loads = Keys, NEW s \in Sessions, Becomes(s, Idle), Busy(s),
         \A k \in Keys : k \notin session[s].rows =>
           invoice'[k] = invoice[k] /\ On(posted', k) = On(posted, k),
         \A t \in Sessions \ {s} : Busy(t) /\ session[t].by = "record" =>
           content'[session[t].payment] = content[session[t].payment],
         \A t \in Sessions \ {s} : Busy(t) /\ session[t].by = "import" /\ session[t].phase = "returned" =>
           \A p \in DOMAIN session[t].refreshed : status'[p] = status[p] /\ content'[p] = content[p]
  PROVE  RInv'
<1>1. session'[s] = Idle /\ \A t \in Sessions \ {s} : session'[t] = session[t]
  BY DEF Becomes, TInv
<1>2. ~Busy(s)'
  BY <1>1 DEF Busy, Idle
<1>3. Loads \subseteq Known(Ledger)'
  BY DEF OInv
<1>4. ASSUME NEW t \in Sessions, Busy(t)' PROVE Follows(t)'
  <2>1. t # s /\ session'[t] = session[t] /\ Busy(t) BY <1>1, <1>2, <1>4 DEF Busy
  <2>2. Follows(t) BY <2>1 DEF RInv
  <2>3. session[s].rows \cap session[t].rows = {} BY <2>1 DEF OInv, Exclusive
  <2>4. \A k \in Keys : k \in session[t].rows =>
          invoice'[k] = invoice[k] /\ On(posted', k) = On(posted, k)
    BY <2>3
  <2> QED BY <1>3, <2>1, <2>2, <2>4, FollowKeeps
<1> QED BY <1>4 DEF RInv

LEMMA CommitFollows ==
  ASSUME TInv, PInv, OInv, RInv, OInv', OneReviewer, Loads = Keys, NEW s \in Sessions, Commit(s)
  PROVE  RInv'
<1>1. /\ session[s].phase = "returned" /\ session[s].by # "import" /\ Becomes(s, Idle)
      /\ invoice' = View(s).invoice /\ posted' = posted \cup session[s].wrote
      /\ status' = [p \in Payments |-> StatusAfter(s, p)]
      /\ content' = Written(s, "lines", content)
  BY DEF Commit, View
<1>2. Busy(s) /\ s \in Deciders /\ Watches(s) /\ WritesWhatItDecides(s) /\ IsCurrent(s)
  BY <1>1 DEF Busy, Deciders, OInv, PInv
<1>3. \A r \in session[s].wrote : r.key \in Keys => r.key \in session[s].rows
  BY <1>1, <1>2 DEF Watches, TellsAll
<1>4. \A k \in Keys : invoice'[k] = invoice[k]
  BY <1>1, AllAreKnown DEF OInv
<1>5. \A k \in Keys : k \notin session[s].rows => On(posted', k) = On(posted, k)
  BY <1>1, <1>3 DEF On
<1>6. ASSUME NEW p \in Payments \ Done(s)
      PROVE  status'[p] = status[p] /\ content'[p] = content[p]
  <2>1. p \notin DOMAIN session[s].decided BY <1>2 DEF WritesWhatItDecides
  <2>2. Written(s, "status", status)[p] = status[p] /\ Written(s, "lines", content)[p] = content[p]
    BY <2>1 DEF Written
  <2> QED BY <1>1, <2>2 DEF StatusAfter
<1>7. ASSUME NEW t \in Sessions \ {s}, Busy(t), session[t].by = "record"
      PROVE  content'[session[t].payment] = content[session[t].payment]
  <2>1. t \in Deciders BY <1>7 DEF Deciders
  <2>2. About(s) \cap About(t) = {} BY <1>2, <2>1, OwnPayments
  <2>3. Done(s) \subseteq About(s) /\ About(t) \subseteq Payments BY <1>2, <2>1, DecidersAre
  <2>4. session[t].payment \in About(t) BY <1>7 DEF About
  <2> QED BY <1>6, <2>2, <2>3, <2>4
<1>8. ASSUME NEW t \in Sessions \ {s}, Busy(t), session[t].by = "import", session[t].phase = "returned",
             NEW p \in DOMAIN session[t].refreshed
      PROVE  status'[p] = status[p] /\ content'[p] = content[p]
  <2>1. p \in Payments /\ status[p] = "pending_review"
    BY <1>8 DEF RInv, Follows, Following, AsRefreshed
  <2>2. p \notin Done(s)
    <3>1. t \in Requests
      BY <1>8 DEF RInv, Follows
    <3>2. s \in Workers
      BY <1>8, <3>1 DEF OneReviewer, Sessions
    <3>3. \A q \in About(s) : status[q] = "unread"
      BY <1>2, <3>2 DEF IsCurrent
    <3>4. Done(s) \subseteq About(s)
      BY <1>2, DecidersAre
    <3> QED BY <2>1, <3>3, <3>4
  <2> QED BY <1>6, <2>1, <2>2
<1> QED BY <1>1, <1>2, <1>4, <1>5, <1>7, <1>8, EndFollows

LEMMA CommitImportFollows ==
  ASSUME TInv, PInv, OInv, RInv, OInv', OneReviewer, Loads = Keys, NEW r \in Requests, CommitImport(r)
  PROVE  RInv'
<1>1. /\ session[r].phase = "returned" /\ session[r].by = "import" /\ Becomes(r, Idle)
      /\ invoice' = [k \in Keys |-> IF k \in DOMAIN session[r].books THEN session[r].books[k]
                                     ELSE invoice[k]]
      /\ posted' = posted /\ content' = content /\ r \in Sessions
  BY DEF CommitImport, WithBooks, Sessions, Ledger
<1>2. Busy(r) /\ DOMAIN session[r].books \subseteq session[r].rows
  BY <1>1 DEF Busy, OInv, Watches
<1>3. \A k \in Keys : k \notin session[r].rows =>
        invoice'[k] = invoice[k] /\ On(posted', k) = On(posted, k)
  BY <1>1, <1>2
<1>4. \A t \in Sessions \ {r} : Busy(t) => session[t].by # "import"
  <2>1. \A t \in Sessions \ {r} : t \notin Requests BY DEF OneReviewer
  <2> QED BY <2>1 DEF RInv, Follows
<1> QED BY <1>1, <1>2, <1>3, <1>4, EndFollows

LEMMA RInvInit == ASSUME Init PROVE RInv
BY DEF Init, RInv, Busy, Idle

LEMMA RInvNext ==
  ASSUME TInv, PInv, OInv, RInv, TInv', OInv', OneReviewer, Loads = Keys, [Next]_vars
  PROVE  RInv'
<1>1. ASSUME NEW w \in Workers, BeginRoute(w) PROVE RInv'
  BY <1>1, BeginRouteFollows
<1>2. ASSUME NEW r \in Requests,
             BeginEdit(r) \/ BeginRecord(r) \/ PostRecorded(r)
               \/ BeginImport(r) \/ ImportRows(r) \/ CommitImport(r)
      PROVE  RInv'
  BY <1>2, BeginEditFollows, BeginRecordFollows, PostRecordedFollows, BeginImportFollows,
     ImportRowsFollows, CommitImportFollows
<1>3. ASSUME NEW s \in Sessions,
             CheckFound(s) \/ FindMissing(s) \/ LockMissing(s) \/ CheckLoose(s)
               \/ Decide(s) \/ Commit(s) \/ Abort(s)
      PROVE  RInv'
  BY <1>3, CheckFoundFollows, NoneMissed, CheckLooseFollows, DecideFollows, CommitFollows, AbortFollows
<1>4. CASE UNCHANGED vars
  <2>1. \A t \in Sessions : session'[t] = session[t] BY <1>4 DEF vars
  <2>2. invoice' = invoice /\ posted' = posted /\ status' = status /\ content' = content
    BY <1>4 DEF vars
  <2>3. Loads \subseteq Known(Ledger)' BY DEF OInv
  <2>4. ASSUME NEW t \in Sessions, Busy(t)' PROVE Follows(t)'
    <3>1. session'[t] = session[t] /\ Busy(t) /\ Follows(t) BY <2>1, <2>4 DEF Busy, RInv
    <3>2. \A k \in Keys : k \in session[t].rows =>
            invoice'[k] = invoice[k] /\ On(posted', k) = On(posted, k)
      BY <2>2
    <3> QED BY <2>2, <2>3, <3>1, <3>2, FollowKeeps
  <2> QED BY <2>4 DEF RInv
<1> QED BY <1>1, <1>2, <1>3, <1>4 DEF Next

-----------------------------------------------------------------------------
(* The rules of the abstract ledger are these.                              *)

LEMMA AbsNumbers ==
  ASSUME NEW lines, NEW kind PROVE Abstract!Numbers(lines, kind) = Numbers(lines, kind)
BY DEF Abstract!Numbers, Numbers

LEMMA AbsOrdered ==
  ASSUME NEW lines PROVE Abstract!Ordered(lines) = Ordered(lines)
BY AbsNumbers DEF Abstract!Ordered, Ordered

LEMMA AbsPosts ==
  ASSUME NEW L, NEW p, NEW lines PROVE Abstract!PostsOf(L, p, lines) = PostsOf(L, p, lines)
BY DEF Abstract!PostsOf, PostsOf, Abstract!Known, Known, Abstract!Exists, Exists, Abstract!Settled, Settled

LEMMA AbsFlags ==
  ASSUME NEW L, NEW p, NEW lines PROVE Abstract!FlagsOf(L, p, lines) = FlagsOf(L, p, lines)
BY DEF Abstract!FlagsOf, FlagsOf, Abstract!CheckLine, CheckLine, Abstract!FoundFlags, FoundFlags,
  Abstract!MissingFlags, MissingFlags, Abstract!AdjustmentBalanceFlags, AdjustmentBalanceFlags,
  Abstract!OtherFlags, OtherFlags, Abstract!FreshCheck, FreshCheck, Abstract!Ordered, Ordered,
  Abstract!Numbers, Numbers, Abstract!Flag, Flag, Abstract!If, If, Abstract!StatesTotal, StatesTotal,
  Abstract!Settled, Settled, Abstract!Paid, Paid, Abstract!StatusFor, StatusFor, Abstract!Exists, Exists,
  Abstract!Known, Known, Abstract!MapThenSumSet, MapThenSumSet, Abstract!MapThenFoldSet, MapThenFoldSet,
  Abstract!FoldLeft, FoldLeft, Abstract!NotStated, NotStated, Abstract!Max, Max

LEMMA AbsPosted ==
  ASSUME NEW L, NEW rows PROVE Abstract!Posted(L, rows) = Posted(L, rows)
BY DEF Abstract!Posted, Posted, Abstract!Fresh, Fresh, Abstract!Exists, Exists,
  Abstract!InsertedBefore, InsertedBefore

\* Payment p's rows, if this step approves it.
RowsRead(p) == IF status'[p] = "approved" THEN PostsOf(Ledger, p, content'[p]) ELSE {}

\* The fold of After: the ledger once p is read.
Reading(L, p) == IF status'[p] = "approved" THEN Posted(L, PostsOf(L, p, content'[p])) ELSE L

IsReading(f, qs) ==
  f = [S \in SUBSET DOMAIN qs |->
         IF S = {} THEN Ledger ELSE Reading(f[S \ {Max(S)}], qs[Max(S)])]

LEMMA AfterIsFold ==
  ASSUME NEW qs PROVE Abstract!After(qs) = (CHOOSE f : IsReading(f, qs))[DOMAIN qs]
BY DEF Abstract!After, Abstract!FoldLeft, FoldLeft, Abstract!MapThenFoldSet, MapThenFoldSet,
  Abstract!Max, Max, IsReading, Reading, Abstract!Ledger, Ledger, Abstract!Posted, Posted,
  Abstract!Fresh, Fresh, Abstract!Exists, Exists, Abstract!InsertedBefore, InsertedBefore,
  Abstract!PostsOf, PostsOf, Abstract!Known, Known, Abstract!Settled, Settled

LEMMA ReadingExists ==
  ASSUME NEW qs, NEW N \in Nat, DOMAIN qs = 1..N
  PROVE  \E f : IsReading(f, qs)
<1> DEFINE step(f, S) == IF S = {} THEN Ledger ELSE Reading(f[S \ {Max(S)}], qs[Max(S)])
           Is(f, n) == f = [S \in SUBSET (1..n) |-> step(f, S)]
           G == {n \in Nat : \E f : Is(f, n)}
<1>1. 0 \in G
  <2> DEFINE f == [S \in SUBSET (1..0) |-> Ledger]
  <2>1. \A S \in SUBSET (1..0) : S = {}
    OBVIOUS
  <2>2. Is(f, 0) BY <2>1
  <2> QED BY <2>2
<1>2. ASSUME NEW n \in Nat, n \in G PROVE n + 1 \in G
  <2>1. PICK f : Is(f, n) BY <1>2
  <2> DEFINE m == n + 1
             h == [S \in SUBSET (1..m) |->
                     IF m \in S THEN Reading(f[S \ {m}], qs[m]) ELSE f[S]]
  <2>2. /\ m \in Nat /\ 1..m \subseteq Int /\ 1..n \subseteq 1..m
        /\ \A i \in 1..m : i <= m /\ (i # m => i \in 1..n)
    OBVIOUS
  <2>3. ASSUME NEW S \in SUBSET (1..m) PROVE h[S] = step(h, S)
    <3>1. CASE m \in S
      <4>1. Max(S) = m BY <2>2, <3>1, MaxIs
      <4>2. S \ {m} \in SUBSET (1..n) /\ S \ {m} \in SUBSET (1..m) /\ m \notin S \ {m} BY <2>2
      <4> HIDE DEF m
      <4>3. h[S \ {m}] = f[S \ {m}] BY <4>2
      <4>4. h[S] = Reading(f[S \ {m}], qs[m]) BY <3>1
      <4> HIDE DEF h
      <4> QED BY <3>1, <4>1, <4>3, <4>4
    <3>2. CASE m \notin S
      <4>1. S \in SUBSET (1..n) BY <2>2, <3>2
      <4>2. S \ {Max(S)} \in SUBSET (1..n) /\ S \ {Max(S)} \in SUBSET (1..m) /\ m \notin S \ {Max(S)}
        BY <3>2, <4>1
      <4> HIDE DEF m
      <4>3. h[S \ {Max(S)}] = f[S \ {Max(S)}] BY <4>2
      <4>4. h[S] = f[S] BY <3>2
      <4>5. f[S] = step(f, S)
        <5> HIDE DEF step
        <5> QED BY <2>1, <4>1
      <4> HIDE DEF h
      <4> QED BY <4>3, <4>4, <4>5
    <3> QED BY <3>1, <3>2
  <2>4. h = [S \in SUBSET (1..m) |-> h[S]]
    OBVIOUS
  <2> HIDE DEF h, step
  <2>5. Is(h, m) BY <2>3, <2>4
  <2> QED BY <2>2, <2>5
<1> HIDE DEF G
<1>3. Nat \subseteq G
  BY <1>1, <1>2, AllNat
<1>4. PICK f : Is(f, N)
  BY <1>3 DEF G
<1> QED BY <1>4 DEF IsReading

\* Payments none of which has rows yet are posted, one after the other, as they would be alone.
LEMMA AfterIs ==
  ASSUME AllKnown(Ledger), invoice \in [Keys -> InvoiceRow], NEW qs, NEW N \in Nat, DOMAIN qs = 1..N,
         \A m \in 1..N : NoRows(posted, qs[m]) /\ qs[m] \in Payments /\ content'[qs[m]] \in Seq(Line),
         \A m, n \in 1..N : qs[m] = qs[n] => m = n
  PROVE  /\ Abstract!After(qs).invoice = invoice
         /\ Abstract!After(qs).posted = posted \cup UNION {RowsRead(qs[m]) : m \in 1..N}
<1> DEFINE f == CHOOSE g : IsReading(g, qs)
           all(n) == posted \cup UNION {RowsRead(qs[m]) : m \in 1..n}
           G == {n \in Nat : n <= N => f[1..n].invoice = invoice /\ f[1..n].posted = all(n)}
<1>1. IsReading(f, qs)
  BY ReadingExists
<1>2. \A S \in SUBSET (1..N) :
        f[S] = IF S = {} THEN Ledger ELSE Reading(f[S \ {Max(S)}], qs[Max(S)])
  <2> HIDE DEF f
  <2> QED BY <1>1 DEF IsReading
<1>3. Abstract!After(qs) = f[1..N]
  BY AfterIsFold
<1> HIDE DEF f
<1>4. 0 \in G
  <2>1. 1..0 = {} OBVIOUS
  <2>2. f[1..0] = Ledger BY <1>2, <2>1
  <2>3. UNION {RowsRead(qs[m]) : m \in 1..0} = {} BY <2>1
  <2> QED BY <2>2, <2>3 DEF Ledger
<1>5. ASSUME NEW n \in Nat, n \in G PROVE n + 1 \in G
  <2> SUFFICES ASSUME n + 1 <= N
               PROVE  f[1..(n + 1)].invoice = invoice /\ f[1..(n + 1)].posted = all(n + 1)
    OBVIOUS
  <2> DEFINE M == n + 1
             S == 1..M
             R == f[1..n]
             p == qs[M]
             rows == PostsOf(R, p, content'[p])
  <2>1. S \subseteq Int /\ M \in S /\ (\A m \in S : m <= M) /\ S \in SUBSET (1..N) /\ S \ {M} = 1..n
        /\ M \in 1..N /\ n <= N
    OBVIOUS
  <2>2. Max(S) = M BY <2>1, MaxIs
  <2>3. f[S] = Reading(R, p)
    <3> HIDE DEF S, M
    <3> QED BY <1>2, <2>1, <2>2
  <2>4. R.invoice = invoice /\ R.posted = all(n) BY <1>5, <2>1
  <2>5. \A m \in 1..n : qs[m] # p /\ m \in 1..N
    <3>1. \A m \in 1..n : m \in 1..N /\ m # M BY <2>1
    <3> HIDE DEF M
    <3> QED BY <2>1, <3>1
  <2>6. p \in Payments /\ content'[p] \in Seq(Line) /\ NoRows(posted, p)
    <3> HIDE DEF M
    <3> QED BY <2>1
  <2>7. all(M) = all(n) \cup RowsRead(p)
    <3>1. 1..M = (1..n) \cup {M} BY <2>1
    <3> HIDE DEF M
    <3> QED BY <3>1
  <2>8. AllKnown(R) BY <2>4 DEF AllKnown, Exists, Ledger
  <2>9. rows = PostsOf(Ledger, p, content'[p]) BY <2>8, OtherSame
  <2>10. \A r \in rows : r.payment = p
    <3> DEFINE c == content'[p]
    <3>1. \A r \in PostsOf(Ledger, p, c) : r.payment = p
      <4> HIDE DEF c, p
      <4> QED BY <2>6, RowsAre DEF c
    <3> HIDE DEF p, c
    <3> QED BY <2>9, <3>1 DEF c
  <2>11. NoRows(R.posted, p)
    <3>1. \A m \in 1..n : \A r \in RowsRead(qs[m]) : r.payment = qs[m]
      <4> SUFFICES ASSUME NEW m \in 1..n PROVE \A r \in RowsRead(qs[m]) : r.payment = qs[m]
        OBVIOUS
      <4> DEFINE q == qs[m]
                 c == content'[q]
      <4>1. q \in Payments /\ c \in Seq(Line) BY <2>5
      <4> HIDE DEF q, c
      <4>2. \A r \in PostsOf(Ledger, q, c) : r.payment = q BY <4>1, RowsAre
      <4> QED BY <4>2 DEF RowsRead, q, c
    <3> HIDE DEF p
    <3> QED BY <2>4, <2>5, <2>6, <3>1 DEF NoRows
  <2>12. Posted(R, rows).invoice = invoice /\ Posted(R, rows).posted = R.posted \cup rows
    <3>1. Fresh(R, rows) = rows BY <2>10, <2>11 DEF Fresh, NoRows
    <3>2. \A k \in Keys : Exists(R, k) BY <2>8 DEF AllKnown
    <3> HIDE DEF R, rows
    <3>3. Posted(R, rows).invoice = [k \in Keys |-> R.invoice[k]] BY <3>2 DEF Posted
    <3>4. Posted(R, rows).posted = R.posted \cup rows BY <3>1 DEF Posted
    <3> QED BY <2>4, <3>3, <3>4
  <2> HIDE DEF R, p, rows, S, all
  <2>13. f[S].invoice = invoice /\ f[S].posted = all(M)
    <3>1. CASE status'[p] = "approved"
      <4>1. f[S] = Posted(R, rows) /\ RowsRead(p) = rows BY <2>3, <2>9, <3>1 DEF Reading, RowsRead, rows
      <4> QED BY <2>4, <2>7, <2>12, <4>1
    <3>2. CASE status'[p] # "approved"
      <4>1. f[S] = R /\ RowsRead(p) = {} BY <2>3, <3>2 DEF Reading, RowsRead
      <4> QED BY <2>4, <2>7, <4>1
    <3> QED BY <3>1, <3>2
  <2> QED BY <2>13 DEF S
<1> HIDE DEF G
<1>6. Nat \subseteq G
  BY <1>4, <1>5, AllNat
<1>7. N \in G /\ N <= N
  BY <1>6
<1> QED BY <1>3, <1>7 DEF G

-----------------------------------------------------------------------------
(* A commit is a step of the ledger.                                        *)

\* What commits of payment p when session s ends.
Settles(s, p) ==
  LET d == session[s].decided[p] IN
  /\ content'[p] = d.lines
  /\ status'[p] = IF d.status = "kept" THEN status[p] ELSE d.status
  /\ flags'[p] = IF session[s].by = "record" THEN flags[p] ELSE d.flags

LEMMA CommitIs ==
  ASSUME TInv, PInv, OInv, RInv, Loads = Keys, NEW s \in Sessions, Commit(s)
  PROVE  /\ session[s].phase = "returned" /\ session[s].by \in {"route", "edit", "use", "record"}
         /\ Busy(s) /\ s \in Deciders /\ Follows(s) /\ Watches(s) /\ IsCurrent(s) /\ WritesWhatItDecides(s)
         /\ Checks(s) \/ Records(s)
         /\ AllKnown(Ledger) /\ invoice' = invoice /\ posted' = posted \cup session[s].wrote
         /\ About(s) \subseteq Payments /\ Done(s) \subseteq About(s)
         /\ \A p \in Done(s) : Settles(s, p)
         /\ \A p \in Payments \ Done(s) :
              status'[p] = status[p] /\ content'[p] = content[p] /\ flags'[p] = flags[p]
         /\ session[s].by # "record" => flags' = [p \in Payments |-> flags'[p]]
<1>1. /\ session[s].phase = "returned" /\ session[s].by # "import"
      /\ invoice' = View(s).invoice /\ posted' = posted \cup session[s].wrote
      /\ status' = [p \in Payments |-> StatusAfter(s, p)]
      /\ content' = Written(s, "lines", content)
      /\ flags' = IF session[s].by = "record" THEN flags ELSE Written(s, "flags", flags)
  BY DEF Commit, View
<1>2. Busy(s) /\ s \in Deciders /\ Follows(s) /\ Watches(s) /\ IsCurrent(s) /\ WritesWhatItDecides(s)
  BY <1>1 DEF Busy, Deciders, RInv, OInv, PInv
<1>3. (Checks(s) \/ Records(s)) /\ About(s) \subseteq Payments /\ Done(s) \subseteq About(s)
  BY <1>2, DecidersAre
<1>4. session[s].by \in {"route", "edit", "use", "record"}
  BY <1>3 DEF Checks, Records
<1>5. AllKnown(Ledger) /\ \A k \in Keys : View(s).invoice[k] = invoice[k]
  BY AllAreKnown DEF OInv
<1>6. invoice' = invoice
  <2>1. invoice' = [k \in Keys |-> View(s).invoice[k]]
    BY <1>1 DEF View
  <2>2. invoice = [k \in Keys |-> invoice[k]]
    BY DEF TInv, TypeOK
  <2> QED BY <1>5, <2>1, <2>2
<1>7. ASSUME NEW p \in Done(s) PROVE Settles(s, p)
  <2>1. p \in DOMAIN session[s].decided /\ p \in Payments BY <1>2, <1>3 DEF WritesWhatItDecides
  <2>2. /\ Written(s, "status", status)[p] = session[s].decided[p].status
        /\ Written(s, "lines", content)[p] = session[s].decided[p].lines
        /\ Written(s, "flags", flags)[p] = session[s].decided[p].flags
    BY <2>1 DEF Written
  <2> QED BY <1>1, <2>1, <2>2 DEF Settles, StatusAfter
<1>8. ASSUME NEW p \in Payments \ Done(s)
      PROVE  status'[p] = status[p] /\ content'[p] = content[p] /\ flags'[p] = flags[p]
  <2>1. p \notin DOMAIN session[s].decided BY <1>2 DEF WritesWhatItDecides
  <2>2. /\ Written(s, "status", status)[p] = status[p] /\ Written(s, "lines", content)[p] = content[p]
        /\ Written(s, "flags", flags)[p] = flags[p]
    BY <2>1 DEF Written
  <2> QED BY <1>1, <2>2 DEF StatusAfter
<1>9. session[s].by # "record" => flags' = [p \in Payments |-> flags'[p]]
  BY <1>1 DEF Written
<1> QED BY <1>1, <1>2, <1>3, <1>4, <1>5, <1>6, <1>7, <1>8, <1>9

\* A payment that is not final has no rows.
LEMMA NoRowsYet ==
  ASSUME PInv, NEW p \in Payments, status[p] \in {"unread", "pending_review"}
  PROVE  NoRows(posted, p)
BY DEF PInv, PostedAsApproved, Final, NoRows

LEMMA StoresIs ==
  ASSUME TInv, TInv', NEW p \in Payments, NEW st, status'[p] = st,
         flags' = [q \in Payments |-> flags'[q]],
         \A q \in Payments \ {p} :
           status'[q] = status[q] /\ content'[q] = content[q] /\ flags'[q] = flags[q]
  PROVE  Abstract!Stores(p, content'[p], flags'[p], st)
<1>1. /\ status = [q \in Payments |-> status[q]] /\ status' = [q \in Payments |-> status'[q]]
      /\ content = [q \in Payments |-> content[q]] /\ content' = [q \in Payments |-> content'[q]]
  BY DEF TInv, TypeOK
<1>2. DOMAIN flags = Payments
  BY DEF TInv, TypeOK
<1>3. flags' = [q \in Payments |-> IF q = p THEN flags'[p] ELSE flags[q]]
  OBVIOUS
<1>4. flags' = [flags EXCEPT ![p] = flags'[p]]
  BY <1>2, <1>3
<1> QED BY <1>1, <1>4 DEF Abstract!Stores

LEMMA PostsToIs ==
  ASSUME AllKnown(Ledger), TInv, NEW p \in Payments, NEW lines \in Seq(Line), NoRows(posted, p),
         invoice' = invoice, posted' = posted \cup PostsOf(Ledger, p, lines)
  PROVE  Abstract!PostsTo(Ledger, PostsOf(Ledger, p, lines))
<1> DEFINE rows == PostsOf(Ledger, p, lines)
<1>1. \A r \in rows : r.payment = p
  BY RowsAre
<1> HIDE DEF rows
<1>2. Fresh(Ledger, rows) = rows
  BY <1>1 DEF Fresh, NoRows, Ledger
<1>3. Posted(Ledger, rows).invoice = [k \in Keys |-> invoice[k]]
  BY DEF Posted, AllKnown, Ledger
<1>4. Posted(Ledger, rows).posted = posted \cup rows
  BY <1>2 DEF Posted, Ledger
<1>5. invoice = [k \in Keys |-> invoice[k]]
  BY DEF TInv, TypeOK
<1>6. Abstract!Posted(Ledger, rows) = Posted(Ledger, rows)
  BY AbsPosted
<1>7. /\ invoice' = Abstract!Posted(Ledger, rows).invoice
      /\ posted' = Abstract!Posted(Ledger, rows).posted
  BY <1>3, <1>4, <1>5, <1>6 DEF rows
<1> QED BY <1>7 DEF Abstract!PostsTo, rows

\* The ledger once the first payments of a message are read.
LEMMA RoutedAfter ==
  ASSUME AllKnown(Ledger), TInv, TInv', NEW s \in Sessions, NEW x, x = session[s], NEW k \in Nat,
         NEW qs, DOMAIN qs = 1..k,
         \A m \in 1..k : /\ qs[m] = x.payments[m] /\ NoRows(posted, qs[m]) /\ qs[m] \in Payments
                        /\ RowsRead(qs[m]) = {r \in x.wrote : r.payment = qs[m]},
         \A m, n \in 1..k : qs[m] = qs[n] => m = n
  PROVE  /\ Abstract!After(qs).invoice = invoice
         /\ Abstract!After(qs).posted = posted \cup Before(x, k + 1)
<1>1. \A m \in 1..k : content'[qs[m]] \in Seq(Line)
  BY DEF TInv, TypeOK
<1>2. invoice \in [Keys -> InvoiceRow]
  BY DEF TInv, TypeOK
<1>3. /\ Abstract!After(qs).invoice = invoice
      /\ Abstract!After(qs).posted = posted \cup UNION {RowsRead(qs[m]) : m \in 1..k}
  BY <1>1, <1>2, AfterIs
<1>4. (k + 1) - 1 = k
  OBVIOUS
<1>5. Before(x, k + 1) = {r \in x.wrote : \E m \in 1..k : r.payment = x.payments[m]}
  BY <1>4 DEF Before
<1> DEFINE all == UNION {RowsRead(qs[m]) : m \in 1..k}
           some == {r \in x.wrote : \E m \in 1..k : r.payment = x.payments[m]}
<1>6. all = some
  <2>1. \A r : r \in all <=> \E m \in 1..k : r \in RowsRead(qs[m])
    OBVIOUS
  <2>2. \A r : r \in some <=> r \in x.wrote /\ \E m \in 1..k : r.payment = x.payments[m]
    OBVIOUS
  <2>3. \A m \in 1..k : \A r : r \in RowsRead(qs[m]) <=> r \in x.wrote /\ r.payment = x.payments[m]
    OBVIOUS
  <2> HIDE DEF all, some
  <2>4. ASSUME NEW r PROVE r \in all <=> r \in some
    <3>1. \A m \in 1..k : r \in RowsRead(qs[m]) <=> r \in x.wrote /\ r.payment = x.payments[m]
      BY <2>3
    <3>2. r \in all <=> \E m \in 1..k : r \in RowsRead(qs[m]) BY <2>1, Zenon
    <3>3. r \in some <=> r \in x.wrote /\ \E m \in 1..k : r.payment = x.payments[m] BY <2>2, Zenon
    <3> QED BY <3>1, <3>2, <3>3, Zenon
  <2> QED BY <2>4, Zenon
<1> QED BY <1>3, <1>5, <1>6

\* A worker commits: the message is read.
LEMMA RouteReads ==
  ASSUME TInv, TInv', PInv, OInv, RInv, Loads = Keys, NEW s \in Sessions, Commit(s),
         session[s].by = "route"
  PROVE  Abstract!Read(session[s].payments) /\ session[s].payments \in Mail
<1> DEFINE x == session[s]
           ps == x.payments
           N == Len(ps)
<1>1. /\ x.phase = "returned" /\ Follows(s) /\ Watches(s) /\ IsCurrent(s) /\ WritesWhatItDecides(s)
      /\ Checks(s) \/ Records(s)
      /\ AllKnown(Ledger) /\ invoice' = invoice /\ posted' = posted \cup x.wrote
      /\ About(s) \subseteq Payments /\ Done(s) \subseteq About(s)
      /\ \A p \in Done(s) : Settles(s, p)
      /\ \A p \in Payments \ Done(s) :
           status'[p] = status[p] /\ content'[p] = content[p] /\ flags'[p] = flags[p]
  BY CommitIs
<1>2. Checks(s) /\ ps \in Mail
  BY <1>1 DEF Records, IsCurrent
<1>3. \A n \in 1..(x.nth - 1) : AsDecided(x, n, Ledger)
  BY <1>1 DEF Follows, Following
<1>4. x.nth = Len(ps) + 1
  BY <1>1 DEF Follows, Following
<1>5. N \in Nat /\ DOMAIN ps = 1..N /\ ps \in Seq(Payments) /\ x.nth - 1 = N
  <2>1. ps \in Seq(Payments) BY <1>2 DEF Checks
  <2>2. Len(ps) \in Nat /\ DOMAIN ps = 1..Len(ps)
    <3> HIDE DEF ps
    <3> QED BY <2>1
  <2>3. (Len(ps) + 1) - 1 = Len(ps)
    <3> HIDE DEF ps
    <3> QED BY <2>2
  <2> QED BY <1>4, <2>1, <2>2, <2>3
<1>6. \A m, n \in DOMAIN ps : ps[m] = ps[n] => m = n
  BY <1>2, RulesAssumption
<1>7. Done(s) = {ps[n] : n \in 1..N} /\ Done(s) = {ps[n] : n \in DOMAIN ps}
  BY <1>5 DEF Done
<1>8. \A n \in 1..N : /\ ps[n] \in Done(s) /\ ps[n] \in Payments
                      /\ AsDecided(x, n, Ledger) /\ Settles(s, ps[n])
  BY <1>1, <1>3, <1>5, <1>7
<1>9. \A n \in 1..N : status[ps[n]] = "unread" /\ NoRows(posted, ps[n])
  <2>1. \A n \in 1..N : status[ps[n]] = "unread" BY <1>1, <1>8 DEF IsCurrent
  <2> QED BY <1>8, <2>1, NoRowsYet
<1>10. ASSUME NEW n \in 1..N
       PROVE  /\ status'[ps[n]] \in {"pending_review", "approved"}
              /\ KeysOf(content'[ps[n]]) \subseteq x.rows
              /\ flags'[ps[n]] = FlagsOf(LedgerBefore(x, n, Ledger), ps[n], content'[ps[n]])
              /\ RowsRead(ps[n]) = {r \in x.wrote : r.payment = ps[n]}
              /\ status'[ps[n]] = "approved" => flags'[ps[n]] = {}
  <2> DEFINE p == ps[n]
             d == x.decided[p]
  <2>1. /\ d.lines = x.lines[p] /\ KeysOf(x.lines[p]) \subseteq x.rows
        /\ d.flags = FlagsOf(LedgerBefore(x, n, Ledger), p, x.lines[p])
        /\ d.status \in {"approved", "pending_review"}
        /\ {r \in x.wrote : r.payment = p}
             = IF d.status = "approved" THEN PostsOf(Ledger, p, x.lines[p]) ELSE {}
    BY <1>8 DEF AsDecided
  <2>2. content'[p] = d.lines /\ flags'[p] = d.flags /\ status'[p] = d.status
    <3>1. Settles(s, p) BY <1>8
    <3> QED BY <2>1, <3>1 DEF Settles
  <2>3. d.status = "approved" => d.flags = {}
    <3>1. p \in DOMAIN x.decided BY <1>1, <1>8 DEF WritesWhatItDecides
    <3>2. d.status = "approved" => Told(x, View(s), p) BY <1>1, <3>1 DEF Watches, TellsAll
    <3> QED BY <3>2 DEF Told
  <2> HIDE DEF d, p
  <2>4. RowsRead(p) = {r \in x.wrote : r.payment = p}
    BY <2>1, <2>2 DEF RowsRead
  <2> QED BY <2>1, <2>2, <2>3, <2>4 DEF p
<1> HIDE DEF x, ps, N
<1>11. ASSUME NEW n \in 1..N
       PROVE  flags'[ps[n]]
                = Abstract!FlagsOf(Abstract!After(SubSeq(ps, 1, n - 1)), ps[n], content'[ps[n]])
  <2> DEFINE qs == SubSeq(ps, 1, n - 1)
             k == n - 1
             A == Abstract!After(qs)
             B == LedgerBefore(x, n, Ledger)
             lines == content'[ps[n]]
  <2>1. k \in Nat /\ k + 1 = n /\ \A m \in 1..k : m \in 1..N
    BY <1>5
  <2>2. DOMAIN qs = 1..k /\ \A m \in 1..k : qs[m] = ps[m]
    BY <1>5
  <2> HIDE DEF qs, k, lines
  <2>3. \A m \in 1..k : /\ qs[m] = x.payments[m] /\ NoRows(posted, qs[m]) /\ qs[m] \in Payments
                          /\ RowsRead(qs[m]) = {r \in x.wrote : r.payment = qs[m]}
    BY <1>8, <1>9, <1>10, <2>1, <2>2 DEF ps
  <2>4. \A m, i \in 1..k : qs[m] = qs[i] => m = i
    BY <1>5, <1>6, <2>1, <2>2
  <2>5. A.invoice = invoice /\ A.posted = posted \cup Before(x, n)
    <3>1. /\ Abstract!After(qs).invoice = invoice
          /\ Abstract!After(qs).posted = posted \cup Before(x, k + 1)
      BY <1>1, <2>1, <2>2, <2>3, <2>4, RoutedAfter DEF x
    <3> QED BY <2>1, <3>1
  <2>6. B.invoice = invoice /\ B.posted = posted \cup Before(x, n)
    BY DEF LedgerBefore, Ledger
  <2>7. lines \in Seq(Line)
    BY <1>8 DEF TInv, TypeOK, lines
  <2> HIDE DEF A, B
  <2>8. AllKnown(A) /\ AllKnown(B) /\ \A key \in KeysOf(lines) : SameOn(B, A, key)
    BY <1>1, <2>5, <2>6 DEF AllKnown, Exists, Ledger, SameOn
  <2>9. FlagsOf(B, ps[n], lines) = FlagsOf(A, ps[n], lines)
    BY <2>7, <2>8, FlagsSame
  <2>10. flags'[ps[n]] = FlagsOf(B, ps[n], lines)
    BY <1>10 DEF B, lines
  <2>11. Abstract!FlagsOf(A, ps[n], lines) = FlagsOf(A, ps[n], lines)
    BY AbsFlags
  <2>12. flags'[ps[n]] = Abstract!FlagsOf(A, ps[n], lines)
    BY <2>9, <2>10, <2>11
  <2> QED BY <2>12 DEF A, qs, lines
<1>12. Abstract!After(ps).invoice = invoice /\ Abstract!After(ps).posted = posted \cup x.wrote
  <2>1. \A m \in 1..N : /\ ps[m] = x.payments[m] /\ NoRows(posted, ps[m]) /\ ps[m] \in Payments
                          /\ RowsRead(ps[m]) = {r \in x.wrote : r.payment = ps[m]}
    BY <1>8, <1>9, <1>10 DEF ps
  <2>2. \A m, n \in 1..N : ps[m] = ps[n] => m = n
    BY <1>5, <1>6
  <2>3. /\ Abstract!After(ps).invoice = invoice
        /\ Abstract!After(ps).posted = posted \cup Before(x, N + 1)
    BY <1>1, <1>5, <2>1, <2>2, RoutedAfter DEF x
  <2>4. Before(x, N + 1) = x.wrote
    <3>1. (N + 1) - 1 = N BY <1>5
    <3>2. \A r \in x.wrote : \E m \in 1..N : r.payment = x.payments[m]
      BY <1>1, <1>7 DEF WritesWhatItDecides, x, ps
    <3> QED BY <3>1, <3>2 DEF Before
  <2> QED BY <2>3, <2>4
<1>13. Abstract!Read(ps)
  <2>1. \A n \in DOMAIN ps :
          /\ status[ps[n]] = "unread"
          /\ status'[ps[n]] \in {"pending_review", "approved"}
          /\ flags'[ps[n]] = Abstract!FlagsOf(Abstract!After(SubSeq(ps, 1, n - 1)), ps[n], content'[ps[n]])
          /\ status'[ps[n]] = "approved" => flags'[ps[n]] = {}
    BY <1>5, <1>9, <1>10, <1>11
  <2>2. \A p \in Payments \ {ps[n] : n \in DOMAIN ps} :
          status'[p] = status[p] /\ content'[p] = content[p] /\ flags'[p] = flags[p]
    BY <1>1, <1>7
  <2>3. invoice' = Abstract!After(ps).invoice /\ posted' = Abstract!After(ps).posted
    BY <1>1, <1>12
  <2> QED BY <2>1, <2>2, <2>3 DEF Abstract!Read
<1> QED BY <1>2, <1>13 DEF ps, x

\* A reviewer's request commits: the payment is saved, or approved.
LEMMA EditDecides ==
  ASSUME TInv, TInv', PInv, OInv, RInv, Loads = Keys, NEW s \in Sessions, Commit(s),
         session[s].by \in {"edit", "use"}
  PROVE  \E p \in Payments : Abstract!Save(p, content'[p]) \/ Abstract!Approve(p, content'[p])
<1> DEFINE x == session[s]
           ps == x.payments
           p == ps[1]
           d == x.decided[p]
           lines == content'[p]
<1>1. /\ x.phase = "returned" /\ Follows(s) /\ Watches(s) /\ IsCurrent(s) /\ WritesWhatItDecides(s)
      /\ Checks(s) \/ Records(s)
      /\ AllKnown(Ledger) /\ invoice' = invoice /\ posted' = posted \cup x.wrote
      /\ About(s) \subseteq Payments /\ Done(s) \subseteq About(s)
      /\ \A q \in Done(s) : Settles(s, q)
      /\ \A q \in Payments \ Done(s) :
           status'[q] = status[q] /\ content'[q] = content[q] /\ flags'[q] = flags[q]
      /\ flags' = [q \in Payments |-> flags'[q]]
  BY CommitIs
<1>2. Checks(s) /\ Len(ps) = 1 /\ x.by # "route" /\ x.by # "record"
  BY <1>1 DEF Records, IsCurrent
<1>3. x.nth = 2 /\ \A n \in 1..(x.nth - 1) : AsDecided(x, n, Ledger)
  <2>1. x.nth = Len(ps) + 1 /\ \A n \in 1..(x.nth - 1) : AsDecided(x, n, Ledger)
    BY <1>1 DEF Follows, Following
  <2> QED BY <1>2, <2>1
<1>4. AsDecided(x, 1, Ledger)
  <2>1. 1 \in 1..(x.nth - 1) BY <1>3
  <2> QED BY <1>3, <2>1
<1>5. Done(s) = {p}
  <2>1. 1..(x.nth - 1) = {1} BY <1>3
  <2> QED BY <1>2, <2>1 DEF Done
<1>6. p \in Payments /\ p \in DOMAIN x.decided /\ Settles(s, p) /\ p \in About(s)
  BY <1>1, <1>5 DEF WritesWhatItDecides
<1>7. LedgerBefore(x, 1, Ledger) = Ledger
  <2>1. 1..(1 - 1) = {} OBVIOUS
  <2>2. Before(x, 1) = {} BY <2>1 DEF Before
  <2> QED BY <2>2 DEF LedgerBefore, Ledger
<1>8. /\ d.lines = x.lines[p]
      /\ d.flags = FlagsOf(Ledger, p, x.lines[p])
      /\ d.status \in {"approved", "kept"}
      /\ {r \in x.wrote : r.payment = p}
           = IF d.status = "approved" THEN PostsOf(Ledger, p, x.lines[p]) ELSE {}
  BY <1>2, <1>4, <1>7 DEF AsDecided
<1>9. {r \in x.wrote : r.payment = p} = x.wrote
  BY <1>1, <1>5 DEF WritesWhatItDecides
<1>10. /\ lines = d.lines /\ flags'[p] = d.flags
       /\ status'[p] = IF d.status = "kept" THEN status[p] ELSE d.status
  BY <1>2, <1>6 DEF Settles
<1>11. status[p] = "pending_review" /\ NoRows(posted, p)
  <2>1. status[p] = "pending_review" BY <1>1, <1>2, <1>6 DEF IsCurrent
  <2> QED BY <1>6, <2>1, NoRowsYet
<1>12. lines \in Seq(Line)
  BY <1>6 DEF TInv, TypeOK
<1>13. d.status = "approved" => d.flags \subseteq flags[p]
  <2>1. d.status = "approved" => Told(x, View(s), p) BY <1>1, <1>2, <1>6 DEF Watches, TellsAll
  <2>2. x.shown = flags[p] BY <1>1, <1>2, <1>6 DEF Watches
  <2> QED BY <1>2, <2>1, <2>2 DEF Told
<1> DEFINE fs == flags'[p]
<1> HIDE DEF d, ps, p, x, lines
<1>14. fs = FlagsOf(Ledger, p, lines)
  BY <1>8, <1>10
<1>15. Abstract!FlagsOf(Abstract!Ledger, p, lines) = fs
  <2>1. Abstract!Ledger = Ledger BY DEF Abstract!Ledger, Ledger
  <2>2. Abstract!FlagsOf(Ledger, p, lines) = FlagsOf(Ledger, p, lines) BY AbsFlags
  <2> QED BY <1>14, <2>1, <2>2
<1>16. \A q \in Payments \ {p} : status'[q] = status[q] /\ content'[q] = content[q] /\ flags'[q] = flags[q]
  BY <1>1, <1>5
<1>17. CASE d.status = "kept"
  <2>1. posted' = posted /\ invoice' = invoice
    BY <1>1, <1>8, <1>9, <1>17 DEF x
  <2>2. status'[p] = "pending_review" BY <1>10, <1>11, <1>17
  <2>3. Abstract!Stores(p, content'[p], flags'[p], "pending_review")
    BY <1>1, <1>6, <1>16, <2>2, StoresIs
  <2>4. Abstract!Save(p, lines)
    BY <1>11, <1>15, <2>1, <2>3 DEF Abstract!Save, lines
  <2> QED BY <1>6, <2>4 DEF lines
<1>18. CASE d.status = "approved"
  <2>1. posted' = posted \cup PostsOf(Ledger, p, lines) /\ invoice' = invoice
    BY <1>1, <1>8, <1>9, <1>10, <1>18 DEF x
  <2>2. status'[p] = "approved" BY <1>10, <1>18
  <2>3. Abstract!Stores(p, content'[p], flags'[p], "approved")
    BY <1>1, <1>6, <1>16, <2>2, StoresIs
  <2>4. Abstract!PostsTo(Ledger, PostsOf(Ledger, p, lines))
    BY <1>1, <1>6, <1>11, <1>12, <2>1, PostsToIs
  <2>5. Abstract!Ledger = Ledger /\ Abstract!PostsOf(Ledger, p, lines) = PostsOf(Ledger, p, lines)
    BY AbsPosts DEF Abstract!Ledger, Ledger
  <2>6. fs \subseteq flags[p] BY <1>10, <1>13, <1>18
  <2>7. Abstract!PostsTo(Abstract!Ledger, Abstract!PostsOf(Abstract!Ledger, p, lines))
    BY <2>4, <2>5
  <2>8. Abstract!Approve(p, lines)
    BY <1>11, <1>15, <2>3, <2>6, <2>7 DEF Abstract!Approve, lines
  <2> QED BY <1>6, <2>8 DEF lines
<1> QED BY <1>8, <1>17, <1>18

\* A recording commits.
LEMMA RecordRecords ==
  ASSUME TInv, TInv', PInv, OInv, RInv, Loads = Keys, NEW s \in Sessions, Commit(s),
         session[s].by = "record"
  PROVE  \E p \in Payments : Abstract!Record(p)
<1> DEFINE x == session[s]
           p == x.payment
           d == x.decided[p]
<1>1. /\ x.phase = "returned" /\ Follows(s) /\ IsCurrent(s) /\ WritesWhatItDecides(s)
      /\ AllKnown(Ledger) /\ invoice' = invoice /\ posted' = posted \cup x.wrote
      /\ About(s) \subseteq Payments /\ Done(s) \subseteq About(s)
      /\ \A q \in Done(s) : Settles(s, q)
      /\ \A q \in Payments \ Done(s) :
           status'[q] = status[q] /\ content'[q] = content[q] /\ flags'[q] = flags[q]
  BY CommitIs
<1>2. flags' = flags
  BY DEF Commit
<1>3. Done(s) = {p} /\ p \in About(s)
  BY <1>1 DEF Done
<1>4. p \in Payments /\ Settles(s, p) /\ status[p] = "pending_review" /\ NoRows(posted, p)
  <2>1. p \in Payments /\ Settles(s, p) BY <1>1, <1>3
  <2>2. status[p] = "pending_review" BY <1>1, <1>3 DEF IsCurrent
  <2> QED BY <2>1, <2>2, NoRowsYet
<1>5. /\ p \in Historical /\ x.lines = content[p] /\ d.lines = x.lines /\ d.status = "already_recorded"
      /\ x.wrote = PostsOf(Ledger, p, x.lines)
  BY <1>1 DEF Follows, Following, AsRecorded
<1>6. content'[p] = content[p] /\ status'[p] = "already_recorded"
  BY <1>4, <1>5 DEF Settles
<1>7. content' = content
  <2>1. content = [q \in Payments |-> content[q]] /\ content' = [q \in Payments |-> content'[q]]
    BY DEF TInv, TypeOK
  <2>2. \A q \in Payments : content'[q] = content[q] BY <1>1, <1>3, <1>6
  <2> QED BY <2>1, <2>2
<1>8. status' = [status EXCEPT ![p] = "already_recorded"]
  <2>1. status = [q \in Payments |-> status[q]] /\ status' = [q \in Payments |-> status'[q]]
    BY DEF TInv, TypeOK
  <2>2. \A q \in Payments : status'[q] = IF q = p THEN "already_recorded" ELSE status[q]
    BY <1>1, <1>3, <1>6
  <2> HIDE DEF p
  <2> QED BY <2>1, <2>2
<1> DEFINE lines == content[p]
<1>9. lines \in Seq(Line)
  BY <1>4 DEF TInv, TypeOK
<1>10. posted' = posted \cup PostsOf(Ledger, p, lines)
  BY <1>1, <1>5
<1> HIDE DEF p, x, d, lines
<1>11. Abstract!PostsTo(Ledger, PostsOf(Ledger, p, lines))
  BY <1>1, <1>4, <1>9, <1>10, PostsToIs
<1>12. Abstract!Ledger = Ledger /\ Abstract!PostsOf(Ledger, p, lines) = PostsOf(Ledger, p, lines)
  BY AbsPosts DEF Abstract!Ledger, Ledger
<1>13. Abstract!PostsTo(Abstract!Ledger, Abstract!PostsOf(Abstract!Ledger, p, lines))
  BY <1>11, <1>12
<1>14. Abstract!Record(p)
  BY <1>2, <1>4, <1>5, <1>7, <1>8, <1>13 DEF Abstract!Record, lines
<1> QED BY <1>4, <1>14

\* An import commits.
LEMMA ImportImports ==
  ASSUME TInv, RInv, NEW r \in Requests, CommitImport(r)
  PROVE  Abstract!Import
<1> DEFINE x == session[r]
           L == WithBooks(x.books)
<1>1. /\ x.phase = "returned" /\ x.by = "import" /\ r \in Sessions /\ Busy(r)
      /\ invoice' = L.invoice
      /\ flags' = [p \in Payments |-> IF p \in DOMAIN x.refreshed THEN x.refreshed[p] ELSE flags[p]]
      /\ UNCHANGED <<posted, status, content>>
  BY DEF CommitImport, Sessions, Busy
<1>2. AsRefreshed(x, L, status, content)
  BY <1>1 DEF RInv, Follows, Following
<1>3. Abstract!Ledger' = L
  <2>1. /\ DOMAIN L = {"invoice", "posted"} /\ L.posted = posted
        /\ L = [invoice |-> L.invoice, posted |-> L.posted]
    BY DEF WithBooks, Ledger
  <2> HIDE DEF L
  <2> QED BY <1>1, <2>1 DEF Abstract!Ledger
<1> HIDE DEF L, x
<1>4. ASSUME NEW p \in Payments
      PROVE  flags'[p] \in {flags[p], Abstract!FlagsOf(L, p, content[p])}
  <2>1. Abstract!FlagsOf(L, p, content[p]) = FlagsOf(L, p, content[p])
    BY AbsFlags
  <2>2. p \in DOMAIN x.refreshed => x.refreshed[p] = FlagsOf(L, p, content[p])
    BY <1>2 DEF AsRefreshed
  <2> QED BY <1>1, <2>1, <2>2
<1> QED BY <1>1, <1>3, <1>4 DEF Abstract!Import

LEMMA CommitSteps ==
  ASSUME TInv, TInv', PInv, OInv, RInv, Loads = Keys, NEW s \in Sessions, Commit(s)
  PROVE  Abstract!LedgerNext
<1>1. session[s].by \in {"route", "edit", "use", "record"}
  BY CommitIs
<1>2. CASE session[s].by = "route"
  BY <1>2, RouteReads DEF Abstract!LedgerNext
<1>3. CASE session[s].by \in {"edit", "use"}
  BY <1>3, EditDecides DEF Abstract!LedgerNext
<1>4. CASE session[s].by = "record"
  BY <1>4, RecordRecords DEF Abstract!LedgerNext
<1> QED BY <1>1, <1>2, <1>3, <1>4

\* A step of the sessions is a step of the ledger, or leaves it alone.
LEMMA PostingSimulates ==
  ASSUME TInv, TInv', PInv, OInv, RInv, Loads = Keys, [Next]_vars
  PROVE  [Abstract!LedgerNext]_(Abstract!ledgerVars)
<1>1. ASSUME NEW s \in Sessions, Commit(s) PROVE Abstract!LedgerNext
  BY <1>1, CommitSteps
<1>2. ASSUME NEW r \in Requests, CommitImport(r) PROVE Abstract!LedgerNext
  BY <1>2, ImportImports DEF Abstract!LedgerNext
<1>3. ASSUME UNCHANGED tables PROVE UNCHANGED Abstract!ledgerVars
  BY <1>3 DEF tables, Abstract!ledgerVars
<1>4. ASSUME NEW w \in Workers, BeginRoute(w) PROVE UNCHANGED tables
  BY <1>4 DEF BeginRoute, Starts
<1>5. ASSUME NEW r \in Requests,
             BeginEdit(r) \/ BeginRecord(r) \/ PostRecorded(r) \/ BeginImport(r) \/ ImportRows(r)
      PROVE  UNCHANGED tables
  BY <1>5 DEF BeginEdit, BeginRecord, PostRecorded, BeginImport, ImportRows, Starts
<1>6. ASSUME NEW s \in Sessions,
             CheckFound(s) \/ FindMissing(s) \/ LockMissing(s) \/ CheckLoose(s)
               \/ Decide(s) \/ Abort(s)
      PROVE  UNCHANGED tables
  BY <1>6 DEF CheckFound, FindMissing, LockMissing, CheckLoose, Decide, Abort
<1>7. CASE UNCHANGED vars
  BY <1>3, <1>7 DEF vars, tables
<1> QED BY <1>1, <1>2, <1>3, <1>4, <1>5, <1>6, <1>7 DEF Next

\* Sessions, locks and all, do what the ledger does that checks and posts in one step: with one
\* reviewer at a time, when every invoice is in the books from the start.
THEOREM PostingImplementsLedger == OneReviewer /\ Loads = Keys => (Spec => ImplementsLedger)
<1> SUFFICES ASSUME OneReviewer, Loads = Keys PROVE Spec => ImplementsLedger
  OBVIOUS
<1>1. Init => Abstract!LedgerInit
  BY DEF Init, Abstract!LedgerInit
<1>2. Init => PInv /\ OInv /\ RInv
  BY PInvInit, OInvInit, RInvInit
<1>3. TInv /\ [Next]_vars => TInv'
  BY TInvNext
<1>4. TInv /\ TInv' /\ PInv /\ OInv /\ RInv /\ [Next]_vars => PInv' /\ OInv' /\ RInv'
  BY PInvNext, OInvNext, RInvNext
<1>5. TInv /\ TInv' /\ PInv /\ OInv /\ RInv /\ [Next]_vars => [Abstract!LedgerNext]_(Abstract!ledgerVars)
  BY PostingSimulates
<1> QED
  BY <1>1, <1>2, <1>3, <1>4, <1>5, PostingInvariance, PTL DEF Spec, ImplementsLedger, Abstract!LedgerSpec
=============================================================================

-------------------------- MODULE PaymentKeysProofs --------------------------
(***************************************************************************)
(* Proofs about payment keys, for any number of workers, messages and      *)
(* payments: a commit is never refused by the unique index on keys, the    *)
(* key a row owns is the one its header states, and no reference is paid   *)
(* twice without a flag that says so.                                      *)
(***************************************************************************)
EXTENDS PaymentKeys, TLAPS

\* A live row has the key its header states, unless that key was found taken; then
\* it is linked, has none, and says so in a flag.
Sound(x) ==
  x.status \in KeyLive =>
    /\ x.key = IF x.linked THEN NoKey ELSE x.stated.key
    /\ x.linked => \E f \in x.flags : f.kind = "reference"

RowsSound == \A p \in Payments : Sound(row[p])

OneOwner ==
  \A p, q \in Payments : \A k \in Strong : Owns(row[p], k) /\ Owns(row[q], k) => p = q

\* The rows of a message that is being read are unread for everyone else, and those
\* of its payments still to be placed have no key.
Reads(s) ==
  session[s].phase = "reading" =>
    /\ s \in Workers
    /\ session[s].wrote = PaymentsOf(session[s].message)
    /\ \A p \in session[s].wrote : row[p].status = "unread"
    /\ \A i \in DOMAIN PaysIn[session[s].message] :
         LET x == session[s].mine[PaysIn[session[s].message][i]] IN
         IF i < session[s].nth THEN Sound(x)
         ELSE x.status = "pending_review" /\ x.key = NoKey /\ ~x.linked

Saves(s) ==
  session[s].phase = "saving" =>
    /\ s = Reviewer
    /\ \A p \in session[s].wrote : row[p].status = "pending_review" /\ Sound(session[s].mine[p])

Rests(s) == session[s].phase = "idle" => session[s].wrote = {} /\ session[s].locks = {}

\* A key a session claims is locked by it, or was the row's already; nobody else
\* owns it.
Claimed(s) ==
  \A p \in session[s].wrote : \A k \in Strong :
    Owns(session[s].mine[p], k) =>
      /\ k \in session[s].locks \/ Owns(row[p], k)
      /\ Owners(View(s), p, k) = {}

SessionsSound == \A s \in Sessions : Reads(s) /\ Saves(s) /\ Rests(s) /\ Claimed(s)

Apart ==
  \A s, t \in Sessions : s # t =>
    /\ session[s].locks \cap session[t].locks = {}
    /\ session[s].phase = "reading" /\ session[t].phase = "reading" =>
         session[s].message # session[t].message

IInv == TypeOK /\ RowsSound /\ OneOwner /\ SessionsSound /\ Apart

-----------------------------------------------------------------------------
(* What the operators return.                                               *)

LEMMA BlankType == Blank \in Row /\ Untouched \in [Payments -> Row] /\ Sound(Blank)
BY KeysAssumption DEF Blank, Row, Statuses, Header, Untouched, Sound, KeyLive

LEMMA FreshType == Fresh \in Session
<1>1. (CHOOSE m \in Messages : TRUE) \in Messages
  BY KeysAssumption
<1>. QED
  BY <1>1, BlankType DEF Fresh, Session

\* A payment in a message is a payment, and the message is its only one.
LEMMA PaymentsInMessages ==
  ASSUME NEW m \in Messages
  PROVE  /\ PaymentsOf(m) \subseteq Payments
         /\ \A n \in Messages : n # m => PaymentsOf(n) \cap PaymentsOf(m) = {}
<1>1. PaysIn[m] \in Seq(Payments)
  BY KeysAssumption
<1>2. ASSUME NEW p \in PaymentsOf(m) PROVE p \in Payments
  BY <1>1, <1>2 DEF PaymentsOf
<1>3. ASSUME NEW n \in Messages, n # m PROVE PaymentsOf(n) \cap PaymentsOf(m) = {}
  BY <1>3, KeysAssumption DEF PaymentsOf
<1>. QED
  BY <1>2, <1>3

\* A flag added to a row changes nothing else of it.
LEMMA FlaggedRow ==
  ASSUME NEW x \in Row, NEW q \in Payments, NEW kind \in FlagKinds
  PROVE  /\ Flagged(x, kind, q) \in Row
         /\ Flagged(x, kind, q).status = x.status
         /\ Flagged(x, kind, q).stated = x.stated
         /\ Flagged(x, kind, q).key = x.key
         /\ Flagged(x, kind, q).linked = x.linked
         /\ Flagged(x, kind, q).flags = x.flags \cup {Flag(kind, q)}
<1>1. Flag(kind, q) \in Flags
  BY DEF Flag, Flags
<1>. QED
  BY <1>1 DEF Flagged, Row

LEMMA FlaggedSound ==
  ASSUME NEW x \in Row, NEW q \in Payments, NEW kind \in FlagKinds, Sound(x)
  PROVE  Sound(Flagged(x, kind, q))
BY FlaggedRow DEF Sound

LEMMA ClaimsRow ==
  ASSUME NEW x \in Row, NEW qs \in SUBSET Payments, NEW kind \in FlagKinds,
         ~x.linked, NEW y \in Claims(x, kind, qs)
  PROVE  /\ y \in Row
         /\ y.status = x.status
         /\ y.stated = x.stated
         /\ y.key = x.stated.key
         /\ ~y.linked
<1>. DEFINE claimed == [x EXCEPT !.key = x.stated.key]
<1>1. /\ claimed \in Row
      /\ claimed.status = x.status /\ claimed.stated = x.stated
      /\ claimed.key = x.stated.key /\ claimed.linked = x.linked
  BY DEF Row, Header
<1>2. CASE qs = {}
  BY <1>1, <1>2 DEF Claims
<1>3. CASE qs # {}
  <2>1. PICK q \in qs : y = Flagged(claimed, kind, q)
    BY <1>3 DEF Claims
  <2>. HIDE DEF claimed
  <2>. QED
    BY <1>1, <2>1, FlaggedRow
<1>. QED
  BY <1>2, <1>3

LEMMA LinkedRow ==
  ASSUME NEW rows, NEW x \in Row, NEW q \in Payments
  PROVE  /\ Linked(rows, x, q) \in Row
         /\ Linked(rows, x, q).key = x.key
         /\ Linked(rows, x, q).linked
         /\ Linked(rows, x, q).status \in {x.status, "duplicate"}
         /\ \/ Linked(rows, x, q).status = "duplicate"
            \/ \E f \in Linked(rows, x, q).flags : f.kind = "reference"
<1>. DEFINE linked == [x EXCEPT !.linked = TRUE]
<1>1. linked \in Row /\ linked.key = x.key /\ linked.linked /\ linked.status = x.status
  BY DEF Row
<1>2. [linked EXCEPT !.status = "duplicate"] \in Row
  BY <1>1 DEF Row, Statuses
<1>3. CASE Close(x.stated.total, rows[q].stated.total)
  BY <1>1, <1>2, <1>3 DEF Linked, Row
<1>4. CASE ~Close(x.stated.total, rows[q].stated.total)
  <2>1. Linked(rows, x, q) = Flagged(linked, "reference", q)
    BY <1>4 DEF Linked
  <2>2. Flag("reference", q).kind = "reference"
    BY DEF Flag
  <2>. HIDE DEF linked
  <2>3. /\ Flagged(linked, "reference", q) \in Row
        /\ Flagged(linked, "reference", q).status = x.status
        /\ Flagged(linked, "reference", q).key = x.key
        /\ Flagged(linked, "reference", q).linked
        /\ Flag("reference", q) \in Flagged(linked, "reference", q).flags
    BY <1>1, FlaggedRow DEF FlagKinds
  <2>. QED
    BY <2>1, <2>2, <2>3
<1>. QED
  BY <1>3, <1>4

\* What assign_payment_key makes of a pending row without a key.
LEMMA AssignedRow ==
  ASSUME NEW rows, NEW p \in Payments, NEW x \in Row,
         x.status = "pending_review", x.key = NoKey, ~x.linked,
         NEW y \in Assigned(rows, p, x)
  PROVE  /\ y \in Row
         /\ y.status \in {"pending_review", "duplicate"}
         /\ Sound(y)
         /\ \A k \in Strong : y.key = k => k = x.stated.key /\ Owners(rows, p, k) = {}
         /\ y.status = "duplicate" =>
              x.stated.key \in Strong /\ Owners(rows, p, x.stated.key) # {}
<1>. DEFINE k == x.stated.key
            owners == Owners(rows, p, k)
<1>0. k \in Strong \cup Weak \cup {NoKey} /\ owners \in SUBSET Payments
        /\ RejectedWith(rows, p, k) \in SUBSET Payments
  BY DEF Row, Header, Owners, RejectedWith
<1>1. CASE k = NoKey
  BY <1>1, KeysAssumption DEF Assigned, Sound
<1>2. CASE k \in Weak
  <2>1. y \in Claims(x, "possible_duplicate", owners)
    BY <1>2, KeysAssumption DEF Assigned
  <2>2. /\ y \in Row /\ y.status = x.status /\ y.stated = x.stated
        /\ y.key = k /\ ~y.linked
    BY <1>0, <2>1, ClaimsRow DEF FlagKinds
  <2>. QED
    BY <1>2, <2>2, KeysAssumption DEF Sound
<1>3. CASE k \in Strong /\ owners = {}
  <2>1. y \in Claims(x, "rejected_before", RejectedWith(rows, p, k))
    BY <1>3, KeysAssumption DEF Assigned
  <2>2. /\ y \in Row /\ y.status = x.status /\ y.stated = x.stated
        /\ y.key = k /\ ~y.linked
    BY <1>0, <2>1, ClaimsRow DEF FlagKinds
  <2>. QED
    BY <1>3, <2>2 DEF Sound
<1>4. CASE k \in Strong /\ owners # {}
  <2>1. PICK q \in owners : y = Linked(rows, x, q)
    BY <1>4, KeysAssumption DEF Assigned
  <2>2. /\ y \in Row /\ y.key = NoKey /\ y.linked
        /\ y.status \in {"pending_review", "duplicate"}
        /\ y.status = "duplicate" \/ \E f \in y.flags : f.kind = "reference"
    BY <1>0, <2>1, LinkedRow
  <2>. QED
    BY <1>4, <2>2, KeysAssumption DEF Sound, KeyLive
<1>. QED
  BY <1>0, <1>1, <1>2, <1>3, <1>4

\* What routing makes of a placed row: it stays sound, its key stays, and it is live
\* after if it was before.
LEMMA RoutedRow ==
  ASSUME NEW p \in Payments, NEW x \in Row, Sound(x),
         x.status \in {"pending_review", "duplicate"}, NEW z \in Routed(p, x)
  PROVE  /\ z \in Row
         /\ z.key = x.key
         /\ Sound(z)
         /\ z.status \in KeyLive => x.status \in KeyLive
<1>. DEFINE history == IF p \in Historical THEN {Flag("historical", p)} ELSE {}
            known == [x EXCEPT !.flags = @ \cup history]
<1>1. history \subseteq Flags
  BY DEF Flag, Flags, FlagKinds
<1>2. /\ known \in Row /\ known.key = x.key /\ known.status = x.status
      /\ known.stated = x.stated /\ known.linked = x.linked
      /\ known.flags = x.flags \cup history
  BY <1>1 DEF Row
<1>3. Sound(known)
  BY <1>2 DEF Sound
<1>4. CASE z = x
  BY <1>4
<1>5. CASE x.status # "duplicate" /\ z = known
  BY <1>2, <1>3, <1>5
<1>6. CASE x.status # "duplicate" /\ z = Flagged(known, "other", p)
  <2>. HIDE DEF known
  <2>. QED
    BY <1>2, <1>3, <1>6, FlaggedRow, FlaggedSound DEF FlagKinds
<1>7. CASE x.status # "duplicate" /\ z = [known EXCEPT !.status = "approved"]
  <2>1. /\ z \in Row /\ z.key = known.key /\ z.linked = known.linked
        /\ z.stated = known.stated /\ z.flags = known.flags
    BY <1>2, <1>7 DEF Row, Statuses
  <2>2. x.status \in KeyLive
    BY <1>7 DEF KeyLive
  <2>. QED
    BY <1>2, <1>3, <2>1, <2>2 DEF Sound
<1>. QED
  BY <1>4, <1>5, <1>6, <1>7 DEF Routed

-----------------------------------------------------------------------------
(* Type correctness.                                                        *)

\* A session's parts are of their types.
LEMMA SessionParts ==
  ASSUME TypeOK, NEW s \in Sessions
  PROVE  /\ session[s] \in Session
         /\ session[s].phase \in {"idle", "reading", "saving"}
         /\ session[s].message \in Messages
         /\ session[s].nth \in Nat \ {0}
         /\ session[s].wrote \subseteq Payments
         /\ session[s].mine \in [Payments -> Row]
         /\ session[s].locks \subseteq Strong
         /\ View(s) \in [Payments -> Row]
<1>1. session[s] \in Session
  BY DEF TypeOK
<1>. QED
  BY <1>1 DEF TypeOK, Session, View

LEMMA IInvInit == Init => IInv
<1>1. SUFFICES ASSUME Init PROVE IInv
  OBVIOUS
<1>2. TypeOK
  BY <1>1, BlankType, FreshType DEF Init, TypeOK
<1>3. RowsSound /\ OneOwner
  BY <1>1 DEF Init, RowsSound, OneOwner, Untouched, Blank, Sound, Owns, KeyLive
<1>4. SessionsSound
  BY <1>1 DEF Init, SessionsSound, Reads, Saves, Rests, Claimed, Fresh
<1>5. Apart
  BY <1>1 DEF Init, Apart, Fresh
<1>. QED
  BY <1>2, <1>3, <1>4, <1>5 DEF IInv

-----------------------------------------------------------------------------
(* Four sorts of steps: one that changes neither rows nor sessions, one of  *)
(* a session by itself, one that frees rows, and a commit.                  *)

LEMMA MessageStep ==
  ASSUME IInv, row' = row, session' = session,
         message' \in [Messages -> {"unsplit", "new", "seen", "failed"}],
         reads' \in [Messages -> Nat]
  PROVE  IInv'
<1>1. TypeOK'
  BY DEF IInv, TypeOK
<1>2. RowsSound' /\ OneOwner' /\ Apart'
  BY DEF IInv, RowsSound, OneOwner, Apart
<1>3. SessionsSound'
  BY DEF IInv, SessionsSound, Reads, Saves, Rests, Claimed, View, Owners
<1>. QED
  BY <1>1, <1>2, <1>3 DEF IInv

\* A session goes on, or ends without a commit.
LEMMA SessionStep ==
  ASSUME IInv, NEW s \in Sessions, NEW c \in Session,
         session' = [session EXCEPT ![s] = c],
         row' = row, reads' = reads,
         message' \in [Messages -> {"unsplit", "new", "seen", "failed"}],
         Reads(s)', Saves(s)', Rests(s)', Claimed(s)',
         \A t \in Sessions \ {s} :
           /\ c.locks \cap session[t].locks = {}
           /\ c.phase = "reading" /\ session[t].phase = "reading" =>
                c.message # session[t].message
  PROVE  IInv'
<1>1. TypeOK'
  BY DEF IInv, TypeOK
<1>2. RowsSound' /\ OneOwner'
  BY DEF IInv, RowsSound, OneOwner
<1>3. session'[s] = c /\ \A t \in Sessions \ {s} : session'[t] = session[t]
  BY DEF IInv, TypeOK
<1>4. Apart'
  BY <1>3 DEF IInv, Apart
<1>5. ASSUME NEW t \in Sessions, t # s
      PROVE  (Reads(t) /\ Saves(t) /\ Rests(t) /\ Claimed(t))'
  <2>1. session'[t] = session[t]
    BY <1>3, <1>5
  <2>2. Reads(t) /\ Saves(t) /\ Rests(t) /\ Claimed(t)
    BY DEF IInv, SessionsSound
  <2>3. Reads(t)'
    BY <2>1, <2>2 DEF Reads
  <2>4. Saves(t)' /\ Rests(t)'
    BY <2>1, <2>2 DEF Saves, Rests
  <2>5. View(t)' = View(t)
    BY <2>1 DEF View
  <2>6. Claimed(t)'
    BY <2>1, <2>2, <2>5 DEF Claimed, Owners
  <2>. QED
    BY <2>3, <2>4, <2>6
<1>6. SessionsSound'
  BY <1>5 DEF SessionsSound
<1>. QED
  BY <1>1, <1>2, <1>4, <1>6 DEF IInv

LEMMA EndStep ==
  ASSUME IInv, NEW s \in Sessions, Ends(s), row' = row, reads' = reads,
         message' \in [Messages -> {"unsplit", "new", "seen", "failed"}]
  PROVE  IInv'
<1>1. session'[s] = Fresh
  BY DEF Ends, IInv, TypeOK
<1>2. Fresh.phase = "idle" /\ Fresh.wrote = {} /\ Fresh.locks = {}
  BY DEF Fresh
<1>3. (Reads(s) /\ Saves(s) /\ Rests(s) /\ Claimed(s))'
  BY <1>1, <1>2 DEF Reads, Saves, Rests, Claimed
<1>. QED
  BY <1>2, <1>3, FreshType, SessionStep DEF Ends

\* Rows that no session is writing change, and own no key they did not own.
LEMMA FreeStep ==
  ASSUME IInv, NEW ps \in SUBSET Payments, row' \in [Payments -> Row],
         session' = session, reads' = reads, message' = message,
         \A p \in Payments \ ps : row'[p] = row[p],
         \A p \in ps : Sound(row'[p]) /\ \A k \in Strong : Owns(row'[p], k) => Owns(row[p], k),
         \A s \in Sessions : session[s].wrote \cap ps = {}
  PROVE  IInv'
<1>1. TypeOK'
  BY DEF IInv, TypeOK
<1>2. RowsSound'
  BY DEF IInv, RowsSound
<1>3. \A p \in Payments : \A k \in Strong : Owns(row'[p], k) => Owns(row[p], k)
  OBVIOUS
<1>4. OneOwner'
  BY <1>3 DEF IInv, OneOwner
<1>5. Apart'
  BY DEF IInv, Apart
<1>6. ASSUME NEW s \in Sessions
      PROVE  (Reads(s) /\ Saves(s) /\ Rests(s) /\ Claimed(s))'
  <2>1. Reads(s) /\ Saves(s) /\ Rests(s) /\ Claimed(s)
    BY DEF IInv, SessionsSound
  <2>2. session[s].wrote \subseteq Payments
    BY SessionParts DEF IInv
  <2>3. \A p \in session[s].wrote : row'[p] = row[p]
    BY <2>2
  <2>4. Reads(s)'
    BY <2>1, <2>3 DEF Reads
  <2>5. Saves(s)' /\ Rests(s)'
    BY <2>1, <2>3 DEF Saves, Rests
  <2>6. ASSUME NEW p \in Payments, NEW k \in Strong, Owners(View(s), p, k) = {}
        PROVE  Owners(View(s)', p, k) = {}
    BY <1>3, <2>6 DEF Owners, View
  <2>7. Claimed(s)'
    BY <2>1, <2>2, <2>3, <2>6 DEF Claimed
  <2>. QED
    BY <2>4, <2>5, <2>7
<1>7. SessionsSound'
  BY <1>6 DEF SessionsSound
<1>. QED
  BY <1>1, <1>2, <1>4, <1>5, <1>7 DEF IInv

\* No two sessions write the same row.
LEMMA WroteApart ==
  ASSUME IInv, NEW s \in Sessions, NEW t \in Sessions, s # t
  PROVE  session[s].wrote \cap session[t].wrote = {}
<1>1. /\ Reads(s) /\ Saves(s) /\ Rests(s)
      /\ Reads(t) /\ Saves(t) /\ Rests(t)
  BY DEF IInv, SessionsSound
<1>2. /\ session[s].phase \in {"idle", "reading", "saving"} /\ session[s].message \in Messages
      /\ session[t].phase \in {"idle", "reading", "saving"} /\ session[t].message \in Messages
  BY SessionParts DEF IInv
<1>3. CASE session[s].phase = "idle" \/ session[t].phase = "idle"
  BY <1>1, <1>3 DEF Rests
<1>4. CASE session[s].phase = "reading" /\ session[t].phase = "reading"
  <2>1. session[s].message # session[t].message
    BY <1>4 DEF IInv, Apart
  <2>. QED
    BY <1>1, <1>2, <1>4, <2>1, PaymentsInMessages DEF Reads
<1>5. CASE session[s].phase = "reading" /\ session[t].phase = "saving"
  BY <1>1, <1>5 DEF Reads, Saves
<1>6. CASE session[s].phase = "saving" /\ session[t].phase = "reading"
  BY <1>1, <1>6 DEF Reads, Saves
<1>7. CASE session[s].phase = "saving" /\ session[t].phase = "saving"
  BY <1>1, <1>7 DEF Saves
<1>. QED
  BY <1>2, <1>3, <1>4, <1>5, <1>6, <1>7

\* A session commits.  What it claims others do not claim, as the lock on the key is
\* its own, so their claims are as good after its commit as before.
LEMMA CommitStep ==
  ASSUME IInv, NEW s \in Sessions, row' = View(s), Ends(s), message' = message,
         reads' \in [Messages -> Nat],
         \A p \in session[s].wrote : Sound(session[s].mine[p])
  PROVE  IInv'
<1>1. /\ TypeOK /\ RowsSound /\ OneOwner /\ Apart
      /\ \A t \in Sessions : Reads(t) /\ Saves(t) /\ Rests(t) /\ Claimed(t)
  BY DEF IInv, SessionsSound
<1>2. /\ session'[s] = Fresh
      /\ \A t \in Sessions \ {s} : session'[t] = session[t]
      /\ session' \in [Sessions -> Session]
  BY <1>1, FreshType DEF Ends, TypeOK
<1>3. Fresh.phase = "idle" /\ Fresh.wrote = {} /\ Fresh.locks = {}
  BY DEF Fresh
<1>4. row' \in [Payments -> Row]
  BY <1>1, SessionParts
<1>5. TypeOK'
  BY <1>1, <1>2, <1>4 DEF TypeOK
<1>6. RowsSound'
  BY <1>1 DEF RowsSound, View
<1>7. OneOwner'
  <2>1. SUFFICES ASSUME NEW p \in Payments, NEW q \in Payments, NEW k \in Strong,
                        Owns(View(s)[p], k), Owns(View(s)[q], k), p # q
                 PROVE  FALSE
    BY DEF OneOwner
  <2>2. q \in Owners(View(s), p, k) /\ p \in Owners(View(s), q, k)
    BY <2>1 DEF Owners
  <2>3. p \notin session[s].wrote /\ q \notin session[s].wrote
    BY <1>1, <2>1, <2>2 DEF Claimed, View
  <2>. QED
    BY <1>1, <2>1, <2>3 DEF OneOwner, View
<1>8. Apart'
  BY <1>1, <1>2, <1>3 DEF Apart
<1>9. (Reads(s) /\ Saves(s) /\ Rests(s) /\ Claimed(s))'
  BY <1>2, <1>3 DEF Reads, Saves, Rests, Claimed
<1>10. ASSUME NEW t \in Sessions, t # s
       PROVE  (Reads(t) /\ Saves(t) /\ Rests(t) /\ Claimed(t))'
  <2>1. session'[t] = session[t] /\ session[t].wrote \subseteq Payments
    BY <1>1, <1>2, <1>10, SessionParts
  <2>2. session[s].wrote \cap session[t].wrote = {}
    BY <1>10, WroteApart
  <2>3. \A p \in session[t].wrote : row'[p] = row[p]
    BY <2>1, <2>2 DEF View
  <2>4. Reads(t)'
    BY <1>1, <2>1, <2>3 DEF Reads
  <2>5. Saves(t)' /\ Rests(t)'
    BY <1>1, <2>1, <2>3 DEF Saves, Rests
  <2>6. ASSUME NEW p \in session[t].wrote, NEW k \in Strong, Owns(session[t].mine[p], k),
               NEW q \in Payments, q # p, Owns(View(t)'[q], k)
        PROVE  FALSE
    <3>1. /\ k \in session[t].locks \/ Owns(row[p], k)
          /\ Owners(View(t), p, k) = {}
      BY <1>1, <2>6 DEF Claimed
    <3>2. ~Owns(View(t)[q], k)
      BY <2>6, <3>1 DEF Owners
    <3>3. q \notin session[t].wrote /\ q \in session[s].wrote /\ Owns(session[s].mine[q], k)
      BY <2>1, <2>6, <3>2 DEF View
    <3>4. /\ k \in session[s].locks \/ Owns(row[q], k)
          /\ Owners(View(s), q, k) = {}
      BY <1>1, <3>3 DEF Claimed
    <3>5. k \in session[s].locks
      BY <3>2, <3>3, <3>4 DEF View
    <3>6. Owns(row[p], k)
      BY <1>1, <1>10, <3>1, <3>5 DEF Apart
    <3>7. p \notin session[s].wrote /\ p \in Payments
      BY <2>1, <2>2, <2>6
    <3>8. p \in Owners(View(s), q, k)
      BY <2>6, <3>6, <3>7 DEF Owners, View
    <3>. QED
      BY <3>4, <3>8
  <2>7. Claimed(t)'
    <3>1. ASSUME NEW p \in session[t].wrote, NEW k \in Strong, Owns(session[t].mine[p], k)
          PROVE  Owners(View(t)', p, k) = {}
      BY <2>6, <3>1 DEF Owners
    <3>2. ASSUME NEW p \in session[t].wrote, NEW k \in Strong, Owns(session[t].mine[p], k)
          PROVE  k \in session[t].locks \/ Owns(row'[p], k)
      BY <1>1, <2>3, <3>2 DEF Claimed
    <3>. QED
      BY <2>1, <3>1, <3>2 DEF Claimed
  <2>. QED
    BY <2>4, <2>5, <2>7
<1>11. SessionsSound'
  BY <1>9, <1>10 DEF SessionsSound
<1>. QED
  BY <1>5, <1>6, <1>7, <1>8, <1>11 DEF IInv

-----------------------------------------------------------------------------
(* One lemma per action that is more than one of these.                     *)

LEMMA BeginReadStep ==
  ASSUME IInv, NEW w \in Workers, NEW m \in Messages, BeginRead(w, m)
  PROVE  IInv'
<1>1. PICK h \in [PaymentsOf(m) -> UNION {Headers[p] : p \in PaymentsOf(m)}] :
        /\ Idle(w)
        /\ \A p \in PaymentsOf(m) : row[p].status = "unread" /\ h[p] \in Headers[p]
        /\ \A v \in Workers : ~Idle(v) => session[v].message # m
        /\ session' = [session EXCEPT ![w] =
             [Fresh EXCEPT !.phase = "reading", !.message = m, !.wrote = PaymentsOf(m),
                !.mine = [p \in Payments |-> IF p \in PaymentsOf(m)
                            THEN [Blank EXCEPT !.status = "pending_review", !.stated = h[p]]
                            ELSE Blank]]]
        /\ UNCHANGED <<message, reads, row>>
  BY DEF BeginRead
<1>. DEFINE mine == [p \in Payments |-> IF p \in PaymentsOf(m)
                       THEN [Blank EXCEPT !.status = "pending_review", !.stated = h[p]]
                       ELSE Blank]
            c == [Fresh EXCEPT !.phase = "reading", !.message = m, !.wrote = PaymentsOf(m),
                               !.mine = mine]
<1>2. w \in Sessions /\ TypeOK /\ PaymentsOf(m) \subseteq Payments
  BY PaymentsInMessages DEF Sessions, IInv
<1>3. \A p \in PaymentsOf(m) : h[p] \in Header
  BY <1>1, <1>2, KeysAssumption
<1>4. mine \in [Payments -> Row]
  BY <1>3, BlankType DEF Blank, Row, Statuses
<1>5. \A p \in PaymentsOf(m) :
        mine[p].status = "pending_review" /\ mine[p].key = NoKey /\ ~mine[p].linked
  BY <1>2 DEF Blank
<1>. HIDE DEF mine
<1>6. /\ c \in Session
      /\ c.phase = "reading" /\ c.message = m /\ c.nth = 1
      /\ c.wrote = PaymentsOf(m) /\ c.mine = mine /\ c.locks = {}
  BY <1>2, <1>4, FreshType DEF Fresh, Session
<1>. HIDE DEF c
<1>7. session' = [session EXCEPT ![w] = c] /\ session'[w] = c
  BY <1>1, <1>2 DEF TypeOK, c, mine
<1>8. Reads(w)'
  <2>1. \A i \in DOMAIN PaysIn[m] : i \in Nat /\ ~(i < 1) /\ PaysIn[m][i] \in PaymentsOf(m)
    BY KeysAssumption DEF PaymentsOf
  <2>2. /\ session'[w].message = m /\ session'[w].nth = 1 /\ session'[w].mine = mine
        /\ session'[w].wrote = PaymentsOf(m)
    BY <1>6, <1>7
  <2>3. \A p \in PaymentsOf(m) : row'[p].status = "unread"
    BY <1>1
  <2>. QED
    BY <1>5, <2>1, <2>2, <2>3 DEF Reads
<1>9. Saves(w)' /\ Rests(w)'
  BY <1>6, <1>7 DEF Saves, Rests
<1>10. Claimed(w)'
  BY <1>5, <1>6, <1>7, KeysAssumption DEF Claimed, Owns
<1>11. \A t \in Sessions \ {w} :
         /\ c.locks \cap session[t].locks = {}
         /\ c.phase = "reading" /\ session[t].phase = "reading" =>
              c.message # session[t].message
  BY <1>1, <1>6 DEF IInv, SessionsSound, Reads, Idle
<1>. QED
  BY <1>1, <1>2, <1>6, <1>7, <1>8, <1>9, <1>10, <1>11, SessionStep DEF TypeOK

\* A payment gets its key.  If it claims one, the session now holds the lock and saw no
\* owner; if another row of the session had that key, it would have been the owner.
LEMMA PlaceStep ==
  ASSUME IInv, NEW w \in Workers, Place(w)
  PROVE  IInv'
<1>. DEFINE m == session[w].message
            n == session[w].nth
            mine == session[w].mine
            p == PaysIn[m][n]
            x == mine[p]
            k == x.stated.key
<1>. HIDE DEF m, n, mine, p, x, k
<1>1. /\ TypeOK /\ Apart /\ Reads(w) /\ Claimed(w) /\ w \in Sessions
      /\ session[w] \in Session /\ m \in Messages /\ n \in Nat \ {0} /\ mine \in [Payments -> Row]
      /\ session[w].wrote \subseteq Payments /\ session[w].locks \subseteq Strong
      /\ View(w) \in [Payments -> Row]
  BY SessionParts DEF IInv, SessionsSound, Sessions, m, n, mine
<1>2. /\ session[w].phase = "reading"
      /\ n <= Len(PaysIn[m])
      /\ MayLook(w, k)
      /\ UNCHANGED <<message, reads, row>>
  BY DEF Place, m, n, mine, p, x, k
<1>3. PICK y \in Assigned(View(w), p, x) : \E z \in Routed(p, y) :
        session' = [session EXCEPT ![w].nth = @ + 1, ![w].mine[p] = z,
                                   ![w].locks = LocksWith(w, k)]
  BY DEF Place, m, n, mine, p, x, k
<1>4. PICK z \in Routed(p, y) :
        session' = [session EXCEPT ![w].nth = @ + 1, ![w].mine[p] = z,
                                   ![w].locks = LocksWith(w, k)]
  BY <1>3
<1>. DEFINE c == [session[w] EXCEPT !.nth = n + 1, !.mine = [mine EXCEPT ![p] = z],
                                    !.locks = LocksWith(w, k)]
<1>5. /\ n \in DOMAIN PaysIn[m] /\ p \in Payments /\ p \in PaymentsOf(m)
      /\ session[w].wrote = PaymentsOf(m)
      /\ x \in Row /\ x.status = "pending_review" /\ x.key = NoKey /\ ~x.linked
  <2>1. PaysIn[m] \in Seq(Payments)
    BY <1>1, KeysAssumption
  <2>2. n \in DOMAIN PaysIn[m] /\ p \in Payments
    BY <1>1, <1>2, <2>1 DEF p
  <2>3. p \in PaymentsOf(m)
    BY <2>2 DEF PaymentsOf, p
  <2>4. session[w].wrote = PaymentsOf(m)
    BY <1>1, <1>2 DEF Reads, m
  <2>5. \A i \in DOMAIN PaysIn[m] :
          IF i < n THEN Sound(mine[PaysIn[m][i]])
          ELSE /\ mine[PaysIn[m][i]].status = "pending_review"
               /\ mine[PaysIn[m][i]].key = NoKey /\ ~mine[PaysIn[m][i]].linked
    BY <1>1, <1>2 DEF Reads, m, n, mine
  <2>6. x.status = "pending_review" /\ x.key = NoKey /\ ~x.linked
    BY <1>1, <2>2, <2>5 DEF x, p
  <2>. QED
    BY <1>1, <2>2, <2>3, <2>4, <2>6 DEF x
<1>6. /\ z \in Row /\ Sound(z)
      /\ \A j \in Strong : Owns(z, j) => j = k /\ Owners(View(w), p, j) = {}
  <2>0. y \in Assigned(View(w), p, x) /\ z \in Routed(p, y)
    BY <1>3, <1>4
  <2>1. /\ y \in Row /\ Sound(y) /\ y.status \in {"pending_review", "duplicate"}
        /\ \A j \in Strong : y.key = j => j = k /\ Owners(View(w), p, j) = {}
    <3>1. /\ y \in Row /\ Sound(y) /\ y.status \in {"pending_review", "duplicate"}
          /\ \A j \in Strong : y.key = j => j = x.stated.key /\ Owners(View(w), p, j) = {}
      <4>. DEFINE rows == View(w)
      <4>. HIDE DEF rows
      <4>1. y \in Assigned(rows, p, x)
        BY <2>0 DEF rows
      <4>2. /\ y \in Row /\ y.status \in {"pending_review", "duplicate"} /\ Sound(y)
            /\ \A j \in Strong : y.key = j => j = x.stated.key /\ Owners(rows, p, j) = {}
        BY <1>5, <4>1, AssignedRow
      <4>. QED
        BY <4>2 DEF rows
    <3>. QED
      BY <3>1 DEF k
  <2>2. z \in Row /\ Sound(z) /\ z.key = y.key
    BY <1>5, <2>0, <2>1, RoutedRow
  <2>. QED
    BY <2>1, <2>2 DEF Owns
<1>7. /\ c \in Session
      /\ c.phase = "reading" /\ c.message = m /\ c.nth = n + 1
      /\ c.wrote = PaymentsOf(m) /\ c.mine = [mine EXCEPT ![p] = z]
      /\ c.locks = session[w].locks \cup ({k} \cap Strong)
  <2>1. n + 1 \in Nat \ {0} /\ [mine EXCEPT ![p] = z] \in [Payments -> Row]
    BY <1>1, <1>5, <1>6
  <2>2. LocksWith(w, k) = session[w].locks \cup ({k} \cap Strong)
    BY DEF LocksWith
  <2>. QED
    BY <1>1, <1>2, <1>5, <2>1, <2>2 DEF Session, m
<1>8. session' = [session EXCEPT ![w] = c] /\ session'[w] = c
  BY <1>1, <1>4 DEF TypeOK, n, mine
<1>. HIDE DEF c
<1>9. Reads(w)'
  <2>1. \A q \in PaymentsOf(m) : row'[q].status = "unread"
    BY <1>1, <1>2, <1>5 DEF Reads
  <2>2. ASSUME NEW i \in DOMAIN PaysIn[m]
        PROVE  LET u == c.mine[PaysIn[m][i]] IN
               IF i < n + 1 THEN Sound(u)
               ELSE u.status = "pending_review" /\ u.key = NoKey /\ ~u.linked
    <3>1. PaysIn[m] \in Seq(Payments)
      BY <1>1, KeysAssumption
    <3>2. CASE i = n
      <4>1. c.mine[PaysIn[m][i]] = z
        BY <1>1, <1>5, <1>7, <3>2 DEF p
      <4>. QED
        BY <1>1, <1>6, <3>2, <4>1
    <3>3. CASE i # n
      <4>1. PaysIn[m][i] # p /\ i \in Nat /\ PaysIn[m][i] \in Payments
        BY <1>1, <1>5, <3>1, <3>3, KeysAssumption DEF p
      <4>2. c.mine[PaysIn[m][i]] = mine[PaysIn[m][i]]
        BY <1>1, <1>7, <4>1
      <4>3. i < n + 1 <=> i < n
        BY <1>1, <3>3, <4>1
      <4>4. IF i < n THEN Sound(mine[PaysIn[m][i]])
            ELSE /\ mine[PaysIn[m][i]].status = "pending_review"
                 /\ mine[PaysIn[m][i]].key = NoKey /\ ~mine[PaysIn[m][i]].linked
        BY <1>1, <1>2 DEF Reads, m, n, mine
      <4>. QED
        BY <4>2, <4>3, <4>4
    <3>. QED
      BY <3>2, <3>3
  <2>3. /\ session'[w].message = m /\ session'[w].nth = n + 1
        /\ session'[w].mine = c.mine /\ session'[w].wrote = PaymentsOf(m)
    BY <1>7, <1>8
  <2>. QED
    BY <2>1, <2>2, <2>3 DEF Reads
<1>10. Saves(w)' /\ Rests(w)'
  BY <1>7, <1>8 DEF Saves, Rests
<1>11. \A q \in Payments : View(w)'[q] = IF q = p THEN z ELSE View(w)[q]
  BY <1>1, <1>2, <1>5, <1>7, <1>8 DEF View, mine
<1>12. Claimed(w)'
  <2>1. SUFFICES ASSUME NEW q \in PaymentsOf(m), NEW j \in Strong, Owns(c.mine[q], j)
                 PROVE  /\ j \in c.locks \/ Owns(row'[q], j)
                        /\ Owners(View(w)', q, j) = {}
    BY <1>7, <1>8 DEF Claimed
  <2>2. q \in Payments
    BY <1>1, <1>5
  <2>3. CASE q = p
    <3>1. j = k /\ Owners(View(w), p, j) = {}
      BY <1>1, <1>5, <1>6, <1>7, <2>1, <2>3
    <3>2. Owners(View(w)', p, j) = {}
      BY <1>11, <3>1 DEF Owners
    <3>. QED
      BY <1>7, <2>3, <3>1, <3>2
  <2>4. CASE q # p
    <3>1. Owns(mine[q], j)
      BY <1>1, <1>7, <2>1, <2>2, <2>4
    <3>2. /\ j \in session[w].locks \/ Owns(row[q], j)
          /\ Owners(View(w), q, j) = {}
      BY <1>1, <1>5, <2>1, <3>1 DEF Claimed, mine
    <3>3. View(w)[q] = mine[q]
      BY <1>5, <2>1, <2>2 DEF View, mine
    <3>4. ~Owns(z, j)
      BY <1>6, <2>2, <2>4, <3>1, <3>3 DEF Owners
    <3>5. Owners(View(w)', q, j) = {}
      BY <1>11, <3>2, <3>4 DEF Owners
    <3>. QED
      BY <1>2, <1>7, <3>2, <3>5
  <2>. QED
    BY <2>3, <2>4
<1>13. ASSUME NEW t \in Sessions \ {w}
       PROVE  /\ c.locks \cap session[t].locks = {}
              /\ c.phase = "reading" /\ session[t].phase = "reading" =>
                   c.message # session[t].message
  <2>1. t # w /\ t \in Sessions
    OBVIOUS
  <2>2. {k} \cap Strong \cap session[t].locks = {}
    BY <1>2, <2>1 DEF MayLook, Unlocked
  <2>3. session[w].locks \cap session[t].locks = {}
    BY <1>1, <2>1 DEF Apart
  <2>4. session[t].phase = "reading" => m # session[t].message
    BY <1>1, <1>2, <2>1 DEF Apart, m
  <2>. QED
    BY <1>7, <2>2, <2>3, <2>4
<1>. QED
  BY <1>1, <1>2, <1>7, <1>8, <1>9, <1>10, <1>12, <1>13, SessionStep DEF TypeOK

\* A save leaves the key and the link alone, or looks the key up under its lock.  What
\* it keeps of the flags includes the one a linked row must have.
LEMMA BeginSaveStep ==
  ASSUME IInv, BeginSave
  PROVE  IInv'
<1>. DEFINE saved(p, h) == [row[p] EXCEPT !.stated = h, !.flags = Kept(row[p], h # row[p].stated)]
<1>1. PICK p \in Payments : \E h \in Headers[p] \cup {row[p].stated} : \E approve \in BOOLEAN :
        /\ Idle(Reviewer)
        /\ row[p].status = "pending_review"
        /\ h # row[p].stated => /\ MayLook(Reviewer, h.key)
                                /\ h.key \in Strong => Owners(row, p, h.key) = {}
        /\ \E x \in {saved(p, h), Flagged(saved(p, h), "other", p)} :
           \E y \in IF h # row[p].stated THEN Rekeyed(row, p, x) ELSE {x} :
             session' = [session EXCEPT ![Reviewer] =
               [Fresh EXCEPT !.phase = "saving", !.wrote = {p},
                  !.mine = [Untouched EXCEPT ![p] =
                    [y EXCEPT !.status = IF approve /\ y.flags \subseteq row[p].flags
                                         THEN "approved" ELSE @]],
                  !.locks = IF h # row[p].stated THEN {h.key} \cap Strong ELSE {}]]
        /\ UNCHANGED <<message, reads, row>>
  BY DEF BeginSave
<1>2. PICK h \in Headers[p] \cup {row[p].stated}, approve \in BOOLEAN :
        /\ Idle(Reviewer)
        /\ row[p].status = "pending_review"
        /\ h # row[p].stated => /\ MayLook(Reviewer, h.key)
                                /\ h.key \in Strong => Owners(row, p, h.key) = {}
        /\ \E x \in {saved(p, h), Flagged(saved(p, h), "other", p)} :
           \E y \in IF h # row[p].stated THEN Rekeyed(row, p, x) ELSE {x} :
             session' = [session EXCEPT ![Reviewer] =
               [Fresh EXCEPT !.phase = "saving", !.wrote = {p},
                  !.mine = [Untouched EXCEPT ![p] =
                    [y EXCEPT !.status = IF approve /\ y.flags \subseteq row[p].flags
                                         THEN "approved" ELSE @]],
                  !.locks = IF h # row[p].stated THEN {h.key} \cap Strong ELSE {}]]
        /\ UNCHANGED <<message, reads, row>>
  BY <1>1
<1>. DEFINE changed == h # row[p].stated
            s0 == saved(p, h)
            locks == IF changed THEN {h.key} \cap Strong ELSE {}
<1>3. PICK x \in {s0, Flagged(s0, "other", p)} :
        \E y \in IF changed THEN Rekeyed(row, p, x) ELSE {x} :
          session' = [session EXCEPT ![Reviewer] =
            [Fresh EXCEPT !.phase = "saving", !.wrote = {p},
               !.mine = [Untouched EXCEPT ![p] =
                 [y EXCEPT !.status = IF approve /\ y.flags \subseteq row[p].flags
                                      THEN "approved" ELSE @]],
               !.locks = locks]]
  BY <1>2
<1>4. PICK y \in IF changed THEN Rekeyed(row, p, x) ELSE {x} :
        session' = [session EXCEPT ![Reviewer] =
          [Fresh EXCEPT !.phase = "saving", !.wrote = {p},
             !.mine = [Untouched EXCEPT ![p] =
               [y EXCEPT !.status = IF approve /\ y.flags \subseteq row[p].flags
                                    THEN "approved" ELSE @]],
             !.locks = locks]]
  BY <1>3
<1>. DEFINE z == [y EXCEPT !.status = IF approve /\ y.flags \subseteq row[p].flags
                                      THEN "approved" ELSE @]
            c == [Fresh EXCEPT !.phase = "saving", !.wrote = {p},
                               !.mine = [Untouched EXCEPT ![p] = z], !.locks = locks]
<1>5. session' = [session EXCEPT ![Reviewer] = c]
  BY <1>4
<1>6. /\ TypeOK /\ OneOwner /\ Reviewer \in Sessions /\ h \in Header /\ locks \subseteq Strong
      /\ row[p] \in Row /\ row[p].status = "pending_review" /\ Sound(row[p])
      /\ session[Reviewer].phase = "idle"
      /\ UNCHANGED <<message, reads, row>>
  BY <1>2, KeysAssumption DEF IInv, Sessions, RowsSound, TypeOK, Row, Idle
<1>. HIDE DEF z, c
<1>7. /\ s0 \in Row /\ s0.stated = h /\ s0.key = row[p].key /\ s0.linked = row[p].linked
      /\ s0.status = "pending_review" /\ s0.flags = Kept(row[p], changed)
  BY <1>6 DEF Row, Kept
<1>. HIDE DEF s0, saved
<1>8. /\ x \in Row /\ x.stated = h /\ x.key = row[p].key /\ x.linked = row[p].linked
      /\ x.status = "pending_review" /\ Kept(row[p], changed) \subseteq x.flags
  <2>1. CASE x = s0
    BY <1>7, <2>1
  <2>2. CASE x = Flagged(s0, "other", p)
    <3>1. /\ Flagged(s0, "other", p) \in Row
          /\ Flagged(s0, "other", p).stated = s0.stated
          /\ Flagged(s0, "other", p).key = s0.key
          /\ Flagged(s0, "other", p).linked = s0.linked
          /\ Flagged(s0, "other", p).status = s0.status
          /\ s0.flags \subseteq Flagged(s0, "other", p).flags
      BY <1>7, FlaggedRow DEF FlagKinds
    <3>. QED
      BY <1>7, <2>2, <3>1
  <2>. QED
    BY <1>3, <2>1, <2>2
\* What the save makes of the row, before it is approved.
<1>9. /\ y \in Row /\ Sound(y) /\ y.status = "pending_review"
      /\ \A j \in Strong : y.key = j =>
           (j \in locks \/ Owns(row[p], j)) /\ Owners(row, p, j) = {}
  <2>1. CASE ~changed
    <3>1. y = x /\ h = row[p].stated
      BY <1>4, <2>1
    <3>2. Sound(x)
      <4>1. \A f \in row[p].flags : f.kind = "reference" => f \in x.flags
        BY <1>8, <2>1 DEF Kept, KeyFlags
      <4>. QED
        BY <1>6, <1>8, <3>1, <4>1 DEF Sound
    <3>3. ASSUME NEW j \in Strong, x.key = j
          PROVE  Owns(row[p], j) /\ Owners(row, p, j) = {}
      BY <1>6, <1>8, <3>3 DEF Owns, KeyLive, OneOwner, Owners
    <3>. QED
      BY <1>8, <3>1, <3>2, <3>3
  <2>2. CASE changed
    <3>. DEFINE u == [x EXCEPT !.key = NoKey, !.linked = FALSE]
    <3>1. /\ u \in Row /\ u.status = "pending_review" /\ u.key = NoKey /\ ~u.linked
          /\ u.stated = h
      BY <1>8 DEF Row
    <3>2. y \in Assigned(row, p, u)
      BY <1>4, <2>2 DEF Rekeyed
    <3>. HIDE DEF u
    <3>3. /\ y \in Row /\ Sound(y) /\ y.status \in {"pending_review", "duplicate"}
          /\ \A j \in Strong : y.key = j => j = u.stated.key /\ Owners(row, p, j) = {}
          /\ y.status = "duplicate" =>
               u.stated.key \in Strong /\ Owners(row, p, u.stated.key) # {}
      <4>. DEFINE rows == row
      <4>1. y \in Assigned(rows, p, u)
        BY <3>2
      <4>. HIDE DEF rows
      <4>2. y \in Row /\ Sound(y) /\ y.status \in {"pending_review", "duplicate"}
        BY <3>1, <4>1, AssignedRow
      <4>3. ASSUME NEW j \in Strong, y.key = j
            PROVE  j = u.stated.key /\ Owners(rows, p, j) = {}
        BY <3>1, <4>1, <4>3, AssignedRow
      <4>4. y.status = "duplicate" =>
              u.stated.key \in Strong /\ Owners(rows, p, u.stated.key) # {}
        BY <3>1, <4>1, AssignedRow
      <4>. QED
        BY <4>2, <4>3, <4>4 DEF rows
    <3>. QED
      BY <1>2, <2>2, <3>1, <3>3
  <2>. QED
    BY <2>1, <2>2
<1>. HIDE DEF locks, changed
<1>10. z \in Row /\ Sound(z) /\ z.key = y.key
  <2>1. /\ z \in Row /\ z.key = y.key /\ z.stated = y.stated /\ z.linked = y.linked
        /\ z.flags = y.flags
    BY <1>9 DEF z, Row, Statuses
  <2>2. y.status \in KeyLive
    BY <1>9 DEF KeyLive
  <2>. QED
    BY <1>9, <2>1, <2>2 DEF Sound
<1>11. /\ c \in Session /\ c.phase = "saving" /\ c.wrote = {p} /\ c.mine[p] = z
       /\ c.locks = locks
  BY <1>6, <1>10, BlankType, FreshType DEF c, Fresh, Session
<1>12. session'[Reviewer] = c
  BY <1>5, <1>6 DEF TypeOK
<1>13. (Reads(Reviewer) /\ Saves(Reviewer) /\ Rests(Reviewer))'
  BY <1>6, <1>10, <1>11, <1>12 DEF Reads, Saves, Rests
<1>14. Claimed(Reviewer)'
  <2>1. SUFFICES ASSUME NEW j \in Strong, Owns(z, j)
                 PROVE  /\ j \in locks \/ Owns(row'[p], j)
                        /\ Owners(View(Reviewer)', p, j) = {}
    BY <1>11, <1>12 DEF Claimed
  <2>2. (j \in locks \/ Owns(row[p], j)) /\ Owners(row, p, j) = {}
    BY <1>9, <1>10, <2>1 DEF Owns
  <2>3. \A q \in Payments \ {p} : View(Reviewer)'[q] = row[q]
    BY <1>6, <1>11, <1>12 DEF View
  <2>. QED
    BY <1>6, <2>2, <2>3 DEF Owners
<1>15. ASSUME NEW t \in Sessions \ {Reviewer}
       PROVE  c.locks \cap session[t].locks = {} /\ c.phase # "reading"
  BY <1>2, <1>11 DEF locks, changed, MayLook, Unlocked
<1>. QED
  BY <1>5, <1>6, <1>11, <1>13, <1>14, <1>15, SessionStep DEF TypeOK

\* While the reviewer's session is idle, no session is writing a row that is not unread.
LEMMA NobodyWrites ==
  ASSUME IInv, Idle(Reviewer), NEW s \in Sessions, NEW p \in session[s].wrote
  PROVE  row[p].status = "unread"
BY SessionParts DEF IInv, SessionsSound, Reads, Saves, Rests, Idle

LEMMA RejectStep ==
  ASSUME IInv, NEW p \in Payments, Reject(p)
  PROVE  IInv'
<1>1. /\ Idle(Reviewer) /\ row[p].status = "pending_review" /\ row[p] \in Row
      /\ row \in [Payments -> Row]
      /\ row' = [row EXCEPT ![p].status = "rejected"]
      /\ UNCHANGED <<message, reads, session>>
  BY DEF Reject, IInv, TypeOK
<1>2. row'[p] \in Row /\ row'[p].status = "rejected" /\ row' \in [Payments -> Row]
  BY <1>1 DEF Row, Statuses
<1>3. Sound(row'[p]) /\ \A k \in Strong : ~Owns(row'[p], k)
  BY <1>2 DEF Sound, Owns, KeyLive
<1>4. \A s \in Sessions : session[s].wrote \cap {p} = {}
  BY <1>1, NobodyWrites
<1>5. \A q \in Payments \ {p} : row'[q] = row[q]
  BY <1>1
<1>. QED
  BY <1>1, <1>2, <1>3, <1>4, <1>5, FreeStep

LEMMA MarkAlreadyRecordedStep ==
  ASSUME IInv, NEW p \in Payments, MarkAlreadyRecorded(p)
  PROVE  IInv'
<1>1. /\ Idle(Reviewer) /\ row[p].status = "pending_review" /\ row[p] \in Row
      /\ row \in [Payments -> Row] /\ Sound(row[p])
      /\ row' = [row EXCEPT ![p].status = "already_recorded"]
      /\ UNCHANGED <<message, reads, session>>
  BY DEF MarkAlreadyRecorded, IInv, TypeOK, RowsSound
<1>2. /\ row'[p] \in Row /\ row' \in [Payments -> Row]
      /\ row'[p].key = row[p].key /\ row'[p].stated = row[p].stated
      /\ row'[p].linked = row[p].linked /\ row'[p].flags = row[p].flags
  BY <1>1 DEF Row, Statuses
<1>3. Sound(row'[p]) /\ \A k \in Strong : Owns(row'[p], k) => Owns(row[p], k)
  BY <1>1, <1>2 DEF Sound, Owns, KeyLive
<1>4. \A s \in Sessions : session[s].wrote \cap {p} = {}
  BY <1>1, NobodyWrites
<1>5. \A q \in Payments \ {p} : row'[q] = row[q]
  BY <1>1
<1>. QED
  BY <1>1, <1>2, <1>3, <1>4, <1>5, FreeStep

LEMMA ReprocessStep ==
  ASSUME IInv, NEW m \in Messages, Reprocess(m)
  PROVE  IInv'
<1>1. /\ Idle(Reviewer) /\ row \in [Payments -> Row]
      /\ row' = [p \in Payments |-> IF p \in PaymentsOf(m) THEN Blank ELSE row[p]]
      /\ UNCHANGED <<message, reads, session>>
  BY DEF Reprocess, IInv, TypeOK
<1>2. PICK r \in PaymentsOf(m) : row[r].status = "pending_review"
  BY DEF Reprocess
<1>3. PaymentsOf(m) \subseteq Payments /\ row' \in [Payments -> Row]
  BY <1>1, BlankType, PaymentsInMessages
<1>4. Sound(Blank) /\ \A k \in Strong : ~Owns(Blank, k)
  BY BlankType DEF Blank, Owns, KeyLive
<1>5. ASSUME NEW s \in Sessions
      PROVE  session[s].wrote \cap PaymentsOf(m) = {}
  <2>1. Reads(s) /\ Saves(s) /\ Rests(s) /\ session[s].message \in Messages
        /\ session[s].phase \in {"idle", "reading", "saving"}
    BY SessionParts DEF IInv, SessionsSound
  <2>2. CASE session[s].phase = "reading"
    <3>1. session[s].wrote = PaymentsOf(session[s].message)
      BY <2>1, <2>2 DEF Reads
    <3>2. r \notin session[s].wrote
      BY <1>1, <1>2, NobodyWrites
    <3>. QED
      BY <1>2, <2>1, <3>1, <3>2, PaymentsInMessages
  <2>3. CASE session[s].phase = "idle"
    BY <2>1, <2>3 DEF Rests
  <2>4. CASE session[s].phase = "saving"
    BY <1>1, <2>1, <2>4 DEF Saves, Idle
  <2>. QED
    BY <2>1, <2>2, <2>3, <2>4
<1>6. /\ \A p \in Payments \ PaymentsOf(m) : row'[p] = row[p]
      /\ \A p \in PaymentsOf(m) : row'[p] = Blank
  BY <1>1, <1>3
<1>. QED
  BY <1>1, <1>3, <1>4, <1>5, <1>6, FreeStep

LEMMA CommitReadStep ==
  ASSUME IInv, NEW w \in Workers, CommitRead(w)
  PROVE  IInv'
<1>1. /\ w \in Sessions /\ session[w].phase = "reading"
      /\ session[w].nth > Len(PaysIn[session[w].message])
      /\ row' = View(w) /\ Ends(w) /\ message' = message
      /\ reads' = [reads EXCEPT ![session[w].message] = @ + 1]
      /\ reads \in [Messages -> Nat] /\ Reads(w)
      /\ session[w].message \in Messages /\ session[w].nth \in Nat
  BY SessionParts DEF CommitRead, Sessions, IInv, TypeOK, SessionsSound
<1>2. ASSUME NEW p \in session[w].wrote
      PROVE  Sound(session[w].mine[p])
  <2>1. PICK i \in DOMAIN PaysIn[session[w].message] : p = PaysIn[session[w].message][i]
    BY <1>1, <1>2 DEF Reads, PaymentsOf
  <2>2. i < session[w].nth
    <3>1. PaysIn[session[w].message] \in Seq(Payments)
      BY <1>1, KeysAssumption
    <3>. QED
      BY <1>1, <3>1
  <2>. QED
    BY <1>1, <2>1, <2>2 DEF Reads
<1>3. reads' \in [Messages -> Nat]
  BY <1>1
<1>. QED
  BY <1>1, <1>2, <1>3, CommitStep

\* What the invariant rests on: each action preserves it.
LEMMA IInvStep == IInv /\ [Next]_vars => IInv'
<1>. SUFFICES ASSUME IInv, [Next]_vars PROVE IInv'
  OBVIOUS
<1>. /\ message \in [Messages -> {"unsplit", "new", "seen", "failed"}]
     /\ reads \in [Messages -> Nat]
  BY DEF IInv, TypeOK
<1>1. ASSUME NEW m \in Messages, Split(m) PROVE IInv'
  BY <1>1, MessageStep DEF Split
<1>2. ASSUME NEW m \in Messages, RetryMessage(m) PROVE IInv'
  BY <1>2, MessageStep DEF RetryMessage
<1>3. ASSUME NEW m \in Messages, Reprocess(m) PROVE IInv'
  BY <1>3, ReprocessStep
<1>4. ASSUME NEW w \in Workers, NEW m \in Messages, BeginRead(w, m) PROVE IInv'
  BY <1>4, BeginReadStep
<1>5. ASSUME NEW w \in Workers, Place(w) PROVE IInv'
  BY <1>5, PlaceStep
<1>6. ASSUME NEW w \in Workers, CommitRead(w) PROVE IInv'
  BY <1>6, CommitReadStep
<1>7. ASSUME NEW w \in Workers, FailRead(w) PROVE IInv'
  <2>1. w \in Sessions /\ row' = row /\ reads' = reads /\ Ends(w)
    BY <1>7 DEF FailRead, Sessions
  <2>2. message' \in [Messages -> {"unsplit", "new", "seen", "failed"}]
    BY <1>7 DEF FailRead
  <2>. QED
    BY <2>1, <2>2, EndStep
<1>8. CASE BeginSave
  BY <1>8, BeginSaveStep
<1>9. CASE CommitSave
  <2>1. Reviewer \in Sessions /\ Saves(Reviewer)
    BY DEF Sessions, IInv, SessionsSound
  <2>. QED
    BY <1>9, <2>1, CommitStep DEF CommitSave, Saves
<1>10. CASE DropSave
  BY <1>10, EndStep DEF DropSave, Sessions
<1>11. ASSUME NEW p \in Payments, Reject(p) PROVE IInv'
  BY <1>11, RejectStep
<1>12. ASSUME NEW p \in Payments, MarkAlreadyRecorded(p) PROVE IInv'
  BY <1>12, MarkAlreadyRecordedStep
<1>13. CASE UNCHANGED vars
  BY <1>13, MessageStep DEF vars
<1>. QED
  BY <1>1, <1>2, <1>3, <1>4, <1>5, <1>6, <1>7, <1>8, <1>9, <1>10, <1>11, <1>12, <1>13 DEF Next

-----------------------------------------------------------------------------
(* Theorems.                                                                *)

\* The invariant holds of every run, however many workers read at once.
THEOREM KeysInvariance == Spec => []IInv
BY IInvInit, IInvStep, PTL DEF Spec

\* Messages, rows and sessions keep to their types.
THEOREM KeysTypeCorrect == Spec => []TypeOK
<1>1. IInv => TypeOK
  BY DEF IInv
<1>. QED
  BY <1>1, KeysInvariance, PTL

\* No session ever holds, uncommitted, a strong key that another row owns: the unique
\* index ux_extraction_payment_key never refuses a commit of lock_payment_key's users.
THEOREM NoClaimCollidesHolds == Spec => []NoClaimCollides
<1>1. IInv => NoClaimCollides
  BY DEF IInv, SessionsSound, Claimed, NoClaimCollides
<1>. QED
  BY <1>1, KeysInvariance, PTL

\* Whatever was read, edited, rejected and read again, the key a live row owns is the
\* one its header states, and a row found to be a repeat owns none.
THEOREM KeyMatchesHeaderHolds == Spec => []KeyMatchesHeader
<1>1. IInv => KeyMatchesHeader
  BY DEF IInv, RowsSound, Sound, KeyMatchesHeader
<1>. QED
  BY <1>1, KeysInvariance, PTL

\* Of two payments approved for one bank reference, one was flagged as using a reference
\* that was already taken: if neither was linked they would both own the key.
THEOREM NoUnseenDoublePaymentHolds == Spec => []NoUnseenDoublePayment
<1>1. ASSUME IInv PROVE NoUnseenDoublePayment
  <2>1. SUFFICES ASSUME NEW p \in Payments, NEW q \in Payments, p # q,
                        row[p].stated.key \in Strong,
                        row[p].stated.key = row[q].stated.key,
                        row[p].status \in {"approved", "already_recorded"},
                        row[q].status \in {"approved", "already_recorded"}
                 PROVE  \E f \in row[p].flags \cup row[q].flags : f.kind = "reference"
    BY DEF NoUnseenDoublePayment
  <2>2. Sound(row[p]) /\ Sound(row[q]) /\ OneOwner
    BY <1>1 DEF IInv, RowsSound
  <2>3. row[p].status \in KeyLive /\ row[q].status \in KeyLive
    BY <2>1 DEF KeyLive
  <2>4. CASE row[p].linked \/ row[q].linked
    BY <2>2, <2>3, <2>4 DEF Sound
  <2>5. CASE ~row[p].linked /\ ~row[q].linked
    BY <2>1, <2>2, <2>3, <2>5 DEF Sound, Owns, OneOwner
  <2>. QED
    BY <2>4, <2>5
<1>2. IInv => NoUnseenDoublePayment
  BY <1>1
<1>. QED
  BY <1>2, KeysInvariance, PTL
=============================================================================

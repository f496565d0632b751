-------------------------- MODULE LiveSessionProofs --------------------------
(***************************************************************************)
(* Proofs about LiveSession for any sessions, variants, faults and bounds: *)
(* what the user works on is what localStorage holds, the progress of a    *)
(* session never overtakes its creation, types, and no session that was    *)
(* finished is taken up again before the handled list has forgotten it.    *)
(***************************************************************************)
EXTENDS LiveSession, DataLemmas, SequenceTheorems, FiniteSetTheorems, TLAPS

Fields == {"state", "current", "arrived", "sourceFile", "observed", "scout", "waiting", "pending",
           "awaiting", "capture", "gate", "posts", "reads", "saved", "handled"}

PostsOf(given) ==
  [kind : {"generate", "accept", "discard", "orphaned", "checkpoint"}, id : given,
   at : {"gated", "sent", "ok", "refused", "unknown"}, gate : given \cup {NoId}]

\* q is a creation that has not reached the server.
Outbound(q) == q.kind = "generate" /\ q.at = "sent"

\* A session has one creation.  While it is on its way the server does not know the session, the
\* gate holds back what this page, which works on it, has to say of it, and holds it for that creation.
Ordered(t, journal) ==
  /\ \A p, q \in t.posts : p.kind = "generate" /\ q.kind = "generate" /\ p.id = q.id => p = q
  /\ \A q \in t.posts : q.kind = "generate" => q.at # "gated"
  /\ \A q \in t.posts : Outbound(q) =>
       /\ journal[q.id] = "none"
       /\ t.current = q.id => t.gate = q.id
       /\ t.saved.id = q.id => t.current = q.id
       /\ \A p \in t.posts : p.kind = "checkpoint" /\ p.id = q.id => p.at = "gated" /\ p.gate = q.id

\* A tab, when the ids in `given` were given out and the server's journal says `journal`; `plain`
\* if requests are sent at once.
Sound(t, given, journal, plain) ==
  /\ DOMAIN t = Fields
  /\ {t.current, t.waiting, t.capture, t.gate} \subseteq given \cup {NoId}
  /\ t.saved = NotSaved \/ t.saved.id \in given
  /\ t.current # NoId => t.saved.id = t.current
  /\ \A r \in t.reads : r.id \in given
  /\ t.posts \subseteq PostsOf(given)
  /\ plain => t.capture = NoId /\ Ordered(t, journal)

Plain == "capture" \notin faults

\* What the server does not know is nowhere; what it knows was given out.
WorldSound ==
  /\ jsx \in BOOLEAN /\ used \subseteq Sessions
  /\ dom \in [Sessions -> Int] /\ source \in [Sessions -> Int]
  /\ server \in [Sessions -> ServerStates]
  /\ events \in Seq([type : EventTypes, id : Sessions])
  /\ \A s \in Sessions : server[s] = "none" => dom[s] = Missing /\ source[s] = Missing
  /\ \A s \in Sessions : server[s] # "none" => s \in used

SInv == WorldSound /\ Sound(tab, used, server, Plain)

-----------------------------------------------------------------------------
(* What the handlers are made of keeps a tab sound.                        *)

\* u has what t has, as far as Sound looks at it.
Like(u, t) ==
  /\ DOMAIN u = Fields
  /\ u.current = t.current /\ u.saved = t.saved /\ u.gate = t.gate /\ u.posts = t.posts /\ u.capture = t.capture

LEMMA LikeSound ==
  ASSUME NEW t, NEW u, NEW given, NEW journal, NEW plain, Sound(t, given, journal, plain), Like(u, t),
         u.waiting \in given \cup {NoId}, \A r \in u.reads : r.id \in given
  PROVE  Sound(u, given, journal, plain)
BY DEF Sound, Like, Ordered

\* The tab may work on c: the server knows it, or it is the one that is saved.
MayTake(t, c, given, journal) == c \in given /\ (journal[c] # "none" \/ t.saved.id = c)

\* The tab takes up session c and saves it.
LEMMA TakeSound ==
  ASSUME NEW t, NEW u, NEW c, NEW given, NEW journal, NEW plain, Sound(t, given, journal, plain), NoId \notin given,
         MayTake(t, c, given, journal),
         DOMAIN u = Fields, u.current = c, u.saved.id = c, u.gate = t.gate, u.posts = t.posts,
         u.capture = t.capture, u.waiting = t.waiting, u.reads = t.reads
  PROVE  Sound(u, given, journal, plain)
BY DEF Sound, MayTake, Ordered, NotSaved

\* The tab has let its session go.
LEMMA LetGoSound ==
  ASSUME NEW t, NEW u, NEW given, NEW journal, NEW plain, Sound(t, given, journal, plain), NoId \notin given,
         DOMAIN u = Fields, u.current = NoId, u.saved = NotSaved, u.gate = t.gate, u.posts = t.posts,
         u.capture = t.capture, u.waiting \in {NoId, t.waiting}, u.reads = t.reads
  PROVE  Sound(u, given, journal, plain)
<1>1. t.posts \subseteq PostsOf(given) /\ \A q \in t.posts : q.id \in given
  BY DEF Sound, PostsOf
<1>. QED
  BY <1>1 DEF Sound, Ordered, NotSaved

LEMMA SendSound ==
  ASSUME NEW t, NEW given, NEW journal, NEW plain, Sound(t, given, journal, plain), NoId \notin given,
         t.current # NoId, NEW kind \in {"accept", "discard", "orphaned", "checkpoint"}
  PROVE  Sound(SendEvent(t, kind, t.current), given, journal, plain)
<1>. PICK p : p = [kind |-> kind, id |-> t.current, gate |-> t.gate,
                   at |-> IF t.gate = NoId THEN "sent" ELSE "gated"]
  OBVIOUS
<1>. PICK u : u = [t EXCEPT !.posts = t.posts \cup {p}]
  OBVIOUS
<1>1. SendEvent(t, kind, t.current) = u
  BY DEF SendEvent, Sound
<1>2. /\ DOMAIN u = Fields /\ u.current = t.current /\ u.saved = t.saved /\ u.gate = t.gate /\ u.capture = t.capture
      /\ u.waiting = t.waiting /\ u.reads = t.reads /\ u.posts = t.posts \cup {p}
  BY DEF Sound, Fields
<1>3. /\ p \in PostsOf(given) /\ p.kind = kind /\ p.id = t.current /\ p.gate = t.gate
      /\ t.gate # NoId => p.at = "gated"
  BY DEF Sound, PostsOf
<1>. QED
  BY <1>1, <1>2, <1>3 DEF Sound, Ordered, Outbound

LEMMA SaveSound ==
  ASSUME NEW t, NEW given, NEW journal, NEW plain, Sound(t, given, journal, plain), NoId \notin given
  PROVE  Sound(SaveSession(t), given, journal, plain) /\ SaveSession(t).gate = t.gate /\ SaveSession(t).current = t.current
<1>1. CASE t.current = NoId
  BY <1>1 DEF SaveSession
<1>2. CASE t.current # NoId
  <2>. PICK x : x = [id |-> t.current, st |-> t.state, arrived |-> t.arrived, file |-> t.sourceFile]
    OBVIOUS
  <2>. PICK u : u = [t EXCEPT !.saved = x]
    OBVIOUS
  <2>1. SaveSession(t) = u
    BY <1>2 DEF SaveSession
  <2>2. /\ DOMAIN u = Fields /\ u.current = t.current /\ u.saved.id = t.current /\ u.gate = t.gate
        /\ u.posts = t.posts /\ u.capture = t.capture /\ u.waiting = t.waiting /\ u.reads = t.reads
    BY DEF Sound, Fields
  <2>3. PICK c : c = t.current
    OBVIOUS
  <2>4. MayTake(t, c, given, journal)
    BY <1>2, <2>3 DEF Sound, MayTake
  <2>5. Sound(u, given, journal, plain)
    BY <2>2, <2>3, <2>4, TakeSound, Zenon
  <2>. QED
    BY <2>1, <2>2, <2>5
<1>. QED
  BY <1>1, <1>2

LEMMA CleanupSound ==
  ASSUME NEW t, NEW given, NEW journal, NEW plain, Sound(t, given, journal, plain), NoId \notin given
  PROVE  Sound(Cleanup(t), given, journal, plain)
<1>. PICK u : u = Cleanup(t)
  OBVIOUS
<1>1. /\ DOMAIN u = Fields /\ u.current = NoId /\ u.saved = NotSaved /\ u.gate = t.gate /\ u.posts = t.posts
      /\ u.capture = t.capture /\ u.waiting = NoId /\ u.reads = t.reads
  BY DEF Sound, Fields, Cleanup, ClearSession
<1>2. u.waiting \in {NoId, t.waiting}
  BY <1>1
<1>. QED
  BY <1>1, <1>2, LetGoSound, Zenon

LEMMA CleanupAcceptedSound ==
  ASSUME NEW t, NEW given, NEW journal, NEW plain, Sound(t, given, journal, plain), NoId \notin given
  PROVE  Sound(CleanupAcceptedSession(t), given, journal, plain)
<1>. PICK u : u = CleanupAcceptedSession(t)
  OBVIOUS
<1>1. /\ DOMAIN u = Fields /\ u.current = NoId /\ u.saved = NotSaved /\ u.gate = t.gate /\ u.posts = t.posts
      /\ u.capture = t.capture /\ u.waiting = t.waiting /\ u.reads = t.reads
  BY DEF Sound, Fields, CleanupAcceptedSession, ClearSession
<1>2. u.waiting \in {NoId, t.waiting}
  BY <1>1
<1>. QED
  BY <1>1, <1>2, LetGoSound, Zenon

LEMMA MarkSound ==
  ASSUME NEW t, NEW id, NEW given, NEW journal, NEW plain, Sound(t, given, journal, plain)
  PROVE  /\ Sound(MarkHandled(t, id), given, journal, plain)
         /\ MarkHandled(t, id).current = t.current
<1>1. CASE id = NoId
  BY <1>1 DEF MarkHandled
<1>2. CASE id # NoId
  <2>. PICK ids : MarkHandled(t, id) = [t EXCEPT !.handled = ids]
    BY <1>2 DEF MarkHandled
  <2>. PICK u : u = [t EXCEPT !.handled = ids]
    OBVIOUS
  <2>1. Like(u, t) /\ u.waiting = t.waiting /\ u.reads = t.reads
    BY DEF Sound, Fields, Like
  <2>2. u.waiting \in given \cup {NoId} /\ \A r \in u.reads : r.id \in given
    BY <2>1 DEF Sound
  <2>. QED
    BY <2>1, <2>2, LikeSound DEF Like
<1>. QED
  BY <1>1, <1>2

LEMMA AddReadSound ==
  ASSUME NEW t, NEW given, NEW journal, NEW plain, Sound(t, given, journal, plain),
         NEW id \in given, NEW completed, NEW orphan, NEW attempt, NEW at
  PROVE  /\ Sound(AddRead(t, id, completed, orphan, attempt, at), given, journal, plain)
         /\ AddRead(t, id, completed, orphan, attempt, at).current = t.current
<1>. PICK r : r = [id |-> id, completed |-> completed, orphanDiscard |-> orphan, attempt |-> attempt, at |-> at]
  OBVIOUS
<1>. PICK u : u = [t EXCEPT !.reads = @ \cup {r}]
  OBVIOUS
<1>1. AddRead(t, id, completed, orphan, attempt, at) = u
  BY DEF AddRead, Sound
<1>2. Like(u, t) /\ u.waiting = t.waiting /\ u.reads = t.reads \cup {r}
  BY DEF Sound, Fields, Like
<1>3. u.waiting \in given \cup {NoId} /\ \A x \in u.reads : x.id \in given
  BY <1>2 DEF Sound
<1>. QED
  BY <1>1, <1>2, <1>3, LikeSound DEF Like

LEMMA RetrySound ==
  ASSUME NEW t, NEW r, NEW given, NEW journal, NEW plain, Sound(t, given, journal, plain), r.id \in given
  PROVE  Sound(RetryRead(t, r), given, journal, plain)
<1>. PICK id \in given : id = r.id
  OBVIOUS
<1>. QED
  BY AddReadSound DEF RetryRead

LEMMA InjectionSound ==
  ASSUME NEW t, NEW r, NEW count, NEW given, NEW journal, NEW plain, Sound(t, given, journal, plain),
         NoId \notin given, r.id \in given
  PROVE  Sound(CompleteSourceInjection(t, r, count), given, journal, plain)
<1>. PICK u : u = [t EXCEPT !.waiting = NoId, !.arrived = count]
  OBVIOUS
<1>. PICK v : v = [u EXCEPT !.state = "CYCLING"]
  OBVIOUS
<1>1. Like(u, t) /\ u.waiting = NoId /\ u.reads = t.reads
  BY DEF Sound, Fields, Like
<1>2. Sound(u, given, journal, plain)
  <2>. u.waiting \in given \cup {NoId} /\ \A x \in u.reads : x.id \in given
    BY <1>1 DEF Sound
  <2>. QED
    BY <1>1, LikeSound
<1>3. Like(v, u) /\ v.waiting = u.waiting /\ v.reads = u.reads
  BY <1>2 DEF Sound, Fields, Like
<1>4. Sound(v, given, journal, plain)
  <2>. v.waiting \in given \cup {NoId} /\ \A x \in v.reads : x.id \in given
    BY <1>2, <1>3 DEF Sound
  <2>. QED
    BY <1>2, <1>3, LikeSound
<1>5. CompleteSourceInjection(t, r, count) \in {SaveSession(v), u, RetryRead(u, r), Cleanup(u)}
  BY DEF CompleteSourceInjection, RecoverEmptyCycling
<1>6. /\ Sound(SaveSession(v), given, journal, plain)
      /\ Sound(RetryRead(u, r), given, journal, plain)
      /\ Sound(Cleanup(u), given, journal, plain)
  BY <1>2, <1>4, SaveSound, RetrySound, CleanupSound
<1>. QED
  BY <1>2, <1>5, <1>6

LEMMA SourceFileSound ==
  ASSUME NEW t, NEW b, NEW given, NEW journal, NEW plain, Sound(t, given, journal, plain)
  PROVE  /\ Sound([t EXCEPT !.sourceFile = b], given, journal, plain)
         /\ [t EXCEPT !.sourceFile = b].current = t.current
<1>. PICK u : u = [t EXCEPT !.sourceFile = b]
  OBVIOUS
<1>1. Like(u, t) /\ u.waiting = t.waiting /\ u.reads = t.reads
  BY DEF Sound, Fields, Like
<1>2. u.waiting \in given \cup {NoId} /\ \A x \in u.reads : x.id \in given
  BY <1>1 DEF Sound
<1>. QED
  BY <1>1, <1>2, LikeSound DEF Like

LEMMA InjectSound ==
  ASSUME NEW t, NEW r, NEW isJsx \in BOOLEAN, NEW page, NEW given, NEW journal, NEW plain,
         Sound(t, given, journal, plain), NoId \notin given, r.id \in given, page[r.id] \in Int
  PROVE  Sound(InjectVariantsFromSource(t, r, isJsx, page), given, journal, plain)
<1>. PICK u : u = [t EXCEPT !.sourceFile = TRUE]
  OBVIOUS
<1>. PICK f : f = AddRead(u, r.id, r.completed, r.orphanDiscard, r.attempt, "fetch")
  OBVIOUS
<1>. PICK c : c = CompleteSourceInjection(u, r, page[r.id])
  OBVIOUS
<1>1. Sound(u, given, journal, plain) /\ u.current = t.current
  BY SourceFileSound
<1>2. InjectVariantsFromSource(t, r, isJsx, page) \in {f, c, RetryRead(u, r), Cleanup(u), u}
  BY DEF InjectVariantsFromSource, RecoverEmptyCycling
<1>3. Sound(f, given, journal, plain)
  BY <1>1, AddReadSound
<1>4. Sound(c, given, journal, plain)
  BY <1>1, InjectionSound
<1>5. Sound(RetryRead(u, r), given, journal, plain) /\ Sound(Cleanup(u), given, journal, plain)
  BY <1>1, RetrySound, CleanupSound
<1>. QED
  BY <1>1, <1>2, <1>3, <1>4, <1>5

LEMMA OrphanSound ==
  ASSUME NEW t, NEW given, NEW journal, NEW plain, Sound(t, given, journal, plain), NoId \notin given
  PROVE  Sound(DiscardOrphanedSession(t), given, journal, plain)
<1>1. CASE t.current = NoId
  BY <1>1 DEF DiscardOrphanedSession
<1>2. CASE t.current # NoId
  <2>. PICK u : u = SendEvent(t, "orphaned", t.current)
    OBVIOUS
  <2>. PICK v : v = MarkHandled(u, t.current)
    OBVIOUS
  <2>1. Sound(u, given, journal, plain)
    BY <1>2, SendSound
  <2>2. Sound(v, given, journal, plain)
    BY <2>1, MarkSound
  <2>. QED
    BY <1>2, <2>2, CleanupSound DEF DiscardOrphanedSession
<1>. QED
  BY <1>1, <1>2

LEMMA MissingSound ==
  ASSUME NEW t, NEW r, NEW given, NEW journal, NEW plain, Sound(t, given, journal, plain),
         NoId \notin given, r.id \in given
  PROVE  Sound(WrapperMissing(t, r), given, journal, plain)
BY RetrySound, OrphanSound DEF WrapperMissing

LEMMA ProbeSound ==
  ASSUME NEW t, NEW r, NEW found \in {"absent", "present", "unreadable"}, NEW given, NEW journal, NEW plain,
         Sound(t, given, journal, plain), NoId \notin given, r.id \in given
  PROVE  Sound(ProbeAnswered(t, r, found), given, journal, plain)
<1>1. ProbeAnswered(t, r, found) \in {t, WrapperMissing(t, r), RetryRead(t, r)}
  BY DEF ProbeAnswered
<1>. QED
  BY <1>1, MissingSound, RetrySound

LEMMA CheckpointSound ==
  ASSUME NEW t, NEW given, NEW journal, NEW plain, Sound(t, given, journal, plain), NoId \notin given
  PROVE  Sound(SendCheckpoint(t), given, journal, plain)
BY SendSound DEF SendCheckpoint

\* The tab takes up session c, stores it and tells the server of it.
LEMMA TakeUpSound ==
  ASSUME NEW t, NEW u, NEW c, NEW given, NEW journal, NEW plain, Sound(t, given, journal, plain), NoId \notin given,
         MayTake(t, c, given, journal),
         DOMAIN u = Fields, u.current = c, u.gate = t.gate, u.posts = t.posts,
         u.capture = t.capture, u.waiting \in given \cup {NoId}, u.reads = t.reads
  PROVE  Sound(SendCheckpoint(SaveSession(u)), given, journal, plain)
<1>. PICK x : x = [id |-> u.current, st |-> u.state, arrived |-> u.arrived, file |-> u.sourceFile]
  OBVIOUS
<1>. PICK v : v = [u EXCEPT !.saved = x]
  OBVIOUS
<1>. PICK w : w = [v EXCEPT !.waiting = t.waiting]
  OBVIOUS
<1>1. c # NoId
  BY DEF MayTake
<1>2. SaveSession(u) = v
  BY <1>1 DEF SaveSession
<1>3. /\ DOMAIN v = Fields /\ v.current = c /\ v.saved.id = c /\ v.gate = t.gate /\ v.posts = t.posts
      /\ v.capture = t.capture /\ v.waiting = u.waiting /\ v.reads = t.reads
  BY DEF Fields
<1>4. /\ DOMAIN w = Fields /\ w.current = c /\ w.saved = v.saved /\ w.saved.id = c /\ w.gate = t.gate
      /\ w.posts = t.posts /\ w.capture = t.capture /\ w.waiting = t.waiting /\ w.reads = t.reads
  BY <1>3 DEF Fields
<1>5. Sound(w, given, journal, plain)
  BY <1>4, TakeSound, Zenon
<1>6. Like(v, w)
  BY <1>3, <1>4 DEF Like
<1>7. v.waiting \in given \cup {NoId} /\ \A r \in v.reads : r.id \in given
  BY <1>3 DEF Sound
<1>8. Sound(v, given, journal, plain)
  BY <1>5, <1>6, <1>7, LikeSound
<1>. QED
  BY <1>2, <1>8, CheckpointSound

LEMMA RecoverySound ==
  ASSUME NEW t, NEW given, NEW id \in given, NEW journal, NEW plain, Sound(t, given, journal, plain), NoId \notin given
  PROVE  Sound(EnterRecoveryWaitingForAnchor(t, id), given, journal, plain)
<1>. PICK u : u = [t EXCEPT !.state = "GENERATING", !.waiting = id]
  OBVIOUS
<1>1. Like(u, t) /\ u.waiting = id /\ u.reads = t.reads
  BY DEF Sound, Fields, Like
<1>2. u.waiting \in given \cup {NoId} /\ \A r \in u.reads : r.id \in given
  BY <1>1 DEF Sound
<1>3. Sound(u, given, journal, plain)
  BY <1>1, <1>2, LikeSound
<1>. QED
  BY <1>3, SaveSound, CheckpointSound DEF EnterRecoveryWaitingForAnchor

LEMMA ObservedSound ==
  ASSUME NEW t, NEW page, NEW given, NEW journal, NEW plain, Sound(t, given, journal, plain), NoId \notin given
  PROVE  Sound(VariantsObserved(t, page), given, journal, plain)
<1>. PICK n : n = page[t.observed]
  OBVIOUS
<1>. PICK u : u = [t EXCEPT !.arrived = n, !.state = "CYCLING"]
  OBVIOUS
<1>1. Like(u, t) /\ u.waiting = t.waiting /\ u.reads = t.reads
  BY DEF Sound, Fields, Like
<1>2. u.waiting \in given \cup {NoId} /\ \A r \in u.reads : r.id \in given
  BY <1>1 DEF Sound
<1>3. Sound(u, given, journal, plain)
  BY <1>1, <1>2, LikeSound
<1>. QED
  BY <1>3, SaveSound, CheckpointSound DEF VariantsObserved

LEMMA SettleSound ==
  ASSUME NEW t, NEW given, NEW journal, NEW plain, Sound(t, given, journal, plain)
  PROVE  Sound(Settle(t), given, journal, plain)
<1>. PICK u : u = [t EXCEPT !.state = "PICKING"]
  OBVIOUS
<1>1. Like(u, t) /\ u.waiting = t.waiting /\ u.reads = t.reads
  BY DEF Sound, Fields, Like
<1>2. u.waiting \in given \cup {NoId} /\ \A r \in u.reads : r.id \in given
  BY <1>1 DEF Sound
<1>. QED
  BY <1>1, <1>2, LikeSound DEF Settle

\* A page and a list of active sessions of which the server knows.
Known(page, active, given, journal) ==
  /\ page \in [Sessions -> Int] /\ given \subseteq Sessions
  /\ \A s \in Sessions : page[s] # Missing => s \in given /\ journal[s] # "none"
  /\ \A a \in active : a.id \in given /\ journal[a.id] # "none"

LEMMA RestoreSound ==
  ASSUME NEW t, NEW s, NEW active, NEW isJsx \in BOOLEAN, NEW page, NEW given, NEW journal, NEW plain,
         Sound(t, given, journal, plain), NoId \notin given, Known(page, active, given, journal),
         MayTake(t, s.id, given, journal)
  PROVE  Sound(RestoreSession(t, s, active, isJsx, page), given, journal, plain)
<1>. DEFINE listed == Summary(s.id, active)
            file == s.file \/ \E a \in listed : a.file
            arrived == IF s.arrived > 0 \/ listed = {} THEN s.arrived ELSE (CHOOSE a \in listed : TRUE).arrived
<1>. PICK c : c = s.id
  OBVIOUS
<1>. PICK f : f = file
  OBVIOUS
<1>. PICK n : n = arrived
  OBVIOUS
<1>. PICK v : v = [t EXCEPT !.current = c, !.sourceFile = f, !.arrived = n, !.state = "GENERATING", !.observed = c]
  OBVIOUS
<1>. PICK u : u = SendCheckpoint(SaveSession(v))
  OBVIOUS
<1>. PICK r : r = [id |-> c, completed |-> FALSE, attempt |-> 0, orphanDiscard |-> s.st = "CYCLING"]
  OBVIOUS
<1>1. RestoreSession(t, s, active, isJsx, page) \in {u, InjectVariantsFromSource(u, r, isJsx, page)}
  BY Zenon DEF RestoreSession
<1>2. /\ DOMAIN v = Fields /\ v.current = c /\ v.gate = t.gate /\ v.posts = t.posts
      /\ v.capture = t.capture /\ v.waiting = t.waiting /\ v.reads = t.reads
  BY DEF Sound, Fields
<1>3. MayTake(t, c, given, journal) /\ v.waiting \in given \cup {NoId}
  BY <1>2 DEF Sound
<1>4. Sound(u, given, journal, plain)
  BY <1>2, <1>3, TakeUpSound, Zenon
<1>5. r.id \in given /\ page[r.id] \in Int
  BY <1>3 DEF MayTake, Known
<1>6. Sound(InjectVariantsFromSource(u, r, isJsx, page), given, journal, plain)
  BY <1>4, <1>5, InjectSound
<1>. QED
  BY <1>1, <1>4, <1>6

LEMMA RestorableMayBeTaken ==
  ASSUME NEW t, NEW active, NEW page, NEW given, NEW journal, NEW plain, Sound(t, given, journal, plain),
         Known(page, active, given, journal), NEW s \in Restorable(t, active)
  PROVE  MayTake(t, s.id, given, journal)
<1>1. CASE t.saved = NotSaved
  <2>1. PICK a \in Adoptable(t, active) : s.id = a.id
    BY <1>1 DEF Restorable
  <2>. QED
    BY <2>1 DEF Adoptable, Known, MayTake
<1>2. CASE t.saved # NotSaved
  BY <1>2 DEF Restorable, MayTake, Sound
<1>. QED
  BY <1>1, <1>2

LEMMA SavedMayBeTaken ==
  ASSUME NEW t, NEW page, NEW given, NEW journal, NEW plain, Sound(t, given, journal, plain), NoId \notin given,
         Restorable(t, {}) # {}
  PROVE  MayTake(t, t.saved.id, given, journal)
<1>1. t.saved # NotSaved
  BY DEF Restorable, Adoptable
<1>. QED
  BY <1>1 DEF Sound, MayTake

LEMMA KnowsNobody ==
  ASSUME NEW page, NEW active, NEW given, NEW journal, Known(page, active, given, journal)
  PROVE  Known(page, {}, given, journal)
BY DEF Known

LEMMA ResumeSound ==
  ASSUME NEW t, NEW w \in Sessions, NEW active, NEW isJsx \in BOOLEAN, NEW page, NEW given, NEW journal, NEW plain,
         Sound(t, given, journal, plain), NoId \notin given, Known(page, active, given, journal), page[w] # Missing
  PROVE  Sound(ResumeWrapper(t, w, isJsx, page), given, journal, plain)
<1>1. CASE IsHandled(t, w)
  <2>1. CASE Restorable(t, {}) = {}
    BY <1>1, <2>1 DEF ResumeWrapper
  <2>2. CASE Restorable(t, {}) # {}
    <3>. PICK s : s = t.saved
      OBVIOUS
    <3>1. MayTake(t, s.id, given, journal)
      BY <2>2, SavedMayBeTaken
    <3>2. Sound(RestoreSession(t, s, {}, isJsx, page), given, journal, plain)
      BY <3>1, KnowsNobody, RestoreSound
    <3>. QED
      BY <1>1, <3>2 DEF ResumeWrapper
  <2>. QED
    BY <2>1, <2>2
<1>2. CASE ~IsHandled(t, w)
  <2>. DEFINE file == t.sourceFile \/ (t.saved.id = w /\ t.saved.file)
              state == IF page[w] > 0 THEN "CYCLING" ELSE "GENERATING"
  <2>. PICK f : f = file
    OBVIOUS
  <2>. PICK z : z = state
    OBVIOUS
  <2>. PICK n : n = page[w]
    OBVIOUS
  <2>. PICK v : v = [t EXCEPT !.current = w, !.arrived = n, !.observed = w, !.sourceFile = f, !.state = z]
    OBVIOUS
  <2>1. ResumeWrapper(t, w, isJsx, page) = SendCheckpoint(SaveSession(v))
    BY <1>2, Zenon DEF ResumeWrapper
  <2>2. /\ DOMAIN v = Fields /\ v.current = w /\ v.gate = t.gate /\ v.posts = t.posts
        /\ v.capture = t.capture /\ v.waiting = t.waiting /\ v.reads = t.reads
    BY DEF Sound, Fields
  <2>3. MayTake(t, w, given, journal) /\ v.waiting \in given \cup {NoId}
    BY <2>2 DEF Sound, Known, MayTake
  <2>4. Sound(SendCheckpoint(SaveSession(v)), given, journal, plain)
    BY <2>2, <2>3, TakeUpSound, Zenon
  <2>. QED
    BY <2>1, <2>4
<1>. QED
  BY <1>1, <1>2

LEMMA ResumeNothingSound ==
  ASSUME NEW t, NEW active, NEW isJsx \in BOOLEAN, NEW page, NEW given, NEW journal, NEW plain,
         Sound(t, given, journal, plain), NoId \notin given, Known(page, active, given, journal), t.current = NoId
  PROVE  Sound(ResumeWithoutWrapper(t, isJsx, page), given, journal, plain)
<1>1. CASE Restorable(t, {}) = {}
  <2>. PICK u : u = ClearSession(t)
    OBVIOUS
  <2>1. /\ DOMAIN u = Fields /\ u.current = NoId /\ u.saved = NotSaved /\ u.gate = t.gate /\ u.posts = t.posts
        /\ u.capture = t.capture /\ u.waiting = t.waiting /\ u.reads = t.reads
    BY DEF Sound, Fields, ClearSession
  <2>2. u.waiting \in {NoId, t.waiting}
    BY <2>1
  <2>3. Sound(u, given, journal, plain)
    BY <2>1, <2>2, LetGoSound, Zenon
  <2>. QED
    BY <1>1, <2>3 DEF ResumeWithoutWrapper
<1>2. CASE Restorable(t, {}) # {}
  <2>. PICK s : s = t.saved
    OBVIOUS
  <2>1. MayTake(t, s.id, given, journal)
    BY <1>2, SavedMayBeTaken
  <2>2. Sound(RestoreSession(t, s, {}, isJsx, page), given, journal, plain)
    BY <2>1, KnowsNobody, RestoreSound
  <2>. QED
    BY <1>2, <2>2 DEF ResumeWithoutWrapper
<1>. QED
  BY <1>1, <1>2

LEMMA MissedSound ==
  ASSUME NEW t, NEW active, NEW page, NEW given, NEW journal, NEW plain, Sound(t, given, journal, plain),
         Known(page, active, given, journal)
  PROVE  Sound(RecoverMissedCompletion(t, active), given, journal, plain)
<1>1. CASE \E a \in Summary(t.current, active) : a.completed
  <2>. PICK u : u = [t EXCEPT !.sourceFile = TRUE]
    OBVIOUS
  <2>1. Sound(u, given, journal, plain)
    BY SourceFileSound
  <2>2. PICK id \in given : id = t.current
    BY <1>1 DEF Summary, Known
  <2>3. Sound(AddRead(u, id, TRUE, FALSE, 0, "timer"), given, journal, plain)
    BY <2>1, AddReadSound
  <2>. QED
    BY <2>2, <2>3 DEF RecoverMissedCompletion
<1>2. CASE ~\E a \in Summary(t.current, active) : a.completed
  BY <1>2 DEF RecoverMissedCompletion
<1>. QED
  BY <1>1, <1>2

-----------------------------------------------------------------------------
(* What a loaded page and a changed page make of a tab.                    *)

\* The tab of a page that has just loaded has nothing under way.
LEMMA FreshSound ==
  ASSUME NEW saved, NEW handled, NEW given, NEW journal, NEW plain, saved = NotSaved \/ saved.id \in given
  PROVE  Sound(FreshTab(saved, handled), given, journal, plain) /\ FreshTab(saved, handled).current = NoId
BY DEF FreshTab, Sound, Fields, Ordered

LEMMA ScoutSound ==
  ASSUME NEW t, NEW b, NEW given, NEW journal, NEW plain, Sound(t, given, journal, plain)
  PROVE  Sound([t EXCEPT !.scout = b], given, journal, plain)
<1>. PICK u : u = [t EXCEPT !.scout = b]
  OBVIOUS
<1>1. Like(u, t) /\ u.waiting = t.waiting /\ u.reads = t.reads
  BY DEF Sound, Fields, Like
<1>2. u.waiting \in given \cup {NoId} /\ \A r \in u.reads : r.id \in given
  BY <1>1 DEF Sound
<1>. QED
  BY <1>1, <1>2, LikeSound

LEMMA WrapperIsInPage ==
  ASSUME NEW page, NEW w \in AnyWrapper(page), page \in [Sessions -> Int]
  PROVE  w \in Sessions /\ page[w] # Missing
BY DEF AnyWrapper, Missing

LEMMA LoadedSound ==
  ASSUME NEW saved, NEW handled, NEW page, NEW given, NEW journal, NEW plain,
         saved = NotSaved \/ saved.id \in given, NoId \notin given, jsx \in BOOLEAN,
         Known(page, {}, given, journal), NEW u \in Loaded(saved, handled, page)
  PROVE  Sound(u, given, journal, plain)
<1>. PICK t : t = FreshTab(saved, handled)
  OBVIOUS
<1>1. Sound(t, given, journal, plain) /\ t.current = NoId
  BY FreshSound
<1>2. PICK v \in (IF NoWrapper(page) THEN {ResumeWithoutWrapper(t, jsx, page)}
                  ELSE {ResumeWrapper(t, w, jsx, page) : w \in AnyWrapper(page)}) :
        u = Settle([v EXCEPT !.scout = v.current = NoId \/ NoWrapper(page)])
  BY Zenon DEF Loaded
<1>3. CASE NoWrapper(page)
  <2>1. Sound(v, given, journal, plain)
    BY <1>1, <1>2, <1>3, ResumeNothingSound
  <2>. QED
    BY <1>2, <2>1, ScoutSound, SettleSound
<1>4. CASE ~NoWrapper(page)
  <2>1. PICK w \in AnyWrapper(page) : v = ResumeWrapper(t, w, jsx, page)
    BY <1>2, <1>4
  <2>2. w \in Sessions /\ page[w] # Missing
    BY WrapperIsInPage DEF Known
  <2>3. Sound(v, given, journal, plain)
    BY <1>1, <2>1, <2>2, ResumeSound
  <2>. QED
    BY <1>2, <2>3, ScoutSound, SettleSound
<1>. QED
  BY <1>3, <1>4

LEMMA AnchorSound ==
  ASSUME NEW t, NEW page, NEW given, NEW journal, NEW plain, Sound(t, given, journal, plain),
         NoId \notin given, jsx \in BOOLEAN, Known(page, {}, given, journal)
  PROVE  Sound(AnchorSeen(t, page), given, journal, plain)
<1>1. CASE t.waiting = NoId
  BY <1>1 DEF AnchorSeen
<1>2. CASE t.waiting # NoId
  <2>. PICK u : u = [t EXCEPT !.waiting = NoId]
    OBVIOUS
  <2>. PICK r : r = [id |-> t.waiting, completed |-> FALSE, orphanDiscard |-> FALSE, attempt |-> 0]
    OBVIOUS
  <2>1. Like(u, t) /\ u.waiting = NoId /\ u.reads = t.reads
    BY DEF Sound, Fields, Like
  <2>2. u.waiting \in given \cup {NoId} /\ \A x \in u.reads : x.id \in given
    BY <2>1 DEF Sound
  <2>3. Sound(u, given, journal, plain)
    BY <2>1, <2>2, LikeSound
  <2>4. r.id \in given /\ page[r.id] \in Int
    BY <1>2 DEF Sound, Known
  <2>5. AnchorSeen(t, page) = InjectVariantsFromSource(u, r, jsx, page)
    BY <1>2 DEF AnchorSeen
  <2>. QED
    BY <2>3, <2>4, <2>5, InjectSound
<1>. QED
  BY <1>1, <1>2

LEMMA ScoutedSound ==
  ASSUME NEW t, NEW page, NEW w \in AnyWrapper(page), NEW given, NEW journal, NEW plain,
         Sound(t, given, journal, plain), NoId \notin given, jsx \in BOOLEAN, Known(page, {}, given, journal)
  PROVE  Sound(Scouted(t, w, page), given, journal, plain)
<1>. PICK u : u = [t EXCEPT !.scout = FALSE]
  OBVIOUS
<1>1. Sound(u, given, journal, plain)
  BY ScoutSound
<1>2. w \in Sessions /\ page[w] # Missing
  BY WrapperIsInPage DEF Known
<1>3. Sound(ResumeWrapper(u, w, jsx, page), given, journal, plain)
  BY <1>1, <1>2, ResumeSound
<1>4. Sound(VariantsObserved(u, page), given, journal, plain)
  BY <1>1, ObservedSound
<1>. QED
  BY <1>3, <1>4 DEF Scouted

LEMMA PageChangedSound ==
  ASSUME NEW t, NEW page, NEW given, NEW journal, NEW plain, NEW u \in PageChanged(t, page),
         Sound(t, given, journal, plain), NoId \notin given, jsx \in BOOLEAN, Known(page, {}, given, journal)
  PROVE  Sound(u, given, journal, plain)
<1>1. PICK v \in (IF t.scout /\ ~NoWrapper(page) THEN {Scouted(t, w, page) : w \in AnyWrapper(page)}
                  ELSE {VariantsObserved(t, page)}) : u = AnchorSeen(v, page)
  BY Zenon DEF PageChanged
<1>2. (\E w \in AnyWrapper(page) : v = Scouted(t, w, page)) \/ v = VariantsObserved(t, page)
  BY Zenon
<1>3. Sound(v, given, journal, plain)
  BY <1>2, ScoutedSound, ObservedSound
<1>. QED
  BY <1>1, <1>3, AnchorSound

-----------------------------------------------------------------------------
(* Requests.                                                               *)

LEMMA GivenGrows ==
  ASSUME NEW given, NEW more, given \subseteq more
  PROVE  PostsOf(given) \subseteq PostsOf(more)
BY DEF PostsOf

\* A new session: nothing is known of it yet, and what is sent for it first is its creation.
LEMMA StartSound ==
  ASSUME NEW t, NEW given, NEW id, id \notin given, NEW journal, NEW plain \in BOOLEAN, NEW annotated \in BOOLEAN,
         Sound(t, given, journal, plain), NoId \notin given, id # NoId, journal[id] = "none", plain => ~annotated
  PROVE  Sound(StartGeneration(t, id, annotated), given \cup {id}, journal, plain)
<1>. PICK more : more = given \cup {id}
  OBVIOUS
<1>. PICK v : v = [t EXCEPT !.pending = NoId, !.awaiting = NoId, !.current = id, !.arrived = 0,
                            !.sourceFile = FALSE, !.state = "GENERATING", !.observed = id]
  OBVIOUS
<1>. PICK x : x = [id |-> id, st |-> v.state, arrived |-> v.arrived, file |-> v.sourceFile]
  OBVIOUS
<1>. PICK u : u = [v EXCEPT !.saved = x]
  OBVIOUS
<1>1. /\ DOMAIN v = Fields /\ v.current = id /\ v.gate = t.gate /\ v.posts = t.posts
      /\ v.capture = t.capture /\ v.waiting = t.waiting /\ v.reads = t.reads
  BY DEF Sound, Fields
<1>2. SaveSession(v) = u
  BY <1>1 DEF SaveSession
<1>3. /\ DOMAIN u = Fields /\ u.current = id /\ u.saved.id = id /\ u.gate = t.gate /\ u.posts = t.posts
      /\ u.capture = t.capture /\ u.waiting = t.waiting /\ u.reads = t.reads
  BY <1>1 DEF Fields
<1>4. /\ id \in more /\ {t.waiting, t.capture, t.gate} \subseteq more \cup {NoId}
      /\ \A r \in t.reads : r.id \in more
      /\ t.posts \subseteq PostsOf(more)
  BY GivenGrows DEF Sound
<1>5. CASE annotated
  <2>. PICK w : w = [u EXCEPT !.capture = id]
    OBVIOUS
  <2>1. /\ DOMAIN w = Fields /\ w.current = id /\ w.saved.id = id /\ w.gate = t.gate /\ w.posts = t.posts
        /\ w.capture = id /\ w.waiting = t.waiting /\ w.reads = t.reads
    BY <1>3 DEF Fields
  <2>2. {w.current, w.waiting, w.capture, w.gate} \subseteq more \cup {NoId}
    BY <1>4, <2>1
  <2>3. Sound(w, more, journal, plain)
    BY <1>4, <1>5, <2>1, <2>2 DEF Sound
  <2>4. StartGeneration(t, id, annotated) = w
    BY <1>2, <1>5 DEF StartGeneration
  <2>. QED
    BY <2>3, <2>4
<1>6. CASE ~annotated
  <2>. PICK p : p = [kind |-> "generate", id |-> id, at |-> "sent", gate |-> NoId]
    OBVIOUS
  <2>. PICK w : w = [u EXCEPT !.posts = @ \cup {p}, !.gate = id]
    OBVIOUS
  <2>1. /\ DOMAIN w = Fields /\ w.current = id /\ w.saved.id = id /\ w.gate = id /\ w.posts = t.posts \cup {p}
        /\ w.capture = t.capture /\ w.waiting = t.waiting /\ w.reads = t.reads
    BY <1>3 DEF Fields
  <2>2. /\ p \in PostsOf(more) /\ p.kind = "generate" /\ p.id = id /\ p.at = "sent"
        /\ \A q \in t.posts : q.id # id
    BY DEF Sound, PostsOf
  <2>3. ASSUME plain
        PROVE  w.capture = NoId /\ Ordered(w, journal)
    <3>1. t.capture = NoId /\ Ordered(t, journal)
      BY <2>3 DEF Sound
    <3>0. \A q \in w.posts : IF q.id = id THEN q = p ELSE q \in t.posts
      BY <2>1, <2>2
    <3>2. \A q, r \in w.posts : q.kind = "generate" /\ r.kind = "generate" /\ q.id = r.id => q = r
      BY <3>0, <3>1 DEF Ordered
    <3>3. \A q \in w.posts : q.kind = "generate" => q.at # "gated"
      BY <2>1, <2>2, <3>1 DEF Ordered
    <3>4. \A q \in w.posts : Outbound(q) =>
            /\ journal[q.id] = "none"
            /\ w.current = q.id => w.gate = q.id
            /\ w.saved.id = q.id => w.current = q.id
      BY <2>1, <2>2, <3>1 DEF Ordered
    <3>5. ASSUME NEW q \in w.posts, Outbound(q), NEW r \in w.posts, r.kind = "checkpoint", r.id = q.id
          PROVE  r.at = "gated" /\ r.gate = q.id
      <4>1. q # p /\ r # p
        BY <2>2, <3>0, <3>5
      <4>. QED
        BY <3>1, <3>5, <3>0, <4>1, <2>2 DEF Ordered
    <3>6. \A q \in w.posts : Outbound(q) =>
            /\ journal[q.id] = "none"
            /\ w.current = q.id => w.gate = q.id
            /\ w.saved.id = q.id => w.current = q.id
            /\ \A r \in w.posts : r.kind = "checkpoint" /\ r.id = q.id => r.at = "gated" /\ r.gate = q.id
      BY <3>4, <3>5
    <3>7. Ordered(w, journal)
      BY <3>2, <3>3, <3>6 DEF Ordered
    <3>. QED
      BY <2>1, <3>1, <3>7
  <2>4. w.posts \subseteq PostsOf(more)
    BY <1>4, <2>1, <2>2
  <2>5. {w.current, w.waiting, w.capture, w.gate} \subseteq more \cup {NoId}
    BY <1>4, <2>1
  <2>6. Sound(w, more, journal, plain)
    BY <1>4, <2>1, <2>3, <2>4, <2>5 DEF Sound
  <2>7. StartGeneration(t, id, annotated) = w
    BY <1>2, <1>6, Zenon DEF StartGeneration, SendEvent
  <2>. QED
    BY <2>6, <2>7
<1>. QED
  BY <1>5, <1>6

\* EmitCaptured, which a plain tab never does.
LEMMA EmitSound ==
  ASSUME NEW t, NEW given, NEW journal, NEW plain, Sound(t, given, journal, plain), NoId \notin given,
         t.capture # NoId
  PROVE  Sound(SendEvent([t EXCEPT !.capture = NoId], "generate", t.capture), given, journal, plain)
<1>. PICK u : u = [t EXCEPT !.capture = NoId]
  OBVIOUS
<1>. PICK p : p = [kind |-> "generate", id |-> t.capture, at |-> "sent", gate |-> NoId]
  OBVIOUS
<1>. PICK w : w = [u EXCEPT !.posts = @ \cup {p}, !.gate = t.capture]
  OBVIOUS
<1>1. DOMAIN u = Fields
  BY DEF Sound
<1>2. /\ DOMAIN w = Fields /\ w.current = t.current /\ w.saved = t.saved /\ w.gate = t.capture
      /\ w.posts = t.posts \cup {p} /\ w.capture = NoId /\ w.waiting = t.waiting /\ w.reads = t.reads
  BY DEF Sound, Fields
<1>3. p \in PostsOf(given) /\ ~plain
  BY DEF Sound, PostsOf
<1>4. Sound(w, given, journal, plain)
  BY <1>2, <1>3 DEF Sound
<1>5. SendEvent(u, "generate", t.capture) = w
  BY Zenon DEF SendEvent
<1>. QED
  BY <1>4, <1>5

\* The end of a request is seen.
LEMMA AnsweredSound ==
  ASSUME NEW t, NEW p, NEW given, NEW journal, NEW plain, Sound(t, given, journal, plain)
  PROVE  Sound([t EXCEPT !.posts = @ \ {p}], given, journal, plain)
<1>. PICK u : u = [t EXCEPT !.posts = @ \ {p}]
  OBVIOUS
<1>1. /\ DOMAIN u = Fields /\ u.current = t.current /\ u.saved = t.saved /\ u.gate = t.gate
      /\ u.posts = t.posts \ {p} /\ u.capture = t.capture /\ u.waiting = t.waiting /\ u.reads = t.reads
  BY DEF Sound, Fields
<1>2. Ordered(t, journal) => Ordered(u, journal)
  BY <1>1 DEF Ordered
<1>. QED
  BY <1>1, <1>2 DEF Sound

\* What the end of the creation of session c makes of a request behind the gate.
Released(q, c) == IF q.at = "gated" /\ q.gate = c THEN [q EXCEPT !.at = "sent", !.gate = NoId] ELSE q

LEMMA ReleasedIsPost ==
  ASSUME NEW given, NEW q \in PostsOf(given), NEW c
  PROVE  /\ Released(q, c) \in PostsOf(given) /\ Released(q, c).kind = q.kind /\ Released(q, c).id = q.id
         /\ ~(q.at = "gated" /\ q.gate = c) => Released(q, c) = q
BY DEF Released, PostsOf

\* Where there is no creation of c, what waited for it may go.
LEMMA GateSound ==
  ASSUME NEW t, NEW u, NEW c, NEW given, NEW journal, NEW plain, Sound(t, given, journal, plain), NoId \notin given,
         plain => \A q \in t.posts : q.kind = "generate" => q.id # c,
         DOMAIN u = Fields, u.current = t.current, u.saved = t.saved, u.capture = t.capture,
         u.waiting = t.waiting, u.reads = t.reads,
         u.gate = IF t.gate = c THEN NoId ELSE t.gate, u.posts = {Released(q, c) : q \in t.posts}
  PROVE  Sound(u, given, journal, plain)
<1>1. \A q \in t.posts : q \in PostsOf(given)
  BY DEF Sound
<1>2. \A q \in t.posts : /\ Released(q, c) \in PostsOf(given)
                         /\ Released(q, c).kind = q.kind /\ Released(q, c).id = q.id
                         /\ ~(q.at = "gated" /\ q.gate = c) => Released(q, c) = q
  BY <1>1, ReleasedIsPost
<1>3. ASSUME plain
      PROVE  Ordered(u, journal)
  <2>1. Ordered(t, journal)
    BY <1>3 DEF Sound
  <2>2. \A q \in t.posts : q.kind = "generate" => Released(q, c) = q /\ q.id # c
    BY <1>2, <1>3, <2>1 DEF Ordered
  <2>3. \A q \in u.posts : q.kind = "generate" => q \in t.posts /\ q.id # c
    BY <1>2, <2>2
  <2>4. \A p, q \in u.posts : p.kind = "generate" /\ q.kind = "generate" /\ p.id = q.id => p = q
    BY <2>1, <2>3 DEF Ordered
  <2>5. \A q \in u.posts : q.kind = "generate" => q.at # "gated"
    BY <2>1, <2>3 DEF Ordered
  <2>6. ASSUME NEW q \in u.posts, Outbound(q)
        PROVE  /\ journal[q.id] = "none"
               /\ u.current = q.id => u.gate = q.id
               /\ u.saved.id = q.id => u.current = q.id
               /\ \A p \in u.posts : p.kind = "checkpoint" /\ p.id = q.id => p.at = "gated" /\ p.gate = q.id
    <3>1. q \in t.posts /\ q.id # c
      BY <2>3, <2>6 DEF Outbound
    <3>2. /\ journal[q.id] = "none"
          /\ t.current = q.id => t.gate = q.id
          /\ t.saved.id = q.id => t.current = q.id
          /\ \A p \in t.posts : p.kind = "checkpoint" /\ p.id = q.id => p.at = "gated" /\ p.gate = q.id
      BY <2>1, <2>6, <3>1 DEF Ordered
    <3>3. ASSUME NEW p \in u.posts, p.kind = "checkpoint", p.id = q.id
          PROVE  p.at = "gated" /\ p.gate = q.id
      <4>1. PICK p0 \in t.posts : p = Released(p0, c)
        OBVIOUS
      <4>2. p0.kind = "checkpoint" /\ p0.id = q.id
        BY <1>2, <3>3, <4>1
      <4>. QED
        BY <1>2, <3>1, <3>2, <4>1, <4>2
    <3>. QED
      BY <3>1, <3>2, <3>3
  <2>. QED
    BY <2>4, <2>5, <2>6 DEF Ordered
<1>. QED
  BY <1>2, <1>3 DEF Sound

LEMMA GenerateAnsweredSound ==
  ASSUME NEW t, NEW p, NEW given, NEW journal, NEW plain, Sound(t, given, journal, plain), NoId \notin given,
         plain => \A q \in t.posts : q.kind = "generate" => q.id # p.id
  PROVE  Sound(GenerateAnswered(t, p), given, journal, plain)
<1>1. PICK c : c = p.id
  OBVIOUS
<1>2. PICK ps : ps = {Released(q, c) : q \in t.posts}
  OBVIOUS
<1>3. PICK g : g = IF t.gate = c THEN NoId ELSE t.gate
  OBVIOUS
<1>4. PICK u : u = [t EXCEPT !.gate = g, !.posts = ps]
  OBVIOUS
<1>5. /\ DOMAIN u = Fields /\ u.current = t.current /\ u.saved = t.saved /\ u.capture = t.capture
      /\ u.waiting = t.waiting /\ u.reads = t.reads /\ u.gate = g /\ u.posts = ps
  BY <1>4 DEF Sound, Fields
<1>6. plain => \A q \in t.posts : q.kind = "generate" => q.id # c
  BY <1>1
<1>7. Sound(u, given, journal, plain)
  BY <1>2, <1>3, <1>5, <1>6, GateSound, Zenon
<1>8. GenerateAnswered(t, p) \in {u, SendCheckpoint(u)}
  BY <1>1, <1>2, <1>3, <1>4, Zenon DEF GenerateAnswered, Released
<1>. QED
  BY <1>7, <1>8, CheckpointSound

LEMMA AcceptAnsweredSound ==
  ASSUME NEW t, NEW p, NEW given, NEW journal, NEW plain, Sound(t, given, journal, plain), NoId \notin given
  PROVE  Sound(AcceptAnswered(t, p), given, journal, plain)
<1>1. PICK v : v = CleanupAcceptedSession(MarkHandled(t, t.current))
  OBVIOUS
<1>2. PICK u : u = [v EXCEPT !.awaiting = p.id]
  OBVIOUS
<1>3. PICK w : w = [t EXCEPT !.state = "CYCLING", !.pending = IF @ = p.id THEN NoId ELSE @]
  OBVIOUS
<1>4. Sound(v, given, journal, plain)
  BY <1>1, MarkSound, CleanupAcceptedSound
<1>5. Sound(u, given, journal, plain)
  <2>1. Like(u, v) /\ u.waiting = v.waiting /\ u.reads = v.reads
    BY <1>2, <1>4 DEF Sound, Fields, Like
  <2>2. u.waiting \in given \cup {NoId} /\ \A r \in u.reads : r.id \in given
    BY <1>4, <2>1 DEF Sound
  <2>. QED
    BY <1>4, <2>1, <2>2, LikeSound
<1>6. Sound(w, given, journal, plain)
  <2>1. Like(w, t) /\ w.waiting = t.waiting /\ w.reads = t.reads
    BY <1>3 DEF Sound, Fields, Like
  <2>2. w.waiting \in given \cup {NoId} /\ \A r \in w.reads : r.id \in given
    BY <2>1 DEF Sound
  <2>. QED
    BY <2>1, <2>2, LikeSound
<1>7. AcceptAnswered(t, p) \in {t, u, w}
  BY <1>1, <1>2, <1>3, Zenon DEF AcceptAnswered
<1>. QED
  BY <1>5, <1>6, <1>7

LEMMA EndSound ==
  ASSUME NEW t, NEW id, NEW given, NEW journal, NEW plain, Sound(t, given, journal, plain), NoId \notin given
  PROVE  Sound(Cleanup(MarkHandled(t, id)), given, journal, plain)
BY MarkSound, CleanupSound

-----------------------------------------------------------------------------
(* Events.                                                                 *)

LEMMA DoneSound ==
  ASSUME NEW t, NEW id, id # NoId, NEW given, NEW journal, NEW plain, Sound(t, given, journal, plain), NoId \notin given
  PROVE  Sound(OnDone(t, id), given, journal, plain)
<1>. PICK u : u = [t EXCEPT !.sourceFile = TRUE]
  OBVIOUS
<1>. PICK v : v = [u EXCEPT !.state = "CYCLING"]
  OBVIOUS
<1>1. Sound(u, given, journal, plain) /\ u.current = t.current
  BY SourceFileSound
<1>2. Sound(v, given, journal, plain)
  <2>1. Like(v, u) /\ v.waiting = u.waiting /\ v.reads = u.reads
    BY <1>1 DEF Sound, Fields, Like
  <2>2. v.waiting \in given \cup {NoId} /\ \A r \in v.reads : r.id \in given
    BY <1>1, <2>1 DEF Sound
  <2>. QED
    BY <1>1, <2>1, <2>2, LikeSound
<1>3. ASSUME id = t.current
      PROVE  Sound(AddRead(u, id, TRUE, FALSE, 0, "timer"), given, journal, plain)
  <2>1. id \in given
    BY <1>3 DEF Sound
  <2>. QED
    BY <1>1, <2>1, AddReadSound
<1>. QED
  BY <1>1, <1>2, <1>3 DEF OnDone

LEMMA CompleteSound ==
  ASSUME NEW t, NEW id, NEW given, NEW journal, NEW plain, Sound(t, given, journal, plain), NoId \notin given
  PROVE  Sound(OnComplete(t, id), given, journal, plain)
<1>. PICK u : u = [t EXCEPT !.awaiting = IF @ = id THEN NoId ELSE @]
  OBVIOUS
<1>. PICK v : v = [u EXCEPT !.pending = NoId]
  OBVIOUS
<1>1. Sound(u, given, journal, plain)
  <2>1. Like(u, t) /\ u.waiting = t.waiting /\ u.reads = t.reads
    BY DEF Sound, Fields, Like
  <2>2. u.waiting \in given \cup {NoId} /\ \A r \in u.reads : r.id \in given
    BY <2>1 DEF Sound
  <2>. QED
    BY <2>1, <2>2, LikeSound
<1>2. Sound(v, given, journal, plain)
  <2>1. Like(v, u) /\ v.waiting = u.waiting /\ v.reads = u.reads
    BY <1>1 DEF Sound, Fields, Like
  <2>2. v.waiting \in given \cup {NoId} /\ \A r \in v.reads : r.id \in given
    BY <1>1, <2>1 DEF Sound
  <2>. QED
    BY <1>1, <2>1, <2>2, LikeSound
<1>3. Sound(CleanupAcceptedSession(MarkHandled(u, t.current)), given, journal, plain)
  BY <1>1, MarkSound, CleanupAcceptedSound
<1>. QED
  BY <1>1, <1>2, <1>3 DEF OnComplete

LEMMA ErrorSound ==
  ASSUME NEW t, NEW id, id # NoId, NEW given, NEW journal, NEW plain, Sound(t, given, journal, plain), NoId \notin given
  PROVE  Sound(OnError(t, id), given, journal, plain)
<1>. PICK u : u = [t EXCEPT !.pending = NoId, !.awaiting = NoId, !.state = "CYCLING"]
  OBVIOUS
<1>. PICK v : v = [t EXCEPT !.awaiting = NoId]
  OBVIOUS
<1>. DEFINE kept == IF t.saved.id = id THEN NotSaved ELSE t.saved
<1>. PICK k : k = kept
  OBVIOUS
<1>. PICK w : w = [t EXCEPT !.state = "PICKING", !.saved = k]
  OBVIOUS
<1>1. OnError(t, id) = u \/ OnError(t, id) = v \/ OnError(t, id) = Cleanup(MarkHandled(t, id))
      \/ (t.current # id /\ OnError(t, id) = w)
  BY DEF OnError
<1>2. Sound(u, given, journal, plain)
  <2>1. Like(u, t) /\ u.waiting = t.waiting /\ u.reads = t.reads
    BY DEF Sound, Fields, Like
  <2>2. u.waiting \in given \cup {NoId} /\ \A r \in u.reads : r.id \in given
    BY <2>1 DEF Sound
  <2>. QED
    BY <2>1, <2>2, LikeSound
<1>3. Sound(v, given, journal, plain)
  <2>1. Like(v, t) /\ v.waiting = t.waiting /\ v.reads = t.reads
    BY DEF Sound, Fields, Like
  <2>2. v.waiting \in given \cup {NoId} /\ \A r \in v.reads : r.id \in given
    BY <2>1 DEF Sound
  <2>. QED
    BY <2>1, <2>2, LikeSound
<1>4. ASSUME t.current # id
      PROVE  Sound(w, given, journal, plain)
  <2>1. /\ DOMAIN w = Fields /\ w.current = t.current /\ w.saved = k /\ w.gate = t.gate /\ w.posts = t.posts
        /\ w.capture = t.capture /\ w.waiting = t.waiting /\ w.reads = t.reads
    BY DEF Sound, Fields
  <2>2. CASE t.saved.id # id
    <3>1. Like(w, t)
      BY <2>1, <2>2 DEF Like
    <3>2. w.waiting \in given \cup {NoId} /\ \A r \in w.reads : r.id \in given
      BY <2>1 DEF Sound
    <3>. QED
      BY <3>1, <3>2, LikeSound
  <2>3. CASE t.saved.id = id
    <3>1. w.current = NoId /\ w.saved = NotSaved
      BY <1>4, <2>1, <2>3 DEF Sound
    <3>2. w.waiting \in {NoId, t.waiting}
      BY <2>1
    <3>. QED
      BY <2>1, <3>1, <3>2, LetGoSound, Zenon
  <2>. QED
    BY <2>2, <2>3
<1>. QED
  BY <1>1, <1>2, <1>3, <1>4, EndSound

LEMMA EventSound ==
  ASSUME NEW t, NEW e \in [type : EventTypes, id : Sessions], NEW given, NEW journal, NEW plain,
         Sound(t, given, journal, plain), NoId \notin given
  PROVE  Sound(OnEvent(t, e), given, journal, plain)
<1>. PICK i : i = e.id
  OBVIOUS
<1>0. i # NoId
  BY PageAssumption
<1>1. CASE e.type = "progress"
  BY <1>1, SourceFileSound DEF OnEvent
<1>2. CASE e.type = "done"
  BY <1>0, <1>2, DoneSound DEF OnEvent
<1>3. CASE e.type = "complete"
  BY <1>3, CompleteSound DEF OnEvent
<1>4. CASE e.type = "discarded"
  BY <1>4, EndSound DEF OnEvent
<1>5. CASE e.type = "error"
  BY <1>0, <1>5, ErrorSound DEF OnEvent
<1>. QED
  BY <1>1, <1>2, <1>3, <1>4, <1>5 DEF EventTypes

-----------------------------------------------------------------------------
(* What the server makes of requests.                                      *)

\* The journal of what is not known to the server stays as it is.
LEMMA JournalSound ==
  ASSUME NEW t, NEW given, NEW journal, NEW after, NEW plain, Sound(t, given, journal, plain),
         \A s \in given : journal[s] = "none" => after[s] = "none"
  PROVE  Sound(t, given, after, plain)
<1>1. \A q \in t.posts : q.id \in given
  BY DEF Sound, PostsOf
<1>. QED
  BY <1>1 DEF Sound, Ordered

\* Of no session does the server know now that it did not, unless p created it.
OnlyCreates(p, given, journal, after) ==
  \A s \in given : journal[s] = "none" /\ ~(p.kind = "generate" /\ s = p.id) => after[s] = "none"

\* u is t but for its requests.
WithPosts(u, t, posts) ==
  /\ DOMAIN u = Fields /\ u.current = t.current /\ u.saved = t.saved /\ u.capture = t.capture
  /\ u.gate = t.gate /\ u.waiting = t.waiting /\ u.reads = t.reads /\ u.posts = posts

\* Request p is answered or has failed: the server may know its session now if it created it.
LEMMA EndedSound ==
  ASSUME NEW t, NEW u, NEW p, NEW kept, NEW given, NEW journal, NEW after, NEW plain,
         Sound(t, given, journal, plain), p \in t.posts, p.at = "sent",
         NEW answer \in {"ok", "refused", "unknown"}, NEW ended, ended = [p EXCEPT !.at = answer], kept \subseteq {ended},
         OnlyCreates(p, given, journal, after), WithPosts(u, t, (t.posts \ {p}) \cup kept)
  PROVE  Sound(u, given, after, plain)
<1>0. /\ DOMAIN u = Fields /\ u.current = t.current /\ u.saved = t.saved /\ u.capture = t.capture /\ u.gate = t.gate
      /\ u.waiting = t.waiting /\ u.reads = t.reads /\ u.posts = (t.posts \ {p}) \cup kept
  BY DEF WithPosts
<1>1. \A q \in t.posts : q \in PostsOf(given) /\ q.id \in given
  BY DEF Sound, PostsOf
<1>2. \A q \in kept : /\ q \in PostsOf(given) /\ q.kind = p.kind /\ q.id = p.id /\ q.at = answer
  BY <1>1 DEF PostsOf
<1>3. \A q, r \in kept : q = r
  OBVIOUS
<1>4. ASSUME plain
      PROVE  Ordered(u, after)
  <2>1. Ordered(t, journal)
    BY <1>4 DEF Sound
  <2>2. \A q \in t.posts \ {p} : p.kind = "generate" /\ q.kind = "generate" => q.id # p.id
    BY <2>1 DEF Ordered
  <2>3. \A q, r \in u.posts : q.kind = "generate" /\ r.kind = "generate" /\ q.id = r.id => q = r
    <3>1. \A q, r \in t.posts : q.kind = "generate" /\ r.kind = "generate" /\ q.id = r.id => q = r
      BY <2>1 DEF Ordered
    <3>. QED
      BY <1>0, <1>2, <1>3, <2>2, <3>1
  <2>4. \A q \in u.posts : q.kind = "generate" => q.at # "gated"
    BY <1>0, <1>2, <2>1 DEF Ordered
  <2>5. ASSUME NEW q \in u.posts, Outbound(q)
        PROVE  /\ after[q.id] = "none"
               /\ u.current = q.id => u.gate = q.id
               /\ u.saved.id = q.id => u.current = q.id
               /\ \A r \in u.posts : r.kind = "checkpoint" /\ r.id = q.id => r.at = "gated" /\ r.gate = q.id
    <3>1. q \in t.posts \ {p}
      BY <1>0, <1>2, <2>5 DEF Outbound
    <3>2. /\ journal[q.id] = "none"
          /\ t.current = q.id => t.gate = q.id
          /\ t.saved.id = q.id => t.current = q.id
          /\ \A r \in t.posts : r.kind = "checkpoint" /\ r.id = q.id => r.at = "gated" /\ r.gate = q.id
      BY <2>1, <2>5, <3>1 DEF Ordered
    <3>3. ~(p.kind = "generate" /\ q.id = p.id)
      BY <2>2, <2>5, <3>1 DEF Outbound
    <3>4. after[q.id] = "none"
      BY <1>1, <3>1, <3>2, <3>3 DEF OnlyCreates
    <3>5. ASSUME NEW r \in u.posts, r.kind = "checkpoint", r.id = q.id
          PROVE  r.at = "gated" /\ r.gate = q.id
      <4>1. CASE r \in t.posts
        BY <3>2, <3>5, <4>1
      <4>2. CASE r \in kept
        <5>1. p.kind = "checkpoint" /\ p.id = q.id
          BY <1>2, <3>5, <4>2
        <5>. QED
          BY <3>2, <5>1
      <4>. QED
        BY <1>0, <4>1, <4>2
    <3>. QED
      BY <1>0, <3>2, <3>4, <3>5
  <2>. QED
    BY <2>3, <2>4, <2>5 DEF Ordered
<1>5. u.posts \subseteq PostsOf(given)
  BY <1>0, <1>1, <1>2
<1>. QED
  BY <1>0, <1>4, <1>5 DEF Sound

-----------------------------------------------------------------------------
(* The invariant.                                                          *)

LEMMA WorldIsKnown ==
  ASSUME WorldSound
  PROVE  Known(dom, Active, used, server) /\ Known(dom, {}, used, server) /\ NoId \notin used
BY PageAssumption DEF WorldSound, Known, Active

\* A step that leaves the world and the ids alone.
LEMMA WorldStays ==
  ASSUME WorldSound, UNCHANGED <<faults, jsx, used, dom, source, server>>,
         events' \in Seq([type : EventTypes, id : Sessions])
  PROVE  WorldSound' /\ Plain' = Plain
BY DEF WorldSound, Plain

\* Live mode begins with a loaded page and an empty journal, which is sound.
LEMMA SInvInit == Init => SInv
<1>. SUFFICES ASSUME Init
              PROVE  SInv
  OBVIOUS
<1>1. WorldSound
  BY DEF Init, WorldSound, Missing, ServerStates
<1>2. tab \in Loaded(NotSaved, <<>>, dom) /\ used = {}
  BY DEF Init
<1>3. Known(dom, {}, used, server) /\ NoId \notin used /\ jsx \in BOOLEAN
  BY <1>1, WorldIsKnown DEF WorldSound
<1>4. Sound(tab, used, server, Plain)
  BY <1>2, <1>3, LoadedSound
<1>. QED
  BY <1>1, <1>4 DEF SInv

-----------------------------------------------------------------------------
(* The steps of the tab.                                                   *)

LEMMA TabOnly ==
  ASSUME SInv, UNCHANGED <<faults, jsx, used, dom, source, server>>,
         events' \in Seq([type : EventTypes, id : Sessions]), Sound(tab', used, server, Plain)
  PROVE  SInv'
BY WorldStays DEF SInv

LEMMA EventsStay ==
  ASSUME SInv
  PROVE  /\ events \in Seq([type : EventTypes, id : Sessions]) /\ jsx \in BOOLEAN
         /\ Sound(tab, used, server, Plain) /\ NoId \notin used /\ Known(dom, Active, used, server)
         /\ Known(dom, {}, used, server)
BY WorldIsKnown DEF SInv, WorldSound

LEMMA StateSound ==
  ASSUME NEW t, NEW z, NEW given, NEW journal, NEW plain, Sound(t, given, journal, plain)
  PROVE  Sound([t EXCEPT !.state = z], given, journal, plain)
<1>1. PICK u : u = [t EXCEPT !.state = z]
  OBVIOUS
<1>2. Like(u, t) /\ u.waiting = t.waiting /\ u.reads = t.reads
  BY <1>1 DEF Sound, Fields, Like
<1>3. u.waiting \in given \cup {NoId} /\ \A r \in u.reads : r.id \in given
  BY <1>2 DEF Sound
<1>4. Sound(u, given, journal, plain)
  BY <1>2, <1>3, LikeSound
<1>. QED
  BY <1>1, <1>4

LEMMA PickStep ==
  ASSUME SInv, Pick \/ ExitConfigure
  PROVE  SInv'
<1>1. PICK z : tab' = [tab EXCEPT !.state = z]
  BY DEF Pick, ExitConfigure
<1>2. Sound(tab', used, server, Plain)
  BY <1>1, EventsStay, StateSound
<1>3. UNCHANGED <<faults, jsx, used, dom, source, server, events>>
  BY DEF Pick, ExitConfigure, User, world
<1>. QED
  BY <1>2, <1>3, EventsStay, TabOnly

LEMMA AcceptStep ==
  ASSUME SInv, Accept
  PROVE  SInv'
<1>1. PICK c : c = tab.current
  OBVIOUS
<1>2. PICK t : t = [tab EXCEPT !.state = "SAVING", !.pending = c]
  OBVIOUS
<1>3. PICK v : v = SaveSession(t)
  OBVIOUS
<1>4. Sound(tab, used, server, Plain) /\ NoId \notin used
  BY EventsStay
<1>5. Like(t, tab) /\ t.waiting = tab.waiting /\ t.reads = tab.reads
  BY <1>2, <1>4 DEF Sound, Fields, Like
<1>6. t.waiting \in used \cup {NoId} /\ \A r \in t.reads : r.id \in used
  BY <1>4, <1>5 DEF Sound
<1>7. Sound(t, used, server, Plain) /\ t.current = c
  BY <1>1, <1>4, <1>5, <1>6, LikeSound DEF Like
<1>8. Sound(v, used, server, Plain) /\ v.current = c
  BY <1>3, <1>4, <1>7, SaveSound
<1>9. c # NoId /\ tab' = SendEvent(v, "accept", c)
  BY <1>1, <1>2, <1>3 DEF Accept
<1>10. Sound(SendEvent(v, "accept", v.current), used, server, Plain)
  BY <1>4, <1>8, <1>9, SendSound
<1>11. UNCHANGED <<faults, jsx, used, dom, source, server, events>>
  BY DEF Accept, User, world
<1>. QED
  BY <1>8, <1>9, <1>10, <1>11, EventsStay, TabOnly

LEMMA DiscardStep ==
  ASSUME SInv, Discard
  PROVE  SInv'
<1>1. tab.current # NoId /\ tab' = SendEvent(tab, "discard", tab.current)
  BY DEF Discard
<1>2. Sound(SendEvent(tab, "discard", tab.current), used, server, Plain)
  BY <1>1, EventsStay, SendSound
<1>3. UNCHANGED <<faults, jsx, used, dom, source, server, events>>
  BY DEF Discard, User, world
<1>. QED
  BY <1>1, <1>2, <1>3, EventsStay, TabOnly

LEMMA EmitStep ==
  ASSUME SInv, EmitCaptured
  PROVE  SInv'
<1>1. tab.capture # NoId /\ tab' = SendEvent([tab EXCEPT !.capture = NoId], "generate", tab.capture)
  BY DEF EmitCaptured
<1>2. Sound(tab', used, server, Plain)
  BY <1>1, EventsStay, EmitSound
<1>3. UNCHANGED <<faults, jsx, used, dom, source, server, events>>
  BY DEF EmitCaptured, User, world
<1>. QED
  BY <1>2, <1>3, EventsStay, TabOnly

LEMMA GoStep ==
  ASSUME SInv, NEW id \in Sessions, Go(id)
  PROVE  SInv'
<1>1. /\ id \notin used /\ used' = used \cup {id} /\ tab' = StartGeneration(tab, id, "capture" \in faults)
      /\ UNCHANGED <<faults, jsx, dom, source, server, events>>
  BY DEF Go, User, world
<1>2. server[id] = "none" /\ id # NoId
  BY <1>1, PageAssumption DEF SInv, WorldSound
<1>3. Sound(tab', used', server, Plain)
  <2>0. ("capture" \in faults) \in BOOLEAN
    OBVIOUS
  <2>1. PICK annotated \in BOOLEAN : annotated = ("capture" \in faults)
    BY <2>0, Zenon
  <2>2. Plain \in BOOLEAN /\ (Plain => ~annotated)
    BY <2>1 DEF Plain
  <2>3. Sound(StartGeneration(tab, id, annotated), used \cup {id}, server, Plain)
    BY <1>1, <1>2, <2>2, EventsStay, StartSound
  <2>. QED
    BY <1>1, <2>1, <2>3
<1>4. WorldSound' /\ Plain' = Plain
  BY <1>1 DEF SInv, WorldSound, Plain
<1>. QED
  BY <1>1, <1>3, <1>4 DEF SInv

LEMMA AnsweredStep ==
  ASSUME SInv, NEW p \in tab.posts, Answered(p)
  PROVE  SInv'
<1>1. PICK t : t = [tab EXCEPT !.posts = @ \ {p}]
  OBVIOUS
<1>2. Sound(t, used, server, Plain) /\ NoId \notin used
  BY <1>1, EventsStay, AnsweredSound
<1>3. tab' \in {t} \cup
        (IF p.kind = "generate" THEN {GenerateAnswered(t, p)} ELSE {}) \cup
        {AcceptAnswered(t, p), DiscardAnswered(t, p), AbandonForeignSession(t, p.id)}
  <2>1. p.kind \in {"generate", "accept", "discard", "orphaned", "checkpoint"}
    BY EventsStay DEF Sound, PostsOf
  <2>. QED
    BY <1>1, <2>1 DEF Answered
<1>4. ASSUME p.kind = "generate"
      PROVE  Sound(GenerateAnswered(t, p), used, server, Plain)
  <2>1. t.posts = tab.posts \ {p}
    BY <1>1, EventsStay DEF Sound, Fields
  <2>2. Plain => \A q \in t.posts : q.kind = "generate" => q.id # p.id
    BY <1>4, <2>1, EventsStay DEF Sound, Ordered
  <2>. QED
    BY <1>2, <2>2, GenerateAnsweredSound
<1>5. /\ Sound(AcceptAnswered(t, p), used, server, Plain)
      /\ Sound(DiscardAnswered(t, p), used, server, Plain)
      /\ Sound(AbandonForeignSession(t, p.id), used, server, Plain)
  BY <1>2, AcceptAnsweredSound, EndSound DEF DiscardAnswered, AbandonForeignSession
<1>6. Sound(tab', used, server, Plain)
  BY <1>2, <1>3, <1>4, <1>5
<1>7. UNCHANGED <<faults, jsx, used, dom, source, server, events>>
  BY DEF Answered, Quiet, world
<1>. QED
  BY <1>6, <1>7, EventsStay, TabOnly

LEMMA DeliverStep ==
  ASSUME SInv, Deliver
  PROVE  SInv'
<1>1. PICK e : e = Head(events)
  OBVIOUS
<1>2. e \in [type : EventTypes, id : Sessions] /\ Tail(events) \in Seq([type : EventTypes, id : Sessions])
  <2>1. PICK E : E = [type : EventTypes, id : Sessions]
    OBVIOUS
  <2>2. events \in Seq(E) /\ events # <<>>
    BY <2>1, EventsStay DEF Deliver
  <2>3. Head(events) \in E /\ Tail(events) \in Seq(E)
    BY <2>2
  <2>. QED
    BY <1>1, <2>1, <2>3
<1>3. tab' = OnEvent(tab, e) /\ events' = Tail(events) /\ UNCHANGED <<faults, jsx, used, dom, source, server>>
  BY <1>1 DEF Deliver, Quiet, world
<1>4. Sound(tab', used, server, Plain)
  BY <1>2, <1>3, EventsStay, EventSound
<1>. QED
  BY <1>2, <1>3, <1>4, TabOnly

LEMMA ConnectStep ==
  ASSUME SInv, Connect
  PROVE  SInv'
<1>1. PICK r \in (IF NoWrapper(dom) /\ Restorable(tab, Active) # {}
                  THEN {RestoreSession(tab, s, Active, jsx, dom) : s \in Restorable(tab, Active)}
                  ELSE {tab}) : tab' = Settle(RecoverMissedCompletion(r, Active))
  BY Zenon DEF Connect
<1>2. r = tab \/ \E s \in Restorable(tab, Active) : r = RestoreSession(tab, s, Active, jsx, dom)
  BY Zenon
<1>3. ASSUME NEW s \in Restorable(tab, Active)
      PROVE  Sound(RestoreSession(tab, s, Active, jsx, dom), used, server, Plain)
  <2>1. MayTake(tab, s.id, used, server)
    BY EventsStay, RestorableMayBeTaken
  <2>. QED
    BY <2>1, EventsStay, RestoreSound
<1>4. Sound(r, used, server, Plain)
  BY <1>2, <1>3, EventsStay
<1>5. Sound(RecoverMissedCompletion(r, Active), used, server, Plain)
  BY <1>4, EventsStay, MissedSound
<1>6. Sound(tab', used, server, Plain)
  BY <1>1, <1>5, SettleSound
<1>7. UNCHANGED <<faults, jsx, used, dom, source, server, events>>
  BY DEF Connect, Quiet, world
<1>. QED
  BY <1>6, <1>7, EventsStay, TabOnly

LEMMA DisconnectStep ==
  ASSUME SInv, Disconnect
  PROVE  SInv'
<1>1. tab' = tab /\ events' = <<>> /\ UNCHANGED <<faults, jsx, used, dom, source, server>>
  BY DEF Disconnect, Quiet, world
<1>. QED
  BY <1>1, EventsStay, TabOnly

LEMMA ServerLostStep ==
  ASSUME SInv, ServerLost
  PROVE  SInv'
<1>1. PICK t : t = [tab EXCEPT !.observed = NoId, !.state = IF tab.current = NoId THEN "IDLE" ELSE @]
  OBVIOUS
<1>2. Sound(tab, used, server, Plain) /\ NoId \notin used
  BY EventsStay
<1>3. Like(t, tab) /\ t.waiting = tab.waiting /\ t.reads = tab.reads
  BY <1>1, <1>2 DEF Sound, Fields, Like
<1>4. t.waiting \in used \cup {NoId} /\ \A r \in t.reads : r.id \in used
  BY <1>2, <1>3 DEF Sound
<1>5. Sound(t, used, server, Plain)
  BY <1>2, <1>3, <1>4, LikeSound
<1>6. tab' = SaveSession(t) /\ UNCHANGED <<faults, jsx, used, dom, source, server, events>>
  BY <1>1 DEF ServerLost, Quiet, world
<1>7. Sound(tab', used, server, Plain)
  BY <1>2, <1>5, <1>6, SaveSound
<1>. QED
  BY <1>6, <1>7, EventsStay, TabOnly

\* The record that a tab leaves in localStorage is of a session that was given out.
LEMMA ReloadStep ==
  ASSUME SInv, Reload
  PROVE  SInv'
<1>1. /\ tab' \in Loaded(tab.saved, tab.handled, dom') /\ events' = <<>>
      /\ dom' = source \/ dom' = [s \in Sessions |-> Missing]
      /\ UNCHANGED <<faults, jsx, used, source, server>>
  BY DEF Reload, Quiet
<1>2. WorldSound' /\ Plain' = Plain
  BY <1>1 DEF SInv, WorldSound, Plain, Missing
<1>3. Known(dom', {}, used, server)
  BY <1>1, <1>2 DEF WorldSound, Known
<1>4. tab.saved = NotSaved \/ tab.saved.id \in used
  BY EventsStay DEF Sound
<1>5. Sound(tab', used, server, Plain)
  BY <1>1, <1>3, <1>4, EventsStay, LoadedSound
<1>. QED
  BY <1>1, <1>2, <1>5 DEF SInv

LEMMA ReadEnds ==
  ASSUME NEW t, NEW r, NEW given, NEW journal, NEW plain, Sound(t, given, journal, plain)
  PROVE  Sound([t EXCEPT !.reads = @ \ {r}], given, journal, plain)
<1>1. PICK u : u = [t EXCEPT !.reads = @ \ {r}]
  OBVIOUS
<1>2. Like(u, t) /\ u.waiting = t.waiting /\ u.reads = t.reads \ {r}
  BY <1>1 DEF Sound, Fields, Like
<1>3. u.waiting \in given \cup {NoId} /\ \A x \in u.reads : x.id \in given
  BY <1>2 DEF Sound
<1>4. Sound(u, given, journal, plain)
  BY <1>2, <1>3, LikeSound
<1>. QED
  BY <1>1, <1>4

LEMMA ReadStep ==
  ASSUME SInv, NEW r \in tab.reads, ReadTimer(r) \/ ProbeRead(r) \/ SourceRead(r)
  PROVE  SInv'
<1>1. PICK t : t = [tab EXCEPT !.reads = @ \ {r}]
  OBVIOUS
<1>2. Sound(t, used, server, Plain) /\ NoId \notin used /\ r.id \in used /\ r.id \in Sessions /\ dom[r.id] \in Int
  <2>1. Sound(t, used, server, Plain) /\ NoId \notin used
    BY <1>1, EventsStay, ReadEnds
  <2>2. r.id \in used
    BY EventsStay DEF Sound
  <2>. QED
    BY <2>1, <2>2, EventsStay DEF Known
<1>3. CASE ReadTimer(r)
  <2>1. tab' \in {t, InjectVariantsFromSource(t, r, jsx, dom)}
    BY <1>1, <1>3, Zenon DEF ReadTimer
  <2>2. Sound(tab', used, server, Plain)
    BY <1>2, <2>1, EventsStay, InjectSound
  <2>3. UNCHANGED <<faults, jsx, used, dom, source, server, events>>
    BY <1>3 DEF ReadTimer, Quiet, world
  <2>. QED
    BY <2>2, <2>3, EventsStay, TabOnly
<1>4. CASE ProbeRead(r)
  <2>1. PICK found \in {"absent", "present", "unreadable"} : tab' = ProbeAnswered(t, r, found)
    BY <1>1, <1>4 DEF ProbeRead
  <2>2. Sound(tab', used, server, Plain)
    BY <1>2, <2>1, ProbeSound
  <2>3. UNCHANGED <<faults, jsx, used, dom, source, server, events>>
    BY <1>4 DEF ProbeRead, Quiet, world
  <2>. QED
    BY <2>2, <2>3, EventsStay, TabOnly
<1>5. CASE SourceRead(r)
  <2>1. /\ \/ tab' = t /\ dom' = dom
           \/ tab' = WrapperMissing(t, r) /\ dom' = dom
           \/ /\ tab' = CompleteSourceInjection(t, r, source[r.id]) /\ source[r.id] # Missing
              /\ dom' = [dom EXCEPT ![r.id] = source[r.id]]
           \/ tab' = EnterRecoveryWaitingForAnchor(t, r.id) /\ dom' = dom
        /\ UNCHANGED <<faults, jsx, used, source, server, events>>
    BY <1>1, <1>5 DEF SourceRead, Quiet
  <2>2. PICK n : n = source[r.id]
    OBVIOUS
  <2>3. PICK i \in used : i = r.id
    BY <1>2
  <2>4. Sound(tab', used, server, Plain)
    BY <1>2, <2>1, <2>2, <2>3, MissingSound, InjectionSound, RecoverySound
  <2>5. WorldSound' /\ Plain' = Plain
    BY <1>2, <2>1 DEF SInv, WorldSound, Plain
  <2>. QED
    BY <2>1, <2>4, <2>5 DEF SInv
<1>. QED
  BY <1>3, <1>4, <1>5

-----------------------------------------------------------------------------
(* The steps of the page, the server and the agent.                        *)

LEMMA HotReloadStep ==
  ASSUME SInv, NEW s \in Sessions, HotReload(s)
  PROVE  SInv'
<1>1. /\ dom' = [dom EXCEPT ![s] = source[s]] /\ tab' \in PageChanged(tab, dom') \cup {tab}
      /\ UNCHANGED <<faults, jsx, used, source, server, events>>
  BY Zenon DEF HotReload, Quiet
<1>2. WorldSound' /\ Plain' = Plain
  BY <1>1 DEF SInv, WorldSound, Plain
<1>3. Known(dom', {}, used, server)
  BY <1>1, <1>2 DEF WorldSound, Known
<1>4. Sound(tab', used, server, Plain)
  BY <1>1, <1>3, EventsStay, PageChangedSound
<1>. QED
  BY <1>1, <1>2, <1>4 DEF SInv

LEMMA UnmountStep ==
  ASSUME SInv, NEW s \in Sessions, Unmount(s)
  PROVE  SInv'
<1>1. dom' = [dom EXCEPT ![s] = Missing] /\ UNCHANGED <<tab, faults, jsx, used, source, server, events>>
  BY DEF Unmount, Quiet
<1>2. WorldSound' /\ Plain' = Plain
  BY <1>1 DEF SInv, WorldSound, Plain, Missing
<1>. QED
  BY <1>1, <1>2 DEF SInv

\* Only a creation makes the server know a session, and every request is of a session given out.
LEMMA JournalKnows ==
  ASSUME SInv, NEW p \in tab.posts
  PROVE  /\ p \in PostsOf(used) /\ p.id \in used /\ p.id \in Sessions /\ Journal(p) \in ServerStates
         /\ server[p.id] = "none" /\ p.kind # "generate" => Journal(p) = "none"
         /\ server[p.id] # "none" => Journal(p) # "none"
<1>1. p \in PostsOf(used) /\ p.id \in used /\ p.id \in Sessions
  BY DEF SInv, WorldSound, Sound, PostsOf
<1>2. server[p.id] \in ServerStates
  BY <1>1 DEF SInv, WorldSound
<1>. QED
  BY <1>1, <1>2 DEF Journal, ServerStates

\* A step that changes what the server's journal says of session s to state z, of which it knew
\* before or now knows for a creation, and nothing else of the world.
LEMMA JournalStep ==
  ASSUME SInv, NEW s \in used, NEW z \in ServerStates, server[s] # "none" => z # "none",
         server' \in {server, [server EXCEPT ![s] = z]},
         UNCHANGED <<faults, jsx, used, dom, source, events>>
  PROVE  WorldSound' /\ Plain' = Plain
BY DEF SInv, WorldSound, Plain

LEMMA RequestStep ==
  ASSUME SInv, NEW p \in tab.posts, Arrive(p) \/ Fail(p)
  PROVE  SInv'
<1>1. /\ p \in PostsOf(used) /\ p.id \in used /\ p.id \in Sessions /\ Journal(p) \in ServerStates
      /\ server[p.id] = "none" /\ p.kind # "generate" => Journal(p) = "none"
      /\ server[p.id] # "none" => Journal(p) # "none"
  BY JournalKnows
<1>2. PICK answer \in {"ok", "refused", "unknown"} :
        \E kept \in SUBSET {[p EXCEPT !.at = answer]} : tab' = [tab EXCEPT !.posts = (@ \ {p}) \cup kept]
  <2>1. CASE Arrive(p)
    <3>1. PICK answer : /\ answer \in {"ok", "refused", "unknown"}
                        /\ tab' = [tab EXCEPT !.posts = (@ \ {p}) \cup
                                    IF p.kind \in {"checkpoint", "orphaned"} /\ answer = "ok" THEN {}
                                    ELSE {[p EXCEPT !.at = answer]}]
      BY <2>1, Zenon DEF Arrive
    <3>. QED
      BY <3>1
  <2>2. CASE Fail(p)
    BY <2>2 DEF Fail
  <2>. QED
    BY <2>1, <2>2
<1>3. PICK kept \in SUBSET {[p EXCEPT !.at = answer]} : tab' = [tab EXCEPT !.posts = (@ \ {p}) \cup kept]
  BY <1>2
<1>4. /\ p.at = "sent"
      /\ server' \in {server, [server EXCEPT ![p.id] = Journal(p)]}
      /\ UNCHANGED <<faults, jsx, used, dom, source, events>>
  BY DEF Arrive, Fail, External, Quiet
<1>5. WorldSound' /\ Plain' = Plain
  <2>1. PICK s \in used : s = p.id
    BY <1>1
  <2>2. PICK z \in ServerStates : z = Journal(p)
    BY <1>1
  <2>. QED
    BY <1>1, <1>4, <2>1, <2>2, JournalStep
<1>6. OnlyCreates(p, used, server, server')
  BY <1>1, <1>4 DEF SInv, WorldSound, OnlyCreates
<1>7. /\ DOMAIN tab' = Fields /\ tab'.current = tab.current /\ tab'.saved = tab.saved
      /\ tab'.capture = tab.capture /\ tab'.gate = tab.gate
      /\ tab'.waiting = tab.waiting /\ tab'.reads = tab.reads /\ tab'.posts = (tab.posts \ {p}) \cup kept
  BY <1>3, EventsStay DEF Sound, Fields
<1>8. Sound(tab', used, server', Plain)
  <2>0. PICK ended : ended = [p EXCEPT !.at = answer]
    OBVIOUS
  <2>1. Sound(tab, used, server, Plain) /\ kept \subseteq {ended}
    BY <2>0, EventsStay
  <2>2. PICK u, after : u = tab' /\ after = server'
    OBVIOUS
  <2>3. OnlyCreates(p, used, server, after)
    BY <1>6, <2>2
  <2>4. WithPosts(u, tab, (tab.posts \ {p}) \cup kept)
    BY <1>7, <2>2 DEF WithPosts
  <2>5. p.at = "sent" /\ answer \in {"ok", "refused", "unknown"}
    BY <1>2, <1>4
  <2>6. Sound(u, used, after, Plain)
    BY <2>0, <2>1, <2>3, <2>4, <2>5, EndedSound
  <2>. QED
    BY <2>2, <2>6
<1>. QED
  BY <1>4, <1>5, <1>8 DEF SInv

\* The agent and the server work on a session that the server knows.
LEMMA AgentStep ==
  ASSUME SInv, NEW s \in Sessions,
         Scaffold(s) \/ WriteVariant(s) \/ Complete(s) \/ GiveUp(s) \/ Promote(s) \/ Undo(s)
  PROVE  SInv'
<1>1. /\ server[s] # "none"
      /\ server' = server \/ \E z \in ServerStates \ {"none"} : server' = [server EXCEPT ![s] = z]
      /\ source' = source \/ source' = [source EXCEPT ![s] = 0] \/ source' = [source EXCEPT ![s] = @ + 1]
         \/ source' = [source EXCEPT ![s] = Missing]
      /\ UNCHANGED <<faults, jsx, used, dom, tab>>
  BY DEF Scaffold, WriteVariant, Complete, GiveUp, Promote, Undo, External, Quiet, ServerStates
<1>2. events' = events \/ \E type \in EventTypes : events' = Append(events, [type |-> type, id |-> s])
  BY Zenon DEF Scaffold, WriteVariant, Complete, GiveUp, Promote, Undo, Tell, EventTypes
<1>3. events' \in Seq([type : EventTypes, id : Sessions])
  <2>1. PICK E : E = [type : EventTypes, id : Sessions]
    OBVIOUS
  <2>2. \A type \in EventTypes : [type |-> type, id |-> s] \in E
    BY <2>1
  <2>3. events \in Seq(E)
    BY <2>1, EventsStay
  <2>4. events' = events \/ \E x \in E : events' = Append(events, x)
    BY <1>2, <2>2
  <2>5. events' \in Seq(E)
    BY <2>3, <2>4
  <2>. QED
    BY <2>1, <2>5
<1>4. source' \in [Sessions -> Int] /\ \A x \in Sessions : x # s => source'[x] = source[x]
  BY <1>1 DEF SInv, WorldSound, Missing
<1>5. /\ server' \in [Sessions -> ServerStates] /\ server'[s] # "none"
      /\ \A x \in Sessions : x # s => server'[x] = server[x]
  BY <1>1 DEF SInv, WorldSound
<1>6. WorldSound' /\ Plain' = Plain
  BY <1>1, <1>3, <1>4, <1>5 DEF SInv, WorldSound, Plain
<1>7. \A x \in used : server[x] = "none" => server'[x] = "none"
  BY <1>1, <1>5 DEF SInv, WorldSound
<1>8. Sound(tab, used, server', Plain)
  BY <1>7, EventsStay, JournalSound
<1>. QED
  BY <1>1, <1>6, <1>8 DEF SInv

-----------------------------------------------------------------------------
(* The theorems.                                                           *)

\* Every step of the user, the page, the server or the agent keeps tab and world sound.
LEMMA SInvNext == SInv /\ [Next]_vars => SInv'
<1>. SUFFICES ASSUME SInv, [Next]_vars
              PROVE  SInv'
  OBVIOUS
<1>1. CASE Pick \/ ExitConfigure
  BY <1>1, PickStep
<1>2. CASE Accept
  BY <1>2, AcceptStep
<1>3. CASE Discard
  BY <1>3, DiscardStep
<1>4. CASE EmitCaptured
  BY <1>4, EmitStep
<1>5. CASE \E id \in Sessions : Go(id)
  BY <1>5, GoStep
<1>6. CASE \E p \in tab.posts : Answered(p)
  BY <1>6, AnsweredStep
<1>7. CASE Deliver
  BY <1>7, DeliverStep
<1>8. CASE Connect
  BY <1>8, ConnectStep
<1>9. CASE Disconnect
  BY <1>9, DisconnectStep
<1>10. CASE ServerLost
  BY <1>10, ServerLostStep
<1>11. CASE Reload
  BY <1>11, ReloadStep
<1>12. CASE \E r \in tab.reads : ReadTimer(r) \/ ProbeRead(r) \/ SourceRead(r)
  BY <1>12, ReadStep
<1>13. CASE \E s \in Sessions : HotReload(s) \/ Unmount(s)
  BY <1>13, HotReloadStep, UnmountStep
<1>14. CASE \E p \in tab.posts : Arrive(p) \/ Fail(p)
  BY <1>14, RequestStep
<1>15. CASE \E s \in Sessions : Scaffold(s) \/ WriteVariant(s) \/ Complete(s) \/ GiveUp(s) \/ Promote(s) \/ Undo(s)
  BY <1>15, AgentStep
<1>16. CASE UNCHANGED vars
  BY <1>16 DEF vars, world, SInv, WorldSound, Plain
<1>. QED
  BY <1>1, <1>2, <1>3, <1>4, <1>5, <1>6, <1>7, <1>8, <1>9, <1>10, <1>11, <1>12, <1>13, <1>14, <1>15, <1>16
     DEF Next, TabStep, WorldStep

\* At every moment of every behaviour of live mode the tab keeps a stored record of its session,
\* and only creations under way are unknown to the server.
THEOREM SessionInvariance == Spec => []SInv
<1>. QED
  BY SInvInit, SInvNext, PTL DEF Spec

\* However requests, events, reads and reloads interleave, what the user waits for or looks at
\* (live-browser.js: saveSession on every change of currentSessionId) is what localStorage holds.
THEOREM WorkIsStoredHolds == Spec => []WorkIsStored
<1>1. SInv => WorkIsStored
  BY DEF SInv, Sound, WorkIsStored
<1>. QED
  BY <1>1, SessionInvariance, PTL

\* The gate of live-browser.js (sessionCreationGate) keeps its promise for requests that are sent
\* at once: no checkpoint reaches the server before the creation of its session has.
THEOREM PlainCreationFirstHolds == Spec => []PlainCreationFirst
<1>1. ASSUME SInv
      PROVE  PlainCreationFirst
  <2>. SUFFICES ASSUME Plain, NEW p \in tab.posts, p.kind = "checkpoint", p.at = "unknown"
                PROVE  tab.capture # p.id /\ \A q \in tab.posts : q.kind = "generate" /\ q.id = p.id => q.at # "sent"
    BY DEF PlainCreationFirst, CreationFirst, Plain
  <2>1. tab.capture = NoId /\ Ordered(tab, server) /\ p.id # NoId
    BY <1>1, EventsStay DEF Sound, PostsOf
  <2>. QED
    BY <2>1 DEF Ordered, Outbound
<1>. QED
  BY <1>1, SessionInvariance, PTL

-----------------------------------------------------------------------------
(* Types, and which session is current and which are on the handled list.  *)

\* u is a tab that has come to work on c; its handled list is that of t.
Became(t, u, c) == u \in Tab /\ u.handled = t.handled /\ u.current = c

\* u keeps to its session or gives it up, with nothing handled.
KeptOrDropped(t, u) == Became(t, u, t.current) \/ Became(t, u, NoId)

ReadOf(r) ==
  r.id \in Sessions /\ r.completed \in BOOLEAN /\ r.orphanDiscard \in BOOLEAN /\ r.attempt \in 0 .. Retries

LEMMA ReadTyped == \A r \in Reads : ReadOf(r)
BY DEF Reads, ReadOf

LEMMA SaveTyped ==
  ASSUME NEW t \in Tab
  PROVE  Became(t, SaveSession(t), t.current)
BY DEF Tab, SaveSession, Ids, SavedState, Became

LEMMA ClearTyped ==
  ASSUME NEW t \in Tab
  PROVE  Became(t, ClearSession(t), t.current)
BY DEF Tab, ClearSession, Became

LEMMA PostTyped ==
  ASSUME NEW t \in Tab, NEW k \in {"generate", "accept", "discard", "orphaned", "checkpoint"}, NEW id \in Sessions
  PROVE  Became(t, SendEvent(t, k, id), t.current)
<1>1. /\ [kind |-> k, id |-> id, at |-> "sent", gate |-> NoId] \in Posts
      /\ [kind |-> k, id |-> id, gate |-> t.gate, at |-> IF t.gate = NoId THEN "sent" ELSE "gated"] \in Posts
  BY DEF Posts, Ids, Tab
<1>2. SendEvent(t, k, id).posts \subseteq Posts
  BY <1>1 DEF SendEvent, Tab
<1>3. \A P : P \subseteq Posts => Became(t, [t EXCEPT !.posts = P], t.current) /\ Became(t, [t EXCEPT !.posts = P, !.gate = id], t.current)
  BY DEF Tab, Ids, Became
<1>4. t.posts \subseteq Posts
  BY DEF Tab
<1> QED BY <1>1, <1>3, <1>4 DEF SendEvent

LEMMA CheckpointTyped ==
  ASSUME NEW t \in Tab
  PROVE  Became(t, SendCheckpoint(t), t.current)
<1>1. CASE t.current = NoId
  BY <1>1 DEF SendCheckpoint, Became
<1>2. CASE t.current # NoId
  <2>1. t.current \in Sessions
    BY <1>2 DEF Tab, Ids
  <2> QED BY <1>2, <2>1, PostTyped DEF SendCheckpoint
<1> QED BY <1>1, <1>2

LEMMA CleanupTyped ==
  ASSUME NEW t \in Tab
  PROVE  Became(t, Cleanup(t), NoId) /\ Became(t, CleanupAcceptedSession(t), NoId)
<1>1. Cleanup(t) \in Tab
  BY DEF Tab, Cleanup, ClearSession, Ids, States
<1>3. CleanupAcceptedSession(t) \in Tab
  BY DEF Tab, CleanupAcceptedSession, ClearSession, Ids, States
<1>2. /\ Cleanup(t).handled = t.handled /\ Cleanup(t).current = NoId
      /\ CleanupAcceptedSession(t).handled = t.handled /\ CleanupAcceptedSession(t).current = NoId
  BY DEF Tab, Cleanup, CleanupAcceptedSession, ClearSession
<1> QED BY <1>1, <1>2, <1>3 DEF Became

LEMMA AddReadTyped ==
  ASSUME NEW t \in Tab, NEW id \in Sessions, NEW c \in BOOLEAN, NEW o \in BOOLEAN, NEW a \in 0 .. Retries,
         NEW at \in {"timer", "fetch"}
  PROVE  Became(t, AddRead(t, id, c, o, a, at), t.current)
BY DEF Tab, AddRead, Reads, Became

LEMMA RetryTyped ==
  ASSUME NEW t \in Tab, NEW r, ReadOf(r), r.attempt < Retries
  PROVE  Became(t, RetryRead(t, r), t.current)
<1>1. r.attempt + 1 \in 0 .. Retries
  BY PageAssumption DEF ReadOf
<1> QED BY <1>1, AddReadTyped DEF RetryRead, ReadOf

LEMMA InjectionTyped ==
  ASSUME NEW t \in Tab, NEW r, ReadOf(r), NEW count \in Counts
  PROVE  KeptOrDropped(t, CompleteSourceInjection(t, r, count))
<1> DEFINE u == [t EXCEPT !.waiting = NoId, !.arrived = count]
<1>1. Became(t, u, t.current)
  BY DEF Tab, Ids, Became
<1>2. Became(t, [u EXCEPT !.state = "CYCLING"], t.current)
  BY <1>1 DEF Tab, Became, States
<1>3. CompleteSourceInjection(t, r, count) \in
        {SaveSession([u EXCEPT !.state = "CYCLING"]), u, RecoverEmptyCycling(u)}
      \/ (r.attempt < Retries /\ CompleteSourceInjection(t, r, count) = RetryRead(u, r))
  BY DEF CompleteSourceInjection
<1>4. Became(t, SaveSession([u EXCEPT !.state = "CYCLING"]), t.current)
  BY <1>2, SaveTyped DEF Became
<1>5. Became(t, RecoverEmptyCycling(u), NoId)
  BY <1>1, CleanupTyped DEF Became, RecoverEmptyCycling
<1>6. r.attempt < Retries => Became(t, RetryRead(u, r), t.current)
  BY <1>1, RetryTyped DEF Became
<1> HIDE DEF u
<1> QED BY <1>1, <1>3, <1>4, <1>5, <1>6 DEF KeptOrDropped

LEMMA InjectTyped ==
  ASSUME NEW t \in Tab, NEW r, ReadOf(r), NEW j \in BOOLEAN, NEW d \in Wrappers
  PROVE  KeptOrDropped(t, InjectVariantsFromSource(t, r, j, d))
<1> DEFINE u == [t EXCEPT !.sourceFile = TRUE]
           f == AddRead(u, r.id, r.completed, r.orphanDiscard, r.attempt, "fetch")
           v == InjectVariantsFromSource(t, r, j, d)
<1>1. Became(t, u, t.current)
  BY DEF Tab, Became
<1>2. u \in Tab /\ u.handled = t.handled /\ u.current = t.current
  BY <1>1 DEF Became
<1>3. Became(u, f, u.current)
  BY <1>2, AddReadTyped DEF ReadOf
<1>4. r.attempt < Retries => Became(u, RetryRead(u, r), u.current)
  BY <1>2, RetryTyped
<1>5. Became(u, RecoverEmptyCycling(u), NoId)
  BY <1>2, CleanupTyped DEF RecoverEmptyCycling
<1>6. d[r.id] > 0 => KeptOrDropped(u, CompleteSourceInjection(u, r, d[r.id]))
  <2>1. d[r.id] > 0 => d[r.id] \in Counts
    BY DEF Wrappers, ReadOf, Missing
  <2> QED BY <1>2, <2>1, InjectionTyped
<1>7. d[r.id] > 0 \/ d[r.id] <= 0
  BY PageAssumption DEF Wrappers, ReadOf, Missing, Counts
<1>8. \/ v \in {u, f, RecoverEmptyCycling(u)}
      \/ r.attempt < Retries /\ v = RetryRead(u, r)
      \/ d[r.id] > 0 /\ v = CompleteSourceInjection(u, r, d[r.id])
  <2> HIDE DEF u
  <2>1. CASE ~j
    BY <2>1 DEF InjectVariantsFromSource, u
  <2>2. CASE j /\ d[r.id] > 0
    BY <2>2 DEF InjectVariantsFromSource, u
  <2>3. CASE j /\ d[r.id] <= 0 /\ r.completed /\ r.id = t.current
    <3>1. ~(d[r.id] > 0)
      BY <2>3 DEF Wrappers, ReadOf, Missing, Counts
    <3>2. v = IF r.attempt < Retries THEN RetryRead(u, r)
              ELSE IF d[r.id] = Missing THEN u ELSE RecoverEmptyCycling(u)
      BY <2>3, <3>1 DEF InjectVariantsFromSource, u
    <3> QED BY <3>2
  <2>4. CASE j /\ d[r.id] <= 0 /\ ~(r.completed /\ r.id = t.current)
    BY <2>4 DEF InjectVariantsFromSource, u
  <2> QED BY <1>7, <2>1, <2>2, <2>3, <2>4
<1> HIDE DEF u, f, v
<1>9. KeptOrDropped(u, v)
  BY <1>2, <1>3, <1>4, <1>5, <1>6, <1>8 DEF KeptOrDropped, Became
<1> QED BY <1>2, <1>9 DEF KeptOrDropped, Became, v

-----------------------------------------------------------------------------
(* Lists in which an id is once.                                           *)

Once(s) == \A i, j \in 1 .. Len(s) : s[i] = s[j] => i = j

LEMMA WithoutIsList ==
  ASSUME NEW S, NEW s \in Seq(S), NEW x
  PROVE  Without(s, x) \in Seq(S) /\ Len(Without(s, x)) <= Len(s)
<1>1. CASE x \notin ToSet(s)
  BY <1>1 DEF Without
<1>2. CASE x \in ToSet(s)
  <2>1. PICK k \in 1 .. Len(s) : s[k] = x
    BY <1>2 DEF ToSet
  <2> DEFINE c == CHOOSE i \in DOMAIN s : s[i] = x
  <2>2. c \in 1 .. Len(s)
    BY <2>1
  <2> HIDE DEF c
  <2>3. Without(s, x) = RemoveAt(s, c)
    BY <1>2 DEF Without, c
  <2> QED BY <2>2, <2>3, RemovedAt
<1> QED BY <1>1, <1>2

LEMMA WithoutAt ==
  ASSUME NEW S, NEW s \in Seq(S), Once(s), NEW k \in 1 .. Len(s)
  PROVE  /\ Without(s, s[k]) \in Seq(S) /\ Len(Without(s, s[k])) = Len(s) - 1
         /\ \A i \in 1 .. Len(s) - 1 : Without(s, s[k])[i] = IF i < k THEN s[i] ELSE s[i + 1]
<1>1. s[k] \in ToSet(s)
  BY DEF ToSet
<1>2. (CHOOSE i \in DOMAIN s : s[i] = s[k]) = k
  BY DEF Once
<1>3. Without(s, s[k]) = RemoveAt(s, k)
  BY <1>1, <1>2 DEF Without
<1> QED BY <1>3, RemovedAt

\* The handled list h after id was marked.
Marked(h, id) ==
  LET ids == Append(Without(h, id), id)
  IN SubSeq(ids, IF Len(ids) > HandledCap THEN 2 ELSE 1, Len(ids))

LEMMA MarkedIsList ==
  ASSUME NEW h \in Seq(Sessions), Len(h) <= HandledCap, NEW id \in Sessions
  PROVE  Marked(h, id) \in Seq(Sessions) /\ Len(Marked(h, id)) <= HandledCap
<1> DEFINE ids == Append(Without(h, id), id)
<1>1. ids \in Seq(Sessions) /\ Len(ids) <= HandledCap + 1
  BY WithoutIsList, PageAssumption
<1>2. Marked(h, id) = SubSeq(ids, IF Len(ids) > HandledCap THEN 2 ELSE 1, Len(ids))
  BY DEF Marked
<1> HIDE DEF ids
<1> QED BY <1>1, <1>2, PageAssumption

\* The handled list holds the latest of what was finished, as many as it can.
Latest(h, f) ==
  /\ h \in Seq(Sessions) /\ f \in Seq(Sessions) /\ Once(f)
  /\ Len(h) = IF Len(f) < HandledCap THEN Len(f) ELSE HandledCap
  /\ \A i \in 1 .. Len(h) : h[i] = f[Len(f) - Len(h) + i]

LEMMA LatestMarked ==
  ASSUME NEW h, NEW f, Latest(h, f), NEW id \in Sessions
  PROVE  Latest(Marked(h, id), Append(Without(f, id), id))
<1> DEFINE n == Len(f)
           m == Len(h)
           g == Append(Without(f, id), id)
           ids == Append(Without(h, id), id)
<1>1. h \in Seq(Sessions) /\ f \in Seq(Sessions) /\ Once(f)
  BY DEF Latest
<1>2. \A i, j \in 1 .. n : f[i] = f[j] => i = j
  BY <1>1 DEF Once
<1>3. m = IF n < HandledCap THEN n ELSE HandledCap
  BY DEF Latest
<1>4. \A i \in 1 .. m : h[i] = f[n - m + i]
  BY DEF Latest
<1>5. DOMAIN h = 1 .. m /\ DOMAIN f = 1 .. n
  BY <1>1
<1>6. n \in Nat /\ m \in Nat /\ HandledCap \in Nat \ {0}
  BY <1>1, PageAssumption
<1> HIDE DEF n, m
<1>7. m <= n /\ m <= HandledCap /\ (m = HandledCap \/ m = n) /\ \A i \in 1 .. m : n - m + i \in 1 .. n
  BY <1>3, <1>6
<1>8. Once(h)
  <2>1. \A i, j \in 1 .. m : h[i] = h[j] => i = j
    BY <1>2, <1>4, <1>6, <1>7
  <2> QED BY <2>1 DEF Once, m
<1>9. Marked(h, id) = SubSeq(ids, IF Len(ids) > HandledCap THEN 2 ELSE 1, Len(ids))
  BY DEF Marked
<1>10. CASE id \notin ToSet(f)
  <2>1. id \notin ToSet(h)
    BY <1>4, <1>5, <1>7, <1>10 DEF ToSet
  <2>2. g = Append(f, id) /\ ids = Append(h, id)
    BY <1>10, <2>1 DEF Without
  <2> HIDE DEF g, ids
  <2>3. g \in Seq(Sessions) /\ Len(g) = n + 1 /\ g[n + 1] = id /\ \A i \in 1 .. n : g[i] = f[i]
    BY <1>1, <1>4, <1>5, <1>6, <2>2
  <2>4. ids \in Seq(Sessions) /\ Len(ids) = m + 1 /\ ids[m + 1] = id /\ \A i \in 1 .. m : ids[i] = h[i]
    BY <1>1, <1>4, <1>5, <1>6, <2>2
  <2>5. \A i \in 1 .. n : f[i] # id
    BY <1>5, <1>10 DEF ToSet
  <2>6. Once(g)
    BY <1>2, <1>6, <2>3, <2>5 DEF Once
  <2>7. CASE m < HandledCap
    <3>1. Marked(h, id) = ids /\ m = n
      BY <1>6, <1>7, <1>9, <2>4, <2>7
    <3> QED BY <1>4, <1>5, <1>6, <1>7, <2>3, <2>4, <2>6, <2>7, <3>1 DEF Latest, g
  <2>8. CASE m = HandledCap
    <3> DEFINE k == Marked(h, id)
    <3>1. k = SubSeq(ids, 2, m + 1)
      BY <1>6, <1>9, <2>4, <2>8
    <3> HIDE DEF k
    <3>2. k \in Seq(Sessions) /\ Len(k) = m /\ \A i \in 1 .. m : k[i] = ids[i + 1]
      BY <1>6, <2>4, <3>1
    <3>3. ASSUME NEW i \in 1 .. m PROVE k[i] = g[(n + 1) - m + i]
      <4>1. CASE i < m
        <5>1. k[i] = f[n - m + (i + 1)]
          BY <1>4, <2>4, <3>2, <4>1
        <5>2. n - m + (i + 1) \in 1 .. n /\ n - m + (i + 1) = (n + 1) - m + i
          BY <1>6, <1>7, <4>1
        <5> QED BY <2>3, <5>1, <5>2
      <4>2. CASE i = m
        <5>1. (n + 1) - m + m = n + 1 /\ i + 1 = m + 1
          BY <1>6, <4>2
        <5> QED BY <2>3, <2>4, <3>2, <4>2, <5>1
      <4> QED BY <1>6, <4>1, <4>2
    <3>4. ~(n + 1 < HandledCap)
      BY <1>6, <1>7, <2>8
    <3>5. Latest(k, g)
      BY <2>3, <2>6, <2>8, <3>2, <3>3, <3>4 DEF Latest
    <3> QED BY <3>5 DEF k, g
  <2> QED BY <1>3, <2>7, <2>8 DEF Latest, g
<1>11. CASE id \in ToSet(f)
  <2>1. PICK k \in 1 .. n : f[k] = id
    BY <1>5, <1>11 DEF ToSet
  <2>2. /\ Without(f, id) \in Seq(Sessions) /\ Len(Without(f, id)) = n - 1
        /\ \A i \in 1 .. n - 1 : Without(f, id)[i] = IF i < k THEN f[i] ELSE f[i + 1]
    <3>1. f \in Seq(Sessions) /\ Once(f)
      BY DEF Latest
    <3> QED BY <2>1, <3>1, WithoutAt DEF n
  <2>3. g \in Seq(Sessions) /\ Len(g) = n /\ g[n] = id /\ \A i \in 1 .. n - 1 : g[i] = IF i < k THEN f[i] ELSE f[i + 1]
    BY <1>6, <2>1, <2>2
  <2>4. Once(g)
    <3> HIDE DEF g
    <3> SUFFICES ASSUME NEW i \in 1 .. n, NEW j \in 1 .. n, g[i] = g[j], i < j PROVE FALSE
      BY <2>3 DEF Once
    <3>1. g[i] = f[IF i < k THEN i ELSE i + 1]
      BY <2>3
    <3>2. j < n => g[j] = f[IF j < k THEN j ELSE j + 1]
      BY <2>3
    <3>3. j = n => g[j] = f[k]
      BY <2>1, <2>3
    <3>4. \A a, b \in 1 .. n : f[a] = f[b] => a = b
      BY <1>2
    <3> QED BY <1>6, <2>1, <3>1, <3>2, <3>3, <3>4
  <2>5. CASE k <= n - m
    <3>1. m = HandledCap
      BY <1>6, <1>7, <2>1, <2>5
    <3>2. id \notin ToSet(h)
      <4>1. \A i \in 1 .. m : h[i] = f[n - m + i] /\ n - m + i \in 1 .. n /\ n - m + i # k
        BY <1>4, <1>6, <2>1, <2>5
      <4> QED BY <1>4, <1>5, <1>6, <2>1, <4>1 DEF ToSet, Latest, Once
    <3>3. ids = Append(h, id)
      BY <3>2 DEF Without
    <3> HIDE DEF g, ids
    <3>4. ids \in Seq(Sessions) /\ Len(ids) = m + 1 /\ ids[m + 1] = id /\ \A i \in 1 .. m : ids[i] = h[i]
      BY <1>1, <1>5, <1>6, <3>3
    <3> DEFINE q == Marked(h, id)
    <3>5. q = SubSeq(ids, 2, m + 1)
      BY <1>6, <1>9, <3>1, <3>4
    <3> HIDE DEF q
    <3>6. q \in Seq(Sessions) /\ Len(q) = m /\ \A i \in 1 .. m : q[i] = ids[i + 1]
      BY <1>6, <3>4, <3>5
    <3>7. ASSUME NEW i \in 1 .. m PROVE q[i] = g[n - m + i]
      <4>1. CASE i < m
        <5>1. q[i] = h[i + 1] /\ h[i + 1] = f[n - m + (i + 1)]
          <6>1. i + 1 \in 1 .. m
            BY <1>6, <4>1
          <6> QED BY <1>4, <3>4, <3>6, <6>1
        <5>2. n - m + i \in 1 .. n - 1 /\ ~(n - m + i < k)
          BY <1>6, <2>1, <2>5, <4>1
        <5>3. g[n - m + i] = f[(n - m + i) + 1]
          BY <2>3, <5>2
        <5>4. (n - m + i) + 1 = n - m + (i + 1)
          BY <1>6
        <5> QED BY <5>1, <5>3, <5>4
      <4>2. CASE i = m
        BY <2>3, <3>4, <3>6, <4>2
      <4> QED BY <1>6, <4>1, <4>2
    <3>8. Latest(q, g)
      BY <1>7, <2>3, <2>4, <3>1, <3>6, <3>7 DEF Latest
    <3> QED BY <3>8 DEF q, g
  <2>6. CASE k > n - m
    <3> DEFINE j == k - (n - m)
    <3>1. j \in 1 .. m /\ n - m + j = k /\ h[j] = id
      BY <1>2, <1>4, <1>6, <2>1, <2>6
    <3> HIDE DEF j
    <3>2. /\ Without(h, id) \in Seq(Sessions) /\ Len(Without(h, id)) = m - 1
          /\ \A i \in 1 .. m - 1 : Without(h, id)[i] = IF i < j THEN h[i] ELSE h[i + 1]
      <4>1. h \in Seq(Sessions)
        BY DEF Latest
      <4> QED BY <1>8, <3>1, <4>1, WithoutAt DEF m
    <3> DEFINE w == Without(h, id)
    <3>3. ids \in Seq(Sessions) /\ Len(ids) = m /\ ids[m] = id
          /\ \A i \in 1 .. m - 1 : ids[i] = IF i < j THEN h[i] ELSE h[i + 1]
      <4>1. ids = Append(w, id) /\ w \in Seq(Sessions) /\ Len(w) = m - 1
        BY <3>2
      <4>2. \A i \in 1 .. m - 1 : w[i] = IF i < j THEN h[i] ELSE h[i + 1]
        BY <3>2
      <4> HIDE DEF w, ids
      <4>3. ids \in Seq(Sessions) /\ Len(ids) = m /\ ids[m] = id
        BY <1>6, <4>1
      <4>4. \A i \in 1 .. m - 1 : ids[i] = w[i]
        BY <4>1
      <4> QED BY <4>2, <4>3, <4>4
    <3> HIDE DEF g, ids
    <3>4. m <= HandledCap
      BY <1>7
    <3>5. Marked(h, id) = ids
      BY <1>2, <1>6, <1>9, <3>3, <3>4
    <3>6. ASSUME NEW i \in 1 .. m PROVE ids[i] = g[n - m + i]
      <4>1. CASE i < m
        <5>1. ids[i] = f[IF i < j THEN n - m + i ELSE n - m + (i + 1)]
          BY <1>4, <3>1, <3>3, <4>1
        <5>2. n - m + i \in 1 .. n - 1 /\ (n - m + i < k <=> i < j) /\ (n - m + i) + 1 = n - m + (i + 1)
          BY <1>6, <1>7, <2>1, <3>1, <4>1
        <5>3. g[n - m + i] = f[IF i < j THEN n - m + i ELSE n - m + (i + 1)]
          BY <2>3, <5>2
        <5> QED BY <5>1, <5>3
      <4>2. CASE i = m
        BY <2>3, <3>3, <4>2
      <4> QED BY <1>6, <4>1, <4>2
    <3>7. Latest(ids, g)
      BY <1>6, <1>7, <2>3, <2>4, <3>3, <3>6 DEF Latest
    <3> QED BY <3>5, <3>7 DEF g
  <2> QED BY <1>6, <2>1, <2>5, <2>6
<1> QED BY <1>10, <1>11

LEMMA MarkedHandled ==
  ASSUME NEW t \in Tab, NEW id \in Sessions, Len(t.handled) <= HandledCap
  PROVE  /\ MarkHandled(t, id) \in Tab /\ MarkHandled(t, id).handled = Marked(t.handled, id)
         /\ MarkHandled(t, id).current = t.current
         /\ Len(Marked(t.handled, id)) <= HandledCap
<1>1. t.handled \in Seq(Sessions) /\ id # NoId
  BY PageAssumption DEF Tab
<1>2. Marked(t.handled, id) \in Seq(Sessions) /\ Len(Marked(t.handled, id)) <= HandledCap
  BY <1>1, MarkedIsList
<1>3. MarkHandled(t, id) = [t EXCEPT !.handled = Marked(t.handled, id)]
  BY <1>1 DEF MarkHandled, Marked
<1> QED BY <1>2, <1>3 DEF Tab

-----------------------------------------------------------------------------
(* The handlers.                                                           *)

\* u has let go of the session of t, and marked it.
Ended(t, u) ==
  /\ u \in Tab /\ t.current \in Sessions /\ u.current = NoId
  /\ u.handled = Marked(t.handled, t.current) /\ Len(u.handled) <= HandledCap

KeptOrEnded(t, u) == Became(t, u, t.current) \/ Ended(t, u)

\* u works on what t does, on nothing, or on a session that is not on the list.
TookUp(t, u) ==
  u \in Tab /\ u.handled = t.handled /\ (u.current \in {t.current, NoId} \/ ~IsHandled(t, u.current))

LEMMA MarkedCleanup ==
  ASSUME NEW t \in Tab, Len(t.handled) <= HandledCap, NEW id \in Sessions, t.current = id
  PROVE  Ended(t, Cleanup(MarkHandled(t, id))) /\ Ended(t, CleanupAcceptedSession(MarkHandled(t, id)))
BY MarkedHandled, CleanupTyped DEF Ended, Became

LEMMA SameEnds ==
  ASSUME NEW t, NEW u, NEW v, Became(t, u, t.current), KeptOrEnded(u, v)
  PROVE  KeptOrEnded(t, v)
BY DEF Became, KeptOrEnded, Ended

LEMMA SameTakesUp ==
  ASSUME NEW t, NEW u, NEW v, TookUp(t, u), TookUp(u, v)
  PROVE  TookUp(t, v)
BY DEF TookUp, IsHandled

LEMMA KeptTakesUp ==
  ASSUME NEW t, NEW u, KeptOrDropped(t, u)
  PROVE  TookUp(t, u)
BY DEF TookUp, KeptOrDropped, Became

LEMMA OrphanTyped ==
  ASSUME NEW t \in Tab, Len(t.handled) <= HandledCap
  PROVE  KeptOrEnded(t, DiscardOrphanedSession(t))
<1>1. CASE t.current = NoId
  BY <1>1 DEF DiscardOrphanedSession, KeptOrEnded, Became
<1>2. CASE t.current # NoId
  <2>1. t.current \in Sessions
    BY <1>2 DEF Tab, Ids
  <2> DEFINE u == SendEvent(t, "orphaned", t.current)
  <2>2. Became(t, u, t.current)
    BY <2>1, PostTyped
  <2>3. DiscardOrphanedSession(t) = Cleanup(MarkHandled(u, t.current))
    BY <1>2 DEF DiscardOrphanedSession
  <2> HIDE DEF u
  <2>4. Ended(u, Cleanup(MarkHandled(u, t.current)))
    BY <2>1, <2>2, MarkedCleanup DEF Became
  <2> QED BY <2>2, <2>3, <2>4, SameEnds DEF KeptOrEnded
<1> QED BY <1>1, <1>2

LEMMA MissingTyped ==
  ASSUME NEW t \in Tab, Len(t.handled) <= HandledCap, NEW r, ReadOf(r)
  PROVE  KeptOrEnded(t, WrapperMissing(t, r))
BY RetryTyped, OrphanTyped DEF WrapperMissing, KeptOrEnded, Became

LEMMA ProbeTyped ==
  ASSUME NEW t \in Tab, Len(t.handled) <= HandledCap, NEW r, ReadOf(r), NEW found \in {"absent", "present", "unreadable"}
  PROVE  KeptOrEnded(t, ProbeAnswered(t, r, found))
<1>1. CASE ~Working(t, r) \/ found = "present"
  BY <1>1 DEF ProbeAnswered, KeptOrEnded, Became
<1>2. CASE Working(t, r) /\ found = "absent"
  BY <1>2, MissingTyped DEF ProbeAnswered
<1>3. CASE Working(t, r) /\ found = "unreadable"
  BY <1>3, RetryTyped DEF ProbeAnswered, KeptOrEnded, Became
<1> QED BY <1>1, <1>2, <1>3

LEMMA AbandonTyped ==
  ASSUME NEW t \in Tab, Len(t.handled) <= HandledCap, NEW id \in Sessions
  PROVE  KeptOrEnded(t, AbandonForeignSession(t, id))
BY MarkedCleanup DEF AbandonForeignSession, KeptOrEnded, Became

LEMMA RecoveryTyped ==
  ASSUME NEW t \in Tab, NEW id \in Sessions
  PROVE  Became(t, EnterRecoveryWaitingForAnchor(t, id), t.current)
<1>1. Became(t, [t EXCEPT !.state = "GENERATING", !.waiting = id], t.current)
  BY DEF Tab, States, Ids, Became
<1> QED BY <1>1, SaveTyped, CheckpointTyped DEF EnterRecoveryWaitingForAnchor, Became

LEMMA StartTyped ==
  ASSUME NEW t \in Tab, NEW id \in Sessions, NEW annotated \in BOOLEAN
  PROVE  Became(t, StartGeneration(t, id, annotated), id)
<1> DEFINE a == [t EXCEPT !.pending = NoId, !.awaiting = NoId, !.current = id]
           b == [a EXCEPT !.arrived = 0, !.sourceFile = FALSE]
           c == [b EXCEPT !.state = "GENERATING", !.observed = id]
           u == SaveSession(c)
<1>1. Became(t, a, id)
  BY DEF Tab, Ids, Became
<1>2. 0 \in Counts
  BY PageAssumption DEF Counts
<1>3. Became(t, b, id)
  <2> HIDE DEF a
  <2> QED BY <1>1, <1>2 DEF Tab, Became
<1>4. Became(t, c, id)
  <2> HIDE DEF b
  <2> QED BY <1>3 DEF Tab, Became, Ids, States
<1>5. c = [t EXCEPT !.pending = NoId, !.awaiting = NoId, !.current = id, !.arrived = 0,
                    !.sourceFile = FALSE, !.state = "GENERATING", !.observed = id]
  OBVIOUS
<1>6. StartGeneration(t, id, annotated) =
        IF annotated THEN [u EXCEPT !.capture = id] ELSE SendEvent(u, "generate", id)
  BY <1>5 DEF StartGeneration
<1> HIDE DEF c
<1>7. Became(t, u, id)
  BY <1>4, SaveTyped DEF Became
<1> HIDE DEF u
<1>8. Became(t, [u EXCEPT !.capture = id], id)
  BY <1>7 DEF Tab, Ids, Became
<1>9. Became(t, SendEvent(u, "generate", id), id)
  BY <1>7, PostTyped DEF Became
<1> QED BY <1>6, <1>8, <1>9

SavedOK(s) == s.id \in Sessions /\ s.arrived \in Counts /\ s.file \in BOOLEAN

LEMMA RestorableTyped ==
  ASSUME NEW t \in Tab, NEW active \in SUBSET ActiveSession, NEW s \in Restorable(t, active)
  PROVE  SavedOK(s) /\ ~IsHandled(t, s.id) /\ (t.saved # NotSaved => s = t.saved)
<1>1. CASE t.saved = NotSaved
  BY <1>1 DEF Restorable, Adoptable, ActiveSession, SavedOK
<1>2. CASE t.saved # NotSaved
  BY <1>2 DEF Restorable, SavedOK, Tab, SavedState
<1> QED BY <1>1, <1>2

LEMMA RestoreTyped ==
  ASSUME NEW t \in Tab, NEW s, SavedOK(s), NEW active \in SUBSET ActiveSession, NEW j \in BOOLEAN, NEW d \in Wrappers
  PROVE  LET u == RestoreSession(t, s, active, j, d) IN Became(t, u, s.id) \/ Became(t, u, NoId)
<1> DEFINE known == Summary(s.id, active)
           file == s.file \/ \E a \in known : a.file
           arrived == IF s.arrived > 0 \/ known = {} THEN s.arrived ELSE (CHOOSE a \in known : TRUE).arrived
           b == [t EXCEPT !.current = s.id, !.sourceFile = file, !.arrived = arrived,
                          !.state = "GENERATING", !.observed = s.id]
           u == SendCheckpoint(SaveSession(b))
           r == [id |-> s.id, completed |-> FALSE, attempt |-> 0, orphanDiscard |-> s.st = "CYCLING"]
<1>1. file \in BOOLEAN
  OBVIOUS
<1>2. arrived \in Counts
  BY DEF Summary, ActiveSession, SavedOK
<1>3. ReadOf(r)
  BY PageAssumption DEF ReadOf, SavedOK
<1>4. RestoreSession(t, s, active, j, d) = IF file THEN InjectVariantsFromSource(u, r, j, d) ELSE u
  BY DEF RestoreSession
<1> HIDE DEF file, arrived
<1>5. Became(t, b, s.id)
  BY <1>1, <1>2 DEF Tab, Ids, States, Became, SavedOK
<1> HIDE DEF b, r
<1>6. Became(t, u, s.id)
  BY <1>5, SaveTyped, CheckpointTyped DEF Became
<1> HIDE DEF u
<1>7. KeptOrDropped(u, InjectVariantsFromSource(u, r, j, d))
  BY <1>3, <1>6, InjectTyped DEF Became
<1> QED BY <1>4, <1>6, <1>7 DEF KeptOrDropped, Became

LEMMA SettleTyped ==
  ASSUME NEW t \in Tab
  PROVE  Became(t, Settle(t), t.current)
BY DEF Settle, Tab, States, Became

LEMMA MissedTyped ==
  ASSUME NEW t \in Tab, NEW active \in SUBSET ActiveSession
  PROVE  Became(t, RecoverMissedCompletion(t, active), t.current)
<1> DEFINE u == [t EXCEPT !.sourceFile = TRUE]
<1>1. Became(t, u, t.current)
  BY DEF Tab, Became
<1>2. Summary(t.current, active) # {} => t.current \in Sessions
  BY DEF Summary, ActiveSession
<1>3. RecoverMissedCompletion(t, active) = t
      \/ (Summary(t.current, active) # {} /\ RecoverMissedCompletion(t, active) = AddRead(u, t.current, TRUE, FALSE, 0, "timer"))
  BY DEF RecoverMissedCompletion
<1>4. 0 \in 0 .. Retries
  BY PageAssumption
<1> HIDE DEF u
<1>5. t.current \in Sessions => Became(u, AddRead(u, t.current, TRUE, FALSE, 0, "timer"), u.current)
  BY <1>1, <1>4, AddReadTyped DEF Became
<1> QED BY <1>1, <1>2, <1>3, <1>5 DEF Became

LEMMA ObservedTyped ==
  ASSUME NEW t \in Tab, NEW d \in Wrappers
  PROVE  Became(t, VariantsObserved(t, d), t.current)
<1> DEFINE w == t.observed
           u == [t EXCEPT !.arrived = d[w], !.state = "CYCLING"]
<1>1. CASE w = NoId \/ d[w] <= t.arrived
  BY <1>1 DEF VariantsObserved, Became
<1>2. CASE ~(w = NoId \/ d[w] <= t.arrived)
  <2>1. w \in Sessions /\ t.arrived \in 0 .. Variants /\ d[w] \in {-1} \cup (0 .. Variants)
    BY <1>2 DEF Tab, Ids, Wrappers, Counts, Missing
  <2>2. d[w] \in Counts
    BY <1>2, <2>1, PageAssumption DEF Counts
  <2>3. Became(t, u, t.current)
    BY <2>2 DEF Tab, States, Became
  <2>4. VariantsObserved(t, d) = SendCheckpoint(SaveSession(u))
    BY <1>2 DEF VariantsObserved
  <2> HIDE DEF u
  <2> QED BY <2>3, <2>4, SaveTyped, CheckpointTyped DEF Became
<1> QED BY <1>1, <1>2

LEMMA ResumeTyped ==
  ASSUME NEW t \in Tab, NEW w \in Sessions, NEW j \in BOOLEAN, NEW d \in Wrappers, d[w] # Missing
  PROVE  TookUp(t, ResumeWrapper(t, w, j, d))
<1> DEFINE v == ResumeWrapper(t, w, j, d)
<1>1. CASE IsHandled(t, w)
  <2>1. CASE t.saved.id \in {NoId, w, t.current} \/ Restorable(t, {}) = {}
    BY <1>1, <2>1 DEF ResumeWrapper, TookUp
  <2>2. CASE ~(t.saved.id \in {NoId, w, t.current} \/ Restorable(t, {}) = {})
    <3>1. PICK s \in Restorable(t, {}) : TRUE
      BY <2>2
    <3>2. t.saved # NotSaved
      BY <2>2 DEF NotSaved
    <3>3. SavedOK(t.saved) /\ ~IsHandled(t, t.saved.id)
      BY <3>1, <3>2, RestorableTyped
    <3>4. Became(t, RestoreSession(t, t.saved, {}, j, d), t.saved.id) \/ Became(t, RestoreSession(t, t.saved, {}, j, d), NoId)
      BY <3>3, RestoreTyped
    <3>5. v = RestoreSession(t, t.saved, {}, j, d)
      BY <1>1, <2>2 DEF ResumeWrapper
    <3> QED BY <3>3, <3>4, <3>5 DEF TookUp, Became
  <2> QED BY <2>1, <2>2
<1>2. CASE ~IsHandled(t, w)
  <2> DEFINE file == t.sourceFile \/ (t.saved.id = w /\ t.saved.file)
             st == IF d[w] > 0 THEN "CYCLING" ELSE "GENERATING"
             u == [t EXCEPT !.current = w, !.arrived = d[w], !.observed = w, !.sourceFile = file, !.state = st]
  <2>1. d[w] \in Counts
    BY DEF Wrappers
  <2>2. file \in BOOLEAN /\ st \in States
    BY DEF States
  <2>3. v = SendCheckpoint(SaveSession(u))
    BY <1>2 DEF ResumeWrapper
  <2> HIDE DEF file, st
  <2>4. Became(t, u, w)
    BY <2>1, <2>2 DEF Tab, Ids, Became
  <2> HIDE DEF u
  <2>5. Became(t, v, w)
    BY <2>3, <2>4, SaveTyped, CheckpointTyped DEF Became
  <2> QED BY <1>2, <2>5 DEF TookUp, Became
<1> QED BY <1>1, <1>2

LEMMA ResumeNothingTyped ==
  ASSUME NEW t \in Tab, NEW j \in BOOLEAN, NEW d \in Wrappers
  PROVE  TookUp(t, ResumeWithoutWrapper(t, j, d))
<1>1. CASE Restorable(t, {}) = {}
  BY <1>1, ClearTyped DEF ResumeWithoutWrapper, TookUp, Became
<1>2. CASE Restorable(t, {}) # {}
  <2>1. PICK s \in Restorable(t, {}) : TRUE
    BY <1>2
  <2>2. t.saved # NotSaved
    BY <2>1 DEF Restorable, Adoptable
  <2>3. SavedOK(t.saved) /\ ~IsHandled(t, t.saved.id)
    BY <2>1, <2>2, RestorableTyped
  <2>4. Became(t, RestoreSession(t, t.saved, {}, j, d), t.saved.id) \/ Became(t, RestoreSession(t, t.saved, {}, j, d), NoId)
    BY <2>3, RestoreTyped
  <2> QED BY <1>2, <2>3, <2>4 DEF ResumeWithoutWrapper, TookUp, Became
<1> QED BY <1>1, <1>2

LEMMA PostsTyped ==
  ASSUME NEW t \in Tab, NEW P \in SUBSET Posts
  PROVE  Became(t, [t EXCEPT !.posts = P], t.current)
BY DEF Tab, Became

LEMMA GateTyped ==
  ASSUME NEW t \in Tab, NEW p
  PROVE  Became(t, GenerateAnswered(t, p), t.current)
<1> DEFINE P == {IF q.at = "gated" /\ q.gate = p.id THEN [q EXCEPT !.at = "sent", !.gate = NoId] ELSE q : q \in t.posts}
           g == IF t.gate = p.id THEN NoId ELSE t.gate
           u == [t EXCEPT !.gate = g, !.posts = P]
<1>1. t.posts \subseteq Posts /\ g \in Ids
  BY DEF Tab, Ids
<1>2. P \subseteq Posts
  <2>1. ASSUME NEW q \in Posts PROVE [q EXCEPT !.at = "sent", !.gate = NoId] \in Posts
    BY DEF Posts, Ids
  <2> QED BY <1>1, <2>1
<1>3. GenerateAnswered(t, p) \in {SendCheckpoint(u), u}
  <2>1. u = [t EXCEPT !.gate = IF @ = p.id THEN NoId ELSE @,
                      !.posts = {IF q.at = "gated" /\ q.gate = p.id
                                 THEN [q EXCEPT !.at = "sent", !.gate = NoId] ELSE q : q \in @}]
    BY DEF Tab
  <2> HIDE DEF u
  <2> QED BY <2>1 DEF GenerateAnswered
<1> HIDE DEF P, g
<1>4. Became(t, u, t.current)
  BY <1>1, <1>2 DEF Tab, Became
<1> HIDE DEF u
<1> QED BY <1>3, <1>4, CheckpointTyped DEF Became

LEMMA AcceptTyped ==
  ASSUME NEW t \in Tab, Len(t.handled) <= HandledCap, NEW p \in Posts
  PROVE  KeptOrEnded(t, AcceptAnswered(t, p))
<1>1. p.id \in Ids
  BY DEF Posts, Ids
<1>2. CASE p.at = "ok" /\ t.pending # p.id
  BY <1>2 DEF AcceptAnswered, KeptOrEnded, Became
<1>3. CASE p.at = "ok" /\ t.pending = p.id
  <2> DEFINE v == CleanupAcceptedSession(MarkHandled(t, t.current))
  <2>1. CASE t.current = NoId
    <3>1. v = CleanupAcceptedSession(t)
      BY <2>1 DEF MarkHandled
    <3> HIDE DEF v
    <3>2. Became(t, v, t.current)
      BY <2>1, <3>1, CleanupTyped
    <3>3. Became(t, [v EXCEPT !.awaiting = p.id], t.current)
      BY <1>1, <3>2 DEF Tab, Became
    <3> QED BY <1>3, <3>3 DEF AcceptAnswered, KeptOrEnded, v
  <2>2. CASE t.current # NoId
    <3>1. t.current \in Sessions
      BY <2>2 DEF Tab, Ids
    <3>2. Ended(t, v)
      BY <3>1, MarkedCleanup
    <3> HIDE DEF v
    <3>3. Ended(t, [v EXCEPT !.awaiting = p.id])
      BY <1>1, <3>2 DEF Tab, Ended
    <3> QED BY <1>3, <3>3 DEF AcceptAnswered, KeptOrEnded, v
  <2> QED BY <2>1, <2>2
<1>4. CASE p.at # "ok"
  <2> DEFINE g == IF t.pending = p.id THEN NoId ELSE t.pending
  <2>1. g \in Ids
    BY DEF Tab, Ids
  <2>2. AcceptAnswered(t, p) = [t EXCEPT !.state = "CYCLING", !.pending = g]
    BY <1>4 DEF AcceptAnswered, Tab
  <2> HIDE DEF g
  <2>3. Became(t, [t EXCEPT !.state = "CYCLING", !.pending = g], t.current)
    BY <2>1 DEF Tab, States, Became
  <2> QED BY <2>2, <2>3 DEF KeptOrEnded
<1> QED BY <1>2, <1>3, <1>4

LEMMA DiscardTyped ==
  ASSUME NEW t \in Tab, Len(t.handled) <= HandledCap, NEW p
  PROVE  KeptOrEnded(t, DiscardAnswered(t, p))
<1>1. CASE p.at # "ok"
  BY <1>1 DEF DiscardAnswered, KeptOrEnded, Became
<1>2. CASE p.at = "ok" /\ t.current = NoId
  <2>1. DiscardAnswered(t, p) = Cleanup(t)
    BY <1>2 DEF DiscardAnswered, MarkHandled
  <2> QED BY <1>2, <2>1, CleanupTyped DEF KeptOrEnded
<1>3. CASE p.at = "ok" /\ t.current # NoId
  <2>1. t.current \in Sessions
    BY <1>3 DEF Tab, Ids
  <2> QED BY <1>3, <2>1, MarkedCleanup DEF DiscardAnswered, KeptOrEnded
<1> QED BY <1>1, <1>2, <1>3

LEMMA DoneTyped ==
  ASSUME NEW t \in Tab, NEW id \in Sessions
  PROVE  Became(t, OnDone(t, id), t.current)
<1> DEFINE u == [t EXCEPT !.sourceFile = TRUE]
<1>1. Became(t, u, t.current)
  BY DEF Tab, Became
<1>2. OnDone(t, id) \in {[u EXCEPT !.state = "CYCLING"], u, AddRead(u, id, TRUE, FALSE, 0, "timer")}
  BY DEF OnDone
<1> HIDE DEF u
<1>3. Became(t, [u EXCEPT !.state = "CYCLING"], t.current)
  BY <1>1 DEF Tab, States, Became
<1>4. 0 \in 0 .. Retries
  BY PageAssumption
<1>5. Became(t, AddRead(u, id, TRUE, FALSE, 0, "timer"), t.current)
  BY <1>1, <1>4, AddReadTyped DEF Became
<1> QED BY <1>1, <1>2, <1>3, <1>5

LEMMA CompleteTyped ==
  ASSUME NEW t \in Tab, Len(t.handled) <= HandledCap, NEW id \in Sessions
  PROVE  KeptOrEnded(t, OnComplete(t, id))
<1> DEFINE g == IF t.awaiting = id THEN NoId ELSE t.awaiting
           u == [t EXCEPT !.awaiting = g]
<1>1. g \in Ids
  BY DEF Tab, Ids
<1>2. u = [t EXCEPT !.awaiting = IF @ = id THEN NoId ELSE @]
  BY DEF Tab
<1> HIDE DEF g
<1>3. Became(t, u, t.current)
  BY <1>1 DEF Tab, Became
<1> HIDE DEF u
<1>4. Became(t, [u EXCEPT !.pending = NoId], t.current)
  BY <1>3 DEF Tab, Ids, Became
<1>5. KeptOrEnded(u, CleanupAcceptedSession(MarkHandled(u, u.current)))
  <2>1. CASE u.current = NoId
    BY <1>3, <2>1, CleanupTyped DEF MarkHandled, KeptOrEnded, Became
  <2>2. CASE u.current # NoId
    <3>1. u.current \in Sessions
      BY <1>3, <2>2 DEF Tab, Ids, Became
    <3> QED BY <1>3, <3>1, MarkedCleanup DEF KeptOrEnded, Became
  <2> QED BY <2>1, <2>2
<1>6. OnComplete(t, id) \in {u, [u EXCEPT !.pending = NoId], CleanupAcceptedSession(MarkHandled(u, u.current))}
  BY <1>2, <1>3 DEF OnComplete, Became
<1> QED BY <1>3, <1>4, <1>5, <1>6, SameEnds DEF KeptOrEnded

LEMMA ErrorTyped ==
  ASSUME NEW t \in Tab, Len(t.handled) <= HandledCap, NEW id \in Sessions
  PROVE  KeptOrEnded(t, OnError(t, id))
<1> DEFINE s == IF t.saved.id = id THEN NotSaved ELSE t.saved
<1>1. Became(t, [t EXCEPT !.pending = NoId, !.awaiting = NoId, !.state = "CYCLING"], t.current)
  BY DEF Tab, Ids, States, Became
<1>2. Became(t, [t EXCEPT !.awaiting = NoId], t.current)
  BY DEF Tab, Ids, Became
<1>3. t.current = id => Ended(t, Cleanup(MarkHandled(t, id)))
  BY MarkedCleanup
<1>4. Became(t, [t EXCEPT !.state = "PICKING", !.saved = s], t.current)
  <2>1. s \in SavedState \cup {NotSaved}
    BY DEF Tab
  <2> HIDE DEF s
  <2> QED BY <2>1 DEF Tab, States, Became
<1>5. [t EXCEPT !.state = "PICKING", !.saved = s] = [t EXCEPT !.state = "PICKING", !.saved = IF @.id = id THEN NotSaved ELSE @]
  BY DEF Tab
<1> HIDE DEF s
<1>6. CASE t.pending = id
  BY <1>1, <1>6 DEF OnError, KeptOrEnded
<1>7. CASE t.pending # id /\ t.awaiting = id
  BY <1>2, <1>7 DEF OnError, KeptOrEnded
<1>8. CASE t.pending # id /\ t.awaiting # id /\ t.current = id
  BY <1>3, <1>8 DEF OnError, KeptOrEnded
<1>9. CASE t.pending # id /\ t.awaiting # id /\ t.current # id
  BY <1>4, <1>5, <1>9 DEF OnError, KeptOrEnded
<1> QED BY <1>6, <1>7, <1>8, <1>9

LEMMA EventTyped ==
  ASSUME NEW t \in Tab, Len(t.handled) <= HandledCap, NEW e \in [type : EventTypes, id : Sessions]
  PROVE  KeptOrEnded(t, OnEvent(t, e))
<1>1. e.id \in Sessions
  OBVIOUS
<1>2. CASE e.type = "progress"
  <2>1. Became(t, [t EXCEPT !.sourceFile = TRUE], t.current) /\ Became(t, t, t.current)
    BY DEF Tab, Became
  <2> QED BY <1>2, <2>1 DEF OnEvent, KeptOrEnded
<1>3. CASE e.type = "done"
  BY <1>1, <1>3, DoneTyped DEF OnEvent, KeptOrEnded
<1>4. CASE e.type = "complete"
  BY <1>1, <1>4, CompleteTyped DEF OnEvent
<1>5. CASE e.type = "discarded"
  BY <1>1, <1>5, MarkedCleanup DEF OnEvent, KeptOrEnded, Became
<1>6. CASE e.type = "error"
  BY <1>1, <1>6, ErrorTyped DEF OnEvent
<1> QED BY <1>2, <1>3, <1>4, <1>5, <1>6 DEF EventTypes

LEMMA LoadedTyped ==
  ASSUME NEW saved \in SavedState \cup {NotSaved}, NEW handled \in Seq(Sessions), NEW d \in Wrappers,
         jsx \in BOOLEAN, NEW v \in Loaded(saved, handled, d)
  PROVE  v \in Tab /\ v.handled = handled /\ ~IsHandled(v, v.current)
<1> DEFINE t == FreshTab(saved, handled)
           found == IF NoWrapper(d) THEN {ResumeWithoutWrapper(t, jsx, d)}
                    ELSE {ResumeWrapper(t, w, jsx, d) : w \in AnyWrapper(d)}
<1>1. t \in Tab /\ t.handled = handled /\ t.current = NoId
  <2>1. 0 \in Counts
    BY PageAssumption DEF Counts
  <2> QED BY <2>1 DEF FreshTab, Tab, States, Ids
<1>2. \A u \in found : TookUp(t, u)
  <2> HIDE DEF t
  <2>1. CASE NoWrapper(d)
    BY <1>1, <2>1, ResumeNothingTyped
  <2>2. CASE ~NoWrapper(d)
    <3>1. \A w \in AnyWrapper(d) : w \in Sessions /\ d[w] # Missing
      BY PageAssumption DEF AnyWrapper, Wrappers, Missing, Counts
    <3> QED BY <1>1, <2>2, <3>1, ResumeTyped
  <2> QED BY <2>1, <2>2
<1>3. PICK u \in found : v = Settle([u EXCEPT !.scout = u.current = NoId \/ NoWrapper(d)])
  BY DEF Loaded
<1> HIDE DEF found, t
<1>4. TookUp(t, u)
  BY <1>2
<1> DEFINE w == [u EXCEPT !.scout = u.current = NoId \/ NoWrapper(d)]
<1>5. Became(u, w, u.current)
  <2>1. (u.current = NoId \/ NoWrapper(d)) \in BOOLEAN
    OBVIOUS
  <2>2. \A b \in BOOLEAN : Became(u, [u EXCEPT !.scout = b], u.current)
    BY <1>4 DEF TookUp, Tab, Became
  <2> QED BY <2>1, <2>2
<1> HIDE DEF w
<1>6. Became(w, v, w.current)
  BY <1>3, <1>5, SettleTyped DEF Became, w
<1>7. NoId \notin ToSet(handled)
  BY PageAssumption DEF ToSet
<1> QED BY <1>1, <1>4, <1>5, <1>6, <1>7 DEF TookUp, Became, IsHandled

LEMMA AnchorTyped ==
  ASSUME NEW t \in Tab, NEW d \in Wrappers, jsx \in BOOLEAN
  PROVE  TookUp(t, AnchorSeen(t, d))
<1>1. CASE t.waiting = NoId
  BY <1>1 DEF AnchorSeen, TookUp
<1>2. CASE t.waiting # NoId
  <2> DEFINE u == [t EXCEPT !.waiting = NoId]
             r == [id |-> t.waiting, completed |-> FALSE, orphanDiscard |-> FALSE, attempt |-> 0]
  <2>1. Became(t, u, t.current)
    BY DEF Tab, Ids, Became
  <2>2. ReadOf(r)
    BY <1>2, PageAssumption DEF ReadOf, Tab, Ids
  <2>3. AnchorSeen(t, d) = InjectVariantsFromSource(u, r, jsx, d)
    BY <1>2 DEF AnchorSeen
  <2> HIDE DEF u, r
  <2>4. KeptOrDropped(u, InjectVariantsFromSource(u, r, jsx, d))
    BY <2>1, <2>2, InjectTyped DEF Became
  <2> QED BY <2>1, <2>3, <2>4 DEF TookUp, KeptOrDropped, Became
<1> QED BY <1>1, <1>2

LEMMA ScoutedTyped ==
  ASSUME NEW t \in Tab, NEW d \in Wrappers, jsx \in BOOLEAN, NEW w \in Sessions, d[w] # Missing
  PROVE  TookUp(t, Scouted(t, w, d))
<1> DEFINE u == [t EXCEPT !.scout = FALSE]
           v == ResumeWrapper(u, w, jsx, d)
<1>1. Became(t, u, t.current)
  BY DEF Tab, Became
<1>2. Scouted(t, w, d) \in {VariantsObserved(u, d), v}
  BY DEF Scouted
<1> HIDE DEF u
<1>3. TookUp(u, v)
  BY <1>1, ResumeTyped DEF Became
<1>4. TookUp(u, VariantsObserved(u, d))
  BY <1>1, ObservedTyped DEF Became, TookUp
<1>5. TookUp(t, u)
  BY <1>1 DEF Became, TookUp
<1> QED BY <1>2, <1>3, <1>4, <1>5, SameTakesUp

LEMMA PageChangedTyped ==
  ASSUME NEW t \in Tab, NEW d \in Wrappers, jsx \in BOOLEAN, NEW v \in PageChanged(t, d)
  PROVE  TookUp(t, v)
<1>1. PICK u : v = AnchorSeen(u, d) /\ (u = VariantsObserved(t, d) \/ \E w \in AnyWrapper(d) : u = Scouted(t, w, d))
  BY DEF PageChanged
<1>2. \A w \in AnyWrapper(d) : w \in Sessions /\ d[w] # Missing
  BY PageAssumption DEF AnyWrapper, Wrappers, Missing, Counts
<1>3. TookUp(t, u)
  BY <1>1, <1>2, ScoutedTyped, ObservedTyped DEF Became, TookUp
<1> QED BY <1>1, <1>3, AnchorTyped, SameTakesUp DEF TookUp

-----------------------------------------------------------------------------
(* The finished sessions and the handled list.                             *)

\* The handled list holds the latest of the finished sessions, which were all given out, and the
\* tab works on none of them.
Tally(t, f, given) ==
  t \in Tab /\ Latest(t.handled, f) /\ f \in Seq(given) /\ ~IsHandled(t, t.current)

HInv ==
  /\ faults \subseteq FaultNames /\ link \in {"connecting", "up", "dead"}
  /\ dom \in Wrappers /\ source \in Wrappers
  /\ Tally(tab, finished, used)

LEMMA HandledTyped ==
  ASSUME NEW t, NEW f, NEW given, Tally(t, f, given)
  PROVE  /\ t.handled \in Seq(Sessions) /\ Len(t.handled) <= HandledCap /\ NoId \notin ToSet(t.handled)
         /\ ToSet(t.handled) \subseteq given
<1>1. t.handled \in Seq(Sessions) /\ f \in Seq(given) /\ f \in Seq(Sessions)
  BY DEF Tally, Latest
<1>2. Len(t.handled) <= HandledCap /\ Len(t.handled) <= Len(f)
  BY <1>1, PageAssumption DEF Tally, Latest
<1>3. NoId \notin ToSet(t.handled)
  BY <1>1, PageAssumption DEF ToSet
<1>4. ASSUME NEW i \in 1 .. Len(t.handled) PROVE t.handled[i] \in given
  <2>1. t.handled[i] = f[Len(f) - Len(t.handled) + i]
    BY DEF Tally, Latest
  <2>2. Len(f) - Len(t.handled) + i \in 1 .. Len(f)
    <3>1. Len(f) \in Nat /\ Len(t.handled) \in Nat
      BY <1>1
    <3> QED BY <1>2, <3>1
  <2>3. \A k \in 1 .. Len(f) : f[k] \in given
    BY <1>1
  <2> QED BY <2>1, <2>2, <2>3
<1>5. ToSet(t.handled) \subseteq given
  BY <1>1, <1>4 DEF ToSet
<1> QED BY <1>1, <1>2, <1>3, <1>5

LEMMA TookUpTally ==
  ASSUME NEW t, NEW u, NEW f, NEW given, Tally(t, f, given), TookUp(t, u)
  PROVE  Tally(u, f, given)
BY HandledTyped DEF Tally, TookUp, IsHandled

LEMMA EndedTally ==
  ASSUME NEW t, NEW u, NEW f, NEW g, NEW given, Tally(t, f, given), KeptOrEnded(t, u), t.current \in given \cup {NoId},
         g = IF u.current = t.current \/ t.current = NoId THEN f ELSE Append(Without(f, t.current), t.current)
  PROVE  Tally(u, g, given)
<1>1. CASE Became(t, u, t.current)
  BY <1>1 DEF Became, Tally, IsHandled
<1>2. CASE Ended(t, u)
  <2> DEFINE c == t.current
  <2>1. c \in Sessions /\ c \in given /\ u.current = NoId /\ c # NoId /\ u \in Tab
    BY <1>2, PageAssumption DEF Ended
  <2>2. g = Append(Without(f, c), c)
    BY <2>1
  <2>3. Latest(u.handled, g)
    BY <1>2, <2>1, <2>2, LatestMarked DEF Ended, Tally
  <2>4. g \in Seq(given)
    <3>1. Without(f, c) \in Seq(given)
      BY WithoutIsList DEF Tally
    <3> HIDE DEF c
    <3> QED BY <2>1, <2>2, <3>1
  <2>5. NoId \notin ToSet(u.handled)
    BY <2>3, PageAssumption DEF Latest, ToSet
  <2> QED BY <2>1, <2>3, <2>4, <2>5 DEF Tally, IsHandled
<1> QED BY <1>1, <1>2 DEF KeptOrEnded

LEMMA StartedTally ==
  ASSUME NEW t, NEW u, NEW f, NEW given, NEW id \in Sessions \ given, Tally(t, f, given), Became(t, u, id)
  PROVE  Tally(u, f, given \cup {id})
<1>1. f \in Seq(given \cup {id})
  BY DEF Tally
<1>2. id \notin ToSet(t.handled)
  BY HandledTyped
<1> QED BY <1>1, <1>2 DEF Tally, Became, IsHandled

LEMMA HInvInit == Init => HInv
<1> SUFFICES ASSUME Init PROVE HInv
  OBVIOUS
<1>1. faults \subseteq FaultNames /\ link \in {"connecting", "up", "dead"}
  BY SessionAssumption DEF Init
<1>2. dom \in Wrappers /\ source \in Wrappers
  BY DEF Init, Wrappers
<1>3. tab \in Tab /\ tab.handled = <<>> /\ ~IsHandled(tab, tab.current)
  <2>1. tab \in Loaded(NotSaved, <<>>, dom) /\ jsx \in BOOLEAN /\ <<>> \in Seq(Sessions)
    BY DEF Init
  <2> QED BY <1>2, <2>1, LoadedTyped
<1>4. Latest(<<>>, <<>>) /\ <<>> \in Seq(used)
  BY PageAssumption DEF Latest, Once
<1> QED BY <1>1, <1>2, <1>3, <1>4 DEF HInv, Tally, Init

\* What a step of the tab may do.
TabMoves ==
  \/ TookUp(tab, tab') /\ UNCHANGED <<finished, used>>
  \/ KeptOrEnded(tab, tab') /\ Finishing /\ UNCHANGED used
  \/ \E id \in Sessions \ used : Became(tab, tab', id) /\ used' = used \cup {id} /\ UNCHANGED finished

LEMMA MovesKeep ==
  ASSUME SInv, HInv, TabMoves, faults' = faults, link' \in {"connecting", "up", "dead"},
         dom' \in Wrappers, source' \in Wrappers
  PROVE  HInv'
<1>1. tab.current \in used \cup {NoId}
  BY DEF SInv, Sound
<1>2. Tally(tab, finished, used)
  BY DEF HInv
<1>3. CASE TookUp(tab, tab') /\ UNCHANGED <<finished, used>>
  BY <1>2, <1>3, TookUpTally DEF HInv
<1>4. CASE KeptOrEnded(tab, tab') /\ Finishing /\ UNCHANGED used
  <2>1. Tally(tab', finished', used)
    BY <1>1, <1>2, <1>4, EndedTally DEF Finishing
  <2> QED BY <1>4, <2>1 DEF HInv
<1>5. CASE \E id \in Sessions \ used : Became(tab, tab', id) /\ used' = used \cup {id} /\ UNCHANGED finished
  <2>1. PICK id \in Sessions \ used : Became(tab, tab', id) /\ used' = used \cup {id} /\ UNCHANGED finished
    BY <1>5
  <2>2. Tally(tab', finished, used \cup {id})
    BY <1>2, <2>1, StartedTally
  <2> QED BY <2>1, <2>2 DEF HInv
<1> QED BY <1>3, <1>4, <1>5 DEF TabMoves

\* What the steps start from.
LEMMA TabTyped ==
  ASSUME SInv, HInv
  PROVE  /\ tab \in Tab /\ Len(tab.handled) <= HandledCap /\ dom \in Wrappers /\ source \in Wrappers /\ jsx \in BOOLEAN
         /\ link \in {"connecting", "up", "dead"}
         /\ \A c : c = tab.current => Became(tab, tab, c) /\ TookUp(tab, tab)
BY HandledTyped DEF SInv, HInv, Tally, WorldSound, Became, TookUp

LEMMA BecameMoves ==
  ASSUME Became(tab, tab', tab.current), UNCHANGED <<finished, used>>
  PROVE  TabMoves
BY DEF Became, TabMoves, TookUp

LEMMA UserMoves ==
  ASSUME SInv, HInv,
         Pick \/ ExitConfigure \/ Accept \/ Discard \/ EmitCaptured \/ \E id \in Sessions : Go(id)
  PROVE  HInv'
<1>1. tab \in Tab /\ \A c : c = tab.current => Became(tab, tab, c)
  BY TabTyped
<1>2. UNCHANGED <<faults, link, dom, source>> /\ dom \in Wrappers /\ source \in Wrappers /\ link \in {"connecting", "up", "dead"}
  BY TabTyped DEF Pick, ExitConfigure, Accept, Discard, EmitCaptured, Go, User, world
<1>3. TabMoves => HInv'
  BY <1>2, MovesKeep
<1>4. Pick \/ ExitConfigure \/ Accept \/ Discard \/ EmitCaptured => UNCHANGED <<finished, used>>
  BY DEF Pick, ExitConfigure, Accept, Discard, EmitCaptured
<1>5. CASE Pick \/ ExitConfigure
  <2>1. \E z \in States : tab' = [tab EXCEPT !.state = z]
    BY <1>5 DEF Pick, ExitConfigure, States
  <2>2. Became(tab, tab', tab.current)
    BY <1>1, <2>1 DEF Tab, Became
  <2> QED BY <1>5, <1>3, <1>4, <2>2, BecameMoves
<1>6. CASE Accept
  <2> DEFINE t == [tab EXCEPT !.state = "SAVING", !.pending = tab.current]
             u == SaveSession(t)
  <2>1. Became(tab, t, tab.current)
    BY <1>1 DEF Tab, States, Became
  <2>2. tab' = SendEvent(u, "accept", tab.current) /\ tab.current # NoId
    BY <1>6 DEF Accept
  <2> HIDE DEF t
  <2>3. Became(tab, u, tab.current)
    BY <2>1, SaveTyped DEF Became
  <2> HIDE DEF u
  <2>4. tab.current \in Sessions
    BY <1>1, <2>2 DEF Tab, Ids
  <2>5. Became(tab, tab', tab.current)
    BY <2>2, <2>3, <2>4, PostTyped DEF Became
  <2> QED BY <1>6, <1>3, <1>4, <2>5, BecameMoves
<1>7. CASE Discard
  <2>1. tab.current \in Sessions
    BY <1>1, <1>7 DEF Discard, Tab, Ids
  <2>2. Became(tab, tab', tab.current)
    BY <1>1, <1>7, <2>1, PostTyped DEF Discard
  <2> QED BY <1>7, <1>3, <1>4, <2>2, BecameMoves
<1>8. CASE EmitCaptured
  <2> DEFINE t == [tab EXCEPT !.capture = NoId]
  <2>1. Became(tab, t, tab.current)
    BY <1>1 DEF Tab, Ids, Became
  <2>2. tab' = SendEvent(t, "generate", tab.capture) /\ tab.capture \in Sessions
    BY <1>1, <1>8 DEF EmitCaptured, Tab, Ids
  <2> HIDE DEF t
  <2>3. Became(tab, tab', tab.current)
    BY <2>1, <2>2, PostTyped DEF Became
  <2> QED BY <1>8, <1>3, <1>4, <2>3, BecameMoves
<1>9. CASE \E id \in Sessions : Go(id)
  <2>1. PICK id \in Sessions : Go(id)
    BY <1>9
  <2>2. ("capture" \in faults) \in BOOLEAN
    OBVIOUS
  <2>3. Became(tab, StartGeneration(tab, id, "capture" \in faults), id)
    BY <1>1, <2>2, StartTyped
  <2>4. tab' = StartGeneration(tab, id, "capture" \in faults) /\ id \in Sessions \ used /\ used' = used \cup {id}
        /\ finished' = finished
    BY <2>1 DEF Go
  <2> QED BY <1>3, <2>3, <2>4 DEF TabMoves
<1> QED BY <1>5, <1>6, <1>7, <1>8, <1>9

LEMMA AnsweredMoves ==
  ASSUME SInv, HInv, NEW p \in tab.posts, Answered(p)
  PROVE  HInv'
<1> DEFINE t == [tab EXCEPT !.posts = @ \ {p}]
<1>1. tab \in Tab /\ p \in Posts /\ tab.posts \ {p} \in SUBSET Posts /\ Len(tab.handled) <= HandledCap
  BY TabTyped DEF Tab
<1>2. Became(tab, t, tab.current)
  <2>1. t = [tab EXCEPT !.posts = tab.posts \ {p}]
    BY <1>1 DEF Tab
  <2> QED BY <1>1, <2>1, PostsTyped
<1>3. t \in Tab /\ Len(t.handled) <= HandledCap /\ p.id \in Sessions
  BY <1>1, <1>2 DEF Became, Posts
<1>4. tab' \in {t, GenerateAnswered(t, p), AcceptAnswered(t, p), DiscardAnswered(t, p), AbandonForeignSession(t, p.id)}
  BY <1>1 DEF Answered, Posts
<1> HIDE DEF t
<1>5. KeptOrEnded(t, tab')
  <2>1. KeptOrEnded(t, t)
    BY <1>3 DEF KeptOrEnded, Became
  <2>2. KeptOrEnded(t, GenerateAnswered(t, p))
    BY <1>3, GateTyped DEF KeptOrEnded
  <2>3. KeptOrEnded(t, AcceptAnswered(t, p))
    BY <1>1, <1>3, AcceptTyped
  <2>4. KeptOrEnded(t, DiscardAnswered(t, p))
    BY <1>3, DiscardTyped
  <2>5. KeptOrEnded(t, AbandonForeignSession(t, p.id))
    BY <1>3, AbandonTyped
  <2> QED BY <1>4, <2>1, <2>2, <2>3, <2>4, <2>5
<1>6. KeptOrEnded(tab, tab') /\ Finishing /\ UNCHANGED <<faults, link, dom, source, used>>
  BY <1>2, <1>5, SameEnds DEF Answered, Quiet, world
<1> QED BY <1>6, TabTyped, MovesKeep DEF TabMoves

LEMMA DeliverMoves ==
  ASSUME SInv, HInv, Deliver
  PROVE  HInv'
<1>1. tab' = OnEvent(tab, Head(events)) /\ events # <<>> /\ Finishing /\ UNCHANGED <<faults, link, dom, source, used>>
  BY DEF Deliver, Quiet, world
<1>2. Head(events) \in [type : EventTypes, id : Sessions]
  <2>1. PICK E : E = [type : EventTypes, id : Sessions]
    OBVIOUS
  <2>2. events \in Seq(E)
    BY <2>1, EventsStay
  <2>3. Head(events) \in E
    BY <1>1, <2>2
  <2> QED BY <2>1, <2>3
<1>3. KeptOrEnded(tab, tab')
  BY <1>1, <1>2, TabTyped, EventTyped
<1> QED BY <1>1, <1>3, TabTyped, MovesKeep DEF TabMoves

LEMMA ActiveTyped ==
  ASSUME SInv, HInv
  PROVE  Active \in SUBSET ActiveSession
<1>1. \A s \in Sessions : (IF source[s] > 0 THEN source[s] ELSE 0) \in Counts
  BY TabTyped, PageAssumption DEF Wrappers, Counts, Missing
<1>2. ASSUME NEW s \in Sessions
      PROVE  [id |-> s, arrived |-> IF source[s] > 0 THEN source[s] ELSE 0, completed |-> server[s] = "ready",
              file |-> source[s] # Missing, terminal |-> server[s] \in {"accepting", "discarding"}] \in ActiveSession
  <2>1. /\ (server[s] = "ready") \in BOOLEAN /\ (source[s] # Missing) \in BOOLEAN
        /\ (server[s] \in {"accepting", "discarding"}) \in BOOLEAN
    OBVIOUS
  <2>2. ASSUME NEW n \in Counts, NEW c \in BOOLEAN, NEW f \in BOOLEAN, NEW e \in BOOLEAN
        PROVE  [id |-> s, arrived |-> n, completed |-> c, file |-> f, terminal |-> e] \in ActiveSession
    BY DEF ActiveSession
  <2> QED BY <1>1, <2>1, <2>2
<1> QED BY <1>2, Zenon DEF Active

LEMMA ConnectMoves ==
  ASSUME SInv, HInv, Connect
  PROVE  HInv'
<1>1. PICK r \in (IF NoWrapper(dom) /\ Restorable(tab, Active) # {}
                  THEN {RestoreSession(tab, s, Active, jsx, dom) : s \in Restorable(tab, Active)}
                  ELSE {tab}) : tab' = Settle(RecoverMissedCompletion(r, Active))
  BY Zenon DEF Connect
<1>2. r = tab \/ \E s \in Restorable(tab, Active) : r = RestoreSession(tab, s, Active, jsx, dom)
  BY Zenon
<1>3. ASSUME NEW s \in Restorable(tab, Active)
      PROVE  TookUp(tab, RestoreSession(tab, s, Active, jsx, dom))
  <2>1. SavedOK(s) /\ ~IsHandled(tab, s.id)
    BY TabTyped, ActiveTyped, RestorableTyped
  <2>2. \/ Became(tab, RestoreSession(tab, s, Active, jsx, dom), s.id)
        \/ Became(tab, RestoreSession(tab, s, Active, jsx, dom), NoId)
    BY <2>1, TabTyped, ActiveTyped, RestoreTyped
  <2> QED BY <2>1, <2>2 DEF Became, TookUp
<1>4. TookUp(tab, r)
  BY <1>2, <1>3, TabTyped
<1>5. TookUp(tab, tab')
  <2>1. Became(r, RecoverMissedCompletion(r, Active), r.current)
    BY <1>4, ActiveTyped, MissedTyped DEF TookUp
  <2>2. Became(r, tab', r.current)
    BY <1>1, <2>1, SettleTyped DEF Became
  <2> QED BY <1>4, <2>2 DEF TookUp, Became
<1>6. UNCHANGED <<faults, dom, source, used, finished>> /\ link' = "up"
  BY DEF Connect, Quiet, world
<1> QED BY <1>5, <1>6, TabTyped, MovesKeep DEF TabMoves

LEMMA LinkMoves ==
  ASSUME SInv, HInv, Disconnect \/ ServerLost
  PROVE  HInv'
<1>1. UNCHANGED <<faults, dom, source, used, finished>> /\ link' \in {"connecting", "dead"}
  BY DEF Disconnect, ServerLost, Quiet, world
<1>2. CASE Disconnect
  BY <1>1, <1>2, TabTyped, MovesKeep DEF TabMoves, Disconnect
<1>3. CASE ServerLost
  <2> DEFINE z == IF tab.current = NoId THEN "IDLE" ELSE tab.state
             t == [tab EXCEPT !.observed = NoId, !.state = z]
  <2>1. z \in States
    BY TabTyped DEF Tab, States
  <2>2. tab' = SaveSession(t)
    BY <1>3, TabTyped DEF ServerLost, Tab
  <2> HIDE DEF z
  <2>3. Became(tab, t, tab.current)
    BY <2>1, TabTyped DEF Tab, Ids, Became
  <2> HIDE DEF t
  <2>4. Became(tab, tab', tab.current)
    BY <2>2, <2>3, SaveTyped DEF Became
  <2> QED BY <1>1, <2>4, TabTyped, BecameMoves, MovesKeep
<1> QED BY <1>2, <1>3

LEMMA ReloadMoves ==
  ASSUME SInv, HInv, Reload
  PROVE  HInv'
<1>1. /\ tab' \in Loaded(tab.saved, tab.handled, dom')
      /\ dom' = source \/ dom' = [s \in Sessions |-> Missing]
      /\ UNCHANGED <<faults, source, used, finished>> /\ link' = "connecting"
  BY DEF Reload, Quiet
<1>2. dom' \in Wrappers
  BY <1>1, TabTyped DEF Wrappers
<1>3. tab.saved \in SavedState \cup {NotSaved} /\ tab.handled \in Seq(Sessions)
  BY TabTyped DEF Tab
<1>4. tab' \in Tab /\ tab'.handled = tab.handled /\ ~IsHandled(tab', tab'.current)
  BY <1>1, <1>2, <1>3, TabTyped, LoadedTyped
<1>5. TookUp(tab, tab')
  BY <1>4 DEF TookUp, IsHandled
<1> QED BY <1>1, <1>2, <1>5, TabTyped, MovesKeep DEF TabMoves

LEMMA ReadMoves ==
  ASSUME SInv, HInv, NEW r \in tab.reads, ReadTimer(r) \/ ProbeRead(r) \/ SourceRead(r)
  PROVE  HInv'
<1> DEFINE t == [tab EXCEPT !.reads = @ \ {r}]
<1>1. tab \in Tab /\ ReadOf(r) /\ Len(tab.handled) <= HandledCap
  BY TabTyped, ReadTyped DEF Tab
<1>2. Became(tab, t, tab.current)
  BY <1>1 DEF Tab, Became
<1>3. t \in Tab /\ Len(t.handled) <= HandledCap /\ t.current = tab.current
  BY <1>1, <1>2 DEF Became
<1>4. TookUp(tab, t)
  BY <1>2 DEF TookUp, Became
<1>5. CASE ReadTimer(r)
  <2>1. tab' \in {t, InjectVariantsFromSource(t, r, jsx, dom)}
    BY <1>5, Zenon DEF ReadTimer
  <2>2. UNCHANGED <<faults, link, dom, source, used, finished>>
    BY <1>5 DEF ReadTimer, Quiet, world
  <2> HIDE DEF t
  <2>3. TookUp(tab, tab')
    BY <1>1, <1>3, <1>4, <2>1, InjectTyped, KeptTakesUp, SameTakesUp, TabTyped
  <2> QED BY <2>2, <2>3, TabTyped, MovesKeep DEF TabMoves
<1>6. CASE ProbeRead(r)
  <2>1. PICK found \in {"absent", "present", "unreadable"} : tab' = ProbeAnswered(t, r, found)
    BY <1>6 DEF ProbeRead
  <2>2. UNCHANGED <<faults, link, dom, source, used>> /\ Finishing
    BY <1>6 DEF ProbeRead, Quiet, world
  <2> HIDE DEF t
  <2>3. KeptOrEnded(tab, tab')
    BY <1>1, <1>2, <1>3, <2>1, ProbeTyped, SameEnds
  <2> QED BY <2>2, <2>3, TabTyped, MovesKeep DEF TabMoves
<1>7. CASE SourceRead(r)
  <2>1. UNCHANGED <<faults, link, source, used>>
    BY <1>7 DEF SourceRead, Quiet
  <2>2. \/ tab' = t /\ UNCHANGED <<dom, finished>>
        \/ tab' = WrapperMissing(t, r) /\ Finishing /\ UNCHANGED dom
        \/ /\ source[r.id] # Missing /\ dom' = [dom EXCEPT ![r.id] = source[r.id]]
           /\ tab' = CompleteSourceInjection(t, r, source[r.id]) /\ UNCHANGED finished
        \/ tab' = EnterRecoveryWaitingForAnchor(t, r.id) /\ UNCHANGED <<dom, finished>>
    BY <1>7 DEF SourceRead
  <2> HIDE DEF t
  <2>3. CASE tab' = t /\ UNCHANGED <<dom, finished>>
    BY <1>4, <2>1, <2>3, TabTyped, MovesKeep DEF TabMoves
  <2>4. CASE tab' = WrapperMissing(t, r) /\ Finishing /\ UNCHANGED dom
    <3>1. KeptOrEnded(tab, tab')
      BY <1>1, <1>2, <1>3, <2>4, MissingTyped, SameEnds
    <3> QED BY <2>1, <2>4, <3>1, TabTyped, MovesKeep DEF TabMoves
  <2>5. CASE /\ source[r.id] # Missing /\ dom' = [dom EXCEPT ![r.id] = source[r.id]]
             /\ tab' = CompleteSourceInjection(t, r, source[r.id]) /\ UNCHANGED finished
    <3>1. r.id \in Sessions /\ source[r.id] \in Counts
      BY <1>1, <2>5, TabTyped DEF ReadOf, Wrappers
    <3>2. dom' \in Wrappers
      BY <2>5, <3>1, TabTyped DEF Wrappers
    <3>3. TookUp(tab, tab')
      BY <1>1, <1>3, <1>4, <2>5, <3>1, InjectionTyped, KeptTakesUp, SameTakesUp
    <3> QED BY <2>1, <2>5, <3>2, <3>3, TabTyped, MovesKeep DEF TabMoves
  <2>6. CASE tab' = EnterRecoveryWaitingForAnchor(t, r.id) /\ UNCHANGED <<dom, finished>>
    <3>1. Became(tab, tab', tab.current)
      BY <1>1, <1>2, <1>3, <2>6, RecoveryTyped DEF ReadOf, Became
    <3> QED BY <2>1, <2>6, <3>1, BecameMoves, TabTyped, MovesKeep
  <2> QED BY <2>2, <2>3, <2>4, <2>5, <2>6
<1> QED BY <1>5, <1>6, <1>7

LEMMA PageMoves ==
  ASSUME SInv, HInv, NEW s \in Sessions, HotReload(s) \/ Unmount(s)
  PROVE  HInv'
<1>1. dom' \in Wrappers /\ UNCHANGED <<faults, link, source, used, finished>>
  <2>1. dom' = [dom EXCEPT ![s] = source[s]] \/ dom' = [dom EXCEPT ![s] = Missing]
    BY DEF HotReload, Unmount
  <2>2. dom' \in Wrappers
    BY <2>1, TabTyped DEF Wrappers
  <2>3. UNCHANGED <<faults, link, source, used, finished>>
    BY DEF HotReload, Unmount, Quiet
  <2> QED BY <2>2, <2>3
<1>2. tab' \in PageChanged(tab, dom') \/ tab' = tab
  BY Zenon DEF HotReload, Unmount
<1>3. TookUp(tab, tab')
  BY <1>1, <1>2, TabTyped, PageChangedTyped
<1> QED BY <1>1, <1>3, TabTyped, MovesKeep DEF TabMoves

LEMMA RequestMoves ==
  ASSUME SInv, HInv, NEW p \in tab.posts, Arrive(p) \/ Fail(p)
  PROVE  HInv'
<1>1. tab.posts \subseteq Posts /\ tab \in Tab
  BY TabTyped DEF Tab
<1>2. ASSUME NEW answer \in {"ok", "refused", "unknown"} PROVE [p EXCEPT !.at = answer] \in Posts
  BY <1>1 DEF Posts
<1>3. ASSUME NEW K, K \subseteq Posts, tab' = [tab EXCEPT !.posts = (@ \ {p}) \cup K]
      PROVE  Became(tab, tab', tab.current)
  <2> DEFINE P == (tab.posts \ {p}) \cup K
  <2>1. P \in SUBSET Posts
    BY <1>1, <1>3
  <2>2. tab' = [tab EXCEPT !.posts = P]
    BY <1>1, <1>3 DEF Tab
  <2> HIDE DEF P
  <2> QED BY <1>1, <2>1, <2>2, PostsTyped
<1>4. Became(tab, tab', tab.current)
  <2>1. CASE Arrive(p)
    <3>1. PICK answer : /\ answer \in {"ok", "refused", "unknown"}
                        /\ tab' = [tab EXCEPT !.posts = (@ \ {p}) \cup
                                    IF p.kind \in {"checkpoint", "orphaned"} /\ answer = "ok" THEN {}
                                    ELSE {[p EXCEPT !.at = answer]}]
      BY <2>1, Zenon DEF Arrive
    <3> DEFINE K == IF p.kind \in {"checkpoint", "orphaned"} /\ answer = "ok" THEN {} ELSE {[p EXCEPT !.at = answer]}
    <3>2. K \subseteq Posts /\ tab' = [tab EXCEPT !.posts = (@ \ {p}) \cup K]
      BY <1>2, <3>1
    <3> HIDE DEF K
    <3> QED BY <1>3, <3>2
  <2>2. CASE Fail(p)
    <3> DEFINE K == IF p.kind \in {"checkpoint", "orphaned"} THEN {} ELSE {[p EXCEPT !.at = "refused"]}
    <3>1. K \subseteq Posts /\ tab' = [tab EXCEPT !.posts = (@ \ {p}) \cup K]
      BY <1>2, <2>2 DEF Fail
    <3> HIDE DEF K
    <3> QED BY <1>3, <3>1
  <2> QED BY <2>1, <2>2
<1>5. UNCHANGED <<faults, link, dom, source, used, finished>>
  BY DEF Arrive, Fail, External, Quiet
<1> QED BY <1>4, <1>5, BecameMoves, TabTyped, MovesKeep

LEMMA AgentMoves ==
  ASSUME SInv, HInv, NEW s \in Sessions,
         Scaffold(s) \/ WriteVariant(s) \/ Complete(s) \/ GiveUp(s) \/ Promote(s) \/ Undo(s)
  PROVE  HInv'
<1>1. UNCHANGED <<faults, link, dom, tab, used, finished>>
  BY DEF Scaffold, WriteVariant, Complete, GiveUp, Promote, Undo, External, Quiet
<1>2. \/ source' = source \/ source' = [source EXCEPT ![s] = 0]
      \/ source' = [source EXCEPT ![s] = @ + 1] /\ source[s] < Variants
      \/ source' = [source EXCEPT ![s] = Missing]
  BY DEF Scaffold, WriteVariant, Complete, GiveUp, Promote, Undo
<1>3. source[s] \in {-1} \cup 0 .. Variants /\ Variants \in Nat
  BY TabTyped, PageAssumption DEF Wrappers, Counts, Missing
<1>4. 0 \in Counts /\ (source[s] < Variants => source[s] + 1 \in Counts)
  BY <1>3 DEF Counts
<1>5. source' \in Wrappers
  BY <1>2, <1>4, TabTyped DEF Wrappers
<1>6. TookUp(tab, tab')
  BY <1>1, TabTyped
<1> QED BY <1>1, <1>5, <1>6, TabTyped, MovesKeep DEF TabMoves

LEMMA HInvNext == SInv /\ HInv /\ [Next]_vars => HInv'
<1> SUFFICES ASSUME SInv, HInv, [Next]_vars PROVE HInv'
  OBVIOUS
<1>1. CASE Pick \/ ExitConfigure \/ Accept \/ Discard \/ EmitCaptured \/ \E id \in Sessions : Go(id)
  BY <1>1, UserMoves
<1>2. CASE \E p \in tab.posts : Answered(p)
  BY <1>2, AnsweredMoves
<1>3. CASE Deliver
  BY <1>3, DeliverMoves
<1>4. CASE Connect
  BY <1>4, ConnectMoves
<1>5. CASE Disconnect \/ ServerLost
  BY <1>5, LinkMoves
<1>6. CASE Reload
  BY <1>6, ReloadMoves
<1>7. CASE \E r \in tab.reads : ReadTimer(r) \/ ProbeRead(r) \/ SourceRead(r)
  BY <1>7, ReadMoves
<1>8. CASE \E s \in Sessions : HotReload(s) \/ Unmount(s)
  BY <1>8, PageMoves
<1>9. CASE \E p \in tab.posts : Arrive(p) \/ Fail(p)
  BY <1>9, RequestMoves
<1>10. CASE \E s \in Sessions : Scaffold(s) \/ WriteVariant(s) \/ Complete(s) \/ GiveUp(s) \/ Promote(s) \/ Undo(s)
  BY <1>10, AgentMoves
<1>11. CASE UNCHANGED vars
  BY <1>11 DEF vars, world, HInv, Tally, Latest, IsHandled
<1> QED BY <1>1, <1>2, <1>3, <1>4, <1>5, <1>6, <1>7, <1>8, <1>9, <1>10, <1>11 DEF Next, TabStep, WorldStep

\* What the run checks of types follows from the two invariants.
LEMMA HInvTypeOK == SInv /\ HInv => TypeOK
<1> SUFFICES ASSUME SInv, HInv PROVE TypeOK
  OBVIOUS
<1>1. faults \subseteq FaultNames /\ tab \in Tab /\ finished \in Seq(Sessions)
      /\ link \in {"connecting", "up", "dead"} /\ dom \in Wrappers /\ source \in Wrappers
  BY DEF HInv, Tally, Latest
<1>2. Len(tab.handled) <= HandledCap
  BY TabTyped
<1>3. jsx \in BOOLEAN /\ used \subseteq Sessions /\ server \in [Sessions -> ServerStates]
      /\ events \in Seq([type : EventTypes, id : Sessions])
  BY DEF SInv, WorldSound
<1>4. \A i \in DOMAIN events : events[i] \in [type : EventTypes, id : Sessions]
  <2>1. PICK E : E = [type : EventTypes, id : Sessions]
    OBVIOUS
  <2>2. events \in Seq(E)
    BY <1>3, <2>1
  <2>3. \A i \in DOMAIN events : events[i] \in E
    BY <2>2
  <2> QED BY <2>1, <2>3
<1> QED BY <1>1, <1>2, <1>3, <1>4 DEF TypeOK

\* A finished session that is not on the list was pushed off it: what the list holds was all
\* finished later.
LEMMA HInvNoResurrection == HInv => NoResurrection
<1> SUFFICES ASSUME HInv, tab.current \in ToSet(finished)
             PROVE  Cardinality(FinishedSince(tab.current)) >= HandledCap
  BY DEF NoResurrection
<1> DEFINE c == tab.current
           F == FinishedSince(c)
           n == Len(finished)
           m == Len(tab.handled)
           late == {j \in DOMAIN finished : \E k \in DOMAIN finished : k < j /\ finished[k] = c}
<1>1. Latest(tab.handled, finished) /\ c \notin ToSet(tab.handled)
  BY DEF HInv, Tally, IsHandled
<1>2. n \in Nat /\ m \in Nat /\ HandledCap \in Nat \ {0} /\ DOMAIN finished = 1 .. n /\ DOMAIN tab.handled = 1 .. m
  BY <1>1, PageAssumption DEF Latest
<1>3. m = IF n < HandledCap THEN n ELSE HandledCap
  BY <1>1 DEF Latest
<1>4. /\ \A i \in 1 .. m : tab.handled[i] = finished[n - m + i]
      /\ \A i, j \in 1 .. n : finished[i] = finished[j] => i = j
  BY <1>1 DEF Latest, Once
<1>5. PICK k \in 1 .. n : finished[k] = c
  BY <1>2 DEF ToSet
<1>6. \A i \in 1 .. m : tab.handled[i] # c
  BY <1>1, <1>2 DEF ToSet
<1> HIDE DEF c, n, m
<1>7. k <= n - m /\ m = HandledCap
  <2>1. ~(k > n - m)
    <3> SUFFICES ASSUME k > n - m PROVE FALSE
      OBVIOUS
    <3>1. k - (n - m) \in 1 .. m /\ n - m + (k - (n - m)) = k
      BY <1>2, <1>3
    <3> QED BY <1>4, <1>5, <1>6, <3>1
  <2> QED BY <1>2, <1>3, <2>1
<1>8. IsFiniteSet(F)
  <2> DEFINE g == [j \in late |-> finished[j]]
  <2>1. F = {finished[j] : j \in late}
    BY DEF FinishedSince, c
  <2> HIDE DEF F
  <2>2. g \in Surjection(late, F)
    BY <2>1 DEF Surjection
  <2>3. IsFiniteSet(late)
    <3>1. late \in SUBSET (1 .. n)
      BY <1>2
    <3>2. IsFiniteSet(1 .. n)
      BY <1>2, FS_Interval
    <3> HIDE DEF late
    <3> QED BY <3>1, <3>2, FS_Subset
  <2> HIDE DEF g, late
  <2> QED BY <2>2, <2>3, FS_Surjection
<1>9. Cardinality(1 .. m) <= Cardinality(F)
  <2> DEFINE g == [i \in 1 .. m |-> finished[n - m + i]]
  <2>1. \A i \in 1 .. m : n - m + i \in 1 .. n /\ k < n - m + i
    BY <1>2, <1>3, <1>7
  <2>2. F = {finished[j] : j \in late}
    BY DEF FinishedSince, c
  <2>3. \A i \in 1 .. m : finished[n - m + i] \in F
    BY <1>2, <1>5, <2>1, <2>2
  <2>4. \A i, j \in 1 .. m : finished[n - m + i] = finished[n - m + j] => i = j
    <3> TAKE i \in 1 .. m, j \in 1 .. m
    <3> HAVE finished[n - m + i] = finished[n - m + j]
    <3>1. n - m + i = n - m + j
      BY <1>4, <2>1
    <3> QED BY <1>2, <3>1
  <2> HIDE DEF F, late
  <2>5. g \in Injection(1 .. m, F)
    BY <2>3, <2>4 DEF Injection, IsInjective
  <2> HIDE DEF g
  <2> QED BY <1>8, <2>5, FS_Injection
<1>10. Cardinality(1 .. m) = m
  BY <1>2, FS_Interval
<1>11. Cardinality(F) \in Nat
  BY <1>8, FS_CardinalityType
<1> HIDE DEF F
<1>12. Cardinality(F) >= HandledCap
  BY <1>2, <1>7, <1>9, <1>10, <1>11
<1> QED BY <1>12 DEF F, c

\* The finished sessions and the handled list agree in every state, whatever the constants: the
\* list holds the latest of what this tab has finished, and the tab works on nothing that is on it.
THEOREM HandledInvariance == Spec => [](SInv /\ HInv)
<1>1. Init => SInv /\ HInv
  BY SInvInit, HInvInit
<1>2. SInv /\ HInv /\ [Next]_vars => SInv' /\ HInv'
  BY SInvNext, HInvNext
<1> QED BY <1>1, <1>2, PTL DEF Spec

\* The variables of the tab, the page, the sources, the server and the stream are of their types,
\* and the handled list never outgrows its cap (ids.slice(-8) of markHandled).
THEOREM SessionTypeCorrect == Spec => []TypeOK
BY HandledInvariance, HInvTypeOK, PTL

\* A session whose end this tab has processed is not taken up again, whatever wrapper lingers,
\* event comes late or record is restored, until HandledCap others have ended since.
THEOREM NoResurrectionHolds == Spec => []NoResurrection
BY HandledInvariance, HInvNoResurrection, PTL
=============================================================================

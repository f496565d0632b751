-------------------------- MODULE MCEmailLifecycle --------------------------
(* Small instances of EmailLifecycle for TLC: one email with one or two      *)
(* messages, one or two workers and reviewers.                               *)
EXTENDS EmailLifecycle, TLC

CONSTANTS scheduler, pollNow, ann, bob, mail, newest, quoted

OneEmail == [m \in Messages |-> mail]
Positions == [m \in Messages |-> IF m = newest THEN 0 ELSE 1]

Pending == Outcome("payment", "pending_review")
Auto == Outcome("payment", "approved")
Duplicate == Outcome("payment", "duplicate")
Historical == Outcome("historical", "pending_review")

\* A payment left for review; one approved at once, beside a duplicate; two left for
\* review, so that two reviewers meet on one row or on two, one of which may also be
\* recorded.
Mixed == {<<Pending>>, <<Auto, Duplicate>>, <<Historical, Pending>>}

Plain == {<<Pending>>, <<Auto>>}
OnePending == {<<Pending>>}

\* Workers differ only in what fairness says of the scheduler, and no run with this
\* symmetry states fairness.
Interchangeable == Permutations(Workers) \cup Permutations(Reviewers)

\* Nobody has changed the email while another was at it, and one request at most is
\* under way; messages have one payment to review.
Alone ==
  /\ contended = {}
  /\ \E r \in Reviewers : Free(r)
  /\ \A m \in Messages : rows[m] # <<>> => rows[m][1].kind # "historical"

\* A text and nothing else; the reviewers' requests overlap, on the same payment or
\* not, and go on where they changed the same one; one worker at a time.
Smallest ==
  /\ part = [m \in Messages |-> IF Pos[m] = 0 THEN "text" ELSE "empty"]
  /\ att = [e \in Emails |-> "none"]
  /\ \E w \in Workers : worker[w].phase = "idle"
  /\ contended # {} => crossed # {}

AloneOrSmallest == Alone \/ Smallest
=============================================================================

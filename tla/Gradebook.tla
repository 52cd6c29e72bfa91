------------------------------ MODULE Gradebook -----------------------------
(***************************************************************************)
(* What the requests of ManualGrading do to committed scores, without      *)
(* their statements and locks.  A request that needs more than the rows it *)
(* changes looks at committed rows, at the times the actions below name,   *)
(* and then writes all at once.  Between the two others may write:         *)
(*                                                                         *)
(*  - a grader who opened a page notices, and gives up;                    *)
(*  - a grading has the points of the rubric as it was when its items were *)
(*    read, and keeps the start and the items of the rubric as they were a *)
(*    moment later;                                                        *)
(*  - an upload that gives no manual points puts back the rubric grading   *)
(*    that it found at the submission;                                     *)
(*  - an edit of the rubric applies the items it found again, also over a  *)
(*    score that was given since, and leaves all other gradings alone.     *)
(*                                                                         *)
(* With all of them the points of an assessment instance are those of its  *)
(* questions.                                                              *)
(***************************************************************************)
EXTENDS Rubrics

CONSTANTS
  Requests,
  Questions, InstanceOf, Rubriced,  \* as in ManualGrading
  AQ,
  FirstRubric,
  Grades, Uploads, Forms, AutoPoints

VARIABLES
  row,    \* questions, assessment instances and the rubric of AQ
  seen,   \* what each request has seen of a question to score
  edit    \* what each edit of the rubric has found

vars == <<row, seen, edit>>

Nothing == [q |-> AQ, submission |-> 0, modified |-> 0, grading |-> NoGrading]
NoEdit  == [form |-> Null, found |-> <<>>]

Points(rows, a) ==
  SumFunctionOnSet([q \in Questions |-> rows[q].points], {q \in Questions : InstanceOf[q] = a})

\* The rows get these questions, with the points of their assessment instances, and rubric.
Become(rows, rubric) ==
  row' = [r \in DOMAIN row |-> IF r \in Questions THEN rows[r]
                               ELSE IF r = AQ THEN rubric
                               ELSE [points |-> Points(rows, r)]]

Change(q, question) == Become([row EXCEPT ![q] = question], row[AQ])

Init ==
  /\ row = [r \in Questions \cup {InstanceOf[q] : q \in Questions} \cup {AQ} |->
              IF r \in Questions THEN NewQuestion
              ELSE IF r = AQ THEN FirstRubric ELSE [points |-> 0]]
  /\ seen = [g \in Requests |-> Nothing]
  /\ edit = [g \in Requests |-> NoEdit]

-----------------------------------------------------------------------------
(* Scores of graders and of files. *)

See(g, view) ==
  /\ UNCHANGED <<row, edit>>
  /\ seen' = [seen EXCEPT ![g] = view]

\* A grader opens the page of a question; a file has no time of modification.
Open(g, q) ==
  /\ seen[g] = Nothing
  /\ \E modified \in {0, row[q].modified} :
       See(g, [q |-> q, submission |-> Len(row[q].grading), modified |-> modified,
               grading |-> NoGrading])

\* An upload finds the rubric grading of its submission.
Find(g) ==
  /\ seen[g] # Nothing /\ seen[g].modified = 0
  /\ See(g, [seen[g] EXCEPT !.grading = row[seen[g].q].grading[seen[g].submission]])

\* A grader's items are read,
Apply(g) ==
  /\ seen[g].modified # 0 /\ seen[g].grading = NoGrading
  /\ \E applied \in SUBSET Items :
       See(g, [seen[g] EXCEPT !.grading = RubricGrading(row[AQ], applied)])

\* and the rubric that the grading is going to keep.
Copy(g) ==
  /\ seen[g].modified # 0 /\ seen[g].grading # NoGrading
  /\ See(g, [seen[g] EXCEPT !.grading = [@ EXCEPT !.start = row[AQ].start, !.item = row[AQ].item]])

\* A request gives up, or its grader does.
Leave(g) ==
  /\ seen' = [seen EXCEPT ![g] = Nothing]
  /\ edit' = [edit EXCEPT ![g] = NoEdit]
  /\ row' = row

\* The submission that was seen gets the score, and the rubric grading: the one
\* with its items, the one it was seen with if points are not given, or none.
Give(g, score) ==
  LET q    == seen[g].q
      kept == q \in Rubriced /\ score.manual = Null /\ score.points = Null
  IN
  /\ seen' = [seen EXCEPT ![g] = Nothing]
  /\ edit' = edit
  /\ score.rubric => seen[g].grading # NoGrading /\ seen[g].grading.applied = score.applied
  /\ Change(q, Scored(row[q], score, seen[g].submission,
                      IF score.rubric \/ kept THEN seen[g].grading ELSE NoGrading))

\* A grader scores the last submission, which is the one they saw.
Grade(g) ==
  LET q == seen[g].q IN
  /\ seen[g].modified # 0
  /\ seen[g].modified = row[q].modified /\ seen[g].submission = Len(row[q].grading)
  /\ \E score \in Grades : (score.rubric <=> q \in Rubriced) /\ Give(g, score)

Upload(g) ==
  /\ seen[g] # Nothing /\ seen[g].modified = 0
  /\ \E score \in Uploads : Give(g, score)

-----------------------------------------------------------------------------
(* What needs nothing but the question. *)

AutoGrade(q) ==
  /\ UNCHANGED <<seen, edit>>
  /\ \E auto \in AutoPoints : Change(q, AutoGraded(row[q], auto))

Save(q) ==
  /\ UNCHANGED <<seen, edit>>
  /\ Change(q, Answered(row[q]))

Reassign(q, required) ==
  /\ UNCHANGED <<seen, edit>>
  /\ Change(q, [row[q] EXCEPT !.requiresManualGrading = required])

-----------------------------------------------------------------------------
(* Edits of the rubric. *)

\* The rubric is worth for the items of a grading what the grading keeps of it.
Stands(grading, rubric) ==
  grading.start + SumFunctionOnSet(grading.item, grading.applied) =
  rubric.start + SumFunctionOnSet(rubric.item, grading.applied \ rubric.deleted)

\* An edit looks at the last gradings when no other edit is under way.  It may
\* pass over those that stand.
Look(g) ==
  LET last == LastGradings(row, Rubriced) IN
  /\ UNCHANGED <<row, seen>>
  /\ \A h \in Requests : edit[h] = NoEdit
  /\ \E form \in Forms, S \in SUBSET DOMAIN last :
       /\ \A q \in DOMAIN last \ S :
            Stands(row[q].grading[last[q].submission], Revised(row[AQ], form))
       /\ edit' = [edit EXCEPT ![g] = [form |-> form, found |-> Restrict(last, S)]]

\* A question by the new rubric, if it was found.
Regraded(q, found, rubric) ==
  IF q \in DOMAIN found
    THEN Scored(row[q], ByItems(found[q].applied), found[q].submission,
                RubricGrading(rubric, found[q].applied))
    ELSE row[q]

\* The rubric is revised; what was found, and nothing else, is scored by it; and
\* all questions are tagged if the form asks for it.
Edit(g) ==
  LET form   == edit[g].form
      rubric == Revised(row[AQ], form)
  IN
  /\ form \in Forms
  /\ \A q \in Questions :
       row'[q] = IF form.tag /\ q \in Rubriced THEN Tagged(Regraded(q, edit[g].found, rubric))
                                               ELSE Regraded(q, edit[g].found, rubric)
  /\ Become(row', rubric)
  /\ edit' = [edit EXCEPT ![g] = NoEdit]
  /\ seen' = seen

Next ==
  \/ \E q \in Questions : \/ \E required \in BOOLEAN : Reassign(q, required)
                          \/ AutoGrade(q) \/ Save(q)
  \/ \E g \in Requests : \/ \E q \in Questions : Open(g, q)
                         \/ Find(g) \/ Apply(g) \/ Copy(g) \/ Leave(g) \/ Grade(g) \/ Upload(g)
                         \/ Look(g) \/ Edit(g)

Spec == Init /\ [][Next]_vars

=============================================================================

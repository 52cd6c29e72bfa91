---------------------------- MODULE ManualGrading ---------------------------
(***************************************************************************)
(* Manual grading (lib/manualGrading.ts): graders give points, or choose   *)
(* items of a rubric, for questions of assessment instances; the rubric is *)
(* edited meanwhile; scores are uploaded from files; students save         *)
(* submissions and the automatic grading of earlier ones arrives.          *)
(*                                                                         *)
(* All of them are transactions that lock rows in different orders: an     *)
(* update of a score locks the question before its assessment instance,    *)
(* automatic grading the instance before the question.  The model takes a  *)
(* step for every statement that locks a row or reads what others write.   *)
(*                                                                         *)
(* One assessment question has a rubric; the questions of Rubriced are its *)
(* instances.  A submission is its number, a rubric is never removed, its  *)
(* points are never negative, and min_points and max_extra_points are 0.   *)
(* The points of an assessment instance are the plain sum of those of its  *)
(* questions: its zones and max_points, which Grading has, are left out.   *)
(* The time a row was modified is a counter: it is only compared.          *)
(***************************************************************************)
EXTENDS RowLocks, Rubrics, TLC

CONSTANTS
  Questions,        \* instance questions
  InstanceOf,       \* the assessment instance of each
  Rubriced,         \* the instance questions of the assessment question with the rubric
  AQ,               \* that assessment question, with its rubric
  FirstRubric,      \* the rubric graders start with
  Grades,           \* what graders enter
  Uploads,          \* scores in uploaded files
  Forms,            \* rubric settings that are submitted and not refused
  AutoPoints,       \* what automatic grading may give
  MaxSubmissions    \* bound on the submissions to a question

Instances == {InstanceOf[q] : q \in Questions}

ASSUME ManualGradingAssumption ==
  /\ IsFiniteSet(Txns) /\ IsFiniteSet(Questions)
  /\ Rows = Questions \cup Instances \cup {AQ}
  /\ Questions \cap Instances = {}
  /\ Rubriced \subseteq Questions /\ AQ \notin Questions \cup Instances
  /\ MaxManual \in 0..MaxPoints
  /\ NoTxn \notin Txns

VARIABLE txn    \* what each transaction does

vars == <<rowVars, txn>>

ASSUME ScoresAssumption ==
  /\ IsFiniteSet(Items)
  /\ FirstRubric \in Rubric /\ Forms \subseteq Form
  /\ Grades \subseteq Score /\ Uploads \subseteq {score \in Score : ~score.rubric}
  /\ \A score \in Grades \cup Uploads : Accepted(score)

NewTxn ==
  [op |-> "none", pc |-> "idle", q |-> AQ, submission |-> 0, seen |-> 0, score |-> NoScore,
   conflict |-> FALSE, grading |-> NoGrading, points |-> 0,
   total |-> 0, form |-> Null, found |-> <<>>, todo |-> {}]

Init ==
  /\ RowsInit([r \in Rows |-> IF r \in Questions THEN NewQuestion
                               ELSE IF r = AQ THEN FirstRubric ELSE [points |-> 0]])
  /\ txn = [t \in Txns |-> NewTxn]

At(t, step)       == txn[t].pc = step
GoTo(t, step)     == txn' = [txn EXCEPT ![t].pc = step]
Become(t, fields) ==
  txn' = [txn EXCEPT ![t] =
           [x \in DOMAIN @ |-> IF x \in DOMAIN fields THEN fields[x] ELSE txn[t][x]]]

\* Where a transaction goes when it has updated the score of a question.
Updated(t) == IF txn[t].op = "edit" THEN "recompute" ELSE "commit"

QuestionsOf(a) == {q \in Questions : InstanceOf[q] = a}
Siblings(q)    == QuestionsOf(InstanceOf[q])

-----------------------------------------------------------------------------
(* Updating the score of a question: updateInstanceQuestionScore. *)

\* A grader opens the page of a question and sees its last submission,
Open(t, q) ==
  /\ At(t, "idle")
  /\ Become(t, [op |-> "page", pc |-> "opened", q |-> q,
                seen |-> row[q].modified, submission |-> Len(row[q].grading)])
  /\ UNCHANGED rowVars

\* and submits points, or items if there is a rubric (add_manual_grade).
Submit(t) ==
  /\ At(t, "opened")
  /\ \E score \in Grades :
       /\ score.rubric <=> txn[t].q \in Rubriced
       /\ Become(t, [pc |-> "select", score |-> score])
  /\ UNCHANGED rowVars

\* A file of scores is uploaded (updateInstanceQuestionFromJson): it names no
\* time of modification.
Upload(t, q) ==
  /\ At(t, "idle")
  /\ \E score \in Uploads :
       Become(t, [op |-> "upload", pc |-> "select", q |-> q, score |-> score,
                  submission |-> Len(row[q].grading)])
  /\ UNCHANGED rowVars

\* select_submission_for_score_update reads the submission before it waits for
\* the row of the question,
SelectSubmission(t) ==
  /\ At(t, "select")
  /\ Become(t, [pc |-> "lock", grading |-> Sees(t, txn[t].q).grading[txn[t].submission]])
  /\ UNCHANGED rowVars

\* Mutant: the question is read without its lock.
ReadQuestion(t) ==
  /\ At(t, "lock")
  /\ Become(t, [pc |-> IF txn[t].score.rubric THEN "items" ELSE "write",
                conflict |-> txn[t].seen \notin {0, Sees(t, txn[t].q).modified}])
  /\ UNCHANGED rowVars

\* and reads the question again when it has it.
LockQuestion(t) ==
  /\ At(t, "lock")
  /\ LockRow(t, txn[t].q)
  /\ Become(t, [pc |-> IF txn[t].score.rubric THEN "items" ELSE "write",
                conflict |-> txn[t].seen \notin {0, Sees(t, txn[t].q).modified}])

\* select_rubric_items
SelectItems(t) ==
  /\ At(t, "items")
  /\ Become(t, [pc |-> "grading", grading |-> RubricGrading(Sees(t, AQ), txn[t].score.applied)])
  /\ UNCHANGED rowVars

\* insert_rubric_grading reads the rubric once more, for what the grading keeps of it.
InsertGrading(t) ==
  /\ At(t, "grading")
  /\ LET rubric == Sees(t, AQ) IN
       Become(t, [pc |-> "write",
                  grading |-> [txn[t].grading EXCEPT !.start = rubric.start, !.item = rubric.item]])
  /\ UNCHANGED rowVars

\* The rubric grading a submission gets: the new one, or the one it has if
\* manual points are not given, or none.
GradingOf(t) ==
  LET score == txn[t].score IN
  IF score.rubric \/ (txn[t].q \in Rubriced /\ score.manual = Null /\ score.points = Null)
    THEN txn[t].grading
    ELSE NoGrading

\* update_submission_score and update_instance_question_score, unless the
\* question was modified since the grader saw it
WriteScore(t) ==
  /\ At(t, "write")
  /\ IF txn[t].conflict
       THEN GoTo(t, Updated(t)) /\ UNCHANGED rowVars
       ELSE /\ UpdateRow(t, txn[t].q,
                 Scored(Sees(t, txn[t].q), txn[t].score, txn[t].submission, GradingOf(t)))
            /\ GoTo(t, "total")

-----------------------------------------------------------------------------
(* The points of the assessment instance: assessment_instances_grade. *)

\* They are computed from the questions, without the limits of zones and of the
\* assessment,
Total(t) ==
  /\ At(t, "total")
  /\ Become(t, [pc |-> "questions",
                total |-> SumFunctionOnSet([r \in Questions |-> Sees(t, r).points],
                                           Siblings(txn[t].q))])
  /\ UNCHANGED rowVars

Unmarked(t) == {r \in Siblings(txn[t].q) : ~Holds(t, r)}

\* all questions are updated (used_for_grade),
MarkUsed(t) ==
  /\ At(t, "questions")
  /\ \E r \in Unmarked(t) : LockRow(t, r)
  /\ UNCHANGED txn

\* and then the instance.
UpdateInstance(t) ==
  /\ At(t, "questions") /\ Unmarked(t) = {}
  /\ UpdateRow(t, InstanceOf[txn[t].q], [points |-> txn[t].total])
  /\ GoTo(t, Updated(t))

-----------------------------------------------------------------------------
(* What students do. *)

\* Automatic grading of a submission ends (grading_jobs_update_after_grading),
Grade(t, q) ==
  /\ At(t, "idle")
  /\ Become(t, [op |-> "auto", pc |-> "instance", q |-> q])
  /\ UNCHANGED rowVars

\* or a student saves a submission (insertSubmission).
Save(t, q) ==
  /\ At(t, "idle") /\ Len(row[q].grading) < MaxSubmissions
  /\ Become(t, [op |-> "save", pc |-> "instance", q |-> q])
  /\ UNCHANGED rowVars

\* Mutant: grading does not lock the assessment instance.
LockNoInstance(t) ==
  /\ At(t, "instance")
  /\ UNCHANGED rowVars
  /\ GoTo(t, IF txn[t].op = "auto" THEN "grade" ELSE "insert")

\* Both lock the assessment instance first.
LockInstance(t) ==
  /\ At(t, "instance")
  /\ LockRow(t, InstanceOf[txn[t].q])
  /\ GoTo(t, IF txn[t].op = "auto" THEN "grade" ELSE "insert")

\* instance_questions_points: the new points, from what is read of the question,
ComputePoints(t) ==
  /\ At(t, "grade")
  /\ \E auto \in AutoPoints :
       Become(t, [pc |-> "store", score |-> [NoScore EXCEPT !.auto = auto],
                  points |-> auto + Sees(t, txn[t].q).manual])
  /\ UNCHANGED rowVars

\* are stored by instance_questions_grade.
StorePoints(t) ==
  /\ At(t, "store")
  /\ UpdateRow(t, txn[t].q, [Sees(t, txn[t].q) EXCEPT !.auto = txn[t].score.auto,
                                                      !.points = txn[t].points])
  /\ GoTo(t, "total")

\* update_instance_question_post_submission
InsertSubmission(t) ==
  /\ At(t, "insert")
  /\ UpdateRow(t, txn[t].q, Answered(Sees(t, txn[t].q)))
  /\ GoTo(t, "commit")

-----------------------------------------------------------------------------
(* Editing the rubric: updateAssessmentQuestionRubric. *)

Edit(t) ==
  /\ At(t, "idle")
  /\ \E form \in Forms : Become(t, [op |-> "edit", pc |-> "rubric", form |-> form])
  /\ UNCHANGED rowVars

\* The assessment question is locked and the rubric and its items are updated.
UpdateRubric(t) ==
  /\ At(t, "rubric")
  /\ UpdateRow(t, AQ, Revised(row[AQ], txn[t].form))
  /\ GoTo(t, "review")

\* select_instance_questions_to_update finds the gradings that change
Review(t) ==
  /\ At(t, "review")
  /\ LET last    == LastGradings(row, Rubriced)
         changed == {q \in DOMAIN last : Changed(row[q].grading[last[q].submission], Sees(t, AQ))}
     IN Become(t, [pc |-> "wait", found |-> Restrict(last, changed), todo |-> changed])
  /\ UNCHANGED rowVars

\* and waits for the rows of their questions, but keeps what it has found.
LockReviewed(t) ==
  /\ At(t, "wait")
  /\ \E q \in {r \in txn[t].todo : ~Holds(t, r)} : LockRow(t, q)
  /\ UNCHANGED txn

ReviewedLocked(t) ==
  /\ At(t, "wait") /\ \A q \in txn[t].todo : Holds(t, q)
  /\ GoTo(t, "recompute")
  /\ UNCHANGED rowVars

\* recomputeInstanceQuestions: the items of the gradings it found are applied again,
Recompute(t) ==
  /\ At(t, "recompute")
  /\ \E q \in txn[t].todo :
       Become(t, [pc |-> "select", q |-> q, submission |-> txn[t].found[q].submission,
                  score |-> ByItems(txn[t].found[q].applied),
                  todo |-> txn[t].todo \ {q}])
  /\ UNCHANGED rowVars

Recomputed(t) ==
  /\ At(t, "recompute") /\ txn[t].todo = {}
  /\ Become(t, IF txn[t].form.tag /\ Rubriced # {} THEN [pc |-> "tag", todo |-> Rubriced]
                                                    ELSE [pc |-> "commit"])
  /\ UNCHANGED rowVars

\* and tag_for_manual_grading updates all questions if the form asks for it.
Tag(t) ==
  /\ At(t, "tag")
  /\ \E q \in txn[t].todo :
       /\ UpdateRow(t, q, Tagged(Sees(t, q)))
       /\ Become(t, [pc |-> IF txn[t].todo = {q} THEN "commit" ELSE "tag",
                     todo |-> txn[t].todo \ {q}])

\* A grader tags a question as graded or to be graded (reassign).
Reassign(q, required) ==
  /\ lock[q] = NoTxn
  /\ row' = [row EXCEPT ![q].requiresManualGrading = required]
  /\ pending' = [pending EXCEPT ![q] = row'[q]]
  /\ lock' = lock
  /\ txn' = txn

-----------------------------------------------------------------------------
(* The ends of transactions. *)

End(t) == txn' = [txn EXCEPT ![t] = [NewTxn EXCEPT !.pc = "done"]]

CommitTxn(t) ==
  /\ At(t, "commit")
  /\ Commit(t)
  /\ End(t)

\* The rows a transaction asks for next
Wanted(t) ==
  CASE txn[t].pc \in {"lock", "write", "store", "insert"} -> {txn[t].q}
    [] txn[t].pc = "questions" -> IF Unmarked(t) # {} THEN Unmarked(t) ELSE {InstanceOf[txn[t].q]}
    [] txn[t].pc = "instance"  -> {InstanceOf[txn[t].q]}
    [] txn[t].pc = "rubric"    -> {AQ}
    [] txn[t].pc = "wait"      -> {q \in txn[t].todo : ~Holds(t, q)}
    [] txn[t].pc = "tag"       -> txn[t].todo
    [] OTHER                   -> {}

Victim(t) ==
  \E S \in SUBSET Txns : t \in S /\ Deadlock(S, [u \in Txns |-> Wanted(u)])

\* Mutant: the rollback is not sent.
AbortQuietly(t) ==
  /\ Victim(t)
  /\ End(t)
  /\ UNCHANGED rowVars

\* A statement fails as the victim of a deadlock: endTransactionAsync.
Abort(t) ==
  /\ Victim(t)
  /\ Rollback(t)
  /\ End(t)

Start(t) ==
  \/ \E q \in Questions : Open(t, q) \/ Upload(t, q) \/ Grade(t, q) \/ Save(t, q)
  \/ Submit(t) \/ Edit(t)

Step(t) ==
  \/ SelectSubmission(t) \/ LockQuestion(t) \/ SelectItems(t) \/ InsertGrading(t)
  \/ WriteScore(t) \/ Total(t) \/ MarkUsed(t) \/ UpdateInstance(t)
  \/ LockInstance(t) \/ ComputePoints(t) \/ StorePoints(t) \/ InsertSubmission(t)
  \/ UpdateRubric(t) \/ Review(t) \/ LockReviewed(t) \/ ReviewedLocked(t)
  \/ Recompute(t) \/ Recomputed(t) \/ Tag(t) \/ Abort(t)

Next ==
  \/ \E t \in Txns : Start(t) \/ Step(t) \/ CommitTxn(t)
  \/ \E q \in Questions, required \in BOOLEAN : Reassign(q, required)

Spec == Init /\ [][Next]_vars

-----------------------------------------------------------------------------
(* Properties. *)

\* What is committed adds up: the points of a question are its automatic and
\* its manual points, and the points of an assessment instance those of its
\* questions, whichever of grader, upload, rubric edit and automatic grading
\* come together.
PointsAddUp ==
  /\ \A q \in Questions : row[q].points = row[q].auto + row[q].manual
  /\ \A a \in Instances :
       row[a].points = SumFunctionOnSet([q \in Questions |-> row[q].points], QuestionsOf(a))

\* A grader replaces only what they have seen: since they opened the page no
\* submission was saved and nobody else changed the score (check_modified_at).
GraderSawLatest ==
  [][\A t \in Txns : txn[t].op = "page" =>
       \A q \in Questions : Holds(t, q) /\ row'[q].modified # row[q].modified =>
         row[q].modified = txn[t].seen]_vars

Active(t) == txn[t].pc \notin {"idle", "opened", "done"}

\* A transaction that need not wait can take its next step.
Ready(t) == Blockers(t, Wanted(t)) = {} /\ (At(t, "tag") => Wanted(t) # {})

\* Whatever rows requests wait for, one of them goes on: it waits for nobody, or
\* it is the victim of a deadlock and gives back what it holds.
SomeoneProceeds ==
  (\E t \in Txns : Active(t)) => \E t \in Txns : Active(t) /\ (Ready(t) \/ Victim(t))

\* What a request has seen of a question that it scores: a file names no time of
\* modification, and what a page read of the submission is not used.
SeenBy(t) ==
  CASE txn[t].op = "page" ->
         [q |-> txn[t].q, submission |-> txn[t].submission, modified |-> txn[t].seen,
          grading |-> IF txn[t].score.rubric /\ txn[t].pc \notin {"select", "lock", "items"}
                        THEN txn[t].grading ELSE NoGrading]
    [] txn[t].op = "upload" ->
         [q |-> txn[t].q, submission |-> txn[t].submission, modified |-> 0,
          grading |-> txn[t].grading]
    [] OTHER -> [q |-> AQ, submission |-> 0, modified |-> 0, grading |-> NoGrading]

\* What an edit has found.
FoundBy(t) ==
  IF txn[t].op = "edit" /\ txn[t].pc \notin {"rubric", "review"}
    THEN [form |-> txn[t].form, found |-> txn[t].found]
    ELSE [form |-> Null, found |-> <<>>]

AtOnce == INSTANCE Gradebook
  WITH Requests <- Txns, seen <- [t \in Txns |-> SeenBy(t)], edit <- [t \in Txns |-> FoundBy(t)]

\* However their statements interleave, a request looks at the tables where
\* Gradebook says and then writes all at once, or nothing: a grader the question
\* nobody modified since they opened it, an edit the gradings it found, whatever
\* was committed to them since, and no others.
ImplementsGradebook == AtOnce!Spec

\* An edit of the rubric that does not tag the questions leaves alone which of
\* them are to be graded (manualGrading.ts, "their grading status is retained").
StatusRetained ==
  [][\A t \in Txns : At(t, "commit") /\ txn[t].op = "edit" /\ At(t, "done")' /\ ~txn[t].form.tag =>
       \A q \in Questions : row'[q].requiresManualGrading = row[q].requiresManualGrading]_vars

=============================================================================

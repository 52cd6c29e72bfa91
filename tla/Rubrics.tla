------------------------------- MODULE Rubrics ------------------------------
(***************************************************************************)
(* What manual grading computes (lib/manualGrading.ts), without its        *)
(* transactions: the points of a rubric, the score of a question that a    *)
(* grader or a file gives, and when a change of the rubric changes it.     *)
(***************************************************************************)
EXTENDS Integers, Sequences, FiniteSetsExt, Functions

CONSTANTS
  Items,            \* rubric items
  MaxPoints,        \* max_points and max_manual_points of every question
  MaxManual,
  Null

Rubric  == [start: Nat, replace: BOOLEAN, item: [Items -> Nat], deleted: SUBSET Items]
Form    == [start: Nat, replace: BOOLEAN, item: [Items -> Nat \cup {Null}], tag: BOOLEAN]
Score   == [rubric: BOOLEAN, applied: SUBSET Items, manual: Int \cup {Null},
            points: Int \cup {Null}, auto: Nat \cup {Null}]

\* A score gives points of some kind, and total points only by themselves.
Accepted(score) ==
  /\ score.rubric \/ score.manual # Null \/ score.points # Null \/ score.auto # Null
  /\ score.points # Null => ~score.rubric /\ score.manual = Null /\ score.auto = Null

NoScore == [rubric |-> FALSE, applied |-> {}, manual |-> Null, points |-> Null, auto |-> Null]

\* A row of rubric_gradings with its items: the rubric as it was, whether it
\* was for all points and which items were deleted when points were computed.
\* A submission without one has NoGrading.
NoGrading == [applied |-> {}, points |-> Null]

\* A row of instance_questions, with the rubric grading of each submission.
NewQuestion ==
  [auto |-> 0, manual |-> 0, points |-> 0, modified |-> 1,
   requiresManualGrading |-> MaxManual > 0, grading |-> <<NoGrading>>]

-----------------------------------------------------------------------------

Clamp(points, limit) == IF points > limit THEN limit ELSE points

\* computed_points of insertRubricGrading
Computed(rubric, applied) ==
  Clamp(rubric.start + SumFunctionOnSet(rubric.item, applied \ rubric.deleted),
        IF rubric.replace THEN MaxPoints ELSE MaxManual)

RubricGrading(rubric, applied) ==
  [applied |-> applied, points |-> Computed(rubric, applied), replace |-> rubric.replace,
   skipped |-> rubric.deleted, start |-> rubric.start, item |-> rubric.item]

\* A score by items of a rubric
ByItems(applied) == [NoScore EXCEPT !.rubric = TRUE, !.applied = applied]

\* A question when submission i gets a rubric grading, or none, and the question
\* the points that a score asks for.
Scored(question, score, i, grading) ==
  LET auto   == IF score.auto = Null THEN question.auto ELSE score.auto
      manual == IF score.rubric THEN grading.points - (IF grading.replace THEN auto ELSE 0)
                ELSE IF score.manual # Null THEN score.manual
                ELSE IF score.points # Null THEN score.points - auto
                ELSE question.manual
  IN [question EXCEPT !.auto = auto, !.manual = manual, !.points = auto + manual,
                      !.modified = @ + 1, !.requiresManualGrading = FALSE, !.grading[i] = grading]

\* A question with the result of automatic grading
AutoGraded(question, auto) == [question EXCEPT !.auto = auto, !.points = auto + question.manual]

\* A question with one more submission
Answered(question) ==
  [question EXCEPT !.grading = Append(@, NoGrading), !.modified = @ + 1,
                   !.requiresManualGrading = @ \/ MaxManual > 0]

Tagged(question) == [question EXCEPT !.requiresManualGrading = TRUE]

-----------------------------------------------------------------------------

\* Items that the form leaves out are deleted; others are updated, deleted or not.
Revised(rubric, form) ==
  [start |-> form.start, replace |-> form.replace,
   item |-> [i \in Items |-> IF form.item[i] = Null THEN rubric.item[i] ELSE form.item[i]],
   deleted |-> {i \in Items : form.item[i] = Null}]

\* The submissions of a question with a rubric grading
Graded(question) == {i \in DOMAIN question.grading : question.grading[i] # NoGrading}

\* The submission and the items of the last grading of each of the questions that have one.
LastGradings(rows, questions) ==
  [q \in {r \in questions : Graded(rows[r]) # {}} |->
     LET last == Max(Graded(rows[q]))
     IN  [submission |-> last, applied |-> rows[q].grading[last].applied]]

\* rubric_settings_changed, rubric_items_changed
Changed(grading, rubric) ==
  \/ grading.start # rubric.start
  \/ \E i \in grading.applied : i \in rubric.deleted \/ rubric.item[i] # grading.item[i]

=============================================================================

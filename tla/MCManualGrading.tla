--------------------------- MODULE MCManualGrading --------------------------
(* An instance of ManualGrading for TLC: two questions of one assessment     *)
(* instance, one of them with a rubric of one item.                          *)
EXTENDS ManualGrading

CONSTANTS q1, q2, a1, i1, t1, t2, t3

OneInstance == [q \in {q1, q2} |-> a1]
AllRows     == {q1, q2, a1, AQ}

RubricOf(start, points, replace) ==
  [start |-> start, replace |-> replace, item |-> [i \in Items |-> points], deleted |-> {}]
FormOf(start, points, replace, tag) ==
  [start |-> start, replace |-> replace, item |-> [i \in Items |-> points], tag |-> tag]

StartRubric == RubricOf(0, 2, FALSE)

\* The item is worth less, or more than there is to have and for all points; or it is deleted.
TheForms == {FormOf(0, 1, FALSE, FALSE), FormOf(1, 4, TRUE, TRUE), FormOf(0, Null, FALSE, FALSE)}

\* Graders apply the item, or give manual points.
TheGrades == {[NoScore EXCEPT !.rubric = TRUE, !.applied = {i1}], [NoScore EXCEPT !.manual = 1]}

\* Files give total points or automatic points.
TheUploads == {[NoScore EXCEPT !.points = 3], [NoScore EXCEPT !.auto = 1]}

TxnSymmetry == Permutations(Txns)
=============================================================================

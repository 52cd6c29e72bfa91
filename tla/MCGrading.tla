----------------------------- MODULE MCGrading ------------------------------
(* Instances of Grading for TLC: the assessment questions and grader results. *)
EXTENDS Grading, TLC

CONSTANTS w1, w2, cron

ExamQuestion(list, manual, method) ==
  [type |-> "Exam", method |-> method, list |-> list, maxManual |-> manual,
   maxAuto |-> list[1] - manual, init |-> list[1], maxPoints |-> list[1],
   constantValue |-> TRUE, triesPerVariant |-> 1, singleVariant |-> TRUE]

HomeworkQuestion(init, max, tries, method) ==
  [type |-> "Homework", method |-> method, list |-> <<>>, maxManual |-> 0,
   maxAuto |-> max, init |-> init, maxPoints |-> max,
   constantValue |-> FALSE, triesPerVariant |-> tries, singleVariant |-> FALSE]

OneExamQuestion     == [q \in {1} |-> ExamQuestion(<<4, 2>>, 0, "Internal")]

\* One homework question, graded externally, on one variant.
OneExternalQuestion == [q \in {1} |->
  [HomeworkQuestion(2, 4, 2, "External") EXCEPT !.singleVariant = TRUE]]

\* One zone: three points of it count.
CappedZone == {[questions |-> {1}, best |-> Null, max |-> 3]}

Raw(jobOk, ok, gradable, number, score) ==
  [jobSucceeded |-> jobOk, succeeded |-> ok, gradable |-> gradable, number |-> number, score |-> score]

\* Graders answer with a full score; an upload that fails has its own result.
OneResult == {Raw(TRUE, TRUE, TRUE, TRUE, ScoreUnit)}
NoResults == {}

\* Handlers are interchangeable in the runs that check no liveness.
HandlerSymmetry == Permutations(Workers)
=============================================================================

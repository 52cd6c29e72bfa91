-------------------------- MODULE DocumentedPoints --------------------------
(***************************************************************************)
(* What a sequence of scores is worth by the documentation, read off the   *)
(* whole sequence instead of accumulated grading by grading.               *)
(*                                                                         *)
(* q is an assessment question and s the scores its instance question was  *)
(* graded with, in order.  Amounts are kept multiplied by ScoreUnit.       *)
(***************************************************************************)
EXTENDS QuestionPoints, FiniteSetsExt

\* The best of the scores i..j; 0 when there is none.
Best(s, i, j) == Max({s[k] : k \in i..j} \cup {0})

\* The last correct score up to i, and the last one that was not; 0 for none.
LastCorrect(s, i) == Max({k \in 1..i : Correct(s[k])} \cup {0})
LastMissed(s, i)  == Max({k \in 1..i : ~Correct(s[k])} \cup {0})

\* An attempt at an exam question earns the points of its place in the list for
\* what it improves on the best attempt before it.
ExamGain(q, s, i) == (q.list[i] - q.maxManual) * (Best(s, 1, i) - Best(s, 1, i - 1))

ExamTotal(q, s) == SumFunctionOnSet([i \in 1..Len(s) |-> ExamGain(q, s, i)], 1..Len(s))

(***************************************************************************)
(* docs/assessment.md: each correct answer adds its value, which grows by  *)
(* autoPoints with every consecutive correct answer unless the value of    *)
(* the question is constant; partial credit does not accumulate and only   *)
(* counts until it is made up; all of it up to maxAutoPoints.              *)
(***************************************************************************)
AutoPoints(q) == q.init - q.maxManual

AnswerValue(q, s, i) ==
  IF ~Correct(s[i]) THEN 0
  ELSE IF q.constantValue THEN AutoPoints(q)
  ELSE MinOf(AutoPoints(q) * (i - LastMissed(s, i)), q.maxAuto)

PartialCredit(q, s) == AutoPoints(q) * Best(s, LastCorrect(s, Len(s)) + 1, Len(s))

HomeworkTotal(q, s) ==
  MinOf(ScoreUnit * SumFunctionOnSet([i \in 1..Len(s) |-> AnswerValue(q, s, i)], 1..Len(s))
          + PartialCredit(q, s),
        ScoreUnit * q.maxAuto)

\* The documentation says nothing of manual points together with a growing value.
Documented == {q \in AssessmentQuestion : q.type = "Homework" => q.maxManual = 0 \/ q.constantValue}
=============================================================================

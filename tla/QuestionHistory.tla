--------------------------- MODULE QuestionHistory ---------------------------
(***************************************************************************)
(* One instance question graded again and again, to compare the points     *)
(* rules of the sprocs with what the documentation says a sequence of      *)
(* scores is worth.                                                        *)
(***************************************************************************)
EXTENDS DocumentedPoints

CONSTANTS Configs,      \* assessment questions to try
          MaxAttempts   \* bound: length of the sequences of scores

ASSUME ConfigsAssumption == Configs \subseteq Documented

VARIABLES question,  \* the assessment question
          row,       \* its instance question
          scores     \* history: the scores graded so far
history == <<question, row, scores>>

HistoryInit == /\ question \in Configs
               /\ row = NewInstanceQuestion(question)
               /\ scores = <<>>

GradeNext(score) ==
  /\ row.open /\ Len(scores) < MaxAttempts
  /\ row' = GradedQuestion(question, row, score)
  /\ scores' = Append(scores, score)
  /\ UNCHANGED question

HistoryNext == \E score \in Scores : GradeNext(score)

HistorySpec == HistoryInit /\ [][HistoryNext]_history

-----------------------------------------------------------------------------
\* The points of an exam question are what its attempts improved on each other,
\* so they never depend on how the code accumulates them.
ExamWorth == question.type = "Exam" => row.auto = ExamTotal(question, scores)

\* The points list an open exam question shows promises exactly what a correct
\* answer adds: its head, without the manual points, is the gain of the next grading.
AdvertisedIsEarned == (question.type = "Exam" /\ row.open) =>
  ExamPoints(question, row, ScoreUnit).auto - row.auto
    = ListHead(question, row) - question.maxManual * ScoreUnit

\* The value that is raised, capped and reset from variant to variant adds up to
\* the documented points.
HomeworkWorth == question.type = "Homework" => row.auto = HomeworkTotal(question, scores)
=============================================================================

--------------------------- MODULE QuestionPoints ---------------------------
(***************************************************************************)
(* The points rules of an instance question, from the sprocs               *)
(* instance_questions_points_exam / _homework / instance_questions_points. *)
(*                                                                         *)
(* A submission score lies in 0 .. 1.0 in the code; here it is an integer  *)
(* in 0 .. ScoreUnit, and every amount of points the sprocs multiply by a  *)
(* score is kept multiplied by ScoreUnit, so all of the arithmetic stays   *)
(* exact.  The points of the configuration (an assessment_questions row)   *)
(* are whole points.                                                       *)
(***************************************************************************)
EXTENDS Integers, Sequences

CONSTANT ScoreUnit      \* the integer that stands for a score of 1.0

ASSUME ScoreUnitAssumption == ScoreUnit \in Nat \ {0}

\* SQL NULL, for identifiers and for numbers (none of which is negative).
Null == -1

Scores == 0..ScoreUnit

MaxOf(a, b) == IF a >= b THEN a ELSE b
MinOf(a, b) == IF a <= b THEN a ELSE b

Statuses == {"unanswered", "saved", "invalid", "incorrect", "correct", "complete"}

(***************************************************************************)
(* An assessment_questions row, with the columns of questions and          *)
(* assessments the grading sprocs join to it.  For an exam, init is the    *)
(* head of the points list, as the sync writes it.  The sync only accepts  *)
(* a non-increasing list of points.                                        *)
(***************************************************************************)
AssessmentQuestion ==
  {aq \in [type: {"Exam", "Homework"}, method: {"Internal", "External"},
           list: Seq(Nat), maxManual: Nat, maxAuto: Nat, init: Nat, maxPoints: Nat,
           constantValue: BOOLEAN, triesPerVariant: Nat, singleVariant: BOOLEAN] :
     /\ aq.maxManual <= aq.init
     /\ aq.maxPoints = aq.maxManual + aq.maxAuto
     /\ aq.type = "Exam" =>
          /\ Len(aq.list) > 0
          /\ aq.init = aq.list[1]
          /\ aq.maxAuto = aq.list[1] - aq.maxManual
          /\ \A i \in 1..Len(aq.list) : aq.maxManual <= aq.list[i]
          /\ \A i \in 2..Len(aq.list) : aq.list[i] <= aq.list[i - 1]}

(***************************************************************************)
(* The columns of an instance_questions row the points rules use.  Of      *)
(* points_list only its length is state: its elements follow from the      *)
(* original list, the attempts and the highest score (ListHead).  Of       *)
(* variants_points_list only its sum and its last element are ever read.   *)
(***************************************************************************)
InstanceQuestion ==
  [open: BOOLEAN, status: Statuses, auto: Int, highest: Scores, value: Int,
   left: Nat, varSum: Int, varLast: Int, attempts: Nat]

NewInstanceQuestion(aq) ==
  [open |-> TRUE, status |-> "unanswered", auto |-> 0, highest |-> 0,
   value |-> aq.init * ScoreUnit, left |-> Len(aq.list),
   varSum |-> 0, varLast |-> Null, attempts |-> 0]

Correct(score) == score >= ScoreUnit

\* Mutant: the list is not rescaled by the best submission.
UnscaledHead(aq, iq) == aq.list[iq.attempts + 1] * ScoreUnit

(***************************************************************************)
(* points_list[1]: the points of the next attempt, rescaled by what the    *)
(* best submission so far leaves to be gained.                             *)
(***************************************************************************)
ListHead(aq, iq) ==
  (aq.list[iq.attempts + 1] - aq.maxManual) * (ScoreUnit - iq.highest)
    + aq.maxManual * ScoreUnit

\* Mutant: a worse submission takes points away.
PointsLost(aq, iq, score) ==
  iq.auto + (aq.list[iq.attempts + 1] - aq.maxManual) * (score - iq.highest)

ExamAutoPoints(aq, iq, score) ==
  LET worth == aq.list[iq.attempts + 1] - aq.maxManual
  IN  IF Correct(score) /\ worth = aq.maxAuto
        THEN aq.maxAuto * ScoreUnit
        ELSE iq.auto + worth * MaxOf(0, score - iq.highest)

\* The question takes no further submissions.
ExamDone(aq, iq, score) == (Correct(score) /\ aq.maxManual = 0) \/ iq.left <= 1

ExamPoints(aq, iq, score) ==
  LET done == ExamDone(aq, iq, score)
  IN  [iq EXCEPT
        !.open    = ~done,
        !.status  = IF done THEN "complete"
                    ELSE IF Correct(score) THEN "correct" ELSE "incorrect",
        !.auto    = ExamAutoPoints(aq, iq, score),
        !.highest = MaxOf(score, iq.highest),
        !.value   = IF done THEN Null ELSE ListHead(aq, iq),
        !.left    = IF done THEN 0 ELSE Len(aq.list) - (iq.attempts + 1)]

\* Mutant: a partial score does not set the value of the question back.
NeverReset(aq, iq, score) ==
  LET sum == iq.varSum + score * ((iq.value \div ScoreUnit) - aq.maxManual)
  IN  [iq EXCEPT !.auto = MinOf(sum, aq.maxAuto * ScoreUnit), !.varSum = sum,
                 !.value = IF Correct(score) /\ ~aq.constantValue
                             THEN MinOf(@ + aq.init * ScoreUnit, aq.maxPoints * ScoreUnit)
                             ELSE @]

(***************************************************************************)
(* Homework: each variant earns the value the question had when it was     *)
(* answered, and a run of correct answers raises that value.               *)
(***************************************************************************)
HomeworkPoints(aq, iq, score) ==
  LET base   == IF Correct(score) THEN iq.value ELSE aq.init * ScoreUnit
      earned == score * ((base \div ScoreUnit) - aq.maxManual)
      replay == iq.varLast # Null /\ iq.varLast < (aq.init - aq.maxManual) * ScoreUnit
      last   == IF replay THEN MaxOf(iq.varLast, earned) ELSE earned
      sum    == iq.varSum + last - (IF replay THEN iq.varLast ELSE 0)
      auto   == MinOf(sum, aq.maxAuto * ScoreUnit)
  IN  [iq EXCEPT
        !.open    = TRUE,
        !.status  = IF auto >= aq.maxAuto * ScoreUnit /\ aq.maxManual = 0 THEN "complete"
                    ELSE IF Correct(score) /\ iq.status # "complete" THEN "correct"
                    ELSE IF iq.status \in {"unanswered", "saved"} THEN "incorrect"
                    ELSE iq.status,
        !.auto    = auto,
        !.highest = MaxOf(score, iq.highest),
        !.value   = IF Correct(score) /\ ~aq.constantValue
                      THEN MinOf(iq.value + aq.init * ScoreUnit, aq.maxPoints * ScoreUnit)
                      ELSE base,
        !.varSum  = sum,
        !.varLast = last]

\* instance_questions_points, with the attempt instance_questions_grade counts.
GradedQuestion(aq, iq, score) ==
  LET scored == IF aq.type = "Exam" THEN ExamPoints(aq, iq, score)
                                    ELSE HomeworkPoints(aq, iq, score)
  IN  [scored EXCEPT !.attempts = iq.attempts + 1]
=============================================================================

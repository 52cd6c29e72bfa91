---------------------------- MODULE GradingProofs ----------------------------
(***************************************************************************)
(* Proofs about Grading, for every assessment, any number of handlers and  *)
(* rows.  The inductive invariant adds to the type invariant that rows and *)
(* handlers only refer to rows that exist, and that an open exam question  *)
(* has attempts left: without it the points lists would be read out of     *)
(* their bounds and nothing could be said of the points.                   *)
(*                                                                         *)
(* The parts build on each other: types and references; the grading jobs   *)
(* (one waits at a time, marks are backed, decided jobs are final); the    *)
(* order in which submissions are graded; points; attempts; finished exams; *)
(* the service that requests, jobs and queues give together; and the points *)
(* rules by themselves, against what the documentation promises.           *)
(***************************************************************************)
EXTENDS Grading, QuestionHistory, SumTheorems, WellFoundedInduction, TLAPS

AttemptsLeft(aq, r) ==
  aq.type = "Exam" /\ r.open => r.left = Len(aq.list) - r.attempts /\ r.left >= 1

\* Counting an attempt only changes the attempts.
LEMMA AttemptRow ==
  ASSUME NEW r \in InstanceQuestion, NEW n \in Nat
  PROVE  LET p == [r EXCEPT !.attempts = n]
         IN  p \in InstanceQuestion /\ p.attempts = n /\ p.open = r.open /\ p.left = r.left
  BY DEF InstanceQuestion

\* An exam question's next entry in the points list exists while it is open, so
\* its points are numbers; and grading it keeps the attempts and the list in step.
LEMMA ExamTypes ==
  ASSUME NEW aq \in AssessmentQuestion, NEW r \in InstanceQuestion, NEW score \in Scores,
         aq.type = "Exam", r.open, AttemptsLeft(aq, r)
  PROVE  /\ ExamPoints(aq, r, score) \in InstanceQuestion
         /\ ExamPoints(aq, r, score).attempts = r.attempts
         /\ ExamPoints(aq, r, score).open =>
              /\ ExamPoints(aq, r, score).left = Len(aq.list) - (r.attempts + 1)
              /\ ExamPoints(aq, r, score).left >= 1
<1> DEFINE worth == aq.list[r.attempts + 1] - aq.maxManual
<1>1. /\ aq.list \in Seq(Nat) /\ aq.maxManual \in Nat /\ aq.maxAuto \in Nat
      /\ r.attempts \in Nat /\ r.auto \in Int /\ r.highest \in Scores
  BY DEF AssessmentQuestion, InstanceQuestion
<1>2. ScoreUnit \in Nat /\ Scores \subseteq Int /\ score \in Int /\ r.highest \in Int
  BY <1>1, ScoreUnitAssumption DEF Scores
<1>3. r.attempts + 1 \in 1..Len(aq.list)
  BY <1>1, SMTT(30) DEF AttemptsLeft
<1>4. worth \in Int
  BY <1>1, <1>3, SMTT(30)
<1>5. MaxOf(score, r.highest) \in Scores /\ MaxOf(0, score - r.highest) \in Int
  BY <1>1, <1>2 DEF MaxOf
<1>6. worth * MaxOf(0, score - r.highest) \in Int /\ aq.maxAuto * ScoreUnit \in Int
  BY <1>1, <1>2, <1>4, <1>5
<1>7. ExamAutoPoints(aq, r, score) \in Int
  BY <1>1, <1>6 DEF ExamAutoPoints
<1>8. worth * (ScoreUnit - r.highest) \in Int /\ aq.maxManual * ScoreUnit \in Int
  BY <1>1, <1>2, <1>4
<1>9. ListHead(aq, r) \in Int
  BY <1>8 DEF ListHead
<1>10. ~ExamDone(aq, r, score) => Len(aq.list) - (r.attempts + 1) >= 1
  BY <1>1 DEF ExamDone, AttemptsLeft, InstanceQuestion
<1>11. ExamDone(aq, r, score) \in BOOLEAN
  BY DEF ExamDone
<1> DEFINE done   == ExamDone(aq, r, score)
           open   == ~done
           status == IF done THEN "complete" ELSE IF Correct(score) THEN "correct" ELSE "incorrect"
           value  == IF done THEN Null ELSE ListHead(aq, r)
           left   == IF done THEN 0 ELSE Len(aq.list) - (r.attempts + 1)
<1>12. status \in Statuses
  BY DEF Statuses
<1>13. value \in Int
  BY <1>9 DEF Null
<1>14. left \in Nat
  BY <1>1, <1>10
<1>15. ExamPoints(aq, r, score) =
         [r EXCEPT !.open = open, !.status = status, !.auto = ExamAutoPoints(aq, r, score),
                   !.highest = MaxOf(score, r.highest), !.value = value, !.left = left]
  BY DEF ExamPoints
<1> HIDE DEF status, value
<1>16. /\ ExamPoints(aq, r, score) \in InstanceQuestion
       /\ ExamPoints(aq, r, score).attempts = r.attempts
       /\ ExamPoints(aq, r, score).open = open
       /\ ExamPoints(aq, r, score).left = left
  <2>1. open \in BOOLEAN
    OBVIOUS
  <2> HIDE DEF open, done, left
  <2>2. QED
    BY <2>1, <1>5, <1>7, <1>12, <1>13, <1>14, <1>15, ZenonT(60) DEF InstanceQuestion
<1>17. QED
  BY <1>10, <1>16

\* A homework question's points are numbers, whatever was graded before.
LEMMA HomeworkTypes ==
  ASSUME NEW aq \in AssessmentQuestion, NEW r \in InstanceQuestion, NEW score \in Scores
  PROVE  /\ HomeworkPoints(aq, r, score) \in InstanceQuestion
         /\ HomeworkPoints(aq, r, score).attempts = r.attempts
<1> DEFINE base   == IF Correct(score) THEN r.value ELSE aq.init * ScoreUnit
           earned == score * ((base \div ScoreUnit) - aq.maxManual)
           replay == r.varLast # Null /\ r.varLast < (aq.init - aq.maxManual) * ScoreUnit
           last   == IF replay THEN MaxOf(r.varLast, earned) ELSE earned
           sum    == r.varSum + last - (IF replay THEN r.varLast ELSE 0)
           auto   == MinOf(sum, aq.maxAuto * ScoreUnit)
<1>1. /\ aq.maxManual \in Nat /\ aq.maxAuto \in Nat /\ aq.init \in Nat /\ aq.maxPoints \in Nat
      /\ r.value \in Int /\ r.varSum \in Int /\ r.varLast \in Int /\ r.highest \in Scores
  BY DEF AssessmentQuestion, InstanceQuestion
<1>2. ScoreUnit \in Nat \ {0} /\ score \in Int /\ r.highest \in Int
  BY <1>1, ScoreUnitAssumption DEF Scores
<1>3. /\ aq.init * ScoreUnit \in Int /\ aq.maxAuto * ScoreUnit \in Int
      /\ aq.maxPoints * ScoreUnit \in Int
  BY <1>1, <1>2
<1>4. base \in Int
  BY <1>1, <1>3
<1>5. base \div ScoreUnit \in Int
  BY <1>2, <1>4
<1>6. earned \in Int
  <2>1. (base \div ScoreUnit) - aq.maxManual \in Int
    BY <1>1, <1>5
  <2> HIDE DEF base
  <2>2. QED
    BY <1>2, <2>1
<1>7. last \in Int
  <2> HIDE DEF earned
  <2>1. QED
    BY <1>1, <1>6 DEF MaxOf
<1>8. sum \in Int
  <2> HIDE DEF last
  <2>1. QED
    BY <1>1, <1>7
<1>9. auto \in Int
  <2> HIDE DEF sum
  <2>1. QED
    BY <1>3, <1>8 DEF MinOf
<1>10. MaxOf(score, r.highest) \in Scores
  BY <1>1, <1>2 DEF MaxOf
<1>11. MinOf(r.value + aq.init * ScoreUnit, aq.maxPoints * ScoreUnit) \in Int
  BY <1>1, <1>3 DEF MinOf
<1> DEFINE status == IF auto >= aq.maxAuto * ScoreUnit /\ aq.maxManual = 0 THEN "complete"
                     ELSE IF Correct(score) /\ r.status # "complete" THEN "correct"
                     ELSE IF r.status \in {"unanswered", "saved"} THEN "incorrect"
                     ELSE r.status
           value  == IF Correct(score) /\ ~aq.constantValue
                       THEN MinOf(r.value + aq.init * ScoreUnit, aq.maxPoints * ScoreUnit)
                       ELSE base
<1>12. HomeworkPoints(aq, r, score) =
         [r EXCEPT !.open = TRUE, !.status = status, !.auto = auto,
                   !.highest = MaxOf(score, r.highest), !.value = value,
                   !.varSum = sum, !.varLast = last]
  BY DEF HomeworkPoints
<1> HIDE DEF base, earned, replay, last, sum, auto
<1>13. status \in Statuses
  BY DEF InstanceQuestion, Statuses
<1>14. value \in Int
  BY <1>4, <1>11
<1> HIDE DEF status, value
<1>15. QED
  BY <1>7, <1>8, <1>9, <1>10, <1>12, <1>13, <1>14, ZenonT(60) DEF InstanceQuestion

\* A new instance question has the whole points list before it.
LEMMA NewQuestionTypes ==
  ASSUME NEW aq \in AssessmentQuestion
  PROVE  NewInstanceQuestion(aq) \in InstanceQuestion /\ AttemptsLeft(aq, NewInstanceQuestion(aq))
BY ScoreUnitAssumption DEF NewInstanceQuestion, InstanceQuestion, AttemptsLeft, AssessmentQuestion,
   Statuses, Scores, Null

\* Grading an open question gives an instance_questions row again, with attempts
\* left if it stays open.
LEMMA GradedTypes ==
  ASSUME NEW aq \in AssessmentQuestion, NEW r \in InstanceQuestion, NEW score \in Scores,
         r.open, AttemptsLeft(aq, r)
  PROVE  GradedQuestion(aq, r, score) \in InstanceQuestion /\ AttemptsLeft(aq, GradedQuestion(aq, r, score))
<1>1. CASE aq.type = "Exam"
  <2> DEFINE p == ExamPoints(aq, r, score)
  <2>1. GradedQuestion(aq, r, score) = [p EXCEPT !.attempts = r.attempts + 1]
    BY <1>1 DEF GradedQuestion
  <2>2. r.attempts \in Nat
    BY DEF InstanceQuestion
  <2>3. /\ p \in InstanceQuestion /\ p.attempts = r.attempts
        /\ p.open => p.left = Len(aq.list) - (r.attempts + 1) /\ p.left >= 1
    BY <1>1, ExamTypes
  <2> HIDE DEF p
  <2>4. QED
    BY <1>1, <2>1, <2>2, <2>3, AttemptRow, SMTT(30) DEF AttemptsLeft
<1>2. CASE aq.type # "Exam"
  <2> DEFINE p == HomeworkPoints(aq, r, score)
  <2>1. GradedQuestion(aq, r, score) = [p EXCEPT !.attempts = r.attempts + 1]
    BY <1>2 DEF GradedQuestion
  <2>2. r.attempts \in Nat
    BY DEF InstanceQuestion
  <2>3. p \in InstanceQuestion
    BY HomeworkTypes
  <2> HIDE DEF p
  <2>4. QED
    BY <1>2, <2>1, <2>2, <2>3, AttemptRow DEF AttemptsLeft
<1>3. QED
  BY <1>1, <1>2

-----------------------------------------------------------------------------
(* The inductive invariant. *)

\* The rows a handler keeps in its local variables exist; the submission it is
\* about to grade is one of the variant it selected.
HandlerReferences(me) ==
  /\ me.todo \subseteq MadeVariants
  /\ me.pc \in {"select", "rate", "insert", "grade", "begin"} => me.v \in MadeVariants
  /\ me.pc \in {"rate", "insert"} => me.sub \in SubmissionsOf(me.v)
  /\ me.pc \in {"grade", "begin"} => me.job \in Inserted

\* Foreign keys, and the jobs the graders and the results queue know.
References ==
  /\ \A s \in Saved : sub[s].variant \in MadeVariants
  /\ \A j \in Inserted : job[j].sub \in Saved
  /\ atGrader \subseteq Inserted
  /\ \A m \in results : m.job \in Inserted
  /\ \A w \in Processes : HandlerReferences(worker[w])

AllAttemptsLeft == \A q \in Questions : AttemptsLeft(AQ[q], iq[q])

IInv == TypeOK /\ References /\ AllAttemptsLeft

\* What the type invariant and the assumptions say of the questions.
LEMMA QuestionTypes ==
  ASSUME TypeOK
  PROVE  \A q \in Questions : AQ[q] \in AssessmentQuestion /\ iq[q] \in InstanceQuestion /\ q \in Nat
  BY GradingAssumption DEF TypeOK

\* Every nonempty set of natural numbers has a smallest element.
LEMMA SmallestNat ==
  ASSUME NEW T, T \subseteq Nat, T # {}
  PROVE  \E x \in T : \A y \in T : x <= y
<1> DEFINE R == {ss \in Nat \X Nat : ss[1] < ss[2]}
<1>1. IsWellFoundedOn(R, Nat)
  BY NatLessThanWellFounded DEF OpToRel
<1>2. PICK x \in T : \A y \in T : <<y, x>> \notin R
  <2> HIDE DEF R
  <2>1. QED
    BY <1>1, WFMin
<1>3. \A y \in T : ~(y < x)
  BY <1>2
<1>4. QED
  BY <1>3

\* The loop of gradeAssessmentInstance goes on with a variant it selected.
LEMMA NextVariantTypes ==
  ASSUME TypeOK, NEW me \in Worker, me.todo \subseteq MadeVariants
  PROVE  NextVariant(me) \in Worker /\ HandlerReferences(NextVariant(me))
<1>1. CASE me.todo = {}
  BY <1>1 DEF NextVariant, Worker, WorkerStates, HandlerReferences, Null
<1>2. CASE me.todo # {}
  <2> DEFINE Smallest(u) == \A x \in me.todo : variant[u].question <= variant[x].question
             v == CHOOSE u \in me.todo : Smallest(u)
             T == {variant[x].question : x \in me.todo}
  <2>1. \A x \in me.todo : x \in Variants /\ variant[x].question \in Questions
    BY DEF MadeVariants, TypeOK, Variant
  <2>2. T \in SUBSET Nat /\ T # {}
    BY <1>2, <2>1, GradingAssumption
  <2>3. \E u \in me.todo : Smallest(u)
    <3>1. PICK y \in T : \A z \in T : y <= z
      BY <2>2, SmallestNat
    <3>2. PICK u \in me.todo : y = variant[u].question
      BY <3>1
    <3>3. QED
      BY <3>1, <3>2
  <2>4. v \in me.todo
    BY <2>3
  <2>5. NextVariant(me) = [me EXCEPT !.pc = "select", !.v = v, !.sub = Null, !.job = Null,
                                     !.todo = me.todo \ {v}]
    BY <1>2 DEF NextVariant
  <2> HIDE DEF v
  <2>6. QED
    BY <2>1, <2>4, <2>5, ZenonT(60) DEF Worker, WorkerStates, HandlerReferences, MadeVariants
<1>3. QED
  BY <1>1, <1>2

-----------------------------------------------------------------------------
(* What the transactions do to the rows. *)

RowTypes ==
  /\ ai \in AssessmentInstance /\ DOMAIN grade = {"points", "score"}
  /\ iq \in [Questions -> InstanceQuestion]
  /\ variant \in [Variants -> Variant]
  /\ sub \in [Submissions -> Submission]
  /\ job \in [Jobs -> Job]
  /\ issues \in Nat

\* No transaction deletes a row or gives it another parent.
RowsKept ==
  /\ \A v \in MadeVariants : variant'[v].question = variant[v].question
  /\ \A s \in Saved : sub'[s].variant = sub[s].variant
  /\ \A j \in Inserted : job'[j].sub = job[j].sub

\* What a handler holds stays there.
LEMMA KeptReferences ==
  ASSUME RowsKept, NEW me, HandlerReferences(me)
  PROVE  HandlerReferences(me)'
<1>1. MadeVariants \subseteq MadeVariants' /\ Saved \subseteq Saved' /\ Inserted \subseteq Inserted'
  BY DEF RowsKept, MadeVariants, Saved, Inserted
<1>2. \A v \in MadeVariants : SubmissionsOf(v) \subseteq SubmissionsOf(v)'
  BY <1>1 DEF SubmissionsOf, RowsKept
<1>3. QED
  BY <1>1, <1>2 DEF HandlerReferences

\* References survives a step that keeps the rows, if what is new refers to rows
\* that exist and only one handler moves.
LEMMA ReferencesStep ==
  ASSUME TypeOK, TypeOK', References, RowsKept,
         \A s \in Saved' \ Saved : sub'[s].variant \in MadeVariants',
         \A j \in Inserted' \ Inserted : job'[j].sub \in Saved',
         atGrader' \subseteq Inserted',
         \A m \in results' : m.job \in Inserted',
         NEW w \in Processes,
         \A u \in Processes : u # w => worker'[u] = worker[u],
         HandlerReferences(worker[w])'
  PROVE  References'
<1>1. MadeVariants \subseteq MadeVariants' /\ Saved \subseteq Saved' /\ Inserted \subseteq Inserted'
  BY DEF RowsKept, MadeVariants, Saved, Inserted
<1>2. \A s \in Saved' : sub'[s].variant \in MadeVariants'
  BY <1>1 DEF RowsKept, References
<1>3. \A j \in Inserted' : job'[j].sub \in Saved'
  BY <1>1 DEF RowsKept, References
<1>4. ASSUME NEW u \in Processes
      PROVE  HandlerReferences(worker[u])'
  <2>1. CASE u = w
    BY <2>1
  <2>2. CASE u # w
    <3>1. worker'[u] = worker[u] /\ HandlerReferences(worker[u])
      BY <2>2 DEF References
    <3>2. QED
      BY <3>1, KeptReferences DEF HandlerReferences
  <2>3. QED
    BY <2>1, <2>2
<1>5. QED
  BY <1>2, <1>3, <1>4 DEF References

\* instance_questions_grade and assessment_instances_grade
LEMMA GradeQuestionTypes ==
  ASSUME TypeOK, AllAttemptsLeft, NEW q \in Questions, NEW score \in Scores, NEW credit,
         GradeQuestion(q, score, credit)
  PROVE  /\ ai' \in AssessmentInstance /\ DOMAIN grade' = {"points", "score"}
         /\ iq' \in [Questions -> InstanceQuestion]
         /\ issues' \in Nat
         /\ AllAttemptsLeft'
<1>1. ai' = [ai EXCEPT !.age = 0] /\ DOMAIN grade' = {"points", "score"}
  BY DEF GradeQuestion, AssessmentInstanceGrade
<1>2. ai' \in AssessmentInstance
  BY <1>1 DEF TypeOK, AssessmentInstance
<1>3. CASE iq[q].open
  <2>1. iq' = [iq EXCEPT ![q] = GradedQuestion(AQ[q], iq[q], score)] /\ issues' = issues
    BY <1>3 DEF GradeQuestion
  <2>2. /\ GradedQuestion(AQ[q], iq[q], score) \in InstanceQuestion
        /\ AttemptsLeft(AQ[q], GradedQuestion(AQ[q], iq[q], score))
    BY <1>3, QuestionTypes, GradedTypes DEF AllAttemptsLeft
  <2>3. iq' \in [Questions -> InstanceQuestion] /\ issues' \in Nat
    BY <2>1, <2>2 DEF TypeOK
  <2>4. AllAttemptsLeft'
    BY <2>1, <2>2 DEF AllAttemptsLeft, TypeOK
  <2>5. QED
    BY <1>1, <1>2, <2>3, <2>4
<1>4. CASE ~iq[q].open
  <2>1. iq' = iq /\ issues' = issues + 1
    BY <1>4 DEF GradeQuestion
  <2>2. QED
    BY <1>1, <1>2, <2>1 DEF TypeOK, AllAttemptsLeft
<1>5. QED
  BY <1>3, <1>4

\* grading_jobs_update_after_grading
LEMMA UpdateAfterGradingTypes ==
  ASSUME TypeOK, References, AllAttemptsLeft, NEW j \in Inserted,
         NEW gradable \in BOOLEAN, NEW score \in Scores,
         UpdateAfterGrading(j, gradable, score)
  PROVE  /\ RowTypes' /\ RowsKept /\ AllAttemptsLeft'
         /\ Saved' = Saved /\ Inserted' = Inserted
<1> DEFINE s == job[j].sub
           q == QuestionOf(s)
<1>1. /\ j \in Jobs /\ s \in Saved /\ s \in Submissions
      /\ sub[s].variant \in MadeVariants /\ sub[s].variant \in Variants /\ q \in Questions
  BY DEF References, Inserted, Saved, MadeVariants, QuestionOf, TypeOK, Variant
<1>2. CASE ResultUnneeded(j) /\ UNCHANGED rows
  BY <1>2 DEF rows, TypeOK, RowTypes, RowsKept, AllAttemptsLeft, Saved, Inserted
<1>3. CASE ~ResultUnneeded(j) /\ StoreResult(j, gradable, score)
  <2>1. /\ sub' \in [Submissions -> Submission] /\ job' \in [Jobs -> Job]
        /\ \A x \in Submissions : sub'[x].variant = sub[x].variant
        /\ \A x \in Jobs : job'[x].sub = job[x].sub
    <3> DEFINE kept == IF gradable THEN score ELSE Null
    <3>1. kept \in Scores \cup {Null}
      OBVIOUS
    <3>2. /\ sub' = [sub EXCEPT ![s] = [@ EXCEPT !.gradable = gradable, !.score = kept]]
          /\ job' = [job EXCEPT ![j] = [@ EXCEPT !.graded = TRUE, !.gradable = gradable, !.score = kept]]
      BY <1>1, <1>3 DEF StoreResult, TypeOK
    <3> HIDE DEF kept, s
    <3>3. sub' \in [Submissions -> Submission] /\ \A x \in Submissions : sub'[x].variant = sub[x].variant
      BY <1>1, <3>1, <3>2, ZenonT(60) DEF TypeOK, Submission
    <3>4. job' \in [Jobs -> Job] /\ \A x \in Jobs : job'[x].sub = job[x].sub
      <4> DEFINE graded == [job[j] EXCEPT !.graded = TRUE, !.gradable = gradable, !.score = kept]
      <4>1. job[j] \in Job
        BY <1>1 DEF TypeOK
      <4>2. graded \in Job /\ graded.sub = job[j].sub
        BY <3>1, <4>1 DEF Job
      <4>3. job' = [job EXCEPT ![j] = graded]
        BY <1>1, <3>2 DEF TypeOK
      <4> HIDE DEF graded
      <4>4. QED
        BY <1>1, <4>2, <4>3 DEF TypeOK
    <3>5. QED
      BY <3>3, <3>4
  <2>2. Saved' = Saved /\ Inserted' = Inserted
    BY <2>1 DEF Saved, Inserted
  <2>3. CASE ~gradable
    <3>1. /\ iq' = [iq EXCEPT ![q].status = "invalid"]
          /\ UNCHANGED <<ai, grade, variant, issues>>
      BY <1>3, <2>3 DEF UpdateAfterGrading
    <3>2. iq' = [iq EXCEPT ![q] = [@ EXCEPT !.status = "invalid"]]
      BY <1>1, <3>1 DEF TypeOK
    <3> HIDE DEF q
    <3>3. iq' \in [Questions -> InstanceQuestion]
      BY <1>1, <3>2 DEF TypeOK, InstanceQuestion, Statuses
    <3>4. AllAttemptsLeft'
      BY <1>1, <3>2 DEF AllAttemptsLeft, AttemptsLeft, TypeOK, InstanceQuestion
    <3>5. QED
      BY <2>1, <2>2, <3>1, <3>3, <3>4 DEF RowTypes, TypeOK, RowsKept, Saved, Inserted
  <2>4. CASE gradable
    <3>1. /\ variant' = VariantUpdateAfterGrading(sub[s].variant, Correct(score))
          /\ GradeQuestion(q, score, sub[s].credit)
      BY <1>3, <2>4 DEF UpdateAfterGrading
    <3>2. /\ variant' \in [Variants -> Variant]
          /\ \A v \in Variants : variant'[v].question = variant[v].question
      <4> DEFINE x == sub[s].variant
                 tries == variant[x].tries + 1
                 open == variant[x].open /\ ~(/\ AQ[variant[x].question].type = "Homework"
                                              /\ ~AQ[variant[x].question].singleVariant
                                              /\ tries >= AQ[variant[x].question].triesPerVariant \/ Correct(score))
      <4>1. variant' = [variant EXCEPT ![x] = [@ EXCEPT !.tries = tries, !.open = open]]
        BY <1>1, <3>1 DEF VariantUpdateAfterGrading, TypeOK
      <4>2. open \in BOOLEAN /\ tries \in Nat
        BY <1>1 DEF TypeOK, Variant
      <4> HIDE DEF x, tries, open
      <4>3. x \in Variants
        BY <1>1 DEF x
      <4>4. QED
        BY <4>1, <4>2, <4>3 DEF TypeOK, Variant
    <3>3. /\ ai' \in AssessmentInstance /\ DOMAIN grade' = {"points", "score"}
          /\ iq' \in [Questions -> InstanceQuestion] /\ issues' \in Nat /\ AllAttemptsLeft'
      BY <1>1, <3>1, GradeQuestionTypes
    <3>4. QED
      BY <2>1, <2>2, <3>2, <3>3 DEF RowTypes, RowsKept, Saved, Inserted, MadeVariants
  <2>5. QED
    BY <2>3, <2>4
<1>4. QED
  BY <1>2, <1>3 DEF UpdateAfterGrading

-----------------------------------------------------------------------------
(* Every step keeps the invariant. *)

\* A step that leaves the rows alone.
LEMMA SameRows ==
  ASSUME IInv, UNCHANGED rows
  PROVE  /\ RowTypes' /\ RowsKept /\ AllAttemptsLeft'
         /\ MadeVariants' = MadeVariants /\ Saved' = Saved /\ Inserted' = Inserted
         /\ \A v : SubmissionsOf(v)' = SubmissionsOf(v)
BY DEF IInv, TypeOK, RowTypes, RowsKept, AllAttemptsLeft, rows, MadeVariants, Saved,
       Inserted, SubmissionsOf

\* What a step must show of the rows and of the one handler that moves.
LEMMA OneHandlerStep ==
  ASSUME IInv, RowTypes', RowsKept, AllAttemptsLeft',
         \A s \in Saved' \ Saved : sub'[s].variant \in MadeVariants',
         \A j \in Inserted' \ Inserted : job'[j].sub \in Saved',
         NEW w \in Processes, NEW me \in Worker,
         worker' = [worker EXCEPT ![w] = me], HandlerReferences(me)',
         atGrader' \subseteq Inserted',
         results' \subseteq [job: Inserted', raw: RawResults \cup {NotGraded}],
         crashes' \in 0..MaxCrashes
  PROVE  IInv'
<1>1. Inserted' \subseteq Jobs
  BY DEF Inserted
<1>2. TypeOK /\ References
  BY DEF IInv
<1>3. \A m \in results' : m \in [job: Jobs, raw: RawResults \cup {NotGraded}] /\ m.job \in Inserted'
  BY <1>1
<1>4. worker' \in [Processes -> Worker] /\ worker'[w] = me
  BY <1>2 DEF TypeOK
<1>5. TypeOK'
  BY <1>1, <1>3, <1>4 DEF TypeOK, RowTypes
<1>6. \A u \in Processes : u # w => worker'[u] = worker[u]
  BY <1>2 DEF TypeOK
<1>7. HandlerReferences(worker[w])'
  BY <1>4 DEF HandlerReferences
<1>8. References'
  BY <1>2, <1>3, <1>5, <1>6, <1>7, ReferencesStep
<1>9. QED
  BY <1>5, <1>8 DEF IInv

\* A handler that only goes on.
LEMMA HandlerStep ==
  ASSUME IInv, UNCHANGED rows, NEW w \in Processes, NEW me \in Worker,
         worker' = [worker EXCEPT ![w] = me], HandlerReferences(me),
         atGrader' \subseteq Inserted,
         results' \subseteq [job: Inserted, raw: RawResults \cup {NotGraded}],
         crashes' \in 0..MaxCrashes
  PROVE  IInv'
<1>1. HandlerReferences(me)'
  BY SameRows DEF HandlerReferences
<1>2. QED
  BY <1>1, SameRows, OneHandlerStep

\* The queues, handlers and crashes an invariant state has.
LEMMA Queues ==
  ASSUME IInv
  PROVE  /\ atGrader \subseteq Inserted
         /\ results \subseteq [job: Inserted, raw: RawResults \cup {NotGraded}]
         /\ crashes \in 0..MaxCrashes
         /\ \A w \in Processes : /\ worker[w] \in Worker /\ HandlerReferences(worker[w])
                                 /\ worker = [worker EXCEPT ![w] = worker[w]]
         /\ Cron \in Processes /\ Workers \subseteq Processes
<1>1. \A m \in results : m \in [job: Jobs, raw: RawResults \cup {NotGraded}] /\ m.job \in Inserted
  BY DEF IInv, TypeOK, References
<1>2. \A m \in results : m \in [job: Inserted, raw: RawResults \cup {NotGraded}]
  BY <1>1
<1>3. QED
  BY <1>2 DEF IInv, TypeOK, References, Processes

\* A handler that has nothing left to do holds nothing.
LEMMA IdleTypes == IdleWorker \in Worker /\ HandlerReferences(IdleWorker)
  BY DEF IdleWorker, Worker, WorkerStates, HandlerReferences, Null

\* gradeVariant returns, to the loop of gradeAssessmentInstance or to a request.
LEMMA ReturnTypes ==
  ASSUME IInv, NEW w \in Processes, Return(w)
  PROVE  \E me \in Worker : worker' = [worker EXCEPT ![w] = me] /\ HandlerReferences(me)
<1> DEFINE me == IF worker[w].exam THEN NextVariant(worker[w]) ELSE IdleWorker
<1>1. worker' = [worker EXCEPT ![w] = me]
  BY DEF Return, IInv, TypeOK
<1>2. worker[w] \in Worker /\ worker[w].todo \subseteq MadeVariants
  BY Queues DEF HandlerReferences
<1>3. me \in Worker /\ HandlerReferences(me)
  BY <1>2, NextVariantTypes, IdleTypes DEF IInv
<1> HIDE DEF me
<1>4. QED
  BY <1>1, <1>3

\* The rows of a new assessment instance satisfy the inductive invariant.
THEOREM InitInvariant == Init => IInv
<1> SUFFICES ASSUME Init PROVE IInv
  OBVIOUS
<1>1. ai \in AssessmentInstance /\ DOMAIN grade = {"points", "score"}
  BY DEF Init, AssessmentInstance
<1>2. ASSUME NEW q \in Questions
      PROVE  NewInstanceQuestion(AQ[q]) \in InstanceQuestion /\ AttemptsLeft(AQ[q], NewInstanceQuestion(AQ[q]))
  BY NewQuestionTypes, GradingAssumption
<1>3. iq \in [Questions -> InstanceQuestion] /\ AllAttemptsLeft
  BY <1>2 DEF Init, AllAttemptsLeft
<1>4. variant \in [Variants -> Variant] /\ sub \in [Submissions -> Submission] /\ job \in [Jobs -> Job]
  BY DEF Init, Variant, Submission, Job, NoVariant, NoSubmission, NoJob
<1>5. MadeVariants = {} /\ Saved = {} /\ Inserted = {}
  BY DEF Init, MadeVariants, Saved, Inserted, NoVariant, NoSubmission, NoJob
<1>6. \A w \in Processes : worker[w] = IdleWorker
  BY DEF Init
<1>7. TypeOK
  BY <1>1, <1>3, <1>4, <1>6, IdleTypes, GradingAssumption DEF Init, TypeOK
<1>8. References
  BY <1>5, <1>6, IdleTypes DEF References, Init
<1>9. QED
  BY <1>3, <1>7, <1>8 DEF IInv

\* Opening a question inserts a variant.
LEMMA CreateVariantStep ==
  ASSUME IInv, NEW q \in Questions, CreateVariant(q)
  PROVE  IInv'
<1>1. PICK v \in Variants :
        /\ v \notin MadeVariants
        /\ variant' = [variant EXCEPT ![v] = [question |-> q, open |-> TRUE, tries |-> 0]]
        /\ UNCHANGED <<ai, grade, iq, sub, job, issues, worker, atGrader, results, crashes>>
  BY DEF CreateVariant, IsNextId
<1>2. TypeOK
  BY DEF IInv
<1>3. variant' \in [Variants -> Variant]
  BY <1>1, <1>2 DEF TypeOK, Variant
<1>4. RowTypes'
  BY <1>1, <1>2, <1>3 DEF TypeOK, RowTypes
<1>5. RowsKept /\ Saved' = Saved /\ Inserted' = Inserted /\ MadeVariants \subseteq MadeVariants'
  BY <1>1, <1>2 DEF RowsKept, Saved, Inserted, MadeVariants, TypeOK
<1>6. AllAttemptsLeft'
  BY <1>1 DEF IInv, AllAttemptsLeft
<1>7. HandlerReferences(worker[Cron])'
  BY <1>1, <1>5, Queues DEF HandlerReferences, SubmissionsOf
<1>8. QED
  BY <1>1, <1>4, <1>5, <1>6, <1>7, Queues, OneHandlerStep DEF HandlerReferences

\* insert_submission
LEMMA InsertSubmissionTypes ==
  ASSUME IInv, NEW s \in Submissions, NEW v \in Variants, NEW gradable \in BOOLEAN,
         NEW credit \in Credits, InsertSubmission(s, v, gradable, credit)
  PROVE  /\ RowTypes' /\ RowsKept /\ AllAttemptsLeft'
         /\ Saved' = Saved \cup {s} /\ s \notin Saved /\ sub'[s].variant = v
         /\ ~sub'[s].requested /\ sub'[s].score = Null
         /\ v \in MadeVariants
         /\ \A x \in Saved : sub'[x] = sub[x]
         /\ UNCHANGED <<variant, job>>
<1> DEFINE q == variant[v].question
           status == IF gradable THEN "saved" ELSE "invalid"
           new == [variant |-> v, credit |-> credit, gradable |-> gradable,
                   requested |-> FALSE, score |-> Null]
<1>1. /\ v \in MadeVariants /\ s \notin Saved
      /\ sub' = [sub EXCEPT ![s] = new]
      /\ iq' = [iq EXCEPT ![q].status = status]
      /\ ai' = [ai EXCEPT !.age = 0]
      /\ UNCHANGED <<grade, variant, job, issues>>
  BY DEF InsertSubmission, IsNextId
<1>2. TypeOK /\ q \in Questions /\ v # Null
  BY <1>1, GradingAssumption, SMTT(30) DEF IInv, TypeOK, MadeVariants, Variant, Variants, Null
<1>3. new \in Submission
  BY DEF Submission
<1>4. sub' \in [Submissions -> Submission] /\ sub'[s] = new /\ \A x \in Submissions : x # s => sub'[x] = sub[x]
  <2> HIDE DEF new
  <2>1. QED
    BY <1>1, <1>2, <1>3 DEF TypeOK
<1>5. iq' = [iq EXCEPT ![q] = [@ EXCEPT !.status = status]] /\ status \in Statuses
  BY <1>1, <1>2 DEF TypeOK, Statuses
<1>6. iq' \in [Questions -> InstanceQuestion] /\ AllAttemptsLeft'
  <2> HIDE DEF q, status
  <2>1. iq' \in [Questions -> InstanceQuestion]
    BY <1>2, <1>5 DEF TypeOK, InstanceQuestion
  <2>2. AllAttemptsLeft'
    BY <1>2, <1>5 DEF IInv, AllAttemptsLeft, AttemptsLeft, TypeOK, InstanceQuestion
  <2>3. QED
    BY <2>1, <2>2
<1>7. ai' \in AssessmentInstance
  BY <1>1, <1>2 DEF TypeOK, AssessmentInstance
<1>8. RowTypes'
  BY <1>1, <1>2, <1>4, <1>6, <1>7 DEF TypeOK, RowTypes
<1>9. RowsKept /\ Saved' = Saved \cup {s}
  BY <1>1, <1>2, <1>4 DEF RowsKept, Saved
<1>10. QED
  BY <1>1, <1>4, <1>6, <1>8, <1>9 DEF Saved

\* Saving an answer.
LEMMA SaveSubmissionStep ==
  ASSUME IInv, NEW v \in Variants, NEW gradable \in BOOLEAN, NEW credit \in Credits,
         SaveSubmission(v, gradable, credit)
  PROVE  IInv'
<1>1. PICK s \in Submissions : InsertSubmission(s, v, gradable, credit)
  BY DEF SaveSubmission
<1>2. UNCHANGED <<worker, atGrader, results, crashes>>
  BY DEF SaveSubmission
<1>3. /\ RowTypes' /\ RowsKept /\ AllAttemptsLeft'
      /\ Saved' = Saved \cup {s} /\ sub'[s].variant \in MadeVariants
      /\ MadeVariants' = MadeVariants /\ Inserted' = Inserted
  BY <1>1, InsertSubmissionTypes DEF MadeVariants, Inserted
<1>4. HandlerReferences(worker[Cron])'
  BY <1>2, <1>3, Queues DEF HandlerReferences, SubmissionsOf, RowsKept
<1>5. QED
  BY <1>2, <1>3, <1>4, Queues, OneHandlerStep DEF HandlerReferences

\* Saving an answer that the same request goes on to grade.
LEMMA SaveAndGradeStep ==
  ASSUME IInv, NEW w \in Workers, NEW v \in Variants, NEW gradable \in BOOLEAN,
         NEW credit \in Credits, SaveAndGrade(w, v, gradable, credit)
  PROVE  IInv'
<1>1. PICK s \in Submissions :
        /\ InsertSubmission(s, v, gradable, credit)
        /\ worker' = [worker EXCEPT ![w] = [IdleWorker EXCEPT !.pc = "select", !.v = v, !.check = s]]
  BY DEF SaveAndGrade
<1>2. UNCHANGED <<atGrader, results, crashes>>
  BY DEF SaveAndGrade
<1>3. /\ RowTypes' /\ RowsKept /\ AllAttemptsLeft' /\ v \in MadeVariants
      /\ Saved' = Saved \cup {s} /\ sub'[s].variant \in MadeVariants
      /\ MadeVariants' = MadeVariants /\ Inserted' = Inserted
  BY <1>1, InsertSubmissionTypes DEF MadeVariants, Inserted
<1> DEFINE me == [IdleWorker EXCEPT !.pc = "select", !.v = v, !.check = s]
<1>4. me \in Worker /\ HandlerReferences(me)'
  BY <1>3 DEF IdleWorker, Worker, WorkerStates, HandlerReferences, Null
<1>5. worker' = [worker EXCEPT ![w] = me]
  BY <1>1
<1> HIDE DEF me
<1>6. QED
  BY <1>2, <1>3, <1>4, <1>5, Queues, OneHandlerStep

\* selectSubmissionForGrading keeps a submission of the variant it was given.
LEMMA SelectStep ==
  ASSUME IInv, NEW w \in Processes, Select(w)
  PROVE  IInv'
<1>1. UNCHANGED <<rows, atGrader, results, crashes>>
  BY DEF Select
<1>2. \E me \in Worker : worker' = [worker EXCEPT ![w] = me] /\ HandlerReferences(me)
  <2>1. CASE Return(w)
    BY <2>1, ReturnTypes
  <2>2. CASE worker' = [worker EXCEPT ![w] = IdleWorker]
    BY <2>2, IdleTypes
  <2>3. ASSUME NEW s \in Submissions, IsLast(s, SubmissionsOf(worker[w].v)),
               worker' = [worker EXCEPT ![w].sub = s,
                                        ![w].pc = IF worker[w].override THEN "insert" ELSE "rate"]
        PROVE  \E me \in Worker : worker' = [worker EXCEPT ![w] = me] /\ HandlerReferences(me)
    <3> DEFINE pc == IF worker[w].override THEN "insert" ELSE "rate"
               me == [worker[w] EXCEPT !.sub = s, !.pc = pc]
    <3>1. worker[w] \in Worker /\ HandlerReferences(worker[w]) /\ worker[w].pc = "select"
      BY Queues DEF Select
    <3>2. pc \in {"insert", "rate"}
      OBVIOUS
    <3>3. worker' = [worker EXCEPT ![w] = me]
      BY <2>3 DEF IInv, TypeOK
    <3>4. s \in SubmissionsOf(worker[w].v)
      BY <2>3 DEF IsLast
    <3> HIDE DEF pc
    <3>5. me \in Worker /\ HandlerReferences(me)
      BY <3>1, <3>2, <3>4 DEF Worker, WorkerStates, HandlerReferences
    <3> HIDE DEF me
    <3>6. QED
      BY <3>3, <3>5
  <2>4. QED
    BY <2>1, <2>2, <2>3 DEF Select
<1>3. QED
  BY <1>1, <1>2, Queues, HandlerStep

\* The grade rate limit sends a handler on, or back.
LEMMA CheckRateStep ==
  ASSUME IInv, NEW w \in Processes, CheckRate(w)
  PROVE  IInv'
<1>1. UNCHANGED <<rows, atGrader, results, crashes>>
  BY DEF CheckRate
<1>2. CASE Return(w)
  BY <1>1, <1>2, ReturnTypes, Queues, HandlerStep
<1>3. CASE worker' = [worker EXCEPT ![w].pc = "insert"]
  <2> DEFINE me == [worker[w] EXCEPT !.pc = "insert"]
  <2>1. worker[w] \in Worker /\ HandlerReferences(worker[w]) /\ worker[w].pc = "rate"
    BY Queues DEF CheckRate
  <2>2. worker' = [worker EXCEPT ![w] = me]
    BY <1>3 DEF IInv, TypeOK
  <2>3. me \in Worker /\ HandlerReferences(me)
    BY <2>1 DEF Worker, WorkerStates, HandlerReferences
  <2> HIDE DEF me
  <2>4. QED
    BY <1>1, <2>2, <2>3, Queues, HandlerStep
<1>4. QED
  BY <1>2, <1>3 DEF CheckRate

\* What grading_jobs_insert leaves: a new job of the submission the handler
\* selected, and the outstanding jobs of the variant canceled.
LEMMA InsertJobTypes ==
  ASSUME IInv, NEW w \in Processes, InsertJob(w)
  PROVE  \E j \in Jobs :
           /\ j \notin Inserted /\ Inserted' = Inserted \cup {j}
           /\ RowTypes' /\ RowsKept /\ AllAttemptsLeft' /\ Saved' = Saved
           /\ worker[w].v \in MadeVariants /\ worker[w].sub \in SubmissionsOf(worker[w].v)
           /\ job'[j].sub = worker[w].sub /\ ~job'[j].graded /\ ~job'[j].canceled
           /\ ~job'[j].gradable
           /\ \A i \in Inserted \ CanceledBy(worker[w].v) : job'[i] = job[i]
           /\ \A i \in CanceledBy(worker[w].v) :
                i \in Inserted /\ job'[i] = [job[i] EXCEPT !.canceled = TRUE]
           /\ \A s \in Submissions : sub'[s].requested =
                (s = worker[w].sub \/ StillRequested(s, CanceledBy(worker[w].v)))
           /\ \A s \in Submissions : sub'[s].score = sub[s].score
           /\ worker' = [worker EXCEPT
                          ![w].job = j,
                          ![w].pc = IF AQ[variant[worker[w].v].question].method = "External"
                                      THEN "begin" ELSE "grade"]
           /\ AssessmentInstanceGrade(iq, sub[worker[w].sub].credit)
           /\ UNCHANGED <<iq, issues, variant, atGrader, results, crashes>>
<1> DEFINE me   == worker[w]
           dead == CanceledBy(me.v)
           rate == IF ~RateLimited THEN "past" ELSE IF me.override THEN "override" ELSE "limited"
           new  == [sub |-> me.sub, graded |-> FALSE, canceled |-> FALSE, gradable |-> FALSE,
                    score |-> Null, rate |-> rate]
           asked(s) == s = me.sub \/ StillRequested(s, dead)
<1>1. PICK j \in Jobs :
        /\ IsNextId(j, Inserted, Jobs)
        /\ job' = [i \in Jobs |-> IF i = j THEN new
                                  ELSE IF i \in dead THEN [job[i] EXCEPT !.canceled = TRUE]
                                  ELSE job[i]]
        /\ sub' = [s \in Submissions |-> [sub[s] EXCEPT !.requested = asked(s)]]
        /\ AssessmentInstanceGrade(iq, sub[me.sub].credit)
        /\ worker' = [worker EXCEPT
                       ![w].job = j,
                       ![w].pc = IF AQ[variant[me.v].question].method = "External"
                                   THEN "begin" ELSE "grade"]
        /\ UNCHANGED <<iq, variant, issues, atGrader, results, crashes>>
  BY DEF InsertJob
<1>2. TypeOK /\ AllAttemptsLeft
  BY DEF IInv
<1>3. me \in Worker /\ me.v \in MadeVariants /\ me.sub \in SubmissionsOf(me.v) /\ me.sub \in Saved
  BY Queues DEF InsertJob, HandlerReferences, SubmissionsOf
<1>4. j \notin Inserted /\ dead \subseteq Inserted /\ j \notin dead /\ me.sub # Null
  BY <1>1, <1>3 DEF IsNextId, CanceledBy, Outstanding, Saved, Submissions, Null
<1>5. ASSUME NEW i \in Jobs
      PROVE  job'[i] \in Job /\ (i # j => job'[i].sub = job[i].sub)
  <2>1. job[i] \in Job
    BY <1>2 DEF TypeOK
  <2>2. new \in Job
    BY <1>3 DEF Job, Saved
  <2>3. [job[i] EXCEPT !.canceled = TRUE] \in Job /\ [job[i] EXCEPT !.canceled = TRUE].sub = job[i].sub
    BY <2>1 DEF Job
  <2> HIDE DEF new, dead
  <2>4. QED
    BY <1>1, <2>1, <2>2, <2>3
<1>6. ASSUME NEW s \in Submissions
      PROVE  /\ sub'[s] \in Submission /\ sub'[s].variant = sub[s].variant
             /\ sub'[s].requested = asked(s) /\ sub'[s].score = sub[s].score
  <2>1. sub[s] \in Submission /\ asked(s) \in BOOLEAN
    BY <1>2 DEF TypeOK
  <2>2. sub'[s] = [sub[s] EXCEPT !.requested = asked(s)]
    BY <1>1
  <2> HIDE DEF asked
  <2>3. QED
    BY <2>1, <2>2 DEF Submission
<1>7. /\ ai' \in AssessmentInstance /\ DOMAIN grade' = {"points", "score"}
  BY <1>1, <1>2 DEF AssessmentInstanceGrade, TypeOK, AssessmentInstance
<1>8. sub' \in [Submissions -> Submission] /\ job' \in [Jobs -> Job]
  BY <1>1, <1>5, <1>6
<1>9. RowTypes' /\ AllAttemptsLeft'
  BY <1>1, <1>2, <1>7, <1>8 DEF TypeOK, RowTypes, AllAttemptsLeft
<1>10. job'[j] = new
  <2> HIDE DEF new
  <2>1. QED
    BY <1>1
<1>11. Inserted' = Inserted \cup {j} /\ Saved' = Saved
  BY <1>3, <1>4, <1>5, <1>6, <1>10 DEF Inserted, Saved
<1>12. RowsKept
  BY <1>1, <1>4, <1>5, <1>6 DEF RowsKept, Saved, Inserted
<1>13. /\ \A i \in Inserted \ dead : job'[i] = job[i]
       /\ \A i \in dead : i \in Inserted /\ job'[i] = [job[i] EXCEPT !.canceled = TRUE]
  <2>1. Inserted \subseteq Jobs
    BY DEF Inserted
  <2> HIDE DEF dead, new
  <2>2. QED
    BY <1>1, <1>4, <2>1
<1>14. QED
  BY <1>1, <1>3, <1>4, <1>6, <1>9, <1>10, <1>11, <1>12, <1>13

\* grading_jobs_insert; its handler then knows a job that exists.
LEMMA InsertJobStep ==
  ASSUME IInv, NEW w \in Processes, InsertJob(w)
  PROVE  IInv'
<1> DEFINE pc == IF AQ[variant[worker[w].v].question].method = "External" THEN "begin" ELSE "grade"
<1>1. PICK j \in Jobs :
        /\ Inserted' = Inserted \cup {j}
        /\ RowTypes' /\ RowsKept /\ AllAttemptsLeft' /\ Saved' = Saved
        /\ worker[w].v \in MadeVariants
        /\ worker[w].sub \in SubmissionsOf(worker[w].v)
        /\ job'[j].sub = worker[w].sub
        /\ worker' = [worker EXCEPT ![w].job = j, ![w].pc = pc]
        /\ UNCHANGED <<variant, atGrader, results, crashes>>
  BY InsertJobTypes
<1>2. worker[w] \in Worker /\ HandlerReferences(worker[w]) /\ pc \in {"begin", "grade"}
  BY Queues
<1>3. MadeVariants' = MadeVariants
  BY <1>1 DEF MadeVariants
<1>4. PICK me \in Worker : me = [worker[w] EXCEPT !.job = j, !.pc = pc]
  <2> HIDE DEF pc
  <2>1. QED
    BY <1>2 DEF Worker, WorkerStates
<1>5. worker' = [worker EXCEPT ![w] = me]
  BY <1>1, <1>4 DEF IInv, TypeOK
<1>6. /\ me.pc \in {"begin", "grade"} /\ me.job = j /\ me.v = worker[w].v
      /\ me.todo = worker[w].todo
  <2> HIDE DEF pc
  <2>1. QED
    BY <1>2, <1>4 DEF Worker
<1>7. HandlerReferences(me)'
  BY <1>1, <1>2, <1>3, <1>6 DEF HandlerReferences
<1>8. job'[j].sub \in Saved'
  BY <1>1 DEF SubmissionsOf
<1>9. QED
  BY <1>1, <1>5, <1>7, <1>8, Queues, OneHandlerStep, ZenonT(60)

\* A step of a handler that stores the result of a grader.
LEMMA GradedStep ==
  ASSUME IInv, NEW j \in Inserted, NEW gradable \in BOOLEAN, NEW score \in Scores,
         UpdateAfterGrading(j, gradable, score),
         NEW w \in Processes, NEW me \in Worker, HandlerReferences(me),
         worker' = [worker EXCEPT ![w] = me],
         UNCHANGED <<atGrader, crashes>>, results' \subseteq results
  PROVE  IInv'
<1>1. /\ RowTypes' /\ RowsKept /\ AllAttemptsLeft' /\ Saved' = Saved /\ Inserted' = Inserted
  BY UpdateAfterGradingTypes DEF IInv
<1>2. HandlerReferences(me)'
  BY <1>1, KeptReferences
<1>3. QED
  BY <1>1, <1>2, Queues, OneHandlerStep

\* A question's own grading code.
LEMMA GradeInternalStep ==
  ASSUME IInv, NEW w \in Processes, GradeInternal(w)
  PROVE  IInv'
<1>1. PICK gradable \in BOOLEAN, score \in Scores :
        /\ worker[w].pc = "grade"
        /\ UpdateAfterGrading(worker[w].job, gradable, score)
        /\ Return(w)
        /\ UNCHANGED <<atGrader, results, crashes>>
  BY DEF GradeInternal
<1>2. worker[w].job \in Inserted
  BY <1>1, Queues DEF HandlerReferences
<1>3. PICK me \in Worker : worker' = [worker EXCEPT ![w] = me] /\ HandlerReferences(me)
  BY <1>1, ReturnTypes
<1>4. QED
  BY <1>1, <1>2, <1>3, GradedStep

\* processGradingResult only passes scores between 0 and 1 on.
LEMMA ProcessResultStep ==
  ASSUME IInv, NEW m \in results, ProcessResult(m)
  PROVE  IInv'
<1> DEFINE gradable == ResultGradable(m.raw)
           score == IF gradable THEN ResultScore(m.raw) ELSE 0
<1>1. gradable \in BOOLEAN /\ score \in Scores
  BY ScoreUnitAssumption DEF ResultGradable, Scores
<1>2. m.job \in Inserted
  BY Queues
<1>3. /\ UpdateAfterGrading(m.job, gradable, score)
      /\ results' \subseteq results /\ UNCHANGED <<worker, atGrader, crashes>>
  BY DEF ProcessResult
<1>4. /\ Cron \in Processes /\ worker[Cron] \in Worker /\ HandlerReferences(worker[Cron])
      /\ worker' = [worker EXCEPT ![Cron] = worker[Cron]]
  BY <1>3, Queues
<1> HIDE DEF gradable, score
<1>5. QED
  BY <1>1, <1>2, <1>3, <1>4, GradedStep

\* beginGradingJob only sends out jobs that exist.
LEMMA BeginExternalStep ==
  ASSUME IInv, NEW w \in Processes, BeginExternal(w)
  PROVE  IInv'
<1> DEFINE m == [job |-> worker[w].job, raw |-> NotGraded]
<1>1. /\ worker[w].pc = "begin" /\ Return(w) /\ UNCHANGED <<rows, crashes>>
      /\ atGrader' \subseteq atGrader \cup {worker[w].job}
      /\ results' \subseteq results \cup {m}
  BY DEF BeginExternal
<1>2. worker[w].job \in Inserted
  BY <1>1, Queues DEF HandlerReferences
<1>3. m \in [job: Inserted, raw: RawResults \cup {NotGraded}]
  BY <1>2
<1> HIDE DEF m
<1>4. PICK me \in Worker : worker' = [worker EXCEPT ![w] = me] /\ HandlerReferences(me)
  BY <1>1, ReturnTypes
<1>5. /\ atGrader' \subseteq Inserted
      /\ results' \subseteq [job: Inserted, raw: RawResults \cup {NotGraded}]
  BY <1>1, <1>2, <1>3, Queues
<1>6. QED
  BY <1>1, <1>4, <1>5, Queues, HandlerStep

\* A grader host answers for a job it was sent.
LEMMA GradeExternallyStep ==
  ASSUME IInv, NEW j \in Jobs, GradeExternally(j)
  PROVE  IInv'
<1>1. PICK raw \in RawResults :
        /\ j \in atGrader /\ atGrader' \subseteq atGrader
        /\ results' = results \cup {[job |-> j, raw |-> raw]}
        /\ UNCHANGED <<rows, worker, crashes>>
  BY DEF GradeExternally
<1>2. j \in Inserted
  BY <1>1, Queues
<1>3. results' \subseteq [job: Inserted, raw: RawResults \cup {NotGraded}]
  BY <1>1, <1>2, Queues
<1>4. QED
  BY <1>1, <1>3, Queues, HandlerStep

\* A step that only opens, closes or dates the assessment instance.
LEMMA InstanceStep ==
  ASSUME IInv, ai' \in AssessmentInstance, UNCHANGED <<grade, iq, variant, sub, job, issues>>,
         NEW w \in Processes, NEW me \in Worker, HandlerReferences(me),
         worker' = [worker EXCEPT ![w] = me],
         UNCHANGED <<atGrader, results, crashes>>
  PROVE  IInv'
<1>1. RowTypes' /\ RowsKept /\ AllAttemptsLeft' /\ Saved' = Saved /\ Inserted' = Inserted
  BY DEF IInv, TypeOK, RowTypes, RowsKept, AllAttemptsLeft, Saved, Inserted
<1>2. HandlerReferences(me)'
  BY <1>1, KeptReferences
<1>3. QED
  BY <1>1, <1>2, Queues, OneHandlerStep

\* Entering gradeAssessmentInstance.
LEMMA ExamWorkerTypes ==
  ASSUME NEW pc \in {"close", "variants"}, NEW override \in BOOLEAN
  PROVE  ExamWorker(pc, override) \in Worker /\ HandlerReferences(ExamWorker(pc, override))
<1> DEFINE exam == TRUE
           me == [IdleWorker EXCEPT !.pc = pc, !.exam = exam, !.override = override]
<1>1. me = ExamWorker(pc, override) /\ exam \in BOOLEAN
  BY DEF ExamWorker
<1>2. IdleWorker \in Worker /\ IdleWorker.todo = {} /\ pc \in WorkerStates
  BY IdleTypes DEF IdleWorker, WorkerStates
<1> HIDE DEF exam
<1>3. me \in Worker /\ me.pc = pc /\ me.todo = {}
  BY <1>1, <1>2 DEF Worker
<1> HIDE DEF me
<1>4. HandlerReferences(me)
  BY <1>3 DEF HandlerReferences
<1>5. QED
  BY <1>1, <1>3, <1>4

\* Closing the assessment instance.
LEMMA CloseTypes ==
  ASSUME IInv, Close
  PROVE  ai' \in AssessmentInstance
<1> DEFINE open == FALSE
           needed == TRUE
           age == 0
<1>1. ai' = [ai EXCEPT !.open = open, !.needed = needed, !.age = age]
  BY DEF Close
<1>2. open \in BOOLEAN /\ needed \in BOOLEAN /\ age \in 0..2 /\ ai \in AssessmentInstance
  BY DEF IInv, TypeOK
<1> HIDE DEF open, needed, age
<1>3. QED
  BY <1>1, <1>2 DEF AssessmentInstance

\* "Grade saved answers" starts gradeAssessmentInstance.
LEMMA StartGradingStep ==
  ASSUME IInv, NEW w \in Workers, NEW override \in BOOLEAN, StartGrading(w, override)
  PROVE  IInv'
BY ExamWorkerTypes, Queues, HandlerStep DEF StartGrading

\* A request that closes the assessment instance.
LEMMA FinishStep ==
  ASSUME IInv, NEW w \in Workers, Finish(w)
  PROVE  IInv'
BY CloseTypes, ExamWorkerTypes, Queues, InstanceStep DEF Finish

\* autoFinishExams finds the assessment instance.
LEMMA CronPickStep ==
  ASSUME IInv, CronPick
  PROVE  IInv'
<1>1. PICK pc \in {"close", "variants"} :
        worker' = [worker EXCEPT ![Cron] = ExamWorker(pc, TRUE)]
  BY DEF CronPick
<1>2. QED
  BY <1>1, ExamWorkerTypes, Queues, HandlerStep DEF CronPick

\* autoFinishExams closes it, unless somebody did.
LEMMA CronCloseStep ==
  ASSUME IInv, CronClose
  PROVE  IInv'
<1>1. worker[Cron] \in Worker /\ HandlerReferences(worker[Cron]) /\ Cron \in Processes
  BY Queues
<1>2. CASE ai.open
  <2> DEFINE me == [worker[Cron] EXCEPT !.pc = "variants"]
  <2>1. Close /\ worker' = [worker EXCEPT ![Cron] = me]
    BY <1>2 DEF CronClose, IInv, TypeOK
  <2>2. me \in Worker /\ HandlerReferences(me)
    BY <1>1 DEF Worker, WorkerStates, HandlerReferences
  <2> HIDE DEF me
  <2>3. QED
    BY <1>1, <1>2, <2>1, <2>2, CloseTypes, InstanceStep DEF CronClose
<1>3. CASE ~ai.open
  BY <1>1, <1>3, IdleTypes, InstanceStep DEF CronClose, Close, IInv, TypeOK
<1>4. QED
  BY <1>2, <1>3

\* gradeAssessmentInstance goes through variants that exist.
LEMMA SelectVariantsStep ==
  ASSUME IInv, NEW w \in Processes, SelectVariants(w)
  PROVE  IInv'
<1> DEFINE old == [worker[w] EXCEPT !.todo = LatestVariants]
           me  == NextVariant(old)
<1>1. worker[w] \in Worker /\ LatestVariants \subseteq MadeVariants
  BY Queues DEF LatestVariants
<1>2. old \in Worker /\ old.todo \subseteq MadeVariants
  BY <1>1 DEF Worker, MadeVariants
<1>3. worker' = [worker EXCEPT ![w] = me]
  BY DEF SelectVariants, IInv, TypeOK
<1> HIDE DEF old
<1>4. me \in Worker /\ HandlerReferences(me)
  BY <1>2, NextVariantTypes DEF IInv
<1> HIDE DEF me
<1>5. QED
  BY <1>3, <1>4, Queues, HandlerStep DEF SelectVariants

\* gradeAssessmentInstance is done.
LEMMA UnsetGradingNeededStep ==
  ASSUME IInv, NEW w \in Processes, UnsetGradingNeeded(w)
  PROVE  IInv'
<1>1. ai' \in AssessmentInstance
  BY DEF UnsetGradingNeeded, IInv, TypeOK, AssessmentInstance
<1>2. QED
  BY <1>1, IdleTypes, InstanceStep DEF UnsetGradingNeeded

\* A handler forgets what it held.
LEMMA CrashStep ==
  ASSUME IInv, NEW w \in Processes, Crash(w)
  PROVE  IInv'
<1>1. crashes' \in 0..MaxCrashes
  BY GradingAssumption, Queues DEF Crash
<1>2. QED
  BY <1>1, IdleTypes, Queues, HandlerStep DEF Crash

\* Time passes for autoFinishExams.
LEMMA AgeStep ==
  ASSUME IInv, Age
  PROVE  IInv'
<1>1. ai' \in AssessmentInstance
  BY DEF Age, IInv, TypeOK, AssessmentInstance
<1>2. QED
  BY <1>1, Queues, InstanceStep DEF Age

\* Time passes for the grade rate limit.
LEMMA GradeRatePassesStep ==
  ASSUME IInv, GradeRatePasses
  PROVE  IInv'
<1>1. job' = [j \in Jobs |-> [job[j] EXCEPT !.rate = "past"]]
  BY DEF GradeRatePasses
<1>2. job' \in [Jobs -> Job] /\ \A j \in Jobs : job'[j].sub = job[j].sub
  <2>1. ASSUME NEW j \in Jobs
        PROVE  job'[j] \in Job /\ job'[j].sub = job[j].sub
    <3>1. job[j] \in Job
      BY DEF IInv, TypeOK
    <3>2. job'[j] = [job[j] EXCEPT !.rate = "past"]
      BY <1>1
    <3>3. QED
      BY <3>1, <3>2 DEF Job
  <2>2. QED
    BY <1>1, <2>1
<1>3. Inserted' = Inserted /\ Saved' = Saved
  BY <1>2 DEF GradeRatePasses, Inserted, Saved
<1>4. RowTypes' /\ RowsKept /\ AllAttemptsLeft'
  BY <1>2 DEF GradeRatePasses, IInv, TypeOK, RowTypes, RowsKept, Inserted, AllAttemptsLeft
<1>5. HandlerReferences(worker[Cron])'
  BY <1>4, Queues, KeptReferences DEF GradeRatePasses
<1>6. QED
  BY <1>3, <1>4, <1>5, Queues, OneHandlerStep DEF GradeRatePasses, HandlerReferences

\* Every request, result, crash, cron step and passing of time keeps the
\* inductive invariant.
THEOREM NextInvariant == IInv /\ [Next]_vars => IInv'
<1> SUFFICES ASSUME IInv, [Next]_vars PROVE IInv'
  OBVIOUS
<1> Cron \in Processes /\ Workers \subseteq Processes
  BY Queues
<1>1. CASE \E q \in Questions : CreateVariant(q)
  BY <1>1, CreateVariantStep
<1>2. CASE \E v \in Variants, gradable \in BOOLEAN, credit \in Credits :
             SaveSubmission(v, gradable, credit)
  BY <1>2, SaveSubmissionStep
<1>3. CASE \E v \in Variants, gradable \in BOOLEAN, credit \in Credits :
             \E w \in Workers : SaveAndGrade(w, v, gradable, credit)
  BY <1>3, SaveAndGradeStep
<1>4. CASE \E w \in Workers : Finish(w)
  BY <1>4, FinishStep
<1>5. CASE \E w \in Workers : \E override \in BOOLEAN : StartGrading(w, override)
  BY <1>5, StartGradingStep
<1>6. ASSUME NEW w \in Processes, Proceed(w)
      PROVE  IInv'
  <2>1. CASE Select(w)
    BY <2>1, SelectStep
  <2>2. CASE CheckRate(w)
    BY <2>2, CheckRateStep
  <2>3. CASE InsertJob(w)
    BY <2>3, InsertJobStep
  <2>4. CASE GradeInternal(w)
    BY <2>4, GradeInternalStep
  <2>5. CASE BeginExternal(w)
    BY <2>5, BeginExternalStep
  <2>6. CASE SelectVariants(w)
    BY <2>6, SelectVariantsStep
  <2>7. CASE UnsetGradingNeeded(w)
    BY <2>7, UnsetGradingNeededStep
  <2>8. QED
    BY <1>6, <2>1, <2>2, <2>3, <2>4, <2>5, <2>6, <2>7 DEF Proceed
<1>7. CASE \E w \in Processes : Crash(w)
  BY <1>7, CrashStep
<1>8. CASE CronPick
  BY <1>8, CronPickStep
<1>9. CASE CronClose
  BY <1>9, CronCloseStep
<1>10. CASE \E j \in Jobs : GradeExternally(j)
  BY <1>10, GradeExternallyStep
<1>11. CASE \E m \in results : ProcessResult(m)
  BY <1>11, ProcessResultStep
<1>12. CASE Age
  BY <1>12, AgeStep
<1>13. CASE GradeRatePasses
  BY <1>13, GradeRatePassesStep
<1>14. CASE UNCHANGED vars
  <2>1. UNCHANGED rows /\ UNCHANGED <<worker, atGrader, results, crashes>>
    BY <1>14 DEF vars, rows
  <2>2. QED
    BY <2>1, Queues, HandlerStep
<1>15. QED
  BY <1>1, <1>2, <1>3, <1>4, <1>5, <1>6, <1>7, <1>8, <1>9, <1>10, <1>11, <1>12, <1>13, <1>14
  DEF Next

\* The inductive invariant holds in every reachable state.
THEOREM Invariance == Spec => []IInv
BY InitInvariant, NextInvariant, PTL DEF Spec

\* However requests, results, crashes and the cron job interleave, every row,
\* queue and handler keeps to its type.
THEOREM TypeCorrect == Spec => []TypeOK
<1>1. IInv => TypeOK
  BY DEF IInv
<1>2. QED
  BY <1>1, Invariance, PTL

\* An open exam question always has a next entry in its points list, as
\* instance_questions_points_exam assumes when it reads points_list[1].
THEOREM PointsListNeverEmpty == Spec => []AttemptWithinList
<1>1. IInv => AttemptWithinList
  BY DEF IInv, AllAttemptsLeft, AttemptsLeft, AttemptWithinList
<1>2. QED
  BY <1>1, Invariance, PTL

-----------------------------------------------------------------------------
(* The grading jobs: what requests, results and the rate limits do to them. *)

\* A step that cancels and inserts no job.
JobsKept ==
  /\ Inserted' = Inserted
  /\ Outstanding' \subseteq Outstanding
  /\ \A j \in Inserted : job'[j].sub = job[j].sub /\ job'[j].canceled = job[j].canceled
  /\ \A s \in Saved : sub'[s].variant = sub[s].variant /\ sub'[s].requested = sub[s].requested
  /\ \A s \in Saved' \ Saved : ~sub'[s].requested /\ sub'[s].score = Null

JobsInv == IInv /\ OneOutstandingJob /\ RequestsBacked

\* Steps that touch neither submissions nor jobs.
LEMMA SameJobs ==
  ASSUME IInv, UNCHANGED <<sub, job>>
  PROVE  JobsKept
BY DEF JobsKept, Saved, Inserted, Outstanding

\* Storing a result decides one waiting job and nothing else.
LEMMA UpdateAfterGradingJobs ==
  ASSUME IInv, NEW j \in Inserted, NEW gradable \in BOOLEAN, NEW score \in Scores,
         UpdateAfterGrading(j, gradable, score)
  PROVE  /\ JobsKept
         /\ \A i \in Inserted : job[i].graded \/ job[i].canceled => job'[i] = job[i]
<1>1. TypeOK /\ RowsKept /\ Saved' = Saved /\ Inserted' = Inserted
  BY UpdateAfterGradingTypes DEF IInv
<1>2. CASE UNCHANGED rows
  BY <1>1, <1>2 DEF rows, JobsKept, RowsKept, Outstanding
<1>3. CASE ~ResultUnneeded(j) /\ StoreResult(j, gradable, score)
  <2> DEFINE s == job[j].sub
             kept == IF gradable THEN score ELSE Null
             graded == [job[j] EXCEPT !.graded = TRUE, !.gradable = gradable, !.score = kept]
             scored == [sub[s] EXCEPT !.gradable = gradable, !.score = kept]
  <2>1. j \in Jobs /\ s \in Submissions /\ job[j] \in Job /\ sub[s] \in Submission
    BY <1>1 DEF IInv, References, Inserted, Saved, TypeOK
  <2>2. job' = [job EXCEPT ![j] = graded] /\ sub' = [sub EXCEPT ![s] = scored]
    BY <1>1, <1>3, <2>1 DEF StoreResult, TypeOK
  <2>3. scored.requested = sub[s].requested
    BY <2>1 DEF Submission
  <2>4. graded.canceled = job[j].canceled /\ graded.graded /\ graded.sub = job[j].sub
    BY <2>1 DEF Job
  <2> HIDE DEF graded, scored, s, kept
  <2>5. /\ \A x \in Submissions : sub'[x].requested = sub[x].requested
        /\ \A i \in Jobs : i # j => job'[i] = job[i]
        /\ job'[j] = graded
    BY <1>1, <2>1, <2>2, <2>3 DEF TypeOK
  <2>6. Outstanding' \subseteq Outstanding
    BY <1>1, <2>4, <2>5 DEF Outstanding, Inserted
  <2>7. \A i \in Inserted : job'[i].canceled = job[i].canceled
    BY <2>4, <2>5 DEF Inserted
  <2>8. \A i \in Inserted : job[i].graded \/ job[i].canceled => job'[i] = job[i]
    BY <1>3, <2>5 DEF ResultUnneeded, Inserted
  <2>9. QED
    BY <1>1, <2>5, <2>6, <2>7, <2>8 DEF JobsKept, RowsKept, Saved
<1>4. QED
  BY <1>2, <1>3 DEF UpdateAfterGrading

\* Time only changes how a job counts for the grade rate limit.
LEMMA GradeRatePassesJobs ==
  ASSUME IInv, GradeRatePasses
  PROVE  /\ JobsKept
         /\ \A j \in Inserted : [job'[j] EXCEPT !.rate = job[j].rate] = job[j]
<1>1. ASSUME NEW j \in Jobs
      PROVE  /\ job'[j].sub = job[j].sub /\ job'[j].graded = job[j].graded
             /\ job'[j].canceled = job[j].canceled
             /\ [job'[j] EXCEPT !.rate = job[j].rate] = job[j]
  <2>1. job[j] \in Job /\ job'[j] = [job[j] EXCEPT !.rate = "past"]
    BY DEF GradeRatePasses, IInv, TypeOK
  <2>2. QED
    BY <2>1 DEF Job
<1>2. Inserted' = Inserted /\ Outstanding' = Outstanding
  BY <1>1 DEF Inserted, Outstanding
<1>3. QED
  BY <1>1, <1>2 DEF GradeRatePasses, JobsKept, Inserted, Saved

\* The ways a step can touch the jobs.
LEMMA JobSteps ==
  ASSUME IInv, [Next]_vars
  PROVE  \/ UNCHANGED job /\ JobsKept /\ \A s \in Saved : sub'[s] = sub[s]
         \/ \E j \in Inserted, gradable \in BOOLEAN, score \in Scores :
              UpdateAfterGrading(j, gradable, score)
         \/ GradeRatePasses
         \/ \E w \in Processes : InsertJob(w)
<1> DEFINE Goal == \/ UNCHANGED job /\ JobsKept /\ \A s \in Saved : sub'[s] = sub[s]
                   \/ \E j \in Inserted, gradable \in BOOLEAN, score \in Scores :
                        UpdateAfterGrading(j, gradable, score)
                   \/ GradeRatePasses
                   \/ \E w \in Processes : InsertJob(w)
<1> SUFFICES Goal
  OBVIOUS
<1>1. ASSUME NEW s \in Submissions, NEW v \in Variants, NEW gradable \in BOOLEAN,
             NEW credit \in Credits, InsertSubmission(s, v, gradable, credit)
      PROVE  Goal
  <2>1. RowsKept /\ Saved' = Saved \cup {s} /\ ~sub'[s].requested /\ job' = job
        /\ sub'[s].score = Null
        /\ \A x \in Saved : sub'[x] = sub[x]
    BY <1>1, InsertSubmissionTypes
  <2>2. QED
    BY <2>1 DEF JobsKept, RowsKept, Inserted, Outstanding
<1>2. CASE UNCHANGED <<sub, job>>
  BY <1>2, SameJobs
<1>3. ASSUME NEW w \in Processes, GradeInternal(w)
      PROVE  Goal
  <2>1. worker[w].job \in Inserted
    BY <1>3, Queues DEF GradeInternal, HandlerReferences
  <2>2. QED
    BY <1>3, <2>1 DEF GradeInternal
<1>4. ASSUME NEW m \in results, ProcessResult(m)
      PROVE  Goal
  <2> DEFINE gradable == ResultGradable(m.raw)
             score == IF gradable THEN ResultScore(m.raw) ELSE 0
  <2>1. gradable \in BOOLEAN /\ score \in Scores
    BY ScoreUnitAssumption DEF ResultGradable, Scores
  <2>2. UpdateAfterGrading(m.job, gradable, score) /\ m.job \in Inserted
    BY <1>4, Queues DEF ProcessResult
  <2> HIDE DEF gradable, score
  <2>3. QED
    BY <2>1, <2>2
<1> HIDE DEF Goal
<1>5. CASE \E v \in Variants, gradable \in BOOLEAN, credit \in Credits :
             \/ SaveSubmission(v, gradable, credit)
             \/ \E w \in Workers : SaveAndGrade(w, v, gradable, credit)
  BY <1>1, <1>5 DEF SaveSubmission, SaveAndGrade
<1>6. ASSUME NEW w \in Processes, Proceed(w)
      PROVE  Goal
  <2>1. CASE InsertJob(w)
    BY <2>1 DEF Goal
  <2>2. CASE GradeInternal(w)
    BY <1>3, <2>2
  <2>3. CASE \/ Select(w) \/ CheckRate(w) \/ BeginExternal(w)
             \/ SelectVariants(w) \/ UnsetGradingNeeded(w)
    BY <1>2, <2>3 DEF Select, CheckRate, BeginExternal, SelectVariants, UnsetGradingNeeded, rows
  <2>4. QED
    BY <1>6, <2>1, <2>2, <2>3 DEF Proceed
<1>7. CASE \/ \E q \in Questions : CreateVariant(q)
           \/ \E w \in Workers : Finish(w) \/ \E override \in BOOLEAN : StartGrading(w, override)
           \/ \E w \in Processes : Crash(w)
           \/ CronPick \/ CronClose
           \/ \E j \in Jobs : GradeExternally(j)
           \/ Age \/ UNCHANGED vars
  BY <1>2, <1>7 DEF CreateVariant, Finish, StartGrading, Crash, CronPick, CronClose,
       GradeExternally, Age, rows, vars
<1>8. CASE GradeRatePasses
  BY <1>8 DEF Goal
<1>9. QED
  BY <1>4, <1>5, <1>6, <1>7, <1>8 DEF Next

-----------------------------------------------------------------------------
(* One waiting job of a variant, and every mark backed by a job. *)

\* Without a new job, nothing new waits.
LEMMA KeptJobsInvariant ==
  ASSUME JobsInv, JobsKept
  PROVE  OneOutstandingJob' /\ RequestsBacked'
<1>1. /\ \A j \in Inserted : job[j].sub \in Saved /\ job'[j].sub = job[j].sub
      /\ \A s \in Saved : sub'[s].variant = sub[s].variant
      /\ Outstanding \subseteq Inserted
  BY DEF JobsInv, IInv, References, JobsKept, Outstanding
<1>2. OneOutstandingJob'
  BY <1>1 DEF JobsInv, OneOutstandingJob, JobsKept
<1>3. RequestsBacked'
  BY <1>1 DEF JobsInv, RequestsBacked, JobsKept
<1>4. QED
  BY <1>2, <1>3

\* grading_jobs_insert cancels and unmarks what waited for the variant before.
LEMMA InsertJobInvariant ==
  ASSUME JobsInv, NEW w \in Processes, InsertJob(w)
  PROVE  OneOutstandingJob' /\ RequestsBacked'
<1> DEFINE me   == worker[w]
           dead == CanceledBy(me.v)
<1>1. PICK j \in Jobs :
        /\ j \notin Inserted /\ Inserted' = Inserted \cup {j}
        /\ RowsKept /\ Saved' = Saved /\ me.sub \in SubmissionsOf(me.v)
        /\ job'[j].sub = me.sub /\ ~job'[j].graded /\ ~job'[j].canceled
        /\ \A i \in Inserted \ dead : job'[i] = job[i]
        /\ \A i \in dead : i \in Inserted /\ job'[i] = [job[i] EXCEPT !.canceled = TRUE]
        /\ \A s \in Submissions : sub'[s].requested = (s = me.sub \/ StillRequested(s, dead))
  BY InsertJobTypes DEF JobsInv
<1>2. /\ \A i \in Inserted : job[i] \in Job /\ job[i].sub \in Saved /\ job'[i].sub = job[i].sub
      /\ \A s \in Saved : sub'[s].variant = sub[s].variant /\ s \in Submissions
      /\ me.sub \in Saved /\ sub[me.sub].variant = me.v
      /\ Outstanding \subseteq Inserted
  BY <1>1 DEF JobsInv, IInv, TypeOK, References, RowsKept, Inserted, Saved, SubmissionsOf, Outstanding
<1>3. ASSUME NEW i \in dead
      PROVE  job'[i].canceled
  <2>1. i \in Inserted /\ job'[i] = [job[i] EXCEPT !.canceled = TRUE] /\ job[i] \in Job
    BY <1>1, <1>2
  <2>2. QED
    BY <2>1 DEF Job
<1>4. \A i \in Outstanding' : i = j \/ (i \in Outstanding /\ i \notin dead /\ job'[i] = job[i])
  BY <1>1, <1>3 DEF Outstanding
<1>5. \A i \in Outstanding : i \notin dead => sub[job[i].sub].variant # me.v
  BY DEF CanceledBy
<1> HIDE DEF dead
<1>6. OneOutstandingJob'
  BY <1>1, <1>2, <1>4, <1>5, SMTT(30) DEF JobsInv, OneOutstandingJob
<1>7. ASSUME NEW i \in Outstanding'
      PROVE  sub'[job'[i].sub].requested
  <2>1. CASE i = j
    BY <1>1, <1>2, <2>1
  <2>2. CASE i # j
    <3>1. i \in Outstanding /\ i \notin dead /\ job'[i] = job[i] /\ job[i].sub \in Saved
      BY <1>2, <1>4, <2>2
    <3>2. \A k \in dead : job[k].sub # job[i].sub
      BY <1>5, <3>1 DEF dead, CanceledBy
    <3>3. sub[job[i].sub].requested
      BY <3>1 DEF JobsInv, RequestsBacked
    <3>4. QED
      <4>1. StillRequested(job[i].sub, dead)
        BY <3>2, <3>3 DEF StillRequested
      <4>2. job[i].sub \in Submissions
        BY <1>2, <3>1
      <4>3. sub'[job[i].sub].requested
        BY <1>1, <4>1, <4>2
      <4>4. QED
        BY <3>1, <4>3
  <2>3. QED
    BY <2>1, <2>2
<1>8. ASSUME NEW s \in Saved, sub'[s].requested
      PROVE  \E i \in Inserted' : job'[i].sub = s /\ ~job'[i].canceled
  <2>1. CASE s = me.sub
    BY <1>1, <2>1
  <2>2. CASE s # me.sub
    <3>1. StillRequested(s, dead)
      BY <1>1, <1>2, <1>8, <2>2
    <3>2. PICK i \in Inserted : job[i].sub = s /\ ~job[i].canceled
      BY <3>1 DEF StillRequested, JobsInv, RequestsBacked
    <3>3. i \notin dead
      BY <3>1, <3>2 DEF StillRequested
    <3>4. QED
      BY <1>1, <3>2, <3>3
  <2>3. QED
    BY <2>1, <2>2
<1>9. QED
  BY <1>1, <1>6, <1>7, <1>8 DEF RequestsBacked

\* The invariant of the jobs holds in every reachable state.
THEOREM JobsInvariance == Spec => []JobsInv
<1>1. Init => JobsInv
  <2>1. Init => Inserted = {} /\ Saved = {}
    BY DEF Init, Inserted, Saved, NoJob, NoSubmission
  <2>2. QED
    BY <2>1, InitInvariant DEF JobsInv, OneOutstandingJob, RequestsBacked, Outstanding
<1>2. JobsInv /\ [Next]_vars => JobsInv'
  <2> SUFFICES ASSUME JobsInv, [Next]_vars PROVE JobsInv'
    OBVIOUS
  <2>1. IInv /\ IInv'
    BY NextInvariant DEF JobsInv
  <2>2. JobsKept \/ \E w \in Processes : InsertJob(w)
    BY <2>1, JobSteps, UpdateAfterGradingJobs, GradeRatePassesJobs
  <2>3. QED
    BY <2>1, <2>2, KeptJobsInvariant, InsertJobInvariant DEF JobsInv
<1>3. QED
  BY <1>1, <1>2, PTL DEF Spec

\* However requests and crashes interleave, at most one job of a variant waits
\* for a result.
THEOREM OneJobWaits == Spec => []OneOutstandingJob
<1>1. JobsInv => OneOutstandingJob
  BY DEF JobsInv
<1>2. QED
  BY <1>1, JobsInvariance, PTL

\* A waiting job's submission is marked as requested, and no mark is left
\* without a job that was not canceled.
THEOREM MarksAreBacked == Spec => []RequestsBacked
<1>1. JobsInv => RequestsBacked
  BY DEF JobsInv
<1>2. QED
  BY <1>1, JobsInvariance, PTL

-----------------------------------------------------------------------------
\* A result that comes late, twice or out of order changes no job that was
\* graded or canceled.
THEOREM LateResultsChangeNothing == Spec => DecidedJobsFinal
<1> DEFINE Final == \A j \in Inserted :
             (job[j].graded \/ job[j].canceled) =>
               [job'[j] EXCEPT !.rate = job[j].rate] = job[j]
<1>1. ASSUME IInv, [Next]_vars
      PROVE  Final
  <2>1. \A j \in Inserted : job[j] \in Job /\ [job[j] EXCEPT !.rate = job[j].rate] = job[j]
    BY <1>1 DEF IInv, TypeOK, Inserted, Job
  <2>2. CASE UNCHANGED job
    BY <2>1, <2>2
  <2>3. ASSUME NEW j \in Inserted, NEW gradable \in BOOLEAN, NEW score \in Scores,
               UpdateAfterGrading(j, gradable, score)
        PROVE  Final
    BY <1>1, <2>1, <2>3, UpdateAfterGradingJobs
  <2>4. CASE GradeRatePasses
    BY <1>1, <2>4, GradeRatePassesJobs
  <2>5. ASSUME NEW w \in Processes, InsertJob(w)
        PROVE  Final
    <3>1. \A i \in Inserted \ CanceledBy(worker[w].v) : job'[i] = job[i]
      BY <1>1, <2>5, InsertJobTypes
    <3>2. \A i \in CanceledBy(worker[w].v) : ~job[i].graded /\ ~job[i].canceled
      BY DEF CanceledBy, Outstanding
    <3>3. QED
      BY <2>1, <3>1, <3>2
  <2> HIDE DEF Final
  <2>6. QED
    BY <1>1, <2>2, <2>3, <2>4, <2>5, JobSteps
<1>2. IInv /\ [Next]_vars => [Final]_vars
  <2> HIDE DEF Final
  <2>1. QED
    BY <1>1
<1>3. QED
  BY <1>2, Invariance, PTL DEF Spec, DecidedJobsFinal
-----------------------------------------------------------------------------
(* Submissions are graded in the order in which they were saved. *)

\* A job is a reason to ignore older submissions until a job of its submission
\* is canceled.
MarksStay == \A j \in Inserted :
  (\A i \in Inserted : job[i].sub = job[j].sub => ~job[i].canceled) => sub[job[j].sub].requested

ScoresFromJobs == \A s \in Saved : sub[s].score # Null => \E j \in Inserted : job[j].sub = s

OrderInv == JobsInv /\ MarksStay /\ ScoresFromJobs

\* A score changes only where a result is needed.
LEMMA ScoreSteps ==
  ASSUME IInv, [Next]_vars, NEW s \in Saved, sub'[s].score # sub[s].score
  PROVE  /\ \E j \in Inserted : job[j].sub = s
         /\ ~NewerRequested(s)
         /\ JobsKept
<1>1. ~GradeRatePasses
  BY DEF GradeRatePasses
<1>2. ASSUME NEW w \in Processes
      PROVE  ~InsertJob(w)
  <2>1. s \in Submissions
    BY DEF Saved
  <2>2. QED
    BY <2>1, InsertJobTypes
<1>3. PICK j \in Inserted, gradable \in BOOLEAN, score \in Scores :
        UpdateAfterGrading(j, gradable, score)
  BY <1>1, <1>2, JobSteps
<1>4. ~ResultUnneeded(j) /\ StoreResult(j, gradable, score)
  BY <1>3 DEF UpdateAfterGrading, rows
<1>5. job[j].sub = s
  BY <1>4 DEF StoreResult, IInv, TypeOK, Saved
<1>6. QED
  BY <1>3, <1>4, <1>5, UpdateAfterGradingJobs DEF ResultUnneeded

\* Steps that insert no job.
LEMMA KeptOrderInvariant ==
  ASSUME OrderInv, [Next]_vars, JobsKept
  PROVE  MarksStay' /\ ScoresFromJobs'
<1>1. /\ \A j \in Inserted : job[j].sub \in Saved /\ job'[j].sub = job[j].sub
      /\ \A j \in Inserted : job'[j].canceled = job[j].canceled
      /\ Inserted' = Inserted
      /\ \A s \in Saved : sub'[s].requested = sub[s].requested
  BY DEF OrderInv, JobsInv, IInv, References, JobsKept
<1>2. MarksStay'
  BY <1>1 DEF OrderInv, MarksStay
<1>3. ASSUME NEW s \in Saved', sub'[s].score # Null
      PROVE  \E j \in Inserted : job[j].sub = s
  <2>1. s \in Saved
    BY <1>3 DEF JobsKept
  <2>2. CASE sub'[s].score = sub[s].score
    BY <1>3, <2>1, <2>2 DEF OrderInv, ScoresFromJobs
  <2>3. CASE sub'[s].score # sub[s].score
    BY <2>1, <2>3, ScoreSteps DEF OrderInv, JobsInv
  <2>4. QED
    BY <2>2, <2>3
<1>4. QED
  BY <1>1, <1>2, <1>3 DEF ScoresFromJobs

\* A new job marks its submission; a mark is only taken away with a canceled job.
LEMMA InsertJobOrderInvariant ==
  ASSUME OrderInv, NEW w \in Processes, InsertJob(w)
  PROVE  MarksStay' /\ ScoresFromJobs'
<1> DEFINE me   == worker[w]
           dead == CanceledBy(me.v)
<1>1. PICK j \in Jobs :
        /\ j \notin Inserted /\ Inserted' = Inserted \cup {j}
        /\ RowsKept /\ Saved' = Saved /\ me.sub \in SubmissionsOf(me.v)
        /\ job'[j].sub = me.sub /\ ~job'[j].canceled
        /\ \A i \in Inserted \ dead : job'[i] = job[i]
        /\ \A i \in dead : i \in Inserted /\ job'[i] = [job[i] EXCEPT !.canceled = TRUE]
        /\ \A s \in Submissions : sub'[s].requested = (s = me.sub \/ StillRequested(s, dead))
        /\ \A s \in Submissions : sub'[s].score = sub[s].score
  BY InsertJobTypes DEF OrderInv, JobsInv
<1>2. /\ \A i \in Inserted : job[i] \in Job /\ job[i].sub \in Saved /\ job'[i].sub = job[i].sub
      /\ \A s \in Saved : s \in Submissions
      /\ me.sub \in Saved
  BY <1>1 DEF OrderInv, JobsInv, IInv, TypeOK, References, RowsKept, Inserted, Saved, SubmissionsOf
<1>3. ASSUME NEW i \in dead
      PROVE  job'[i].canceled
  <2>1. i \in Inserted /\ job'[i] = [job[i] EXCEPT !.canceled = TRUE] /\ job[i] \in Job
    BY <1>1, <1>2
  <2>2. QED
    BY <2>1 DEF Job
<1> HIDE DEF dead
<1>4. ASSUME NEW i \in Inserted',
             \A k \in Inserted' : job'[k].sub = job'[i].sub => ~job'[k].canceled
      PROVE  sub'[job'[i].sub].requested
  <2>1. CASE job'[i].sub = me.sub
    BY <1>1, <1>2, <2>1
  <2>2. CASE job'[i].sub # me.sub
    <3>1. i \in Inserted /\ job'[i].sub = job[i].sub /\ job[i].sub \in Submissions
      BY <1>1, <1>2, <2>2
    <3>2. \A k \in Inserted : job[k].sub = job[i].sub => k \notin dead /\ ~job[k].canceled
      BY <1>1, <1>2, <1>3, <1>4, <3>1
    <3>3. \A k \in dead : job[k].sub # job[i].sub
      BY <1>1, <3>2
    <3>4. sub[job[i].sub].requested
      BY <3>1, <3>2 DEF OrderInv, MarksStay
    <3>5. StillRequested(job[i].sub, dead)
      BY <3>3, <3>4 DEF StillRequested
    <3>6. sub'[job[i].sub].requested
      BY <1>1, <3>1, <3>5
    <3>7. QED
      BY <3>1, <3>6
  <2>3. QED
    BY <2>1, <2>2
<1>5. ScoresFromJobs'
  <2>1. ASSUME NEW s \in Saved, sub[s].score # Null
        PROVE  \E i \in Inserted' : job'[i].sub = s
    BY <1>1, <1>2, <2>1 DEF OrderInv, ScoresFromJobs
  <2>2. QED
    BY <1>1, <1>2, <2>1 DEF ScoresFromJobs
<1>6. QED
  BY <1>4, <1>5 DEF MarksStay

THEOREM OrderInvariance == Spec => []OrderInv
<1>1. Init => OrderInv
  <2>1. Init => Inserted = {} /\ Saved = {}
    BY DEF Init, Inserted, Saved, NoJob, NoSubmission
  <2>2. QED
    BY <2>1, InitInvariant DEF OrderInv, JobsInv, OneOutstandingJob, RequestsBacked, Outstanding,
       MarksStay, ScoresFromJobs
<1>2. OrderInv /\ [Next]_vars /\ JobsInv' => OrderInv'
  <2> SUFFICES ASSUME OrderInv, [Next]_vars, JobsInv' PROVE OrderInv'
    OBVIOUS
  <2>1. IInv
    BY DEF OrderInv, JobsInv
  <2>2. JobsKept \/ \E w \in Processes : InsertJob(w)
    BY <2>1, JobSteps, UpdateAfterGradingJobs, GradeRatePassesJobs
  <2>3. QED
    BY <2>2, KeptOrderInvariant, InsertJobOrderInvariant DEF OrderInv
<1>3. QED
  BY <1>1, <1>2, JobsInvariance, PTL DEF Spec

\* Whatever order results arrive in, an older submission gets no score once a
\* newer one of its question has one, as long as no job of the newer is canceled.
THEOREM OlderResultsIgnored == Spec => GradedInOrder
<1> DEFINE Ordered == \A s, t \in Saved :
             (/\ s < t /\ QuestionOf(s) = QuestionOf(t) /\ sub[t].score # Null
              /\ ~\E j \in Inserted : job[j].sub = t /\ job[j].canceled) =>
               sub'[s].score = sub[s].score
<1>1. ASSUME OrderInv, [Next]_vars
      PROVE  Ordered
  <2> SUFFICES ASSUME NEW s \in Saved, NEW t \in Saved,
                      s < t, QuestionOf(s) = QuestionOf(t), sub[t].score # Null,
                      ~\E j \in Inserted : job[j].sub = t /\ job[j].canceled,
                      sub'[s].score # sub[s].score
               PROVE  FALSE
    OBVIOUS
  <2>1. PICK j \in Inserted : job[j].sub = t
    BY <1>1 DEF OrderInv, ScoresFromJobs
  <2>2. sub[t].requested
    BY <1>1, <2>1 DEF OrderInv, MarksStay
  <2>3. NewerRequested(s)
    BY <2>2 DEF NewerRequested, Saved, Submissions
  <2>4. QED
    BY <1>1, <2>3, ScoreSteps DEF OrderInv, JobsInv
<1>2. OrderInv /\ [Next]_vars => [Ordered]_vars
  <2> HIDE DEF Ordered
  <2>1. QED
    BY <1>1
<1>3. QED
  BY <1>2, OrderInvariance, PTL DEF Spec, GradedInOrder

-----------------------------------------------------------------------------
(* The points rules: grading a question takes nothing away from it. *)


LEMMA ProductMonotone ==
  ASSUME NEW a \in Nat, NEW b \in Int, NEW c \in Int, b <= c
  PROVE  a * b <= a * c /\ a * b \in Int /\ a * c \in Int
<1>1. PICK d \in Nat : c = b + d
  <2>1. c - b \in Nat /\ c = b + (c - b)
    OBVIOUS
  <2>2. QED
    BY <2>1
<1>2. a * c = a * b + a * d /\ a * d \in Nat
  BY <1>1
<1>3. QED
  BY <1>2

LEMMA QuotientBound ==
  ASSUME NEW u \in Nat \ {0}, NEW m \in Nat, NEW v \in Int, m * u <= v
  PROVE  v \div u >= m /\ v \div u \in Int
<1> DEFINE q == v \div u
<1>1. q \in Int /\ v = u * q + (v % u) /\ v % u < u /\ v % u \in Int
  OBVIOUS
<1> HIDE DEF q
<1>2. ASSUME q < m PROVE FALSE
  <2>1. u * (q + 1) <= u * m
    BY <1>1, <1>2, ProductMonotone
  <2>2. u * (q + 1) = u * q + u /\ u * m = m * u
    BY <1>1
  <2>3. QED
    BY <1>1, <2>1, <2>2
<1>3. QED
  BY <1>1, <1>2 DEF q

\* The points list of an exam does not rise.
LEMMA ListFalls ==
  ASSUME NEW aq \in AssessmentQuestion, aq.type = "Exam"
  PROVE  \A i \in 1..Len(aq.list) :
           /\ aq.list[i] \in Nat /\ aq.list[i] - aq.maxManual \in Nat
           /\ aq.list[i] - aq.maxManual <= aq.maxAuto
<1>1. /\ aq.list \in Seq(Nat) /\ Len(aq.list) > 0 /\ aq.maxManual \in Nat
      /\ aq.maxAuto = aq.list[1] - aq.maxManual
      /\ \A i \in 1..Len(aq.list) : aq.maxManual <= aq.list[i]
      /\ \A i \in 2..Len(aq.list) : aq.list[i] <= aq.list[i - 1]
  BY DEF AssessmentQuestion
<1> DEFINE Bad == {i \in 1..Len(aq.list) : ~(aq.list[i] <= aq.list[1])}
<1>2. ASSUME Bad # {} PROVE FALSE
  <2>1. Bad \subseteq Nat
    BY <1>1
  <2>2. PICK i \in Bad : \A k \in Bad : i <= k
    <3> HIDE DEF Bad
    <3>1. QED
      BY <1>2, <2>1, SmallestNat
  <2>3. i \in 2..Len(aq.list) /\ i - 1 \in 1..Len(aq.list) /\ i - 1 \notin Bad
    <3>1. i \in 1..Len(aq.list) /\ Len(aq.list) \in Nat /\ i # 1
      BY <1>1, <2>2
    <3>2. i \in 2..Len(aq.list) /\ i - 1 \in 1..Len(aq.list) /\ i - 1 < i
      BY <3>1
    <3>3. \A k \in Bad : ~(k < i)
      BY <2>1, <2>2
    <3>4. QED
      BY <3>2, <3>3
  <2>4. aq.list[i] \in Nat /\ aq.list[i - 1] \in Nat /\ aq.list[1] \in Nat
    BY <1>1, <2>3, SMTT(30)
  <2>5. aq.list[i - 1] <= aq.list[1] /\ aq.list[i] <= aq.list[i - 1]
    BY <1>1, <2>3
  <2>6. QED
    BY <2>2, <2>4, <2>5
<1>3. \A i \in 1..Len(aq.list) : aq.list[i] <= aq.list[1]
  BY <1>2
<1> HIDE DEF Bad
<1>4. ASSUME NEW i \in 1..Len(aq.list)
      PROVE  /\ aq.list[i] \in Nat /\ aq.list[i] - aq.maxManual \in Nat
             /\ aq.list[i] - aq.maxManual <= aq.maxAuto
  <2> DEFINE x == aq.list[i]
             y == aq.list[1]
             m == aq.maxManual
  <2>1. aq.list \in Seq(Nat)
    BY <1>1
  <2>2. 1 \in 1..Len(aq.list)
    BY <1>1
  <2>3. x \in Nat /\ y \in Nat
    BY <2>1, <2>2
  <2>4. m \in Nat /\ m <= x /\ aq.maxAuto = y - m
    BY <1>1
  <2>5. x <= y
    BY <1>3
  <2> HIDE DEF x, y, m
  <2>6. x - m \in Nat /\ x - m <= y - m
    BY <2>3, <2>4, <2>5
  <2>7. QED
    BY <2>3, <2>4, <2>6 DEF x, m
<1>5. QED
  BY <1>4

\* What the columns of an instance question say of each other: an exam question
\* has at most its best score's share of the points; the points of a homework
\* question are those of its variants, and its value is at least the manual points.
PointsFit(aq, r) ==
  /\ aq.type = "Exam" => r.auto <= aq.maxAuto * r.highest
  /\ aq.type = "Homework" => /\ r.auto = MinOf(r.varSum, aq.maxAuto * ScoreUnit)
                             /\ aq.maxManual * ScoreUnit <= r.value

LEMMA ExamGains ==
  ASSUME NEW aq \in AssessmentQuestion, NEW r \in InstanceQuestion, NEW score \in Scores,
         aq.type = "Exam", r.open, AttemptsLeft(aq, r), PointsFit(aq, r)
  PROVE  LET p == ExamPoints(aq, r, score) IN
           p.auto >= r.auto /\ p.auto <= aq.maxAuto * p.highest
<1> DEFINE worth == aq.list[r.attempts + 1] - aq.maxManual
           gain  == MaxOf(0, score - r.highest)
           auto  == ExamAutoPoints(aq, r, score)
           high  == MaxOf(score, r.highest)
<1>1. ExamPoints(aq, r, score).auto = auto /\ ExamPoints(aq, r, score).highest = high
  BY DEF ExamPoints, InstanceQuestion
<1>2. /\ r.attempts \in Nat /\ r.auto \in Int /\ aq.maxAuto \in Nat
      /\ ScoreUnit \in Nat /\ score \in Nat /\ r.highest \in Nat
      /\ score <= ScoreUnit /\ r.highest <= ScoreUnit
      /\ r.auto <= aq.maxAuto * r.highest
  BY ScoreUnitAssumption DEF AssessmentQuestion, InstanceQuestion, Scores, PointsFit
<1>3. worth \in Nat /\ worth <= aq.maxAuto
  <2>1. aq.list \in Seq(Nat)
    BY DEF AssessmentQuestion
  <2>2. r.attempts + 1 \in 1..Len(aq.list)
    BY <1>2, <2>1, SMTT(30) DEF AttemptsLeft
  <2>3. QED
    BY <2>2, ListFalls
<1>4. gain \in Nat /\ high \in Nat /\ high = r.highest + gain
  BY <1>2 DEF MaxOf
<1> HIDE DEF worth, gain, high
<1>5. CASE Correct(score) /\ worth = aq.maxAuto
  <2>1. auto = aq.maxAuto * ScoreUnit
    BY <1>5 DEF ExamAutoPoints, worth
  <2>2. high = ScoreUnit
    BY <1>2, <1>5 DEF Correct, high, MaxOf
  <2>3. aq.maxAuto * r.highest <= aq.maxAuto * ScoreUnit
    BY <1>2, ProductMonotone
  <2> HIDE DEF auto
  <2>4. aq.maxAuto * r.highest \in Int /\ aq.maxAuto * ScoreUnit \in Int
    BY <1>2
  <2>5. QED
    BY <1>1, <1>2, <2>1, <2>2, <2>3, <2>4
<1>6. CASE ~(Correct(score) /\ worth = aq.maxAuto)
  <2>1. auto = r.auto + worth * gain
    BY <1>6 DEF ExamAutoPoints, worth, gain
  <2>2. gain * 0 <= gain * worth
    BY <1>3, <1>4, ProductMonotone
  <2>7. gain * worth <= gain * aq.maxAuto
    BY <1>2, <1>3, <1>4, ProductMonotone
  <2>3. gain * worth = worth * gain /\ gain * aq.maxAuto = aq.maxAuto * gain /\ gain * 0 = 0
    BY <1>2, <1>3, <1>4
  <2>4. aq.maxAuto * high = aq.maxAuto * r.highest + aq.maxAuto * gain
    BY <1>2, <1>4
  <2>5. worth * gain \in Int /\ aq.maxAuto * gain \in Int /\ aq.maxAuto * r.highest \in Int
    BY <1>2, <1>3, <1>4
  <2> HIDE DEF auto
  <2>6. QED
    BY <1>1, <1>2, <2>1, <2>2, <2>3, <2>4, <2>5, <2>7
<1>7. QED
  BY <1>5, <1>6

LEMMA HomeworkGains ==
  ASSUME NEW aq \in AssessmentQuestion, NEW r \in InstanceQuestion, NEW score \in Scores,
         aq.type = "Homework", PointsFit(aq, r)
  PROVE  LET p == HomeworkPoints(aq, r, score) IN
           /\ p.auto >= r.auto /\ p.varSum >= r.varSum
           /\ p.auto = MinOf(p.varSum, aq.maxAuto * ScoreUnit)
           /\ aq.maxManual * ScoreUnit <= p.value
<1> DEFINE base   == IF Correct(score) THEN r.value ELSE aq.init * ScoreUnit
           share  == (base \div ScoreUnit) - aq.maxManual
           earned == score * share
           replay == r.varLast # Null /\ r.varLast < (aq.init - aq.maxManual) * ScoreUnit
           last   == IF replay THEN MaxOf(r.varLast, earned) ELSE earned
           sum    == r.varSum + last - (IF replay THEN r.varLast ELSE 0)
           auto   == MinOf(sum, aq.maxAuto * ScoreUnit)
           value  == IF Correct(score) /\ ~aq.constantValue
                       THEN MinOf(r.value + aq.init * ScoreUnit, aq.maxPoints * ScoreUnit)
                       ELSE base
<1>1. /\ HomeworkPoints(aq, r, score).auto = auto
      /\ HomeworkPoints(aq, r, score).varSum = sum
      /\ HomeworkPoints(aq, r, score).value = value
  BY DEF HomeworkPoints, InstanceQuestion
<1>2. /\ aq.maxManual \in Nat /\ aq.maxAuto \in Nat /\ aq.init \in Nat
      /\ aq.maxPoints = aq.maxManual + aq.maxAuto /\ aq.maxManual <= aq.init
      /\ r.value \in Int /\ r.varSum \in Int /\ r.varLast \in Int
      /\ ScoreUnit \in Nat \ {0} /\ score \in Nat
      /\ r.auto = MinOf(r.varSum, aq.maxAuto * ScoreUnit)
      /\ aq.maxManual * ScoreUnit <= r.value
  BY ScoreUnitAssumption DEF AssessmentQuestion, InstanceQuestion, Scores, PointsFit
<1>3. /\ ScoreUnit * aq.maxManual <= ScoreUnit * aq.init
      /\ ScoreUnit * aq.maxManual <= ScoreUnit * aq.maxPoints
  BY <1>2, ProductMonotone
<1>4. /\ aq.maxManual * ScoreUnit \in Nat /\ aq.init * ScoreUnit \in Nat
      /\ aq.maxPoints * ScoreUnit \in Nat /\ aq.maxAuto * ScoreUnit \in Nat
      /\ aq.maxManual * ScoreUnit <= aq.init * ScoreUnit
      /\ aq.maxManual * ScoreUnit <= aq.maxPoints * ScoreUnit
  BY <1>2, <1>3
<1>5. base \in Int /\ aq.maxManual * ScoreUnit <= base
  BY <1>2, <1>4
<1>6. aq.maxManual * ScoreUnit <= value
  BY <1>2, <1>4, <1>5 DEF MinOf
<1>7. share \in Nat
  <2> HIDE DEF base
  <2>1. base \div ScoreUnit >= aq.maxManual /\ base \div ScoreUnit \in Int
    BY <1>2, <1>5, QuotientBound
  <2>2. QED
    BY <1>2, <2>1
<1>8. earned \in Nat
  <2> HIDE DEF share
  <2>1. QED
    BY <1>2, <1>7
<1>9. sum \in Int /\ sum >= r.varSum
  <2> HIDE DEF earned, replay
  <2>1. QED
    BY <1>2, <1>8 DEF MaxOf
<1>10. auto >= r.auto
  <2> HIDE DEF sum
  <2>1. QED
    BY <1>2, <1>4, <1>9 DEF MinOf
<1> HIDE DEF sum, value, auto
<1>11. auto = MinOf(sum, aq.maxAuto * ScoreUnit)
  BY DEF auto
<1>12. QED
  BY <1>1, <1>6, <1>9, <1>10, <1>11

\* Grading counts one attempt.
LEMMA GradedAttempts ==
  ASSUME NEW aq \in AssessmentQuestion, NEW r \in InstanceQuestion, NEW score \in Scores,
         r.open, AttemptsLeft(aq, r)
  PROVE  GradedQuestion(aq, r, score).attempts = r.attempts + 1
<1> DEFINE x == IF aq.type = "Exam" THEN ExamPoints(aq, r, score) ELSE HomeworkPoints(aq, r, score)
<1>1. x \in InstanceQuestion
  BY ExamTypes, HomeworkTypes
<1>2. GradedQuestion(aq, r, score) = [x EXCEPT !.attempts = r.attempts + 1]
  BY DEF GradedQuestion
<1> HIDE DEF x
<1>3. QED
  BY <1>1, <1>2 DEF InstanceQuestion

\* Grading never takes points from a question.
LEMMA GradingGains ==
  ASSUME NEW aq \in AssessmentQuestion, NEW r \in InstanceQuestion, NEW score \in Scores,
         r.open, AttemptsLeft(aq, r), PointsFit(aq, r)
  PROVE  LET p == GradedQuestion(aq, r, score) IN
           p.auto >= r.auto /\ PointsFit(aq, p)
<1>1. aq.type \in {"Exam", "Homework"}
  BY DEF AssessmentQuestion
<1>2. CASE aq.type = "Exam"
  <2> DEFINE x == ExamPoints(aq, r, score)
             p == [x EXCEPT !.attempts = r.attempts + 1]
  <2>1. x \in InstanceQuestion /\ x.auto >= r.auto /\ x.auto <= aq.maxAuto * x.highest
    BY <1>2, ExamTypes, ExamGains
  <2>2. GradedQuestion(aq, r, score) = p
    BY <1>2 DEF GradedQuestion
  <2> HIDE DEF x
  <2>3. p.auto = x.auto /\ p.highest = x.highest
    BY <2>1 DEF InstanceQuestion
  <2>4. QED
    BY <1>2, <2>1, <2>2, <2>3 DEF PointsFit
<1>3. CASE aq.type = "Homework"
  <2> DEFINE x == HomeworkPoints(aq, r, score)
             p == [x EXCEPT !.attempts = r.attempts + 1]
  <2>1. /\ x \in InstanceQuestion /\ x.auto >= r.auto
        /\ x.auto = MinOf(x.varSum, aq.maxAuto * ScoreUnit)
        /\ aq.maxManual * ScoreUnit <= x.value
    BY <1>3, HomeworkTypes, HomeworkGains
  <2>2. GradedQuestion(aq, r, score) = p
    BY <1>3 DEF GradedQuestion
  <2> HIDE DEF x
  <2>3. p.auto = x.auto /\ p.varSum = x.varSum /\ p.value = x.value
    BY <2>1 DEF InstanceQuestion
  <2>4. QED
    BY <1>3, <2>1, <2>2, <2>3 DEF PointsFit
<1>4. QED
  BY <1>1, <1>2, <1>3

-----------------------------------------------------------------------------
(* The points of the assessment instance. *)

ZoneShape ==
  \A z \in Zones : /\ z.questions \subseteq Questions /\ IsFiniteSet(z.questions)
                   /\ z.best \in Nat \cup {Null} /\ z.max \in Nat \cup {Null}

LEMMA ZonesShaped == ZoneShape
<1>1. \A z \in Zones : /\ z.questions \subseteq Questions
                       /\ z.best \in Nat \cup {Null} /\ z.max \in Nat \cup {Null}
  BY GradingAssumption
<1>2. QED
  BY <1>1, GradingAssumption, FS_Subset DEF ZoneShape

\* The points a zone counts are those of one of its selections of questions, and
\* of none less.
Counted(z) == {S \in SUBSET z.questions : z.best = Null \/ Cardinality(S) <= z.best}

BestOf(z, points) == Max({SumFunctionOnSet(points, S) : S \in Counted(z)})

LEMMA BestIsCounted ==
  ASSUME NEW z \in Zones, NEW points, \A q \in Questions : points[q] \in Int
  PROVE  \E S \in Counted(z) :
           /\ BestOf(z, points) = SumFunctionOnSet(points, S)
           /\ \A T \in Counted(z) : BestOf(z, points) >= SumFunctionOnSet(points, T)
<1> DEFINE sums == {SumFunctionOnSet(points, S) : S \in Counted(z)}
           g    == [S \in Counted(z) |-> SumFunctionOnSet(points, S)]
<1>1. z.questions \subseteq Questions /\ IsFiniteSet(z.questions) /\ z.best \in Nat \cup {Null}
  BY ZonesShaped DEF ZoneShape
<1>2. IsFiniteSet(Counted(z))
  <2>1. IsFiniteSet(SUBSET z.questions)
    BY <1>1, FS_SUBSET
  <2>2. Counted(z) \in SUBSET (SUBSET z.questions)
    BY DEF Counted
  <2>3. QED
    BY <2>1, <2>2, FS_Subset
<1>3. {} \in Counted(z)
  BY <1>1, FS_EmptySet DEF Counted
<1>4. \A S \in Counted(z) : SumFunctionOnSet(points, S) \in Int
  <2> TAKE S \in Counted(z)
  <2>1. IsFiniteSet(S) /\ S \subseteq Questions
    BY <1>1, FS_Subset DEF Counted
  <2>2. QED
    BY <2>1, SumType
<1>5. PICK S \in Counted(z) : \A T \in Counted(z) : g[S] >= g[T]
  <2>1. \A T \in Counted(z) : g[T] \in Int
    BY <1>4
  <2> HIDE DEF g
  <2>2. QED
    BY <1>2, <1>3, <2>1, LargestValue
<1>6. \E x \in sums : \A y \in sums : x >= y
  BY <1>5
<1>7. BestOf(z, points) \in sums /\ \A y \in sums : BestOf(z, points) >= y
  <2> HIDE DEF sums
  <2>1. Max(sums) \in sums /\ \A y \in sums : Max(sums) >= y
    BY <1>6 DEF Max
  <2>2. BestOf(z, points) = Max(sums)
    BY DEF BestOf, sums
  <2>3. QED
    BY <2>1, <2>2
<1>8. QED
  BY <1>7

\* ZonePoints and AwardedPoints, in terms of the best selection.
LEMMA ZoneAwards ==
  ASSUME NEW z \in Zones, NEW points, \A q \in Questions : points[q] \in Int
  PROVE  /\ ZonePoints(z, points) = IF z.max = Null THEN BestOf(z, points)
                                    ELSE MinOf(BestOf(z, points), z.max * ScoreUnit)
         /\ BestOf(z, points) \in Int /\ ZonePoints(z, points) \in Int
<1>1. ZonePoints(z, points) = IF z.max = Null THEN BestOf(z, points)
                              ELSE MinOf(BestOf(z, points), z.max * ScoreUnit)
  BY DEF ZonePoints, BestOf, Counted
<1>2. PICK S \in Counted(z) : BestOf(z, points) = SumFunctionOnSet(points, S)
  BY BestIsCounted
<1>3. IsFiniteSet(S) /\ S \subseteq Questions
  BY ZonesShaped, FS_Subset DEF Counted, ZoneShape
<1>4. BestOf(z, points) \in Int
  BY <1>2, <1>3, SumType
<1>5. z.max = Null \/ z.max * ScoreUnit \in Int
  BY ZonesShaped, ScoreUnitAssumption DEF ZoneShape
<1>6. QED
  BY <1>1, <1>4, <1>5 DEF MinOf

LEMMA ZoneMonotone ==
  ASSUME NEW z \in Zones, NEW f, NEW g,
         \A q \in Questions : f[q] \in Int /\ g[q] \in Int /\ f[q] <= g[q]
  PROVE  ZonePoints(z, f) <= ZonePoints(z, g)
<1>1. PICK S \in Counted(z) : BestOf(z, f) = SumFunctionOnSet(f, S)
  BY BestIsCounted
<1>2. BestOf(z, g) >= SumFunctionOnSet(g, S)
  BY BestIsCounted
<1>3. IsFiniteSet(S) /\ S \subseteq Questions
  BY ZonesShaped, FS_Subset DEF Counted, ZoneShape
<1>4. /\ SumFunctionOnSet(f, S) <= SumFunctionOnSet(g, S)
      /\ SumFunctionOnSet(f, S) \in Int /\ SumFunctionOnSet(g, S) \in Int
  BY <1>3, SumMonotone, SumType
<1>5. BestOf(z, f) <= BestOf(z, g)
  BY <1>1, <1>2, <1>4, ZoneAwards
<1>6. BestOf(z, f) \in Int /\ BestOf(z, g) \in Int /\ (z.max = Null \/ z.max * ScoreUnit \in Int)
  BY ZoneAwards, ZonesShaped, ScoreUnitAssumption DEF ZoneShape
<1>7. /\ ZonePoints(z, f) = IF z.max = Null THEN BestOf(z, f) ELSE MinOf(BestOf(z, f), z.max * ScoreUnit)
      /\ ZonePoints(z, g) = IF z.max = Null THEN BestOf(z, g) ELSE MinOf(BestOf(z, g), z.max * ScoreUnit)
  BY ZoneAwards
<1>8. QED
  BY <1>5, <1>6, <1>7 DEF MinOf

\* More points for a question are never fewer for the assessment instance.
LEMMA AwardsMonotone ==
  ASSUME NEW qs \in [Questions -> InstanceQuestion], NEW ps \in [Questions -> InstanceQuestion],
         \A q \in Questions : qs[q].auto <= ps[q].auto
  PROVE  /\ AwardedPoints(qs) <= AwardedPoints(ps)
         /\ AwardedPoints(qs) \in Int /\ AwardedPoints(ps) \in Int
<1> DEFINE f  == [q \in Questions |-> qs[q].auto]
           g  == [q \in Questions |-> ps[q].auto]
           zf == [z \in Zones |-> ZonePoints(z, f)]
           zg == [z \in Zones |-> ZonePoints(z, g)]
           most == (MaxPoints + MaxBonusPoints) * ScoreUnit
<1>1. \A q \in Questions : f[q] \in Int /\ g[q] \in Int /\ f[q] <= g[q]
  BY DEF InstanceQuestion
<1>2. /\ AwardedPoints(qs) = MinOf(SumFunctionOnSet(zf, Zones), most)
      /\ AwardedPoints(ps) = MinOf(SumFunctionOnSet(zg, Zones), most)
  BY DEF AwardedPoints, TotalPoints
<1> HIDE DEF f, g
<1>3. \A z \in Zones : zf[z] \in Int /\ zg[z] \in Int /\ zf[z] <= zg[z]
  BY <1>1, ZoneAwards, ZoneMonotone
<1> HIDE DEF zf, zg
<1>4. /\ SumFunctionOnSet(zf, Zones) <= SumFunctionOnSet(zg, Zones)
      /\ SumFunctionOnSet(zf, Zones) \in Int /\ SumFunctionOnSet(zg, Zones) \in Int
  BY <1>3, GradingAssumption, SumMonotone, SumType
<1>5. most \in Int
  BY GradingAssumption, ScoreUnitAssumption
<1> HIDE DEF most
<1>6. QED
  BY <1>2, <1>4, <1>5 DEF MinOf

\* Nothing is awarded for nothing.
LEMMA NothingAwarded ==
  ASSUME NEW qs, \A q \in Questions : qs[q].auto = 0
  PROVE  AwardedPoints(qs) = 0
<1> DEFINE f  == [q \in Questions |-> qs[q].auto]
           zf == [z \in Zones |-> ZonePoints(z, f)]
<1>1. \A q \in Questions : f[q] = 0 /\ f[q] \in Int
  OBVIOUS
<1> HIDE DEF f
<1>2. ASSUME NEW z \in Zones
      PROVE  ZonePoints(z, f) = 0
  <2>1. PICK S \in Counted(z) : BestOf(z, f) = SumFunctionOnSet(f, S)
    BY <1>1, BestIsCounted
  <2>2. IsFiniteSet(S) /\ S \subseteq Questions
    BY ZonesShaped, FS_Subset DEF Counted, ZoneShape
  <2>3. BestOf(z, f) = 0
    BY <1>1, <2>1, <2>2, SumOfZeros
  <2>4. z.max = Null \/ z.max * ScoreUnit \in Nat
    BY ZonesShaped, ScoreUnitAssumption DEF ZoneShape
  <2>5. QED
    BY <1>1, <2>3, <2>4, ZoneAwards DEF MinOf
<1>3. SumFunctionOnSet(zf, Zones) = 0
  <2>1. \A z \in Zones : zf[z] = 0
    BY <1>2
  <2> HIDE DEF zf
  <2>2. QED
    BY <2>1, GradingAssumption, SumOfZeros
<1>4. (MaxPoints + MaxBonusPoints) * ScoreUnit \in Nat
  BY GradingAssumption, ScoreUnitAssumption
<1>5. AwardedPoints(qs) = MinOf(SumFunctionOnSet(zf, Zones), (MaxPoints + MaxBonusPoints) * ScoreUnit)
  BY DEF AwardedPoints, TotalPoints, f
<1>6. QED
  BY <1>3, <1>4, <1>5 DEF MinOf

-----------------------------------------------------------------------------
(* What the steps do to the points. *)

\* A step that changes nothing of a question but its status.
StatusOnly == \A q \in Questions : iq'[q] = [iq[q] EXCEPT !.status = iq'[q].status]

\* A step that gives no variant a try: new variants have none.
TriesKept ==
  /\ \A v \in MadeVariants : variant'[v].tries = variant[v].tries
  /\ \A v \in MadeVariants' \ MadeVariants : variant'[v].tries = 0

NothingGraded == /\ UNCHANGED <<grade, issues>> /\ StatusOnly /\ TriesKept

LEMMA SamePoints ==
  ASSUME IInv, UNCHANGED <<grade, issues, iq, variant>>
  PROVE  NothingGraded
BY DEF NothingGraded, StatusOnly, TriesKept, MadeVariants, IInv, TypeOK, InstanceQuestion

\* A new status.
LEMMA StatusStep ==
  ASSUME IInv, NEW q \in Questions, NEW status, iq' = [iq EXCEPT ![q].status = status]
  PROVE  StatusOnly
<1>1. iq \in [Questions -> InstanceQuestion]
  BY DEF IInv, TypeOK
<1>2. iq'[q] = [iq[q] EXCEPT !.status = status] /\ \A x \in Questions : x # q => iq'[x] = iq[x]
  BY <1>1
<1>3. \A x \in Questions : [iq[x] EXCEPT !.status = iq[x].status] = iq[x]
  BY <1>1 DEF InstanceQuestion
<1>4. iq'[q].status = status
  BY <1>1, <1>2 DEF InstanceQuestion
<1>5. QED
  BY <1>2, <1>3, <1>4 DEF StatusOnly

\* The steps that can move points, attempts or jobs, and the others.
LEMMA PointSteps ==
  ASSUME IInv, [Next]_vars
  PROVE  \/ NothingGraded /\ UNCHANGED job
         \/ GradeRatePasses
         \/ \E w \in Processes : InsertJob(w)
         \/ \E j \in Inserted, gradable \in BOOLEAN, score \in Scores :
              UpdateAfterGrading(j, gradable, score)
<1> DEFINE Goal == \/ NothingGraded /\ UNCHANGED job
                   \/ GradeRatePasses
                   \/ \E w \in Processes : InsertJob(w)
                   \/ \E j \in Inserted, gradable \in BOOLEAN, score \in Scores :
                        UpdateAfterGrading(j, gradable, score)
<1> SUFFICES Goal
  OBVIOUS
<1>1. CASE UNCHANGED job
  <2> SUFFICES ASSUME ~\E w \in Processes : InsertJob(w), ~GradeRatePasses,
                      ~\E j \in Inserted, gradable \in BOOLEAN, score \in Scores :
                         UpdateAfterGrading(j, gradable, score)
               PROVE  NothingGraded
    BY <1>1
  <2>1. ASSUME NEW s \in Submissions, NEW v \in Variants, NEW gradable \in BOOLEAN,
               NEW credit \in Credits, InsertSubmission(s, v, gradable, credit)
        PROVE  NothingGraded
    <3>1. /\ variant[v].question \in Questions
          /\ iq' = [iq EXCEPT ![variant[v].question].status = IF gradable THEN "saved" ELSE "invalid"]
          /\ UNCHANGED <<grade, variant, issues>>
      BY <2>1 DEF InsertSubmission, MadeVariants, IInv, TypeOK, Variant
    <3>2. StatusOnly
      BY <3>1, StatusStep
    <3>3. QED
      BY <3>1, <3>2 DEF NothingGraded, TriesKept, MadeVariants
  <2>2. ASSUME NEW q \in Questions, CreateVariant(q)
        PROVE  NothingGraded
    <3>1. PICK v \in Variants :
            /\ variant' = [variant EXCEPT ![v] = [question |-> q, open |-> TRUE, tries |-> 0]]
            /\ UNCHANGED <<grade, issues, iq>> /\ v \notin MadeVariants
      BY <2>2 DEF CreateVariant, IsNextId
    <3>2. TriesKept
      BY <3>1 DEF TriesKept, MadeVariants, IInv, TypeOK
    <3>3. StatusOnly
      BY <3>1 DEF StatusOnly, IInv, TypeOK, InstanceQuestion
    <3>4. QED
      BY <3>1, <3>2, <3>3 DEF NothingGraded
  <2>3. CASE UNCHANGED <<grade, issues, iq, variant>>
    BY <2>3, SamePoints
  <2>4. CASE \/ \E w \in Processes : \/ Select(w) \/ CheckRate(w) \/ BeginExternal(w)
                                     \/ SelectVariants(w) \/ UnsetGradingNeeded(w) \/ Crash(w)
             \/ \E w \in Workers : Finish(w) \/ \E override \in BOOLEAN : StartGrading(w, override)
             \/ CronPick \/ CronClose \/ Age \/ UNCHANGED vars
             \/ \E j \in Jobs : GradeExternally(j)
    BY <2>3, <2>4 DEF Select, CheckRate, BeginExternal, SelectVariants, UnsetGradingNeeded, Crash,
       Finish, StartGrading, CronPick, CronClose, Age, GradeExternally, rows, vars
  <2>5. ASSUME NEW w \in Processes
        PROVE  ~GradeInternal(w)
    BY Queues DEF GradeInternal, HandlerReferences
  <2>6. ASSUME NEW m \in results, ProcessResult(m)
        PROVE  FALSE
    <3> DEFINE gradable == ResultGradable(m.raw)
               score == IF gradable THEN ResultScore(m.raw) ELSE 0
    <3>1. gradable \in BOOLEAN /\ score \in Scores
      BY ScoreUnitAssumption DEF ResultGradable, Scores
    <3>2. UpdateAfterGrading(m.job, gradable, score) /\ m.job \in Inserted
      BY <2>6, Queues DEF ProcessResult
    <3> HIDE DEF gradable, score
    <3>3. QED
      BY <3>1, <3>2
  <2>7. QED
    BY <2>1, <2>2, <2>4, <2>5, <2>6 DEF Next, Proceed, SaveSubmission, SaveAndGrade
<1>2. CASE ~UNCHANGED job
  BY <1>2, JobSteps
<1>3. QED
  BY <1>1, <1>2

-----------------------------------------------------------------------------
(* The points of the assessment instance are those of its questions, and no  *)
(* step takes any away.                                                      *)

Earned == /\ PointsUpToDate
          /\ \A q \in Questions : PointsFit(AQ[q], iq[q])
          /\ grade.score \in Int

PInv == IInv /\ Earned

NothingLost ==
  /\ \A q \in Questions : iq'[q].auto >= iq[q].auto
  /\ grade'.points >= grade.points
  /\ grade'.score >= grade.score

\* The score of any points is a number.
LEMMA CreditedScoreType ==
  ASSUME NEW points \in Int, NEW credit \in Int
  PROVE  CreditedScore(points, credit) \in Int
<1> DEFINE most == IF MaxPoints > 0 THEN MaxPoints ELSE 1
           perc == (points * 100) \div (ScoreUnit * most)
<1>1. most \in Nat \ {0} /\ ScoreUnit \in Nat \ {0} /\ MaxPoints \in Nat
  BY GradingAssumption, ScoreUnitAssumption
<1>2. ScoreUnit * most \in Nat \ {0} /\ points * 100 \in Int
  <2> HIDE DEF most
  <2>1. ScoreUnit * most \in Nat /\ ScoreUnit * 1 <= ScoreUnit * most
    BY <1>1, ProductMonotone
  <2>2. QED
    BY <1>1, <2>1
<1>3. perc \in Int
  <2> DEFINE u == ScoreUnit * most
             x == points * 100
  <2> HIDE DEF u, x, most
  <2>1. x \div u \in Int
    BY <1>2 DEF u, x
  <2>2. QED
    BY <2>1 DEF u, x
<1>4. CreditedScore(points, credit) =
        IF credit < 100 THEN MinOf(perc, credit)
        ELSE IF credit > 100 /\ points >= MaxPoints * ScoreUnit THEN (credit * perc) \div 100
        ELSE perc
  BY DEF CreditedScore
<1> HIDE DEF perc
<1>5. credit * perc \in Int
  BY <1>3
<1>6. (credit * perc) \div 100 \in Int
  <2> DEFINE x == credit * perc
  <2> HIDE DEF x
  <2>1. x \in Int => x \div 100 \in Int
    OBVIOUS
  <2>2. QED
    BY <1>5, <2>1 DEF x
<1>7. QED
  BY <1>3, <1>4, <1>6 DEF MinOf

\* Grading the assessment instance once its questions have no fewer points.
LEMMA RegradeGains ==
  ASSUME PInv, NEW qs \in [Questions -> InstanceQuestion], NEW credit \in Int,
         \A q \in Questions : iq[q].auto <= qs[q].auto,
         AssessmentInstanceGrade(qs, credit)
  PROVE  /\ grade'.points = AwardedPoints(qs)
         /\ grade'.points >= grade.points /\ grade'.score >= grade.score
         /\ grade'.score \in Int
<1> DEFINE score == MaxOf(CreditedScore(AwardedPoints(qs), credit), grade.score)
<1>1. grade'.points = AwardedPoints(qs) /\ grade'.score = score
  BY DEF AssessmentInstanceGrade
<1>2. /\ AwardedPoints(iq) <= AwardedPoints(qs)
      /\ AwardedPoints(iq) \in Int /\ AwardedPoints(qs) \in Int
  BY AwardsMonotone DEF PInv, IInv, TypeOK
<1>3. CreditedScore(AwardedPoints(qs), credit) \in Int /\ grade.score \in Int
  BY <1>2, CreditedScoreType DEF PInv, Earned
<1>4. score \in Int /\ score >= grade.score
  BY <1>3 DEF MaxOf
<1>5. QED
  BY <1>1, <1>2, <1>4 DEF PInv, Earned, PointsUpToDate

\* instance_questions_grade and assessment_instances_grade
LEMMA GradeQuestionEarns ==
  ASSUME PInv, NEW q \in Questions, NEW score \in Scores, NEW credit \in Int,
         GradeQuestion(q, score, credit)
  PROVE  Earned' /\ NothingLost
<1>1. /\ iq \in [Questions -> InstanceQuestion]
      /\ \A x \in Questions : /\ AQ[x] \in AssessmentQuestion /\ AttemptsLeft(AQ[x], iq[x])
                              /\ PointsFit(AQ[x], iq[x]) /\ iq[x].auto \in Int
  BY QuestionTypes DEF PInv, Earned, IInv, AllAttemptsLeft, TypeOK, InstanceQuestion
<1>2. CASE iq[q].open
  <2> DEFINE new == GradedQuestion(AQ[q], iq[q], score)
             qs  == [iq EXCEPT ![q] = new]
  <2>1. new \in InstanceQuestion /\ new.auto >= iq[q].auto /\ PointsFit(AQ[q], new)
    BY <1>1, <1>2, GradedTypes, GradingGains
  <2>2. iq' = qs /\ AssessmentInstanceGrade(qs, credit)
    BY <1>2 DEF GradeQuestion
  <2> HIDE DEF new
  <2>3. qs \in [Questions -> InstanceQuestion]
    BY <1>1, <2>1
  <2>4. \A x \in Questions : /\ PointsFit(AQ[x], qs[x])
                             /\ iq[x].auto <= qs[x].auto /\ qs[x].auto >= iq[x].auto
    <3> TAKE x \in Questions
    <3>1. qs[x] = IF x = q THEN new ELSE iq[x]
      BY <1>1
    <3>2. new.auto \in Int
      BY <2>1 DEF InstanceQuestion
    <3>3. QED
      BY <1>1, <2>1, <3>1, <3>2
  <2> HIDE DEF qs
  <2>5. /\ grade'.points = AwardedPoints(qs)
        /\ grade'.points >= grade.points /\ grade'.score >= grade.score
        /\ grade'.score \in Int
    BY <2>2, <2>3, <2>4, RegradeGains
  <2>6. QED
    BY <2>2, <2>4, <2>5 DEF Earned, NothingLost, PointsUpToDate
<1>3. CASE ~iq[q].open
  <2>1. iq' = iq /\ AssessmentInstanceGrade(iq, credit)
    BY <1>3 DEF GradeQuestion
  <2>2. /\ grade'.points = AwardedPoints(iq)
        /\ grade'.points >= grade.points /\ grade'.score >= grade.score
        /\ grade'.score \in Int
    BY <1>1, <2>1, RegradeGains
  <2>3. QED
    BY <1>1, <2>1, <2>2 DEF Earned, NothingLost, PointsUpToDate
<1>4. QED
  BY <1>2, <1>3

\* A new status is worth nothing.
LEMMA StatusEarns ==
  ASSUME PInv, StatusOnly, iq' \in [Questions -> InstanceQuestion], UNCHANGED grade
  PROVE  Earned' /\ NothingLost
<1>1. ASSUME NEW q \in Questions
      PROVE  /\ iq'[q].auto = iq[q].auto /\ iq[q].auto \in Int
             /\ PointsFit(AQ[q], iq'[q])
  <2>1. iq[q] \in InstanceQuestion /\ iq'[q] = [iq[q] EXCEPT !.status = iq'[q].status]
    BY DEF StatusOnly, PInv, IInv, TypeOK
  <2>2. /\ iq'[q].auto = iq[q].auto /\ iq'[q].highest = iq[q].highest
        /\ iq'[q].varSum = iq[q].varSum /\ iq'[q].value = iq[q].value
    BY <2>1 DEF InstanceQuestion
  <2>3. QED
    BY <2>1, <2>2 DEF PInv, Earned, PointsFit, InstanceQuestion
<1>2. iq \in [Questions -> InstanceQuestion]
  BY DEF PInv, IInv, TypeOK
<1>3. /\ AwardedPoints(iq) <= AwardedPoints(iq') /\ AwardedPoints(iq') <= AwardedPoints(iq)
      /\ AwardedPoints(iq) \in Int /\ AwardedPoints(iq') \in Int
  BY <1>1, <1>2, AwardsMonotone
<1>4. PointsUpToDate' /\ grade.points \in Int
  BY <1>3 DEF PointsUpToDate, PInv, Earned
<1>5. QED
  BY <1>1, <1>4 DEF NothingLost, PInv, Earned

LEMMA NextEarns ==
  ASSUME PInv, [Next]_vars
  PROVE  Earned' /\ NothingLost
<1>1. IInv /\ IInv' /\ iq' \in [Questions -> InstanceQuestion] /\ iq \in [Questions -> InstanceQuestion]
  BY NextInvariant DEF PInv, IInv, TypeOK
<1>2. UNCHANGED iq => StatusOnly
  BY <1>1 DEF StatusOnly, InstanceQuestion
<1>3. CASE NothingGraded
  BY <1>1, <1>3, StatusEarns DEF NothingGraded
<1>4. CASE GradeRatePasses
  BY <1>1, <1>2, <1>4, StatusEarns DEF GradeRatePasses
<1>5. ASSUME NEW s \in Saved
      PROVE  sub[s].credit \in Int
  <2>1. sub[s] \in Submission
    BY <1>1 DEF IInv, TypeOK, Saved
  <2>2. sub[s].credit \in Credits \cup {Null}
    BY <2>1 DEF Submission
  <2>3. \A c \in Credits \cup {Null} : c \in Int
    BY GradingAssumption DEF Null
  <2>4. QED
    BY <2>2, <2>3
<1>6. ASSUME NEW w \in Processes, InsertJob(w)
      PROVE  Earned' /\ NothingLost
  <2>1. /\ iq' = iq /\ worker[w].sub \in Saved
        /\ AssessmentInstanceGrade(iq, sub[worker[w].sub].credit)
    BY <1>1, <1>6, InsertJobTypes DEF SubmissionsOf
  <2>2. \A q \in Questions : iq[q].auto <= iq[q].auto /\ iq[q].auto >= iq[q].auto
    BY <1>1 DEF InstanceQuestion
  <2>3. /\ grade'.points = AwardedPoints(iq)
        /\ grade'.points >= grade.points /\ grade'.score >= grade.score
        /\ grade'.score \in Int
    BY <1>1, <1>5, <2>1, <2>2, RegradeGains
  <2>4. QED
    BY <2>1, <2>2, <2>3 DEF PInv, Earned, NothingLost, PointsUpToDate
<1>7. ASSUME NEW j \in Inserted, NEW gradable \in BOOLEAN, NEW score \in Scores,
             UpdateAfterGrading(j, gradable, score)
      PROVE  Earned' /\ NothingLost
  <2>1. /\ job[j].sub \in Saved /\ QuestionOf(job[j].sub) \in Questions
    BY <1>1 DEF IInv, References, TypeOK, QuestionOf, MadeVariants, Variant
  <2>2. CASE UNCHANGED rows
    BY <1>1, <1>2, <2>2, StatusEarns DEF rows
  <2>3. CASE iq' = [iq EXCEPT ![QuestionOf(job[j].sub)].status = "invalid"] /\ UNCHANGED grade
    BY <1>1, <2>1, <2>3, StatusStep, StatusEarns
  <2>4. CASE GradeQuestion(QuestionOf(job[j].sub), score, sub[job[j].sub].credit)
    BY <1>5, <2>1, <2>4, GradeQuestionEarns
  <2>5. QED
    BY <1>7, <2>2, <2>3, <2>4 DEF UpdateAfterGrading
<1>8. QED
  BY <1>1, <1>3, <1>4, <1>6, <1>7, PointSteps

THEOREM EarnedInvariance == Spec => []PInv
<1>1. Init => PInv
  <2> SUFFICES ASSUME Init PROVE PInv
    OBVIOUS
  <2>1. ASSUME NEW q \in Questions
        PROVE  iq[q].auto = 0 /\ PointsFit(AQ[q], iq[q])
    <3>1. iq[q] = NewInstanceQuestion(AQ[q]) /\ AQ[q] \in AssessmentQuestion
      BY GradingAssumption DEF Init
    <3>2. /\ iq[q].auto = 0 /\ iq[q].highest = 0 /\ iq[q].varSum = 0
          /\ iq[q].value = AQ[q].init * ScoreUnit
      BY <3>1 DEF NewInstanceQuestion
    <3>3. /\ AQ[q].maxAuto \in Nat /\ AQ[q].init \in Nat /\ AQ[q].maxManual \in Nat
          /\ AQ[q].maxManual <= AQ[q].init /\ ScoreUnit \in Nat
      BY <3>1, ScoreUnitAssumption DEF AssessmentQuestion
    <3>4. /\ ScoreUnit * AQ[q].maxManual <= ScoreUnit * AQ[q].init
          /\ AQ[q].maxAuto * 0 = 0 /\ AQ[q].maxAuto * ScoreUnit \in Nat
      BY <3>3, ProductMonotone
    <3>5. AQ[q].maxManual * ScoreUnit <= AQ[q].init * ScoreUnit
      BY <3>3, <3>4
    <3>6. 0 = MinOf(0, AQ[q].maxAuto * ScoreUnit)
      BY <3>4 DEF MinOf
    <3>7. QED
      BY <3>2, <3>4, <3>5, <3>6 DEF PointsFit
  <2>2. AwardedPoints(iq) = 0
    BY <2>1, NothingAwarded
  <2>3. grade.points = 0 /\ grade.score = 0
    BY DEF Init
  <2>4. QED
    BY <2>1, <2>2, <2>3, InitInvariant DEF PInv, Earned, PointsUpToDate
<1>2. PInv /\ [Next]_vars => PInv'
  BY NextInvariant, NextEarns DEF PInv
<1>3. QED
  BY <1>1, <1>2, PTL DEF Spec

\* Whatever is saved, graded, canceled or finished, and in whatever order, the
\* points of the assessment instance are those its zones give for its questions.
THEOREM PointsAreUpToDate == Spec => []PointsUpToDate
<1>1. PInv => PointsUpToDate
  BY DEF PInv, Earned
<1>2. QED
  BY <1>1, EarnedInvariance, PTL

\* For any points list, any homework value and any zones, no step of anyone
\* takes points of a question, points of the assessment or its score away.
THEOREM NoPointsAreLost == Spec => PointsNeverDecrease
<1>1. PInv /\ [Next]_vars => [NothingLost]_vars
  BY NextEarns
<1>2. QED
  BY <1>1, EarnedInvariance, PTL DEF Spec, PointsNeverDecrease, NothingLost

-----------------------------------------------------------------------------
(* Every graded job is a try of its variant, and an attempt of its question  *)
(* or an issue.                                                              *)

GradedJobs    == {j \in Inserted : job[j].gradable}
TriesOf(v)    == {j \in Inserted : job[j].gradable /\ sub[job[j].sub].variant = v}
Attempts(qs)  == SumFunctionOnSet([q \in Questions |-> qs[q].attempts], Questions)

\* A job with a score was graded, so that no result is counted twice.
ScoredOnce == \A j \in Inserted : job[j].gradable => job[j].graded

CountInv == IInv /\ ScoredOnce /\ AttemptsCounted

LEMMA CountDef ==
  AttemptsCounted <=> /\ \A v \in MadeVariants : variant[v].tries = Cardinality(TriesOf(v))
                      /\ issues + Attempts(iq) = Cardinality(GradedJobs)
BY DEF AttemptsCounted, TriesOf, GradedJobs, Attempts

\* The jobs are finitely many.
LEMMA FinitelyManyJobs == \A S \in SUBSET Jobs : IsFiniteSet(S)
<1>1. IsFiniteSet(Jobs)
  BY GradingAssumption, FS_Interval DEF Jobs
<1>2. QED
  BY <1>1, FS_Subset

\* Attempts that do not change add up to the same.
LEMMA SameAttempts ==
  ASSUME NEW qs, NEW ps, \A q \in Questions : qs[q].attempts = ps[q].attempts
  PROVE  Attempts(qs) = Attempts(ps)
<1> DEFINE f == [q \in Questions |-> qs[q].attempts]
           g == [q \in Questions |-> ps[q].attempts]
<1>1. f = g
  OBVIOUS
<1>2. QED
  BY <1>1 DEF Attempts

\* A step that grades nothing.
LEMMA CountKept ==
  ASSUME CountInv, IInv', NothingGraded,
         \A v \in MadeVariants : TriesOf(v)' = TriesOf(v),
         \A v \in MadeVariants' \ MadeVariants : TriesOf(v)' = {},
         GradedJobs' = GradedJobs
  PROVE  AttemptsCounted'
<1>1. \A q \in Questions : iq'[q].attempts = iq[q].attempts
  <2> TAKE q \in Questions
  <2>1. iq[q] \in InstanceQuestion /\ iq'[q] = [iq[q] EXCEPT !.status = iq'[q].status]
    BY DEF NothingGraded, StatusOnly, CountInv, IInv, TypeOK
  <2>2. QED
    BY <2>1 DEF InstanceQuestion
<1>2. Attempts(iq') = Attempts(iq)
  BY <1>1, SameAttempts
<1>3. Attempts(iq)' = Attempts(iq')
  BY DEF Attempts
<1>4. \A v \in MadeVariants' : variant'[v].tries = Cardinality(TriesOf(v)')
  BY CountDef, FS_EmptySet DEF NothingGraded, TriesKept, CountInv
<1>5. issues' + Attempts(iq)' = Cardinality(GradedJobs')
  BY <1>2, <1>3, CountDef DEF NothingGraded, CountInv
<1>6. QED
  BY <1>4, <1>5 DEF AttemptsCounted, TriesOf, GradedJobs, Attempts

\* Whose try a job is never changes.
LEMMA ParentsKept ==
  ASSUME IInv, [Next]_vars
  PROVE  /\ Inserted \subseteq Inserted'
         /\ \A j \in Inserted : /\ job'[j].sub = job[j].sub
                                /\ sub'[job'[j].sub].variant = sub[job[j].sub].variant
                                /\ sub[job[j].sub].variant \in MadeVariants
<1>1. /\ Inserted \subseteq Inserted'
      /\ \A j \in Inserted : job'[j].sub = job[j].sub
      /\ \A s \in Saved : sub'[s].variant = sub[s].variant
  <2>1. ASSUME NEW w \in Processes, InsertJob(w)
        PROVE  RowsKept /\ Inserted \subseteq Inserted'
    BY <2>1, InsertJobTypes
  <2>2. JobsKept \/ \E w \in Processes : InsertJob(w)
    BY JobSteps, UpdateAfterGradingJobs, GradeRatePassesJobs
  <2>3. QED
    BY <2>1, <2>2 DEF JobsKept, RowsKept
<1>2. QED
  BY <1>1 DEF IInv, References

\* A step that gives no job a score counts nothing.
LEMMA NoScoreCounts ==
  ASSUME CountInv, IInv', [Next]_vars, NothingGraded,
         \A j \in Inserted : job'[j].gradable = job[j].gradable,
         \A j \in Inserted' \ Inserted : ~job'[j].gradable,
         \A j \in Inserted : job[j].graded => job'[j].graded
  PROVE  ScoredOnce' /\ AttemptsCounted'
<1>1. IInv
  BY DEF CountInv
<1>2. \A v : TriesOf(v)' = TriesOf(v)
  BY <1>1, ParentsKept DEF TriesOf
<1>3. GradedJobs' = GradedJobs
  BY <1>1, ParentsKept DEF GradedJobs
<1>4. \A v \in MadeVariants' \ MadeVariants : TriesOf(v)' = {}
  BY <1>1, <1>2, ParentsKept DEF TriesOf
<1>5. ScoredOnce'
  BY DEF ScoredOnce, CountInv
<1>6. QED
  BY <1>2, <1>3, <1>4, <1>5, CountKept

\* instance_questions_grade counts one attempt or one issue.
LEMMA GradeQuestionCounts ==
  ASSUME IInv, NEW q \in Questions, NEW score \in Scores, NEW credit,
         GradeQuestion(q, score, credit)
  PROVE  /\ issues' + Attempts(iq') = issues + Attempts(iq) + 1
         /\ issues + Attempts(iq) \in Int
<1> DEFINE f == [x \in Questions |-> iq[x].attempts]
           g == [x \in Questions |-> iq'[x].attempts]
<1>1. /\ iq \in [Questions -> InstanceQuestion] /\ issues \in Nat
      /\ \A x \in Questions : f[x] \in Int
      /\ IsFiniteSet(Questions)
  BY GradingAssumption DEF IInv, TypeOK, InstanceQuestion
<1>2. Attempts(iq) = SumFunctionOnSet(f, Questions) /\ Attempts(iq') = SumFunctionOnSet(g, Questions)
  BY DEF Attempts
<1>3. SumFunctionOnSet(f, Questions) \in Int
  <2> HIDE DEF f
  <2>1. QED
    BY <1>1, SumType
<1>4. CASE iq[q].open
  <2> DEFINE new == GradedQuestion(AQ[q], iq[q], score)
  <2>1. iq' = [iq EXCEPT ![q] = new] /\ issues' = issues
    BY <1>4 DEF GradeQuestion
  <2>2. new.attempts = iq[q].attempts + 1
    <3>1. /\ AQ[q] \in AssessmentQuestion /\ iq[q] \in InstanceQuestion
          /\ AttemptsLeft(AQ[q], iq[q])
      BY QuestionTypes DEF IInv, AllAttemptsLeft
    <3>2. QED
      BY <1>4, <3>1, GradedAttempts
  <2> HIDE DEF new
  <2>3. /\ \A x \in Questions : g[x] \in Int
        /\ g[q] = f[q] + 1 /\ \A x \in Questions \ {q} : f[x] = g[x]
    BY <1>1, <2>1, <2>2
  <2> HIDE DEF f, g
  <2>4. SumFunctionOnSet(g, Questions) = SumFunctionOnSet(f, Questions) + (g[q] - f[q])
    BY <1>1, <2>3, SumUpdate
  <2>5. QED
    BY <1>1, <1>2, <1>3, <2>1, <2>3, <2>4
<1>5. CASE ~iq[q].open
  BY <1>1, <1>2, <1>3, <1>5 DEF GradeQuestion
<1>6. QED
  BY <1>4, <1>5

\* grading_jobs_update_after_grading counts a gradable result once.
LEMMA UpdateAfterGradingCounts ==
  ASSUME CountInv, IInv', [Next]_vars, NEW j \in Inserted, NEW gradable \in BOOLEAN,
         NEW score \in Scores, UpdateAfterGrading(j, gradable, score)
  PROVE  ScoredOnce' /\ AttemptsCounted'
<1> DEFINE s == job[j].sub
           q == QuestionOf(s)
           v == sub[s].variant
<1>1. /\ j \in Jobs /\ job[j] \in Job /\ s \in Saved /\ v \in MadeVariants /\ q \in Questions
      /\ variant \in [Variants -> Variant] /\ iq \in [Questions -> InstanceQuestion]
      /\ MadeVariants \subseteq Variants /\ Inserted \subseteq Jobs /\ job \in [Jobs -> Job]
  BY DEF CountInv, IInv, TypeOK, References, Inserted, MadeVariants, QuestionOf, Variant
<1>2. CASE UNCHANGED rows
  <2>1. UNCHANGED <<grade, issues, iq, variant, job>> /\ Inserted' = Inserted
    BY <1>2 DEF rows, Inserted
  <2>2. NothingGraded
    BY <2>1, SamePoints DEF CountInv
  <2>3. QED
    BY <2>1, <2>2, NoScoreCounts
<1>3. CASE ~ResultUnneeded(j) /\ StoreResult(j, gradable, score)
  <2>1. Inserted' = Inserted
    BY UpdateAfterGradingTypes DEF CountInv, IInv
  <2>2. /\ job'[j].graded /\ job'[j].gradable = gradable
        /\ \A i \in Jobs : i # j => job'[i] = job[i]
    BY <1>1, <1>3 DEF StoreResult, Job
  <2>3. ~job[j].gradable
    BY <1>3 DEF ResultUnneeded, CountInv, ScoredOnce
  <2>4. ScoredOnce'
    BY <1>1, <2>1, <2>2 DEF ScoredOnce, CountInv
  <2>5. CASE ~gradable
    <3>1. iq' = [iq EXCEPT ![q].status = "invalid"] /\ UNCHANGED <<grade, variant, issues>>
      BY <1>3, <2>5 DEF UpdateAfterGrading
    <3>2. NothingGraded
      BY <1>1, <3>1, StatusStep DEF NothingGraded, TriesKept, MadeVariants, CountInv
    <3>3. /\ \A i \in Inserted : job'[i].gradable = job[i].gradable
          /\ \A i \in Inserted : job[i].graded => job'[i].graded
      <4>1. job[j].gradable = FALSE
        BY <1>1, <2>3 DEF Job
      <4>2. \A i \in Inserted : i \in Jobs /\ (i = j \/ job'[i] = job[i])
        BY <1>1, <2>2
      <4>3. QED
        BY <2>2, <2>5, <4>1, <4>2
    <3>4. QED
      BY <2>1, <3>2, <3>3, NoScoreCounts
  <2>6. CASE gradable
    <3>1. /\ variant' = VariantUpdateAfterGrading(v, Correct(score))
          /\ GradeQuestion(q, score, sub[s].credit)
      BY <1>3, <2>6 DEF UpdateAfterGrading
    <3>2. /\ \A u \in Variants : u # v => variant'[u] = variant[u]
          /\ variant'[v].tries = variant[v].tries + 1
          /\ MadeVariants' = MadeVariants
      <4> DEFINE tries == variant[v].tries + 1
                 open == variant[v].open /\ ~(/\ AQ[variant[v].question].type = "Homework"
                                              /\ ~AQ[variant[v].question].singleVariant
                                              /\ tries >= AQ[variant[v].question].triesPerVariant \/ Correct(score))
                 new == [variant[v] EXCEPT !.tries = tries, !.open = open]
      <4>1. variant' = [variant EXCEPT ![v] = new]
        BY <1>1, <3>1 DEF VariantUpdateAfterGrading
      <4>2. variant[v] \in Variant
        BY <1>1
      <4> HIDE DEF v, tries, open
      <4>3. new.tries = tries /\ new.question = variant[v].question
        BY <4>2 DEF Variant
      <4> HIDE DEF new
      <4>4. QED
        BY <1>1, <4>1, <4>3 DEF tries, MadeVariants
    <3>3. /\ GradedJobs' = GradedJobs \cup {j} /\ j \notin GradedJobs
          /\ GradedJobs \subseteq Jobs
      BY <1>1, <2>1, <2>2, <2>3, <2>6 DEF GradedJobs
    <3>4. ASSUME NEW u \in MadeVariants
          PROVE  /\ u # v => TriesOf(u)' = TriesOf(u)
                 /\ u = v => TriesOf(u)' = TriesOf(u) \cup {j} /\ j \notin TriesOf(u)
                 /\ TriesOf(u) \subseteq Jobs
      <4>1. \A i \in Inserted : sub'[job'[i].sub].variant = sub[job[i].sub].variant
        BY ParentsKept DEF CountInv
      <4>2. QED
        BY <1>1, <2>1, <2>2, <2>3, <2>6, <4>1, ZenonT(60) DEF TriesOf
    <3>5. ASSUME NEW u \in MadeVariants'
          PROVE  variant'[u].tries = Cardinality(TriesOf(u)')
      <4>1. u \in MadeVariants /\ u \in Variants
        BY <1>1, <3>2
      <4>2. variant[u].tries = Cardinality(TriesOf(u)) /\ IsFiniteSet(TriesOf(u))
        BY <3>4, <4>1, CountDef, FinitelyManyJobs DEF CountInv
      <4>3. CASE u # v
        BY <3>2, <3>4, <4>1, <4>2, <4>3
      <4>4. CASE u = v
        <5>1. TriesOf(u)' = TriesOf(u) \cup {j} /\ j \notin TriesOf(u)
          BY <3>4, <4>1, <4>4
        <5>2. Cardinality(TriesOf(u) \cup {j}) = Cardinality(TriesOf(u)) + 1
          BY <4>2, <5>1, FS_AddElement
        <5>3. QED
          BY <3>2, <4>2, <4>4, <5>1, <5>2
      <4>5. QED
        BY <4>3, <4>4
    <3>6. issues' + Attempts(iq)' = Cardinality(GradedJobs')
      <4>1. issues + Attempts(iq) = Cardinality(GradedJobs)
        BY CountDef DEF CountInv
      <4>2. issues' + Attempts(iq') = issues + Attempts(iq) + 1
        BY <1>1, <3>1, GradeQuestionCounts DEF CountInv
      <4>3. Cardinality(GradedJobs \cup {j}) = Cardinality(GradedJobs) + 1
        BY <3>3, FinitelyManyJobs, FS_AddElement
      <4>4. Attempts(iq)' = Attempts(iq')
        BY DEF Attempts
      <4>5. QED
        BY <3>3, <4>1, <4>2, <4>3, <4>4
    <3>7. QED
      BY <2>4, <3>5, <3>6 DEF AttemptsCounted, TriesOf, GradedJobs, Attempts
  <2>7. QED
    BY <2>5, <2>6
<1>4. QED
  BY <1>2, <1>3 DEF UpdateAfterGrading

THEOREM CountInvariance == Spec => []CountInv
<1>1. Init => CountInv
  <2> SUFFICES ASSUME Init PROVE CountInv
    OBVIOUS
  <2> DEFINE f == [q \in Questions |-> iq[q].attempts]
  <2>1. Inserted = {} /\ MadeVariants = {} /\ issues = 0
    BY DEF Init, Inserted, MadeVariants, NoJob, NoVariant
  <2>2. \A q \in Questions : f[q] = 0
    BY DEF Init, NewInstanceQuestion
  <2>3. Attempts(iq) = SumFunctionOnSet(f, Questions)
    BY DEF Attempts
  <2>4. GradedJobs = {}
    BY <2>1 DEF GradedJobs
  <2> HIDE DEF f
  <2>5. Attempts(iq) = 0
    BY <2>2, <2>3, GradingAssumption, SumOfZeros
  <2>6. QED
    BY <2>1, <2>4, <2>5, InitInvariant, CountDef, FS_EmptySet DEF CountInv, ScoredOnce
<1>2. CountInv /\ [Next]_vars => CountInv'
  <2> SUFFICES ASSUME CountInv, [Next]_vars PROVE ScoredOnce' /\ AttemptsCounted'
    BY NextInvariant DEF CountInv
  <2>1. IInv /\ IInv'
    BY NextInvariant DEF CountInv
  <2>2. CASE NothingGraded /\ UNCHANGED job
    <3>1. Inserted' = Inserted
      BY <2>2 DEF Inserted
    <3>2. QED
      BY <2>1, <2>2, <3>1, NoScoreCounts
  <2>3. CASE GradeRatePasses
    <3>1. NothingGraded
      BY <2>1, <2>3, SamePoints DEF GradeRatePasses
    <3>2. \A i \in Jobs : /\ job'[i].gradable = job[i].gradable
                          /\ job'[i].graded = job[i].graded /\ job'[i].sub = job[i].sub
      <4> TAKE i \in Jobs
      <4>1. job[i] \in Job /\ job'[i] = [job[i] EXCEPT !.rate = "past"]
        BY <2>1, <2>3 DEF GradeRatePasses, IInv, TypeOK
      <4>2. QED
        BY <4>1 DEF Job
    <3>3. QED
      BY <2>1, <3>1, <3>2, NoScoreCounts DEF Inserted
  <2>4. ASSUME NEW w \in Processes, InsertJob(w)
        PROVE  ScoredOnce' /\ AttemptsCounted'
    <3> DEFINE dead == CanceledBy(worker[w].v)
    <3>1. PICK j \in Jobs :
            /\ Inserted' = Inserted \cup {j} /\ ~job'[j].gradable
            /\ \A i \in Inserted \ dead : job'[i] = job[i]
            /\ \A i \in dead : i \in Inserted /\ job'[i] = [job[i] EXCEPT !.canceled = TRUE]
            /\ j \notin Inserted
            /\ UNCHANGED <<iq, issues, variant>>
      BY <2>1, <2>4, InsertJobTypes
    <3> HIDE DEF dead
    <3>2. \A i \in Inserted : job'[i].gradable = job[i].gradable /\ job'[i].graded = job[i].graded
      <4>1. ASSUME NEW i \in dead
            PROVE  job'[i].gradable = job[i].gradable /\ job'[i].graded = job[i].graded
        <5>1. job[i] \in Job /\ job'[i] = [job[i] EXCEPT !.canceled = TRUE]
          BY <2>1, <3>1 DEF IInv, TypeOK, Inserted
        <5>2. QED
          BY <5>1 DEF Job
      <4>2. QED
        BY <3>1, <4>1
    <3>3. \A v : TriesOf(v)' = TriesOf(v)
      BY <2>1, <3>1, <3>2, ParentsKept DEF TriesOf
    <3>4. GradedJobs' = GradedJobs /\ MadeVariants' = MadeVariants
      BY <3>1, <3>2 DEF GradedJobs, MadeVariants
    <3>5. ScoredOnce'
      BY <3>1, <3>2 DEF ScoredOnce, CountInv
    <3>6. /\ \A v \in MadeVariants' : variant'[v].tries = Cardinality(TriesOf(v)')
          /\ issues' + Attempts(iq)' = Cardinality(GradedJobs')
      <4>1. Attempts(iq)' = Attempts(iq)
        BY <3>1 DEF Attempts
      <4>2. QED
        BY <3>1, <3>3, <3>4, <4>1, CountDef DEF CountInv
    <3>7. QED
      BY <3>5, <3>6 DEF AttemptsCounted, TriesOf, GradedJobs, Attempts
  <2>5. QED
    BY <2>1, <2>2, <2>3, <2>4, PointSteps, UpdateAfterGradingCounts
<1>3. QED
  BY <1>1, <1>2, PTL DEF Spec

\* However results repeat, race or come late, a variant's tries are the jobs
\* graded for it, and each such job was an attempt of its question or an issue.
THEOREM AttemptsAreCounted == Spec => []AttemptsCounted
<1>1. CountInv => AttemptsCounted
  BY DEF CountInv
<1>2. QED
  BY <1>1, CountInvariance, PTL

-----------------------------------------------------------------------------
(* A finished exam is graded completely, if nobody was working on it when it *)
(* was closed and no server has died.                                        *)

\* Rows get increasing identifiers, a question has one open variant at a time,
\* and only that one takes submissions.
InLine ==
  /\ \A v \in MadeVariants : \A u \in Variants : u <= v => u \in MadeVariants
  /\ \A s \in Saved : \A t \in Submissions : t <= s => t \in Saved
  /\ \A u, v \in MadeVariants :
       variant[u].question = variant[v].question /\ u < v => ~variant[u].open
  /\ \A s, t \in Saved :
       QuestionOf(s) = QuestionOf(t) /\ sub[s].variant < sub[t].variant => s < t

\* A step that opens and saves nothing.
LinesKept ==
  /\ MadeVariants' = MadeVariants /\ Saved' = Saved
  /\ \A v \in MadeVariants : /\ variant'[v].question = variant[v].question
                             /\ variant'[v].open => variant[v].open
  /\ \A s \in Saved : sub'[s].variant = sub[s].variant

LEMMA SameLines ==
  ASSUME UNCHANGED <<variant, sub>>
  PROVE  LinesKept
BY DEF LinesKept, MadeVariants, Saved

LEMMA UpdateAfterGradingLines ==
  ASSUME IInv, NEW j \in Inserted, NEW gradable \in BOOLEAN, NEW score \in Scores,
         UpdateAfterGrading(j, gradable, score)
  PROVE  LinesKept /\ ai'.open = ai.open
<1> DEFINE s == job[j].sub
           q == QuestionOf(s)
           x == sub[s].variant
<1>1. RowsKept /\ Saved' = Saved
  BY UpdateAfterGradingTypes DEF IInv
<1>2. s \in Saved /\ x \in Variants /\ variant \in [Variants -> Variant] /\ ai \in AssessmentInstance
  BY DEF IInv, References, TypeOK, MadeVariants
<1>3. /\ \/ ai' = ai
         \/ ai' = [ai EXCEPT !.age = 0]
      /\ \/ variant' = variant
         \/ variant' = VariantUpdateAfterGrading(x, Correct(score))
  BY DEF UpdateAfterGrading, rows, GradeQuestion, AssessmentInstanceGrade
<1>4. ai'.open = ai.open
  BY <1>2, <1>3 DEF AssessmentInstance
<1>5. \A v \in Variants : /\ variant'[v].question = variant[v].question
                          /\ variant'[v].open => variant[v].open
  <2>1. CASE variant' = variant
    BY <2>1
  <2>2. CASE variant' = VariantUpdateAfterGrading(x, Correct(score))
    <3> DEFINE tries == variant[x].tries + 1
               more == ~(/\ AQ[variant[x].question].type = "Homework"
                         /\ ~AQ[variant[x].question].singleVariant
                         /\ tries >= AQ[variant[x].question].triesPerVariant \/ Correct(score))
               new == [variant[x] EXCEPT !.tries = tries, !.open = variant[x].open /\ more]
    <3>1. variant' = [variant EXCEPT ![x] = new]
      BY <1>2, <2>2 DEF VariantUpdateAfterGrading
    <3>2. variant[x] \in Variant
      BY <1>2
    <3> HIDE DEF x, tries, more
    <3>3. new.question = variant[x].question /\ (new.open => variant[x].open)
      BY <3>2 DEF Variant
    <3> HIDE DEF new
    <3>4. QED
      BY <1>2, <3>1, <3>3
  <2>3. QED
    BY <1>3, <2>1, <2>2
<1>6. MadeVariants' = MadeVariants
  BY <1>5 DEF MadeVariants
<1>7. QED
  BY <1>1, <1>4, <1>5, <1>6 DEF LinesKept, RowsKept, MadeVariants

LEMMA InsertJobLines ==
  ASSUME IInv, NEW w \in Processes, InsertJob(w)
  PROVE  LinesKept /\ ai'.open = ai.open
<1>1. RowsKept /\ Saved' = Saved /\ variant' = variant
  BY InsertJobTypes
<1>2. ai' = [ai EXCEPT !.age = 0] /\ ai \in AssessmentInstance
  BY DEF InsertJob, AssessmentInstanceGrade, IInv, TypeOK
<1>3. QED
  BY <1>1, <1>2 DEF LinesKept, RowsKept, MadeVariants, AssessmentInstance

\* What is opened and saved, and what closes an assessment instance.
LEMMA LineSteps ==
  ASSUME IInv, [Next]_vars
  PROVE  \/ ai.open /\ \E q \in Questions : CreateVariant(q)
         \/ /\ ai.open
            /\ \E s \in Submissions, v \in Variants, gradable \in BOOLEAN, credit \in Credits :
                 InsertSubmission(s, v, gradable, credit)
         \/ LinesKept /\ ai'.open = ai.open
         \/ LinesKept /\ ~ai'.open /\ (CronClose \/ \E w \in Workers : Finish(w))
<1> DEFINE Goal == \/ LinesKept /\ ai'.open = ai.open
                   \/ LinesKept /\ ~ai'.open /\ (CronClose \/ \E w \in Workers : Finish(w))
<1> SUFFICES ASSUME ~\E q \in Questions : CreateVariant(q),
                    ~\E v \in Variants, gradable \in BOOLEAN, credit \in Credits :
                       \/ SaveSubmission(v, gradable, credit)
                       \/ \E w \in Workers : SaveAndGrade(w, v, gradable, credit)
             PROVE  Goal
  <2>1. \A q \in Questions : CreateVariant(q) => ai.open
    BY DEF CreateVariant
  <2>2. ASSUME NEW v \in Variants, NEW gradable \in BOOLEAN, NEW credit \in Credits,
               \/ SaveSubmission(v, gradable, credit)
               \/ \E w \in Workers : SaveAndGrade(w, v, gradable, credit)
        PROVE  ai.open /\ \E s \in Submissions : InsertSubmission(s, v, gradable, credit)
    <3>1. PICK s \in Submissions : InsertSubmission(s, v, gradable, credit)
      BY <2>2 DEF SaveSubmission, SaveAndGrade
    <3>2. QED
      BY <3>1 DEF InsertSubmission
  <2> HIDE DEF Goal
  <2>3. QED
    BY <2>1, <2>2 DEF Goal
<1>0. ai \in AssessmentInstance
  BY DEF IInv, TypeOK
<1>1. CASE UNCHANGED <<variant, sub>> /\ ai'.open = ai.open
  BY <1>1, SameLines
<1>2. ASSUME NEW w \in Processes, Proceed(w)
      PROVE  Goal
  <2>1. CASE InsertJob(w)
    BY <2>1, InsertJobLines
  <2>2. CASE GradeInternal(w)
    <3>1. worker[w].job \in Inserted
      BY <2>2, Queues DEF GradeInternal, HandlerReferences
    <3>2. PICK gradable \in BOOLEAN, score \in Scores : UpdateAfterGrading(worker[w].job, gradable, score)
      BY <2>2 DEF GradeInternal
    <3>3. QED
      BY <3>1, <3>2, UpdateAfterGradingLines
  <2>3. CASE Select(w) \/ CheckRate(w) \/ BeginExternal(w) \/ SelectVariants(w)
    BY <1>1, <2>3 DEF Select, CheckRate, BeginExternal, SelectVariants, rows
  <2>4. CASE UnsetGradingNeeded(w)
    BY <1>0, <1>1, <2>4 DEF UnsetGradingNeeded, AssessmentInstance
  <2>5. QED
    BY <1>2, <2>1, <2>2, <2>3, <2>4 DEF Proceed
<1>3. ASSUME NEW m \in results, ProcessResult(m)
      PROVE  Goal
  <2> DEFINE gradable == ResultGradable(m.raw)
             score == IF gradable THEN ResultScore(m.raw) ELSE 0
  <2>1. gradable \in BOOLEAN /\ score \in Scores
    BY ScoreUnitAssumption DEF ResultGradable, Scores
  <2>2. UpdateAfterGrading(m.job, gradable, score) /\ m.job \in Inserted
    BY <1>3, Queues DEF ProcessResult
  <2> HIDE DEF gradable, score
  <2>3. QED
    BY <2>1, <2>2, UpdateAfterGradingLines
<1>4. CASE CronClose \/ \E w \in Workers : Finish(w)
  <2>1. UNCHANGED <<variant, sub>> /\ (ai' = ai \/ Close)
    BY <1>4 DEF CronClose, Finish
  <2>2. ai'.open = ai.open \/ ~ai'.open
    BY <1>0, <2>1 DEF Close, AssessmentInstance
  <2>3. QED
    BY <1>4, <2>1, <2>2, SameLines
<1>5. CASE \/ \E w \in Workers, override \in BOOLEAN : StartGrading(w, override)
           \/ \E w \in Processes : Crash(w)
           \/ CronPick
           \/ \E j \in Jobs : GradeExternally(j)
           \/ GradeRatePasses
           \/ UNCHANGED vars
  BY <1>1, <1>5 DEF StartGrading, Crash, CronPick, GradeExternally, GradeRatePasses, vars, rows
<1>6. CASE Age
  BY <1>0, <1>1, <1>6 DEF Age, AssessmentInstance
<1> HIDE DEF Goal
<1>7. QED
  BY <1>2, <1>3, <1>4, <1>5, <1>6 DEF Next

LEMMA CreateVariantInLine ==
  ASSUME IInv, InLine, NEW q \in Questions, CreateVariant(q)
  PROVE  InLine'
<1>1. PICK v \in Variants :
        /\ IsNextId(v, MadeVariants, Variants)
        /\ ~\E u \in VariantsOf(q) : variant[u].open
        /\ variant' = [variant EXCEPT ![v] = [question |-> q, open |-> TRUE, tries |-> 0]]
        /\ sub' = sub
  BY DEF CreateVariant
<1>2. /\ variant \in [Variants -> Variant] /\ q # Null
      /\ \A s \in Saved : sub[s].variant \in MadeVariants
      /\ MadeVariants \subseteq Variants /\ Variants \subseteq Nat
  BY GradingAssumption DEF IInv, TypeOK, References, MadeVariants, Null, Variants
<1>3. /\ variant'[v].question = q /\ \A u \in Variants : u # v => variant'[u] = variant[u]
      /\ MadeVariants' = MadeVariants \cup {v} /\ Saved' = Saved
  BY <1>1, <1>2 DEF MadeVariants, Saved
<1>4. v \notin MadeVariants /\ \A u \in Variants : u \notin MadeVariants => v <= u
  BY <1>1 DEF IsNextId
<1>5. \A u \in MadeVariants : u < v
  BY <1>2, <1>4 DEF InLine
<1>6. \A u \in MadeVariants' : \A x \in Variants : x <= u => x \in MadeVariants'
  BY <1>2, <1>3, <1>4 DEF InLine
<1>7. ASSUME NEW u \in MadeVariants', NEW x \in MadeVariants',
             variant'[u].question = variant'[x].question, u < x
      PROVE  ~variant'[u].open
  <2>1. u # v /\ u \in MadeVariants
    BY <1>2, <1>3, <1>5, <1>7
  <2>2. CASE x = v
    BY <1>1, <1>2, <1>3, <1>7, <2>1, <2>2 DEF VariantsOf
  <2>3. CASE x # v
    BY <1>2, <1>3, <1>7, <2>1, <2>3 DEF InLine
  <2>4. QED
    BY <2>2, <2>3
<1>8. \A s \in Saved : QuestionOf(s)' = QuestionOf(s)
  BY <1>1, <1>2, <1>3, <1>4 DEF QuestionOf
<1>9. QED
  BY <1>1, <1>3, <1>6, <1>7, <1>8 DEF InLine

LEMMA InsertSubmissionInLine ==
  ASSUME IInv, InLine, NEW s \in Submissions, NEW v \in Variants, NEW gradable \in BOOLEAN,
         NEW credit \in Credits, InsertSubmission(s, v, gradable, credit)
  PROVE  InLine'
<1>1. /\ Saved' = Saved \cup {s} /\ s \notin Saved /\ sub'[s].variant = v /\ v \in MadeVariants
      /\ \A x \in Saved : sub'[x] = sub[x]
      /\ variant' = variant /\ MadeVariants' = MadeVariants
  BY InsertSubmissionTypes DEF MadeVariants
<1>2. variant[v].open /\ \A t \in Submissions : t \notin Saved => s <= t
  BY DEF InsertSubmission, IsNextId
<1>3. /\ \A t \in Saved : sub[t].variant \in MadeVariants
      /\ Saved \subseteq Submissions /\ Submissions \subseteq Nat
      /\ MadeVariants \subseteq Variants /\ Variants \subseteq Nat
  BY DEF IInv, References, Saved, MadeVariants, Submissions, Variants
<1>4. \A t \in Saved : t < s
  BY <1>1, <1>3 DEF InLine
<1>5. \A t \in Saved' : \A x \in Submissions : x <= t => x \in Saved'
  BY <1>1, <1>2, <1>3 DEF InLine
<1>6. \A t \in Saved : QuestionOf(t)' = QuestionOf(t) /\ sub'[t].variant = sub[t].variant
  BY <1>1 DEF QuestionOf
<1>7. QuestionOf(s)' = variant[v].question
  BY <1>1 DEF QuestionOf
<1>8. ASSUME NEW t \in Saved, QuestionOf(t) = variant[v].question
      PROVE  ~(v < sub[t].variant)
  BY <1>1, <1>2, <1>3, <1>8 DEF InLine, QuestionOf
<1>9. ASSUME NEW t \in Saved', NEW x \in Saved', QuestionOf(t)' = QuestionOf(x)',
             sub'[t].variant < sub'[x].variant
      PROVE  t < x
  <2>1. CASE t = s
    <3>1. v < sub'[x].variant /\ x \in Saved'
      BY <1>1, <1>9, <2>1
    <3>2. x # s /\ x \in Saved
      BY <1>1, <1>3, <3>1
    <3>3. QuestionOf(x) = variant[v].question /\ v < sub[x].variant
      BY <1>6, <1>7, <1>9, <2>1, <3>1, <3>2
    <3>4. QED
      BY <1>8, <3>2, <3>3
  <2>2. CASE t # s /\ x = s
    BY <1>1, <1>4, <2>2
  <2>3. CASE t # s /\ x # s
    BY <1>1, <1>6, <1>9, <2>3 DEF InLine
  <2>4. QED
    BY <2>1, <2>2, <2>3
<1>10. QED
  BY <1>1, <1>5, <1>9 DEF InLine

LEMMA StaysInLine ==
  ASSUME IInv, [Next]_vars, InLine
  PROVE  InLine'
<1>1. CASE LinesKept
  <2>1. \A s \in Saved : QuestionOf(s)' = QuestionOf(s) /\ sub[s].variant \in MadeVariants
    BY <1>1 DEF LinesKept, QuestionOf, IInv, References
  <2>2. QED
    BY <1>1, <2>1 DEF LinesKept, InLine
<1>2. QED
  BY <1>1, LineSteps, CreateVariantInLine, InsertSubmissionInLine

\* The newest submission of the newest variant is the newest of its question.
Outdated(s) == \E t \in Saved : t > s /\ QuestionOf(t) = QuestionOf(s)

LEMMA LastIsNewest ==
  ASSUME IInv, InLine, NEW v \in LatestVariants, NEW s, IsLast(s, SubmissionsOf(v))
  PROVE  ~Outdated(s) /\ s \in Saved /\ QuestionOf(s) = variant[v].question
<1>1. /\ s \in Saved /\ sub[s].variant = v /\ QuestionOf(s) = variant[v].question
      /\ \A t \in SubmissionsOf(v) : t <= s
      /\ v \in MadeVariants /\ \A u \in VariantsOf(variant[v].question) : u <= v
  BY DEF IsLast, SubmissionsOf, QuestionOf, LatestVariants
<1>2. /\ \A t \in Saved : sub[t].variant \in MadeVariants
      /\ Saved \subseteq Submissions /\ Submissions \subseteq Nat
      /\ MadeVariants \subseteq Variants /\ Variants \subseteq Nat
  BY DEF IInv, References, Saved, MadeVariants, Submissions, Variants
<1>3. ASSUME NEW t \in Saved, QuestionOf(t) = QuestionOf(s)
      PROVE  ~(t > s)
  <2>0. t \in Nat /\ s \in Nat /\ v \in Nat /\ sub[t].variant \in Nat
    BY <1>1, <1>2
  <2>1. sub[t].variant \in VariantsOf(variant[v].question)
    BY <1>1, <1>2, <1>3 DEF VariantsOf, QuestionOf
  <2>2. CASE sub[t].variant = v
    BY <1>1, <2>0, <2>2 DEF SubmissionsOf
  <2>3. CASE sub[t].variant < v
    BY <1>1, <1>3, <2>0, <2>3 DEF InLine
  <2>4. sub[t].variant <= v
    BY <1>1, <2>1
  <2>5. QED
    BY <2>0, <2>2, <2>3, <2>4
<1>4. QED
  BY <1>1, <1>3 DEF Outdated

\* Who moves in a step.
LEMMA WorkerSteps ==
  ASSUME IInv, [Next]_vars, NEW u \in Processes
  PROVE  \/ worker'[u] = worker[u]
         \/ u \in Workers /\ worker[u].pc = "idle" /\ ai.open /\ worker'[u].pc # "close"
         \/ Proceed(u)
         \/ Crash(u) /\ worker'[u] = IdleWorker
         \/ u = Cron /\ (CronPick \/ CronClose)
<1> DEFINE Goal == \/ worker'[u] = worker[u]
                   \/ u \in Workers /\ worker[u].pc = "idle" /\ ai.open /\ worker'[u].pc # "close"
                   \/ Proceed(u)
                   \/ Crash(u) /\ worker'[u] = IdleWorker
                   \/ u = Cron /\ (CronPick \/ CronClose)
<1> SUFFICES Goal
  OBVIOUS
<1>0. worker \in [Processes -> Worker] /\ Workers \subseteq Processes /\ Cron \in Processes
  BY DEF IInv, TypeOK, Processes
<1>1. ASSUME NEW w \in Workers,
             \/ Finish(w) \/ \E override \in BOOLEAN : StartGrading(w, override)
             \/ \E v \in Variants, gradable \in BOOLEAN, credit \in Credits :
                  SaveAndGrade(w, v, gradable, credit)
      PROVE  Goal
  <2>1. PICK me : /\ worker[w].pc = "idle" /\ me.pc # "close"
                  /\ worker' = [worker EXCEPT ![w] = me]
    <3>1. \A override : ExamWorker("variants", override).pc # "close"
      BY DEF ExamWorker, IdleWorker
    <3>2. \A v, s : [IdleWorker EXCEPT !.pc = "select", !.v = v, !.check = s].pc # "close"
      BY DEF IdleWorker
    <3>3. QED
      BY <1>1, <3>1, <3>2 DEF Finish, StartGrading, SaveAndGrade
  <2>2. ai.open
    BY <1>1 DEF Finish, StartGrading, SaveAndGrade, InsertSubmission
  <2>3. QED
    BY <1>0, <2>1, <2>2
<1>2. ASSUME NEW w \in Processes, Proceed(w)
      PROVE  Goal
  <2>1. CASE u = w
    BY <1>2, <2>1
  <2>2. CASE u # w
    BY <1>0, <1>2, <2>2 DEF Proceed, Select, CheckRate, InsertJob, GradeInternal, BeginExternal,
       SelectVariants, UnsetGradingNeeded, Return
  <2>3. QED
    BY <2>1, <2>2
<1>3. ASSUME NEW w \in Processes, Crash(w)
      PROVE  Goal
  BY <1>0, <1>3 DEF Crash
<1>4. CASE CronPick \/ CronClose
  BY <1>0, <1>4 DEF CronPick, CronClose
<1>5. CASE \/ \E q \in Questions : CreateVariant(q)
           \/ \E v \in Variants, gradable \in BOOLEAN, credit \in Credits :
                SaveSubmission(v, gradable, credit)
           \/ \E j \in Jobs : GradeExternally(j)
           \/ \E m \in results : ProcessResult(m)
           \/ Age \/ GradeRatePasses \/ UNCHANGED vars
  BY <1>5 DEF CreateVariant, SaveSubmission, GradeExternally, ProcessResult, Age, GradeRatePasses, vars
<1> HIDE DEF Goal
<1>6. QED
  BY <1>1, <1>2, <1>3, <1>4, <1>5 DEF Next

\* A server that has died stays counted.
LEMMA NoCrashYet ==
  ASSUME IInv, [Next]_vars, crashes' = 0
  PROVE  crashes = 0 /\ \A w \in Processes : ~Crash(w)
<1>1. crashes \in Nat
  BY GradingAssumption DEF IInv, TypeOK
<1>2. \A w \in Processes : ~Crash(w)
  BY <1>1 DEF Crash
<1>3. crashes' = crashes
  BY <1>2 DEF Next, CreateVariant, SaveSubmission, SaveAndGrade, Finish, StartGrading, Proceed, Select,
     CheckRate, InsertJob, GradeInternal, BeginExternal, SelectVariants, UnsetGradingNeeded,
     CronPick, CronClose, GradeExternally, ProcessResult, Age, GradeRatePasses, vars
<1>4. QED
  BY <1>2, <1>3

\* Rows keep their question, and newer submissions stay.
LEMMA QuestionsStay ==
  ASSUME IInv, [Next]_vars
  PROVE  \A s \in Saved : /\ s \in Saved' /\ QuestionOf(s)' = QuestionOf(s)
                          /\ sub'[s].variant = sub[s].variant
                          /\ Outdated(s) => Outdated(s)'
<1>1. \A s \in Saved : sub[s].variant \in MadeVariants
  BY DEF IInv, References
<1>2. \A s \in Saved : s \in Saved' /\ QuestionOf(s)' = QuestionOf(s) /\ sub'[s].variant = sub[s].variant
  <2>1. CASE LinesKept
    BY <1>1, <2>1 DEF LinesKept, QuestionOf
  <2>2. CASE \E q \in Questions : CreateVariant(q)
    <3>1. PICK v : /\ v \notin MadeVariants /\ sub' = sub
                   /\ \A u \in Variants : u # v => variant'[u] = variant[u]
      BY <2>2 DEF CreateVariant, IsNextId, IInv, TypeOK
    <3>2. MadeVariants \subseteq Variants
      BY DEF MadeVariants
    <3>3. QED
      BY <1>1, <3>1, <3>2 DEF Saved, QuestionOf
  <2>3. CASE \E s \in Submissions, v \in Variants, gradable \in BOOLEAN, credit \in Credits :
               InsertSubmission(s, v, gradable, credit)
    BY <2>3, InsertSubmissionTypes DEF QuestionOf
  <2>4. QED
    BY <2>1, <2>2, <2>3, LineSteps
<1>3. QED
  BY <1>2 DEF Outdated

\* What storing a result does to a submission and its job.
LEMMA StoredResult ==
  ASSUME IInv, NEW j \in Inserted, NEW gradable \in BOOLEAN, NEW score \in Scores,
         UpdateAfterGrading(j, gradable, score)
  PROVE  \/ ResultUnneeded(j) /\ UNCHANGED rows
         \/ /\ ~ResultUnneeded(j)
            /\ job'[j].graded
            /\ \A i \in Jobs : i # j => job'[i] = job[i]
            /\ sub'[job[j].sub].gradable => sub'[job[j].sub].score # Null
            /\ \A s \in Submissions : s # job[j].sub => sub'[s] = sub[s]
<1> DEFINE s == job[j].sub
           kept == IF gradable THEN score ELSE Null
           new == [sub[s] EXCEPT !.gradable = gradable, !.score = kept]
           graded == [job[j] EXCEPT !.graded = TRUE, !.gradable = gradable, !.score = kept]
<1>1. CASE ~ResultUnneeded(j) /\ StoreResult(j, gradable, score)
  <2>1. /\ j \in Jobs /\ job[j] \in Job /\ s \in Submissions /\ sub[s] \in Submission
        /\ job \in [Jobs -> Job] /\ sub \in [Submissions -> Submission]
    BY DEF IInv, References, Inserted, Saved, TypeOK
  <2>2. job' = [job EXCEPT ![j] = graded] /\ sub' = [sub EXCEPT ![s] = new]
    BY <1>1, <2>1 DEF StoreResult
  <2>3. new.gradable = gradable /\ new.score = kept
    BY <2>1 DEF Submission
  <2>4. graded.graded
    BY <2>1 DEF Job
  <2>5. kept = Null => ~gradable
    BY ScoreUnitAssumption DEF Scores, Null
  <2> HIDE DEF new, graded, kept, s
  <2>6. QED
    BY <1>1, <2>1, <2>2, <2>3, <2>4, <2>5 DEF s
<1>2. QED
  BY <1>1 DEF UpdateAfterGrading

-----------------------------------------------------------------------------
Internal(q) == AQ[q].method # "External"

GradesNow(p, j) == worker[p].pc = "grade" /\ worker[p].job = j

\* A result that was stored leaves its submission decided.
ResultsStored == \A j \in Inserted :
  job[j].graded /\ sub[job[j].sub].gradable => sub[job[j].sub].score # Null

\* Unless a server died or a newer answer was saved, the handler that inserted a
\* job for an internal grader is about to grade it.
JobsHeld == crashes = 0 => \A j \in Outstanding :
  Internal(QuestionOf(job[j].sub)) =>
    Outdated(job[j].sub) \/ \E p \in Processes : GradesNow(p, j)

ClosersReady == \A p \in Processes :
  worker[p].pc = "close" => worker[p] = ExamWorker("close", TRUE)

LEMMA ResultsStayStored ==
  ASSUME IInv, [Next]_vars, ResultsStored
  PROVE  ResultsStored'
<1>0. /\ \A i \in Inserted : job[i] \in Job /\ job[i].sub \in Saved /\ i \in Jobs
      /\ Saved \subseteq Submissions /\ sub \in [Submissions -> Submission]
  BY DEF IInv, TypeOK, References, Inserted, Saved
<1>1. CASE UNCHANGED job /\ \A s \in Saved : sub'[s] = sub[s]
  BY <1>0, <1>1 DEF ResultsStored, Inserted
<1>2. ASSUME NEW j \in Inserted, NEW gradable \in BOOLEAN, NEW score \in Scores,
             UpdateAfterGrading(j, gradable, score)
      PROVE  ResultsStored'
  <2>1. Inserted' = Inserted /\ \A i \in Inserted : job'[i].sub = job[i].sub
    BY <1>2, UpdateAfterGradingTypes DEF IInv, RowsKept
  <2>2. CASE UNCHANGED rows
    BY <2>2 DEF rows, ResultsStored, Inserted
  <2>3. QED
    BY <1>0, <1>2, <2>1, <2>2, StoredResult DEF ResultsStored
<1>3. CASE GradeRatePasses
  <2>1. ASSUME NEW j \in Jobs
        PROVE  job'[j].sub = job[j].sub /\ job'[j].graded = job[j].graded
    <3>1. job[j] \in Job /\ job'[j] = [job[j] EXCEPT !.rate = "past"]
      BY <1>3 DEF GradeRatePasses, IInv, TypeOK
    <3>2. QED
      BY <3>1 DEF Job
  <2>2. sub' = sub
    BY <1>3 DEF GradeRatePasses
  <2>3. QED
    BY <2>1, <2>2 DEF ResultsStored, Inserted
<1>4. ASSUME NEW w \in Processes, InsertJob(w)
      PROVE  ResultsStored'
  <2> DEFINE dead == CanceledBy(worker[w].v)
  <2>1. PICK j \in Jobs :
          /\ Inserted' = Inserted \cup {j} /\ ~job'[j].graded
          /\ \A i \in Inserted \ dead : job'[i] = job[i]
          /\ \A i \in dead : i \in Inserted /\ job'[i] = [job[i] EXCEPT !.canceled = TRUE]
    BY <1>4, InsertJobTypes
  <2>2. \A i \in Inserted : job'[i].graded = job[i].graded /\ job'[i].sub = job[i].sub
    <3> HIDE DEF dead
    <3>1. ASSUME NEW i \in dead
          PROVE  job'[i].graded = job[i].graded /\ job'[i].sub = job[i].sub
      BY <1>0, <2>1 DEF Job
    <3>2. QED
      BY <2>1, <3>1
  <2>3. \A s \in Submissions : sub'[s].gradable = sub[s].gradable /\ sub'[s].score = sub[s].score
    BY <1>0, <1>4 DEF InsertJob, Submission
  <2>4. QED
    BY <1>0, <2>1, <2>2, <2>3 DEF ResultsStored
<1>5. QED
  BY <1>1, <1>2, <1>3, <1>4, JobSteps

\* Inserting a job starts to grade it, and cancels those of its variant.
LEMMA InsertedIsHeld ==
  ASSUME IInv, NEW w \in Processes, InsertJob(w)
  PROVE  \E j \in Jobs :
           /\ j \in Outstanding' /\ job'[j].sub = worker[w].sub
           /\ worker[w].sub \in SubmissionsOf(worker[w].v) /\ worker[w].v \in MadeVariants
           /\ Outstanding' \subseteq Outstanding \cup {j}
           /\ \A i \in Outstanding : job'[i].sub = job[i].sub
           /\ \A i \in Outstanding :
                i \in Outstanding' \/ sub[job[i].sub].variant = worker[w].v
           /\ Internal(variant[worker[w].v].question) => GradesNow(w, j)'
<1> DEFINE me == worker[w]
           dead == CanceledBy(me.v)
<1>1. PICK j \in Jobs :
        /\ j \notin Inserted /\ Inserted' = Inserted \cup {j}
        /\ me.sub \in SubmissionsOf(me.v) /\ me.v \in MadeVariants /\ RowsKept
        /\ job'[j].sub = me.sub /\ ~job'[j].graded /\ ~job'[j].canceled
        /\ \A i \in Inserted \ dead : job'[i] = job[i]
        /\ \A i \in dead : i \in Inserted /\ job'[i] = [job[i] EXCEPT !.canceled = TRUE]
        /\ worker' = [worker EXCEPT
                       ![w].job = j,
                       ![w].pc = IF AQ[variant[me.v].question].method = "External"
                                   THEN "begin" ELSE "grade"]
  BY InsertJobTypes
<1>2. \A i \in Inserted : job[i] \in Job
  BY DEF IInv, TypeOK, Inserted
<1>3. ASSUME NEW i \in dead
      PROVE  job'[i].canceled
  <2> HIDE DEF dead
  <2>1. job'[i] = [job[i] EXCEPT !.canceled = TRUE] /\ job[i] \in Job
    BY <1>1, <1>2
  <2>2. QED
    BY <2>1 DEF Job
<1>4. j \in Outstanding' /\ Outstanding' \subseteq Outstanding \cup {j}
  BY <1>1, <1>3 DEF Outstanding
<1>5. \A i \in Outstanding : i \in Outstanding' \/ sub[job[i].sub].variant = me.v
  BY <1>1 DEF Outstanding, CanceledBy
<1>6. Internal(variant[me.v].question) => GradesNow(w, j)'
  <2>1. worker[w] \in Worker /\ worker \in [Processes -> Worker]
    BY DEF IInv, TypeOK
  <2>2. QED
    BY <1>1, <2>1 DEF Internal, GradesNow, Worker
<1>7. \A i \in Outstanding : job'[i].sub = job[i].sub
  BY <1>1 DEF RowsKept, Outstanding
<1>8. QED
  BY <1>1, <1>4, <1>5, <1>6, <1>7

\* A handler that holds a job grades it, or goes on holding it.
LEMMA GraderSteps ==
  ASSUME IInv, [Next]_vars, crashes' = 0, NEW p \in Processes, NEW j \in Outstanding, GradesNow(p, j)
  PROVE  \/ GradesNow(p, j)'
         \/ j \notin Outstanding' /\ (sub'[job[j].sub].gradable => sub'[job[j].sub].score # Null)
         \/ Outdated(job[j].sub) /\ UNCHANGED rows
<1>1. worker'[p] = worker[p] \/ GradeInternal(p)
  <2>1. worker[p].pc = "grade" /\ ~Crash(p)
    BY NoCrashYet DEF GradesNow
  <2>2. CASE Proceed(p)
    BY <2>1, <2>2 DEF Proceed, Select, CheckRate, InsertJob, BeginExternal, SelectVariants, UnsetGradingNeeded
  <2>3. CASE p = Cron /\ (CronPick \/ CronClose)
    BY <2>1, <2>3 DEF CronPick, CronClose
  <2>4. QED
    BY <2>1, <2>2, <2>3, WorkerSteps
<1>2. CASE worker'[p] = worker[p]
  BY <1>2 DEF GradesNow
<1>3. CASE GradeInternal(p)
  <2>1. PICK gradable \in BOOLEAN, score \in Scores : UpdateAfterGrading(j, gradable, score)
    BY <1>3 DEF GradeInternal, GradesNow
  <2>2. j \in Inserted /\ ~job[j].graded /\ ~job[j].canceled
    BY DEF Outstanding
  <2>3. ResultUnneeded(j) => Outdated(job[j].sub)
    BY <2>2 DEF ResultUnneeded, NewerRequested, Outdated
  <2>4. CASE UNCHANGED rows /\ ResultUnneeded(j)
    BY <2>3, <2>4
  <2>5. QED
    BY <2>1, <2>2, <2>3, <2>4, StoredResult DEF Outstanding
<1>4. QED
  BY <1>1, <1>2, <1>3

LEMMA JobsStayHeld ==
  ASSUME IInv, [Next]_vars, JobsHeld
  PROVE  JobsHeld'
<1> SUFFICES ASSUME crashes' = 0, NEW i \in Outstanding', Internal(QuestionOf(job[i].sub)')
             PROVE  Outdated(job[i].sub)' \/ \E p \in Processes : GradesNow(p, i)'
  BY DEF JobsHeld
<1>1. crashes = 0
  BY NoCrashYet
<1>2. CASE i \in Outstanding /\ job'[i].sub = job[i].sub
  <2>1. job[i].sub \in Saved
    BY <1>2 DEF IInv, References, Outstanding
  <2>2. QuestionOf(job[i].sub)' = QuestionOf(job[i].sub)
    BY <1>2, <2>1, QuestionsStay DEF QuestionOf
  <2>3. Outdated(job[i].sub) => Outdated(job[i].sub)'
    BY <1>2, <2>1, QuestionsStay DEF Outdated, QuestionOf
  <2>4. QED
    BY <1>1, <1>2, <2>2, <2>3, GraderSteps DEF JobsHeld
<1>3. CASE JobsKept
  BY <1>2, <1>3 DEF JobsKept, Outstanding
<1>4. ASSUME NEW w \in Processes, InsertJob(w)
      PROVE  Outdated(job[i].sub)' \/ \E p \in Processes : GradesNow(p, i)'
  <2>1. PICK j \in Jobs :
          /\ j \in Outstanding' /\ job'[j].sub = worker[w].sub
          /\ worker[w].sub \in SubmissionsOf(worker[w].v)
          /\ Outstanding' \subseteq Outstanding \cup {j}
          /\ \A x \in Outstanding : job'[x].sub = job[x].sub
          /\ Internal(variant[worker[w].v].question) => GradesNow(w, j)'
    BY <1>4, InsertedIsHeld
  <2>2. CASE i = j
    <3>1. worker[w].sub \in Saved /\ QuestionOf(worker[w].sub) = variant[worker[w].v].question
      BY <2>1 DEF SubmissionsOf, QuestionOf
    <3>2. QuestionOf(job[i].sub)' = variant[worker[w].v].question
      BY <2>1, <2>2, <3>1, QuestionsStay DEF QuestionOf
    <3>3. QED
      BY <2>1, <2>2, <3>2
  <2>3. QED
    BY <1>2, <2>1, <2>2
<1>5. JobsKept \/ \E w \in Processes : InsertJob(w)
  BY JobSteps, UpdateAfterGradingJobs, GradeRatePassesJobs
<1>6. QED
  BY <1>3, <1>4, <1>5

LEMMA ClosersStayReady ==
  ASSUME IInv, [Next]_vars, ClosersReady
  PROVE  ClosersReady'
<1> SUFFICES ASSUME NEW p \in Processes, worker'[p].pc = "close"
             PROVE  worker'[p] = ExamWorker("close", TRUE)
  BY DEF ClosersReady
<1>0. worker \in [Processes -> Worker]
  BY DEF IInv, TypeOK
<1>1. CASE worker'[p] = worker[p]
  BY <1>1 DEF ClosersReady
<1>2. CASE Proceed(p)
  <2>1. worker[p] \in Worker
    BY <1>0
  <2>2. ASSUME Return(p)
        PROVE  worker'[p].pc # "close"
    <3>1. PICK me : /\ worker'[p] = me
                    /\ \/ me = IdleWorker
                       \/ me = NextVariant(worker[p])
      BY <1>0, <2>2 DEF Return
    <3>2. NextVariant(worker[p]).pc # "close"
      BY <2>1 DEF NextVariant, Worker
    <3>3. QED
      BY <3>1, <3>2 DEF IdleWorker
  <2>3. CASE SelectVariants(p)
    <3> DEFINE me == [worker[p] EXCEPT !.todo = LatestVariants]
    <3>1. worker'[p] = NextVariant(me)
      BY <1>0, <2>3 DEF SelectVariants
    <3>2. DOMAIN me = DOMAIN worker[p]
      OBVIOUS
    <3>3. NextVariant(me).pc # "close"
      BY <2>1 DEF NextVariant, Worker
    <3>4. QED
      BY <3>1, <3>3
  <2>4. CASE InsertJob(p)
    <3>1. PICK j \in Jobs, pc \in {"begin", "grade"} :
            worker' = [worker EXCEPT ![p].job = j, ![p].pc = pc]
      BY <2>4 DEF InsertJob
    <3>2. QED
      BY <1>0, <2>1, <3>1 DEF Worker
  <2>5. CASE CheckRate(p) \/ Select(p)
    <3>1. CASE worker' = [worker EXCEPT ![p] = IdleWorker]
      BY <1>0, <3>1 DEF IdleWorker
    <3>2. ASSUME NEW s, NEW pc \in {"insert", "rate"},
                 worker' = [worker EXCEPT ![p].sub = s, ![p].pc = pc]
          PROVE  worker'[p].pc # "close"
      BY <1>0, <2>1, <3>2 DEF Worker
    <3>3. CASE worker' = [worker EXCEPT ![p].pc = "insert"]
      BY <1>0, <2>1, <3>3 DEF Worker
    <3>4. QED
      BY <2>2, <2>5, <3>1, <3>2, <3>3 DEF CheckRate, Select
  <2>6. CASE GradeInternal(p) \/ BeginExternal(p) \/ UnsetGradingNeeded(p)
    BY <1>0, <2>2, <2>6 DEF GradeInternal, BeginExternal, UnsetGradingNeeded, IdleWorker
  <2>7. QED
    BY <1>2, <2>3, <2>4, <2>5, <2>6 DEF Proceed
<1>3. CASE p = Cron /\ CronPick
  BY <1>0, <1>3 DEF CronPick, ExamWorker
<1>4. CASE p = Cron /\ CronClose
  BY <1>0, <1>4 DEF CronClose, IdleWorker, Worker
<1>5. IdleWorker.pc # "close"
  BY DEF IdleWorker
<1>6. QED
  BY <1>1, <1>2, <1>3, <1>4, <1>5, WorkerSteps

-----------------------------------------------------------------------------
\* What the handlers of a finished exam hold: they grade all of it, whatever the
\* grade rates are.
ExamsOnly == \A p \in Processes :
  LET me == worker[p]
  IN  me.pc # "idle" =>
        /\ me.exam /\ me.override /\ me.check = Null /\ me.pc # "rate"
        /\ me.todo \subseteq LatestVariants
        /\ me.pc = "unset" => me.todo = {}
        /\ me.pc = "insert" => IsLast(me.sub, SubmissionsOf(me.v))

\* A handler that will still grade s, the last submission of v.
Works(p, v, s) ==
  \/ worker[p].pc = "variants"
  \/ worker[p].pc # "idle" /\ v \in worker[p].todo
  \/ worker[p].pc \in {"select", "insert"} /\ worker[p].v = v
  \/ \E j \in Outstanding : job[j].sub = s /\ GradesNow(p, j)

\* An answer that is to be graded and was not.
Ungraded(v, s) ==
  /\ IsLast(s, SubmissionsOf(v)) /\ sub[s].gradable /\ sub[s].score = Null
  /\ Internal(variant[v].question) /\ ~ManualOnly(variant[v].question)

AnswersReached == \A v \in LatestVariants, s \in Submissions :
  Ungraded(v, s) => \E p \in Processes : Works(p, v, s)

CompleteInv ==
  /\ JobsInv /\ InLine /\ ResultsStored /\ JobsHeld /\ ClosersReady
  /\ crashes = 0 /\ ~ai.open => ExamsOnly /\ AnswersReached

LEMMA LinesStand ==
  ASSUME LinesKept
  PROVE  /\ LatestVariants' = LatestVariants
         /\ \A v \in MadeVariants : SubmissionsOf(v)' = SubmissionsOf(v)
         /\ \A v \in MadeVariants : variant'[v].question = variant[v].question
<1>1. /\ MadeVariants' = MadeVariants /\ Saved' = Saved
      /\ \A v \in MadeVariants : variant'[v].question = variant[v].question
      /\ \A s \in Saved : sub'[s].variant = sub[s].variant
  BY DEF LinesKept
<1>2. \A v \in MadeVariants : SubmissionsOf(v)' = SubmissionsOf(v)
  BY <1>1 DEF SubmissionsOf
<1>3. \A v \in MadeVariants : VariantsOf(variant[v].question)' = VariantsOf(variant[v].question)
  BY <1>1 DEF VariantsOf
<1>4. LatestVariants' = LatestVariants
  BY <1>1, <1>3 DEF LatestVariants, IsLast
<1>5. QED
  BY <1>1, <1>2, <1>4

\* The loop takes the next variant, and loses none.
LEMMA NextVariantKeeps ==
  ASSUME NEW me \in Worker
  PROVE  LET next == NextVariant(me)
         IN  /\ next.exam = me.exam /\ next.override = me.override /\ next.check = me.check
             /\ next.pc \in {"select", "unset"}
             /\ next.todo \subseteq me.todo
             /\ next.pc = "unset" => next.todo = {}
             /\ \A v \in me.todo : v \in next.todo \/ (next.pc = "select" /\ next.v = v)
<1>1. CASE me.todo = {}
  BY <1>1 DEF NextVariant, Worker
<1>2. CASE me.todo # {}
  <2>1. PICK v : NextVariant(me) = [me EXCEPT !.pc = "select", !.v = v, !.sub = Null,
                                              !.job = Null, !.todo = me.todo \ {v}]
    BY <1>2 DEF NextVariant
  <2>2. QED
    BY <2>1 DEF Worker
<1>3. QED
  BY <1>1, <1>2

\* What an exam's handler is after it is done with a variant.
LEMMA ExamReturns ==
  ASSUME IInv, NEW p \in Processes, worker[p].exam, Return(p)
  PROVE  worker'[p] = NextVariant(worker[p]) /\ worker[p] \in Worker
BY DEF Return, IInv, TypeOK

\* The steps of a handler of a finished exam.
LEMMA ExamProceeds ==
  ASSUME IInv, ExamsOnly, NEW p \in Processes, Proceed(p)
  PROVE  \/ worker'[p] = IdleWorker /\ worker[p].pc = "unset"
         \/ worker'[p] = NextVariant(worker[p]) /\ worker[p].pc \in {"select", "grade", "begin"}
         \/ /\ worker[p].pc = "variants"
            /\ worker'[p] = NextVariant([worker[p] EXCEPT !.todo = LatestVariants])
         \/ \E s : /\ worker[p].pc = "select" /\ IsLast(s, SubmissionsOf(worker[p].v))
                   /\ worker'[p] = [worker[p] EXCEPT !.sub = s, !.pc = "insert"]
         \/ /\ worker[p].pc = "insert"
            /\ \E j \in Jobs, pc \in {"begin", "grade"} : worker'[p] = [worker[p] EXCEPT !.job = j, !.pc = pc]
<1>0. worker \in [Processes -> Worker] /\ worker[p] \in Worker
  BY DEF IInv, TypeOK
<1>1. worker[p].pc # "idle"
  BY DEF Proceed, Select, CheckRate, InsertJob, GradeInternal, BeginExternal, SelectVariants,
     UnsetGradingNeeded
<1>2. worker[p].exam /\ worker[p].override /\ worker[p].check = Null /\ worker[p].pc # "rate"
  BY <1>1 DEF ExamsOnly
<1>3. Return(p) => worker'[p] = NextVariant(worker[p])
  BY <1>2, ExamReturns
<1>4. CASE Select(p)
  <2>1. CASE Return(p)
    BY <1>3, <1>4, <2>1 DEF Select
  <2>2. CASE ~Return(p)
    <3>1. PICK s \in Submissions :
            /\ IsLast(s, SubmissionsOf(worker[p].v))
            /\ worker' = [worker EXCEPT ![p].sub = s, ![p].pc = "insert"]
      BY <1>2, <1>4, <2>2 DEF Select
    <3>2. worker'[p] = [worker[p] EXCEPT !.sub = s, !.pc = "insert"]
      BY <1>0, <3>1
    <3>3. QED
      BY <1>4, <3>1, <3>2 DEF Select
  <2>3. QED
    BY <2>1, <2>2
<1>5. CASE InsertJob(p)
  <2>1. PICK j \in Jobs, pc \in {"begin", "grade"} :
          worker' = [worker EXCEPT ![p].job = j, ![p].pc = pc]
    BY <1>5 DEF InsertJob
  <2>2. worker'[p] = [worker[p] EXCEPT !.job = j, !.pc = pc]
    BY <1>0, <2>1
  <2>3. QED
    BY <1>5, <2>2 DEF InsertJob
<1>6. CASE GradeInternal(p) \/ BeginExternal(p)
  BY <1>3, <1>6 DEF GradeInternal, BeginExternal
<1>7. CASE SelectVariants(p)
  BY <1>0, <1>7 DEF SelectVariants
<1>8. CASE UnsetGradingNeeded(p)
  BY <1>0, <1>8 DEF UnsetGradingNeeded
<1>9. CASE CheckRate(p)
  BY <1>2, <1>9 DEF CheckRate
<1>10. QED
  BY <1>4, <1>5, <1>6, <1>7, <1>8, <1>9 DEF Proceed

\* Nobody starts anything else on a finished exam.
LEMMA ClosedHandlers ==
  ASSUME IInv, [Next]_vars, ~ai.open, crashes' = 0, ExamsOnly, LinesKept
  PROVE  ExamsOnly'
<1> DEFINE Fits(me) ==
      me.pc # "idle" =>
        /\ me.exam /\ me.override /\ me.check = Null /\ me.pc # "rate"
        /\ me.todo \subseteq LatestVariants
        /\ me.pc = "unset" => me.todo = {}
        /\ me.pc = "insert" => IsLast(me.sub, SubmissionsOf(me.v))
<1>1. ASSUME NEW p \in Processes
      PROVE  Fits(worker'[p])
  <2>0. worker[p] \in Worker /\ worker \in [Processes -> Worker] /\ Fits(worker[p])
    BY DEF IInv, TypeOK, ExamsOnly
  <2>1. Fits(IdleWorker)
    BY DEF IdleWorker
  <2>2. ASSUME NEW me \in Worker, me.exam, me.override, me.check = Null, me.todo \subseteq LatestVariants
        PROVE  Fits(NextVariant(me))
    BY <2>2, NextVariantKeeps
  <2>3. CASE Proceed(p)
    <3>0. /\ worker[p].pc # "idle"
          /\ worker[p].exam /\ worker[p].override /\ worker[p].check = Null
          /\ worker[p].todo \subseteq LatestVariants
      <4>1. worker[p].pc # "idle"
        BY <2>3 DEF Proceed, Select, CheckRate, InsertJob, GradeInternal, BeginExternal, SelectVariants,
           UnsetGradingNeeded
      <4>2. QED
        BY <2>0, <4>1
    <3>1. CASE worker[p].pc = "variants" /\ worker'[p] = NextVariant([worker[p] EXCEPT !.todo = LatestVariants])
      <4> DEFINE me == [worker[p] EXCEPT !.todo = LatestVariants]
      <4>1. me \in Worker
        BY <2>0 DEF Worker, LatestVariants, MadeVariants
      <4>2. me.exam /\ me.override /\ me.check = Null /\ me.todo = LatestVariants
        BY <2>0, <3>0 DEF Worker
      <4> HIDE DEF me, Fits
      <4>3. QED
        BY <2>2, <3>1, <4>1, <4>2 DEF me
    <3>2. ASSUME NEW s, worker[p].pc = "select", IsLast(s, SubmissionsOf(worker[p].v)),
                 worker'[p] = [worker[p] EXCEPT !.sub = s, !.pc = "insert"]
          PROVE  Fits(worker'[p])
      BY <2>0, <3>0, <3>2 DEF Worker
    <3>3. ASSUME NEW j \in Jobs, NEW pc \in {"begin", "grade"},
                 worker'[p] = [worker[p] EXCEPT !.job = j, !.pc = pc]
          PROVE  Fits(worker'[p])
      BY <2>0, <3>0, <3>3 DEF Worker
    <3>4. CASE worker'[p] = NextVariant(worker[p])
      BY <2>0, <2>2, <3>0, <3>4
    <3> HIDE DEF Fits
    <3>5. QED
      BY <2>1, <2>3, <3>1, <3>2, <3>3, <3>4, ExamProceeds
  <2>4. CASE p = Cron /\ CronPick
    <3>1. worker'[p] = ExamWorker("variants", TRUE)
      BY <2>0, <2>4 DEF CronPick
    <3>2. QED
      BY <3>1 DEF ExamWorker, IdleWorker
  <2>5. CASE p = Cron /\ CronClose
    <3>1. worker'[p] = IdleWorker
      BY <2>0, <2>5 DEF CronClose
    <3>2. QED
      BY <2>1, <3>1
  <2>6. CASE worker'[p] = worker[p]
    BY <2>0, <2>6
  <2> HIDE DEF Fits
  <2>7. QED
    BY <2>1, <2>3, <2>4, <2>5, <2>6, WorkerSteps
<1>2. ASSUME NEW p \in Processes, worker'[p].pc = "insert"
      PROVE  worker'[p].v \in MadeVariants
  <2>1. References' /\ MadeVariants' = MadeVariants
    BY NextInvariant DEF IInv, LinesKept
  <2>2. QED
    BY <1>2, <2>1 DEF References, HandlerReferences
<1>3. QED
  BY <1>1, <1>2, LinesStand DEF ExamsOnly, IsLast

\* An answer does not become ungraded again.
LEMMA UngradedBefore ==
  ASSUME IInv, [Next]_vars, LinesKept, NEW v \in LatestVariants, NEW s \in Submissions, Ungraded(v, s)'
  PROVE  Ungraded(v, s)
<1>0. v \in MadeVariants /\ LatestVariants \subseteq MadeVariants
  BY DEF LatestVariants
<1>1. /\ IsLast(s, SubmissionsOf(v)) /\ sub'[s].gradable /\ sub'[s].score = Null
      /\ Internal(variant[v].question) /\ ~ManualOnly(variant[v].question)
  BY <1>0, LinesStand DEF Ungraded, IsLast, Internal, ManualOnly
<1>2. s \in Saved /\ sub \in [Submissions -> Submission]
  BY <1>1 DEF IsLast, SubmissionsOf, IInv, TypeOK
<1>3. sub[s].gradable /\ sub[s].score = Null
  <2>1. ASSUME NEW w \in Processes, InsertJob(w)
        PROVE  sub'[s].gradable = sub[s].gradable /\ sub'[s].score = sub[s].score
    BY <1>2, <2>1 DEF InsertJob, Submission
  <2>2. ASSUME NEW j \in Inserted, NEW gradable \in BOOLEAN, NEW score \in Scores,
               UpdateAfterGrading(j, gradable, score)
        PROVE  sub'[s] = sub[s]
    BY <1>1, <2>2, StoredResult DEF rows
  <2>3. GradeRatePasses => sub' = sub
    BY DEF GradeRatePasses
  <2>4. QED
    BY <1>1, <1>2, <2>1, <2>2, <2>3, JobSteps
<1>4. QED
  BY <1>1, <1>3 DEF Ungraded

\* The job of an ungraded answer waits on, unless another handler replaces it.
LEMMA UngradedJob ==
  ASSUME IInv, [Next]_vars, LinesKept, NEW v \in LatestVariants, NEW s \in Submissions,
         Ungraded(v, s)', IsLast(s, SubmissionsOf(v)), NEW j \in Outstanding, job[j].sub = s
  PROVE  \/ j \in Outstanding' /\ job'[j].sub = s
         \/ \E w \in Processes : InsertJob(w) /\ worker[w].v = v
<1>0. s \in Saved /\ sub[s].variant = v /\ j \in Inserted /\ j \in Jobs
  BY DEF IsLast, SubmissionsOf, Outstanding, Inserted
<1>1. CASE UNCHANGED job
  BY <1>1 DEF Outstanding, Inserted
<1>2. ASSUME NEW i \in Inserted, NEW gradable \in BOOLEAN, NEW score \in Scores,
             UpdateAfterGrading(i, gradable, score)
      PROVE  job'[j] = job[j]
  <2>1. sub'[s].gradable /\ sub'[s].score = Null
    BY DEF Ungraded
  <2>2. QED
    BY <1>0, <1>2, <2>1, StoredResult DEF rows
<1>3. CASE GradeRatePasses
  <2>1. job[j] \in Job /\ job'[j] = [job[j] EXCEPT !.rate = "past"]
    BY <1>0, <1>3 DEF GradeRatePasses, IInv, TypeOK
  <2>2. job'[j].sub = job[j].sub /\ job'[j].graded = job[j].graded /\ job'[j].canceled = job[j].canceled
    BY <2>1 DEF Job
  <2>3. QED
    BY <1>0, <2>2 DEF Outstanding, Inserted
<1>4. ASSUME NEW w \in Processes, InsertJob(w)
      PROVE  (j \in Outstanding' /\ job'[j].sub = s) \/ worker[w].v = v
  BY <1>0, <1>4, InsertedIsHeld
<1>5. job'[j] = job[j] => j \in Outstanding' /\ job'[j].sub = s
  BY <1>0 DEF Outstanding, Inserted
<1>6. QED
  BY <1>1, <1>2, <1>3, <1>4, <1>5, JobSteps

\* A handler that goes on to the last answer of v inserts a job for it.
LEMMA InsertWorks ==
  ASSUME IInv, ExamsOnly, NEW v, NEW s, IsLast(s, SubmissionsOf(v)), Internal(variant[v].question),
         NEW w \in Processes, InsertJob(w), worker[w].v = v, Submissions \subseteq Nat
  PROVE  Works(w, v, s)'
<1>1. worker[w].pc = "insert" /\ IsLast(worker[w].sub, SubmissionsOf(v))
  BY DEF InsertJob, ExamsOnly
<1>2. worker[w].sub = s
  <2>1. SubmissionsOf(v) \subseteq Nat
    BY DEF SubmissionsOf, Saved
  <2>2. QED
    BY <1>1, <2>1 DEF IsLast
<1>3. QED
  BY <1>2, InsertedIsHeld DEF Works

\* Whoever is to grade an answer goes on to, or hands it to who inserted its job.
LEMMA WorkGoesOn ==
  ASSUME IInv, RequestsBacked, InLine, ResultsStored, JobsHeld, ClosersReady, ExamsOnly, AnswersReached,
         [Next]_vars, LinesKept, ~ai.open, crashes' = 0,
         NEW v \in LatestVariants, NEW s \in Submissions, Ungraded(v, s)', Ungraded(v, s),
         ~\E w \in Processes : InsertJob(w) /\ worker[w].v = v,
         NEW p \in Processes, Works(p, v, s)
  PROVE  \E q \in Processes : Works(q, v, s)'
<1>0. /\ worker[p] \in Worker /\ worker \in [Processes -> Worker] /\ crashes = 0
      /\ IsLast(s, SubmissionsOf(v)) /\ ~Outdated(s) /\ s \in Saved
      /\ QuestionOf(s) = variant[v].question
  BY NoCrashYet, LastIsNewest DEF IInv, TypeOK, Ungraded
<1>1. worker[p].pc # "idle"
  BY DEF Works, GradesNow
<1>2. ASSUME NEW j \in Outstanding, job[j].sub = s
      PROVE  j \in Outstanding' /\ job'[j].sub = s
  BY <1>0, <1>2, UngradedJob
<1>3. CASE worker'[p] = worker[p]
  BY <1>2, <1>3 DEF Works, GradesNow
<1> DEFINE all == [worker[p] EXCEPT !.todo = LatestVariants]
           start == NextVariant(all)
<1>start. v \in start.todo \/ (start.pc = "select" /\ start.v = v)
  <2>1. all \in Worker /\ all.todo = LatestVariants
    BY <1>0 DEF Worker, LatestVariants, MadeVariants
  <2> HIDE DEF all
  <2>2. QED
    BY <2>1, NextVariantKeeps
<1>busy. start.pc # "idle"
  <2>1. all \in Worker
    BY <1>0 DEF Worker, LatestVariants, MadeVariants
  <2> HIDE DEF all
  <2>2. QED
    BY <2>1, NextVariantKeeps
<1>4. ASSUME Proceed(p), v \in worker[p].todo
      PROVE  Works(p, v, s)'
  <2>1. CASE worker'[p] = NextVariant(worker[p])
    BY <1>0, <1>4, <2>1, NextVariantKeeps DEF Works
  <2>2. CASE worker'[p] = start
    <3> HIDE DEF start
    <3>1. QED
      BY <1>start, <1>busy, <2>2 DEF Works
  <2>3. CASE worker[p].pc = "unset"
    BY <1>4, <2>3 DEF ExamsOnly
  <2>4. ASSUME NEW x, worker'[p] = [worker[p] EXCEPT !.sub = x, !.pc = "insert"]
        PROVE  Works(p, v, s)'
    BY <1>0, <1>4, <2>4 DEF Works, Worker
  <2>5. ASSUME NEW j \in Jobs, NEW pc \in {"begin", "grade"}, worker'[p] = [worker[p] EXCEPT !.job = j, !.pc = pc]
        PROVE  Works(p, v, s)'
    BY <1>0, <1>4, <2>5 DEF Works, Worker
  <2>6. QED
    BY <1>4, <2>1, <2>2, <2>3, <2>4, <2>5, ExamProceeds
<1>5. ASSUME Proceed(p), worker[p].pc = "variants"
      PROVE  Works(p, v, s)'
  <2>1. worker'[p] = start
    BY <1>5, ExamProceeds
  <2> HIDE DEF start
  <2>2. QED
    BY <1>start, <1>busy, <2>1 DEF Works
<1>6. ASSUME Proceed(p), worker[p].pc = "select", worker[p].v = v
      PROVE  \E q \in Processes : Works(q, v, s)'
  <2>1. Select(p)
    BY <1>6 DEF Proceed, CheckRate, InsertJob, GradeInternal, BeginExternal, SelectVariants, UnsetGradingNeeded
  <2>2. /\ worker[p].check = Null /\ worker[p].override /\ SubmissionsOf(v) # {}
        /\ ~ManualOnly(variant[v].question)
    BY <1>0, <1>1 DEF ExamsOnly, IsLast, Ungraded
  <2>3. PICK x \in Submissions :
          /\ IsLast(x, SubmissionsOf(v))
          /\ \/ ~NeedsGrading(x)
             \/ worker' = [worker EXCEPT ![p].sub = x, ![p].pc = "insert"]
    BY <1>6, <2>1, <2>2 DEF Select
  <2>4. x = s
    BY <1>0, <2>3 DEF IsLast, SubmissionsOf, Saved, Submissions
  <2>5. CASE worker' = [worker EXCEPT ![p].sub = x, ![p].pc = "insert"]
    <3>1. worker'[p] = [worker[p] EXCEPT !.sub = x, !.pc = "insert"]
      BY <1>0, <2>5
    <3>2. worker'[p].pc = "insert" /\ worker'[p].v = v
      BY <1>0, <1>6, <3>1 DEF Worker
    <3>3. QED
      BY <3>2 DEF Works
  <2>6. CASE ~NeedsGrading(s)
    <3>1. sub[s].requested
      BY <2>6 DEF NeedsGrading, Ungraded
    <3>2. PICK j \in Inserted : job[j].sub = s /\ ~job[j].canceled
      BY <1>0, <3>1 DEF RequestsBacked
    <3>3. j \in Outstanding
      BY <3>2 DEF Outstanding, ResultsStored, Ungraded
    <3>4. PICK q \in Processes : GradesNow(q, j)
      BY <1>0, <3>2, <3>3 DEF JobsHeld, Ungraded
    <3>5. q # p
      BY <1>6, <3>4 DEF GradesNow
    <3>6. worker'[q] = worker[q]
      BY <1>0, <2>1, <3>5 DEF Select, Return
    <3>7. QED
      BY <1>2, <3>2, <3>3, <3>4, <3>6 DEF Works, GradesNow
  <2>7. QED
    BY <2>3, <2>4, <2>5, <2>6
<1>7. ASSUME Proceed(p), worker[p].pc = "insert", worker[p].v = v
      PROVE  FALSE
  BY <1>7 DEF Proceed, Select, CheckRate, GradeInternal, BeginExternal, SelectVariants, UnsetGradingNeeded
<1>8. ASSUME NEW j \in Outstanding, job[j].sub = s, GradesNow(p, j)
      PROVE  Works(p, v, s)'
  <2>1. sub'[s].gradable /\ sub'[s].score = Null
    BY DEF Ungraded
  <2>2. GradesNow(p, j)' \/ (UNCHANGED rows /\ Outdated(s))
    BY <1>2, <1>8, GraderSteps
  <2>3. QED
    BY <1>0, <1>2, <1>8, <2>2 DEF Works
<1>9. CASE p = Cron /\ (CronPick \/ CronClose)
  <2>1. worker[p].pc = "close"
    BY <1>1, <1>9 DEF CronPick, CronClose
  <2>2. worker[p].todo = {}
    BY <2>1 DEF ClosersReady, ExamWorker, IdleWorker
  <2>3. QED
    BY <2>1, <2>2 DEF Works, GradesNow
<1>10. Proceed(p) \/ worker'[p] = worker[p] \/ (p = Cron /\ (CronPick \/ CronClose))
  BY <1>1, WorkerSteps, NoCrashYet
<1>11. QED
  BY <1>3, <1>4, <1>5, <1>6, <1>7, <1>8, <1>9, <1>10 DEF Works

LEMMA ClosedAnswers ==
  ASSUME IInv, RequestsBacked, InLine, ResultsStored, JobsHeld, ClosersReady, ExamsOnly, AnswersReached,
         [Next]_vars, LinesKept, ~ai.open, crashes' = 0
  PROVE  AnswersReached'
<1> SUFFICES ASSUME NEW v \in LatestVariants', NEW s \in Submissions, Ungraded(v, s)'
             PROVE  \E p \in Processes : Works(p, v, s)'
  BY DEF AnswersReached
<1>1. v \in LatestVariants
  BY LinesStand
<1>2. Ungraded(v, s)
  BY <1>1, UngradedBefore
<1>3. CASE \E w \in Processes : InsertJob(w) /\ worker[w].v = v
  BY <1>2, <1>3, InsertWorks DEF Ungraded, Submissions
<1>4. CASE ~\E w \in Processes : InsertJob(w) /\ worker[w].v = v
  BY <1>1, <1>2, <1>4, WorkGoesOn DEF AnswersReached
<1>5. QED
  BY <1>3, <1>4

\* Nobody but the handlers that are about to close it works on the assessment
\* instance when it is closed.
ClosesAlone ==
  ai.open /\ ~ai'.open => \A p \in Processes : worker[p].pc \in {"idle", "close"}

LEMMA ClosingSteps ==
  ASSUME IInv, [Next]_vars, ~ai'.open
  PROVE  LinesKept /\ (ai.open => CronClose \/ \E w \in Workers : Finish(w))
<1>1. \A q \in Questions : CreateVariant(q) => ai' = ai
  BY DEF CreateVariant
<1>2. ASSUME NEW s \in Submissions, NEW v \in Variants, NEW gradable \in BOOLEAN,
             NEW credit \in Credits, InsertSubmission(s, v, gradable, credit)
      PROVE  ai'.open
  <2>1. ai \in AssessmentInstance /\ ai.open /\ ai' = [ai EXCEPT !.age = 0]
    BY <1>2 DEF InsertSubmission, IInv, TypeOK
  <2>2. QED
    BY <2>1 DEF AssessmentInstance
<1>3. QED
  BY <1>1, <1>2, LineSteps

\* The handler that closes grades everything.
LEMMA ClosingStarts ==
  ASSUME IInv, ClosersReady, ai.open, ~ai'.open, ClosesAlone,
         CronClose \/ \E w \in Workers : Finish(w)
  PROVE  ExamsOnly' /\ AnswersReached'
<1>0. worker \in [Processes -> Worker] /\ Workers \subseteq Processes /\ Cron \in Processes
  BY DEF IInv, TypeOK, Processes
<1>1. PICK p \in Processes : worker' = [worker EXCEPT ![p] = ExamWorker("variants", TRUE)]
  <2>1. CASE CronClose
    <3>1. worker[Cron] = ExamWorker("close", TRUE) /\ worker' = [worker EXCEPT ![Cron].pc = "variants"]
      BY <1>0, <2>1 DEF CronClose, ClosersReady
    <3>2. [ExamWorker("close", TRUE) EXCEPT !.pc = "variants"] = ExamWorker("variants", TRUE)
      BY DEF ExamWorker, IdleWorker
    <3>3. worker' = [worker EXCEPT ![Cron] = [worker[Cron] EXCEPT !.pc = "variants"]]
      BY <1>0, <3>1
    <3>4. QED
      BY <1>0, <3>1, <3>2, <3>3
  <2>2. QED
    BY <1>0, <2>1 DEF Finish
<1>2. worker'[p].pc = "variants"
  BY <1>0, <1>1 DEF ExamWorker, IdleWorker
<1>3. ASSUME NEW u \in Processes, worker'[u].pc # "idle"
      PROVE  \E pc \in {"close", "variants"} : worker'[u] = ExamWorker(pc, TRUE)
  <2>1. CASE u = p
    BY <1>0, <1>1, <2>1
  <2>2. CASE u # p
    BY <1>0, <1>1, <1>3, <2>2 DEF ClosesAlone, ClosersReady
  <2>3. QED
    BY <2>1, <2>2
<1>4. ASSUME NEW pc \in {"close", "variants"}
      PROVE  LET me == ExamWorker(pc, TRUE)
             IN  me.exam /\ me.override /\ me.check = Null /\ me.pc = pc /\ me.todo = {}
  BY DEF ExamWorker, IdleWorker
<1>5. ExamsOnly'
  BY <1>3, <1>4 DEF ExamsOnly
<1>6. AnswersReached'
  BY <1>2 DEF AnswersReached, Works
<1>7. QED
  BY <1>5, <1>6

THEOREM CompleteInvariance == Spec /\ [][ClosesAlone]_vars => []CompleteInv
<1>1. Init => CompleteInv
  <2> SUFFICES ASSUME Init PROVE CompleteInv
    OBVIOUS
  <2>1. MadeVariants = {} /\ Saved = {} /\ Inserted = {}
    BY DEF Init, MadeVariants, Saved, Inserted, NoVariant, NoSubmission, NoJob
  <2>2. IInv /\ JobsInv
    BY <2>1, InitInvariant DEF JobsInv, OneOutstandingJob, RequestsBacked, Outstanding
  <2>3. ClosersReady /\ ai.open
    BY DEF Init, ClosersReady, IdleWorker
  <2>4. QED
    BY <2>1, <2>2, <2>3 DEF CompleteInv, InLine, ResultsStored, JobsHeld, Outstanding
<1>2. CompleteInv /\ [Next]_vars /\ [ClosesAlone]_vars => CompleteInv'
  <2> SUFFICES ASSUME CompleteInv, [Next]_vars, [ClosesAlone]_vars
               PROVE  CompleteInv'
    OBVIOUS
  <2>1. JobsInv /\ IInv /\ InLine /\ ResultsStored /\ JobsHeld /\ ClosersReady /\ RequestsBacked
    BY DEF CompleteInv, JobsInv
  <2>2. IInv' /\ InLine' /\ ResultsStored' /\ JobsHeld' /\ ClosersReady'
    BY <2>1, NextInvariant, StaysInLine, ResultsStayStored, JobsStayHeld, ClosersStayReady
  <2>3. JobsInv'
    <3>1. JobsKept \/ \E w \in Processes : InsertJob(w)
      BY <2>1, JobSteps, UpdateAfterGradingJobs, GradeRatePassesJobs
    <3>2. QED
      BY <2>1, <2>2, <3>1, KeptJobsInvariant, InsertJobInvariant DEF JobsInv
  <2>4. ASSUME crashes' = 0, ~ai'.open
        PROVE  ExamsOnly' /\ AnswersReached'
    <3>1. crashes = 0
      BY <2>1, <2>4, NoCrashYet
    <3>2. LinesKept /\ (ai.open => CronClose \/ \E w \in Workers : Finish(w))
      BY <2>1, <2>4, ClosingSteps
    <3>3. CASE ai.open
      <4>1. ClosesAlone
        BY <2>4, <3>3 DEF vars
      <4>2. QED
        BY <2>1, <2>4, <3>2, <3>3, <4>1, ClosingStarts
    <3>4. CASE ~ai.open
      <4>1. ExamsOnly /\ AnswersReached
        BY <3>1, <3>4 DEF CompleteInv
      <4>2. QED
        BY <2>1, <2>4, <3>2, <3>4, <4>1, ClosedHandlers, ClosedAnswers
    <3>5. QED
      BY <3>3, <3>4
  <2>5. QED
    BY <2>2, <2>3, <2>4 DEF CompleteInv
<1>3. QED
  BY <1>1, <1>2, PTL DEF Spec

\* If nobody was working on an exam when it was closed and no server has died,
\* the exam is graded completely once its handlers are done, whoever closed it.
THEOREM FinishedIsGraded ==
  Spec /\ [][ClosesAlone]_vars => [](crashes = 0 => GradingComplete)
<1>1. CompleteInv => (crashes = 0 => GradingComplete)
  <2> SUFFICES ASSUME CompleteInv, crashes = 0, ~ai.open, \A w \in Processes : worker[w].pc = "idle",
                      NEW v \in MadeVariants, NEW s \in Submissions,
                      IsLast(v, VariantsOf(variant[v].question)), IsLast(s, SubmissionsOf(v)),
                      sub[s].gradable, AQ[variant[v].question].method = "Internal",
                      ~ManualOnly(variant[v].question), sub[s].score = Null
               PROVE  FALSE
    BY DEF GradingComplete
  <2>1. v \in LatestVariants /\ Ungraded(v, s)
    BY DEF LatestVariants, Ungraded, Internal
  <2>2. PICK p \in Processes : Works(p, v, s)
    BY <2>1 DEF CompleteInv, AnswersReached
  <2>3. QED
    BY <2>2 DEF Works, GradesNow
<1>2. QED
  BY <1>1, CompleteInvariance, PTL

\* The premise is met where one request is handled at a time, which the runs
\* check, if the cron job closes nothing.
THEOREM OneRequestAtATime ==
  ASSUME ~AutoClose, \A u, w \in Workers : u = w
  PROVE  Spec => [](crashes = 0 => GradingComplete)
<1> DEFINE CronWaits == IInv /\ (ai.open => worker[Cron].pc = "idle")
<1>1. Init => CronWaits
  BY InitInvariant DEF Init, IdleWorker, Processes
<1>2. CronWaits /\ [Next]_vars => CronWaits' /\ ClosesAlone
  <2> SUFFICES ASSUME CronWaits, [Next]_vars PROVE CronWaits' /\ ClosesAlone
    OBVIOUS
  <2>0. IInv /\ IInv' /\ Cron \in Processes
    BY NextInvariant DEF Processes
  <2>1. ASSUME ai'.open
        PROVE  worker'[Cron].pc = "idle"
    <3>1. ai.open /\ worker[Cron].pc = "idle"
      BY <2>0, <2>1, LineSteps
    <3>2. ~CronPick /\ ~CronClose /\ ~Proceed(Cron) /\ ~Crash(Cron)
      BY <3>1 DEF CronPick, CronClose, ToAutoFinish, Crash, Proceed, Select, CheckRate, InsertJob,
         GradeInternal, BeginExternal, SelectVariants, UnsetGradingNeeded
    <3>3. QED
      BY <2>0, <3>1, <3>2, WorkerSteps, GradingAssumption
  <2>2. ASSUME ai.open, ~ai'.open
        PROVE  \A p \in Processes : worker[p].pc = "idle"
    <3>1. ~CronClose
      BY <2>2 DEF CronClose
    <3>2. PICK w \in Workers : Finish(w)
      BY <2>0, <2>2, <3>1, ClosingSteps
    <3>3. QED
      BY <2>2, <3>2 DEF Finish, Processes
  <2>3. QED
    BY <2>0, <2>1, <2>2 DEF ClosesAlone
<1>3. QED
  BY <1>1, <1>2, FinishedIsGraded, PTL DEF Spec

-----------------------------------------------------------------------------
(* Answers are served as GradingService promises. *)

\* Requests only ask for answers that exist, and not for those to questions that
\* are graded manually.
AskInv ==
  /\ IInv /\ InLine
  /\ \A s \in Submissions : sub[s].requested => s \in Saved
  /\ \A w \in Processes :
       worker[w].pc \in {"rate", "insert"} => ~ManualOnly(variant[worker[w].v].question)

ServiceInv == AskInv /\ JobsInv /\ PointsUpToDate

\* The steps of the service, and those that nobody outside of it sees.
LEMMA VisibleSteps ==
  ASSUME IInv, [Next]_vars
  PROVE  \/ \E q \in Questions : CreateVariant(q)
         \/ \E s \in Submissions, v \in Variants, gradable \in BOOLEAN, credit \in Credits :
              InsertSubmission(s, v, gradable, credit)
         \/ \E w \in Processes : InsertJob(w)
         \/ \E j \in Inserted, gradable \in BOOLEAN, score \in Scores :
              UpdateAfterGrading(j, gradable, score)
         \/ GradeRatePasses
         \/ ai.open /\ ~ai'.open /\ UNCHANGED <<iq, variant, sub, job, grade>>
         \/ ai'.open = ai.open /\ UNCHANGED <<iq, variant, sub, job, grade>>
<1>0. ai \in AssessmentInstance
  BY DEF IInv, TypeOK
<1> DEFINE Seen == \/ ai.open /\ ~ai'.open /\ UNCHANGED <<iq, variant, sub, job, grade>>
                   \/ ai'.open = ai.open /\ UNCHANGED <<iq, variant, sub, job, grade>>
           Stored == \E j \in Inserted, gradable \in BOOLEAN, score \in Scores :
                       UpdateAfterGrading(j, gradable, score)
           Added == \E s \in Submissions, v \in Variants, gradable \in BOOLEAN, credit \in Credits :
                      InsertSubmission(s, v, gradable, credit)
<1> SUFFICES \/ \E q \in Questions : CreateVariant(q)
             \/ \E w \in Processes : InsertJob(w)
             \/ GradeRatePasses \/ Stored \/ Added \/ Seen
  OBVIOUS
<1>1. ASSUME NEW w \in Processes, Proceed(w)
      PROVE  InsertJob(w) \/ Stored \/ Seen
  <2>1. CASE GradeInternal(w)
    <3>1. worker[w].job \in Inserted
      BY <2>1, Queues DEF GradeInternal, HandlerReferences
    <3>2. QED
      BY <2>1, <3>1 DEF GradeInternal
  <2>2. CASE Select(w) \/ CheckRate(w) \/ BeginExternal(w) \/ SelectVariants(w)
    BY <2>2 DEF Select, CheckRate, BeginExternal, SelectVariants, rows
  <2>3. CASE UnsetGradingNeeded(w)
    BY <1>0, <2>3 DEF UnsetGradingNeeded, AssessmentInstance
  <2>4. QED
    BY <1>1, <2>1, <2>2, <2>3 DEF Proceed
<1>2. ASSUME NEW m \in results, ProcessResult(m)
      PROVE  Stored
  <2> DEFINE gradable == ResultGradable(m.raw)
             score == IF gradable THEN ResultScore(m.raw) ELSE 0
  <2>1. gradable \in BOOLEAN /\ score \in Scores
    BY ScoreUnitAssumption DEF ResultGradable, Scores
  <2>2. UpdateAfterGrading(m.job, gradable, score) /\ m.job \in Inserted
    BY <1>2, Queues DEF ProcessResult
  <2> HIDE DEF gradable, score
  <2>3. QED
    BY <2>1, <2>2
<1>3. CASE CronClose \/ \E w \in Workers : Finish(w)
  <2>1. CASE ai.open
    BY <1>0, <1>3, <2>1 DEF CronClose, Finish, Close, AssessmentInstance
  <2>2. CASE ~ai.open
    BY <1>3, <2>2 DEF CronClose, Finish
  <2>3. QED
    BY <2>1, <2>2
<1>4. CASE \/ \E w \in Workers, override \in BOOLEAN : StartGrading(w, override)
           \/ \E w \in Processes : Crash(w)
           \/ CronPick
           \/ \E j \in Jobs : GradeExternally(j)
           \/ UNCHANGED vars
  BY <1>4 DEF StartGrading, Crash, CronPick, GradeExternally, vars, rows
<1>5. CASE Age
  BY <1>0, <1>5 DEF Age, AssessmentInstance
<1>6. CASE \E v \in Variants, gradable \in BOOLEAN, credit \in Credits :
             \/ SaveSubmission(v, gradable, credit)
             \/ \E w \in Workers : SaveAndGrade(w, v, gradable, credit)
  BY <1>6 DEF SaveSubmission, SaveAndGrade
<1> HIDE DEF Seen, Stored, Added
<1>7. QED
  BY <1>1, <1>2, <1>3, <1>4, <1>5, <1>6 DEF Next

-----------------------------------------------------------------------------

\* A handler gets to a job only through selectSubmissionForGrading.
LEMMA HandlersAsk ==
  ASSUME AskInv, [Next]_vars, IInv', NEW u \in Processes, worker'[u].pc \in {"rate", "insert"}
  PROVE  ~ManualOnly(variant'[worker'[u].v].question)
<1>1. /\ worker \in [Processes -> Worker] /\ worker[u] \in Worker
      /\ Workers \subseteq Processes /\ Cron \in Processes
  BY DEF AskInv, IInv, TypeOK, Processes
<1>2. /\ worker'[u].v = worker[u].v /\ ~ManualOnly(variant[worker[u].v].question)
      /\ worker[u].v \in MadeVariants
  <2>1. worker[u].pc \in {"select", "rate", "insert"} => worker[u].v \in MadeVariants
    BY Queues DEF AskInv, HandlerReferences
  <2>2. CASE worker'[u] = worker[u]
    BY <2>1, <2>2 DEF AskInv
  <2>3. ASSUME NEW me, me.pc \notin {"rate", "insert"}, worker' = [worker EXCEPT ![u] = me]
        PROVE  FALSE
    BY <1>1, <2>3
  <2>4. ASSUME Return(u)
        PROVE  FALSE
    <3>1. NextVariant(worker[u]).pc \notin {"rate", "insert"} /\ IdleWorker.pc \notin {"rate", "insert"}
      BY <1>1, NextVariantKeeps DEF IdleWorker
    <3>2. QED
      BY <1>1, <2>4, <3>1 DEF Return
  <2>5. CASE Proceed(u)
    <3>1. CASE Select(u)
      <4>1. CASE worker' = [worker EXCEPT ![u] = IdleWorker]
        BY <1>1, <4>1 DEF IdleWorker
      <4>2. ASSUME NEW s \in Submissions, ~ManualOnly(variant[worker[u].v].question),
                   worker' = [worker EXCEPT ![u].sub = s,
                                            ![u].pc = IF worker[u].override THEN "insert" ELSE "rate"]
            PROVE  worker'[u].v = worker[u].v /\ ~ManualOnly(variant[worker[u].v].question)
        BY <1>1, <4>2 DEF Worker
      <4>3. worker[u].pc = "select"
        BY <3>1 DEF Select
      <4>4. QED
        BY <2>1, <2>4, <3>1, <4>1, <4>2, <4>3 DEF Select
    <3>2. CASE CheckRate(u)
      <4>1. worker[u].pc = "rate" /\ worker' = [worker EXCEPT ![u].pc = "insert"]
        BY <2>4, <3>2 DEF CheckRate
      <4>2. worker'[u].v = worker[u].v
        BY <1>1, <4>1 DEF Worker
      <4>3. QED
        BY <2>1, <4>1, <4>2 DEF AskInv
    <3>3. CASE InsertJob(u)
      <4>1. PICK j, pc : pc \in {"begin", "grade"} /\ worker' = [worker EXCEPT ![u].job = j, ![u].pc = pc]
        BY <3>3 DEF InsertJob
      <4>2. worker'[u].pc = pc
        BY <1>1, <4>1 DEF Worker
      <4>3. QED
        BY <4>1, <4>2
    <3>4. CASE GradeInternal(u) \/ BeginExternal(u)
      BY <2>4, <3>4 DEF GradeInternal, BeginExternal
    <3>5. CASE SelectVariants(u)
      <4> DEFINE me == [worker[u] EXCEPT !.todo = LatestVariants]
      <4>1. me \in Worker
        BY <1>1 DEF Worker, LatestVariants, MadeVariants
      <4>2. worker'[u] = NextVariant(me)
        BY <1>1, <3>5 DEF SelectVariants
      <4>3. QED
        BY <4>1, <4>2, NextVariantKeeps
    <3>6. CASE UnsetGradingNeeded(u)
      BY <1>1, <3>6 DEF UnsetGradingNeeded, IdleWorker
    <3>7. QED
      BY <2>5, <3>1, <3>2, <3>3, <3>4, <3>5, <3>6 DEF Proceed
  <2>6. CASE Crash(u) \/ (u = Cron /\ (CronPick \/ CronClose))
    <3>1. IdleWorker.pc = "idle" /\ \A pc, override : ExamWorker(pc, override).pc = pc
      BY DEF ExamWorker, IdleWorker
    <3>2. CASE Crash(u)
      BY <2>3, <3>1, <3>2 DEF Crash
    <3>3. CASE u = Cron /\ CronPick
      <4> DEFINE pc == IF ai.open THEN "close" ELSE "variants"
                 me == ExamWorker(pc, TRUE)
      <4>1. pc \notin {"rate", "insert"} /\ worker' = [worker EXCEPT ![u] = me]
        BY <3>3 DEF CronPick
      <4> HIDE DEF pc
      <4>2. me.pc = pc
        BY <3>1
      <4> HIDE DEF me
      <4>3. QED
        BY <2>3, <4>1, <4>2
    <3>4. CASE u = Cron /\ CronClose
      <4>1. worker' = [worker EXCEPT ![u].pc = "variants"] \/ worker' = [worker EXCEPT ![u] = IdleWorker]
        BY <3>4 DEF CronClose
      <4>2. worker' # [worker EXCEPT ![u].pc = "variants"]
        BY <1>1 DEF Worker
      <4>3. QED
        BY <2>3, <3>1, <4>1, <4>2
    <3>5. QED
      BY <2>6, <3>2, <3>3, <3>4
  <2>7. ASSUME NEW w \in Workers,
               \/ Finish(w) \/ \E override \in BOOLEAN : StartGrading(w, override)
               \/ \E v \in Variants, gradable \in BOOLEAN, credit \in Credits :
                    SaveAndGrade(w, v, gradable, credit)
        PROVE  worker'[u] = worker[u]
    <3>1. \A override : ExamWorker("variants", override).pc = "variants"
      BY DEF ExamWorker, IdleWorker
    <3>2. \A v, s : [IdleWorker EXCEPT !.pc = "select", !.v = v, !.check = s].pc = "select"
      BY DEF IdleWorker
    <3>3. ASSUME NEW me, me.pc \in {"variants", "select"}, worker' = [worker EXCEPT ![w] = me]
          PROVE  worker'[u] = worker[u]
      BY <1>1, <3>3
    <3>4. CASE Finish(w)
      <4> DEFINE me == ExamWorker("variants", TRUE)
      <4>1. me.pc = "variants" /\ worker' = [worker EXCEPT ![w] = me]
        BY <3>1, <3>4 DEF Finish
      <4> HIDE DEF me
      <4>2. QED
        BY <3>3, <4>1
    <3>5. CASE \E override \in BOOLEAN : StartGrading(w, override)
      BY <3>1, <3>3, <3>5 DEF StartGrading
    <3>6. CASE \E v \in Variants, gradable \in BOOLEAN, credit \in Credits :
                 SaveAndGrade(w, v, gradable, credit)
      <4>1. PICK v, s :
              worker' = [worker EXCEPT ![w] = [IdleWorker EXCEPT !.pc = "select", !.v = v, !.check = s]]
        BY <3>6 DEF SaveAndGrade
      <4> DEFINE me == [IdleWorker EXCEPT !.pc = "select", !.v = v, !.check = s]
      <4>2. me.pc = "select" /\ worker' = [worker EXCEPT ![w] = me]
        BY <3>2, <4>1
      <4> HIDE DEF me
      <4>3. QED
        BY <3>3, <4>2
    <3>7. QED
      BY <2>7, <3>4, <3>5, <3>6
  <2>8. worker'[u] = worker[u] \/ Proceed(u) \/ Crash(u) \/ (u = Cron /\ (CronPick \/ CronClose))
    <3>1. CASE worker[u].pc = "idle" /\ u \in Workers /\ ~Proceed(u) /\ ~Crash(u) /\ u # Cron
      <4>1. ASSUME NEW w \in Processes, Proceed(w) \/ Crash(w), w # u
            PROVE  worker'[u] = worker[u]
        BY <1>1, <4>1 DEF Proceed, Select, CheckRate, InsertJob, GradeInternal, BeginExternal,
           SelectVariants, UnsetGradingNeeded, Return, Crash
      <4>2. CASE CronPick \/ CronClose
        BY <1>1, <3>1, <4>2 DEF CronPick, CronClose
      <4>3. CASE \/ \E q \in Questions : CreateVariant(q)
                 \/ \E v \in Variants, gradable \in BOOLEAN, credit \in Credits :
                      SaveSubmission(v, gradable, credit)
                 \/ \E j \in Jobs : GradeExternally(j)
                 \/ \E m \in results : ProcessResult(m)
                 \/ Age \/ GradeRatePasses \/ UNCHANGED vars
        BY <4>3 DEF CreateVariant, SaveSubmission, GradeExternally, ProcessResult, Age, GradeRatePasses, vars
      <4>4. QED
        BY <2>7, <3>1, <4>1, <4>2, <4>3 DEF Next
    <3>2. IInv
      BY DEF AskInv
    <3>3. QED
      BY <3>1, <3>2, WorkerSteps, GradingAssumption
  <2>9. QED
    BY <2>2, <2>5, <2>6, <2>8
<1>3. variant'[worker[u].v].question = variant[worker[u].v].question
  <2>1. IInv /\ \A q \in Questions : CreateVariant(q) =>
                  \A v \in MadeVariants : variant'[v] = variant[v]
    <3>1. ASSUME NEW q \in Questions, CreateVariant(q)
          PROVE  \A v \in MadeVariants : variant'[v] = variant[v]
      BY <3>1 DEF CreateVariant, IsNextId, AskInv, IInv, TypeOK, MadeVariants
    <3>2. QED
      BY <3>1 DEF AskInv
  <2>2. LinesKept => \A v \in MadeVariants : variant'[v].question = variant[v].question
    BY DEF LinesKept
  <2>3. \A s \in Submissions, v \in Variants, gradable \in BOOLEAN, credit \in Credits :
          InsertSubmission(s, v, gradable, credit) => variant' = variant
    BY DEF InsertSubmission
  <2>4. QED
    BY <1>2, <2>1, <2>2, <2>3, LineSteps
<1>4. QED
  BY <1>2, <1>3

\* grading_jobs_insert only marks the submission that its handler selected.
LEMMA InsertJobAsks ==
  ASSUME IInv, NEW w \in Processes, InsertJob(w)
  PROVE  \A s \in Submissions : sub'[s].requested => sub[s].requested \/ s \in Saved
<1>1. /\ worker[w].sub \in Saved
      /\ \A s \in Submissions : sub'[s].requested =
           (s = worker[w].sub \/ StillRequested(s, CanceledBy(worker[w].v)))
  BY InsertJobTypes DEF SubmissionsOf
<1>2. QED
  BY <1>1 DEF StillRequested

\* A submission that is marked as requested was saved.
LEMMA MarksOfSaved ==
  ASSUME AskInv, [Next]_vars
  PROVE  \A s \in Submissions : sub'[s].requested => s \in Saved'
<1>1. IInv /\ Saved \subseteq Saved' /\ \A s \in Submissions : sub[s].requested => s \in Saved
  BY QuestionsStay DEF AskInv
<1>2. CASE sub' = sub
  BY <1>1, <1>2
<1>3. ASSUME NEW s \in Submissions, NEW v \in Variants, NEW gradable \in BOOLEAN,
             NEW credit \in Credits, InsertSubmission(s, v, gradable, credit)
      PROVE  \A t \in Submissions : sub'[t].requested => t \in Saved'
  <2>1. Saved' = Saved \cup {s}
    BY <1>1, <1>3, InsertSubmissionTypes
  <2>2. \A t \in Submissions : t # s => sub'[t] = sub[t]
    BY <1>1, <1>3 DEF InsertSubmission, IInv, TypeOK
  <2>3. QED
    BY <1>1, <2>1, <2>2
<1>4. ASSUME NEW w \in Processes, InsertJob(w)
      PROVE  \A t \in Submissions : sub'[t].requested => t \in Saved'
  BY <1>1, <1>4, InsertJobAsks
<1>5. ASSUME NEW j \in Inserted, NEW gradable \in BOOLEAN, NEW score \in Scores,
             UpdateAfterGrading(j, gradable, score)
      PROVE  \A t \in Submissions : sub'[t].requested => t \in Saved'
  <2>1. job[j].sub \in Saved
    BY <1>1 DEF IInv, References
  <2>2. \A t \in Submissions : t # job[j].sub => sub'[t] = sub[t]
    BY <1>1, <1>5, StoredResult DEF rows
  <2>3. QED
    BY <1>1, <2>1, <2>2
<1>6. CASE (\E q \in Questions : CreateVariant(q)) \/ GradeRatePasses
  BY <1>2, <1>6 DEF CreateVariant, GradeRatePasses
<1>7. QED
  BY <1>1, <1>2, <1>3, <1>4, <1>5, <1>6, VisibleSteps

\* Requests only ask for answers that exist and that can be graded by themselves.
THEOREM AskInvariance == Spec => []AskInv
<1>1. Init => AskInv
  <2> SUFFICES ASSUME Init PROVE AskInv
    OBVIOUS
  <2>1. IInv /\ MadeVariants = {} /\ Saved = {}
    BY InitInvariant DEF Init, MadeVariants, Saved, NoVariant, NoSubmission
  <2>2. \A s \in Submissions : ~sub[s].requested
    BY DEF Init, NoSubmission
  <2>3. \A w \in Processes : worker[w].pc = "idle"
    BY DEF Init, IdleWorker
  <2>4. QED
    BY <2>1, <2>2, <2>3 DEF AskInv, InLine
<1>2. AskInv /\ [Next]_vars => AskInv'
  <2> SUFFICES ASSUME AskInv, [Next]_vars PROVE AskInv'
    OBVIOUS
  <2>1. IInv' /\ InLine'
    BY NextInvariant, StaysInLine DEF AskInv
  <2>2. QED
    BY <2>1, HandlersAsk, MarksOfSaved DEF AskInv
<1>3. QED
  BY <1>1, <1>2, PTL DEF Spec

-----------------------------------------------------------------------------
(* Each step is one of the service. *)

\* What the service sees of the rows.
LEMMA ServiceTerms ==
  /\ Service!Made = MadeVariants /\ Service!Saved = Saved
  /\ \A s \in Submissions : Service!QuestionOf(s) = QuestionOf(s)
BY DEF Service!Made, Service!Saved, Service!QuestionOf, MadeVariants, Saved, QuestionOf

\* The state of a submission is read from its jobs and its mark.
LEMMA SameState ==
  ASSUME NEW s \in Submissions, sub'[s].requested = sub[s].requested,
         \A j \in Jobs : job'[j].sub = s /\ j \in Outstanding' <=> job[j].sub = s /\ j \in Outstanding
  PROVE  StateOf(s)' = StateOf(s)
BY DEF StateOf

\* A step that touches no job and no mark leaves all states as they are.
LEMMA OthersKeepState ==
  ASSUME UNCHANGED job, NEW s \in Submissions, sub'[s].requested = sub[s].requested
  PROVE  StateOf(s)' = StateOf(s)
BY SameState DEF Outstanding, Inserted

\* Opening a question: Create.
LEMMA CreateVariantServes ==
  ASSUME AskInv, NEW q \in Questions, CreateVariant(q)
  PROVE  Service!Create(q)
<1>1. PICK v \in Variants :
        /\ v \notin MadeVariants /\ ~\E u \in VariantsOf(q) : variant[u].open
        /\ iq[q].open /\ ai.open
        /\ variant' = [variant EXCEPT ![v] = [question |-> q, open |-> TRUE, tries |-> 0]]
        /\ UNCHANGED <<ai, grade, iq, sub, job>>
  BY DEF CreateVariant, IsNextId
<1>2. \A u \in MadeVariants : u < v
  BY <1>1 DEF AskInv, InLine, MadeVariants, Variants
<1>3. \A s \in Submissions : StateOf(s)' = StateOf(s)
  BY <1>1, OthersKeepState
<1>4. \A u \in MadeVariants : variant[u].question = q => ~variant[u].open
  BY <1>1 DEF VariantsOf
<1>5. QED
  BY <1>1, <1>2, <1>3, <1>4, ServiceTerms DEF Service!Create

\* insert_submission: Save.
LEMMA InsertSubmissionServes ==
  ASSUME AskInv, PointsUpToDate', NEW s \in Submissions, NEW v \in Variants, NEW gradable \in BOOLEAN,
         NEW credit \in Credits, InsertSubmission(s, v, gradable, credit)
  PROVE  v \in MadeVariants /\ Service!Save(v)
<1> DEFINE status == IF gradable THEN "saved" ELSE "invalid"
           new == [variant |-> v, credit |-> credit, gradable |-> gradable,
                   requested |-> FALSE, score |-> Null]
           answer == [t \in Submissions |-> [variant |-> sub[t].variant, score |-> sub[t].score]]
<1>1. /\ s \notin Saved /\ v \in MadeVariants /\ variant[v].open
      /\ iq[variant[v].question].open /\ ai.open
      /\ sub' = [sub EXCEPT ![s] = new]
      /\ iq' = [iq EXCEPT ![variant[v].question].status = status]
      /\ ai' = [ai EXCEPT !.age = 0]
      /\ UNCHANGED <<variant, job>>
  BY DEF InsertSubmission, IsNextId
<1>2. IInv /\ TypeOK
  BY DEF AskInv, IInv
<1>3. \A t \in Saved : t < s
  BY <1>1 DEF AskInv, InLine, Saved, Submissions
<1>4. sub'[s] = new /\ \A t \in Submissions : t # s => sub'[t] = sub[t]
  BY <1>1, <1>2 DEF TypeOK
<1>5. \A t \in Submissions : StateOf(t)' = StateOf(t)
  <2>1. ~sub[s].requested /\ sub'[s].requested = FALSE
    BY <1>1, <1>4 DEF AskInv
  <2>2. sub[s].requested \in BOOLEAN
    BY <1>2 DEF TypeOK, Submission
  <2> HIDE DEF new
  <2>3. ASSUME NEW t \in Submissions
        PROVE  sub'[t].requested = sub[t].requested
    <3>1. CASE t = s
      BY <2>1, <2>2, <3>1
    <3>2. CASE t # s
      BY <1>4, <3>2
    <3>3. QED
      BY <3>1, <3>2
  <2>4. QED
    BY <1>1, <2>3, OthersKeepState
<1>6. answer' = [answer EXCEPT ![s] = [variant |-> v, score |-> Null]]
  <2>1. sub'[s].variant = v /\ sub'[s].score = Null
    BY <1>4
  <2> HIDE DEF new
  <2>2. ASSUME NEW t \in Submissions
        PROVE  [variant |-> sub'[t].variant, score |-> sub'[t].score] =
                 IF t = s THEN [variant |-> v, score |-> Null]
                 ELSE [variant |-> sub[t].variant, score |-> sub[t].score]
    BY <1>4, <2>1
  <2>3. QED
    BY <2>2
<1>7. status \in Statuses
  BY DEF Statuses
<1>8. Service!Show(variant[v].question)
  BY <1>1, <1>7 DEF Service!Show, Service!Become, PointsUpToDate
<1>9. ai'.open = ai.open
  BY <1>1, <1>2 DEF TypeOK, AssessmentInstance
<1> HIDE DEF new, status
<1>10. QED
  BY <1>1, <1>3, <1>5, <1>6, <1>8, <1>9, ServiceTerms DEF Service!Save

\* grading_jobs_insert: Ask.
LEMMA InsertJobServes ==
  ASSUME AskInv, PointsUpToDate, NEW w \in Processes, InsertJob(w)
  PROVE  worker[w].sub \in Saved /\ Service!Ask(worker[w].sub)
<1> DEFINE s == worker[w].sub
           v == worker[w].v
           dead == CanceledBy(v)
           asked == [t \in Submissions |->
                       IF t = s THEN "waiting"
                       ELSE IF sub[t].variant = sub[s].variant /\ StateOf(t) = "waiting"
                         THEN "saved" ELSE StateOf(t)]
<1>1. IInv /\ TypeOK
  BY DEF AskInv, IInv
<1>2. PICK j \in Jobs :
        /\ j \notin Inserted /\ Inserted' = Inserted \cup {j} /\ RowsKept /\ Saved' = Saved
        /\ v \in MadeVariants /\ s \in SubmissionsOf(v)
        /\ job'[j].sub = s /\ ~job'[j].graded /\ ~job'[j].canceled
        /\ \A i \in Inserted \ dead : job'[i] = job[i]
        /\ \A i \in dead : i \in Inserted /\ job'[i] = [job[i] EXCEPT !.canceled = TRUE]
        /\ \A t \in Submissions : sub'[t].requested = (t = s \/ StillRequested(t, dead))
        /\ \A t \in Submissions : sub'[t].score = sub[t].score
        /\ AssessmentInstanceGrade(iq, sub[s].credit)
        /\ UNCHANGED <<iq, variant>>
  BY <1>1, InsertJobTypes
<1>3. s \in Saved /\ s \in Submissions /\ sub[s].variant = v /\ QuestionOf(s) = variant[v].question
  BY <1>2 DEF SubmissionsOf, Saved, QuestionOf
<1>4. QuestionOf(s) \in {q \in Questions : ~ManualOnly(q)}
  <2>1. worker[w].pc = "insert"
    BY DEF InsertJob
  <2>2. variant[v].question \in Questions
    BY <1>1, <1>2 DEF TypeOK, Variant, MadeVariants
  <2>3. QED
    BY <1>3, <2>1, <2>2 DEF AskInv
<1>5. \A i \in dead : job'[i].canceled /\ job'[i].sub = job[i].sub
  <2> SUFFICES ASSUME NEW i \in dead
               PROVE  job'[i].canceled /\ job'[i].sub = job[i].sub
    OBVIOUS
  <2>1. job[i] \in Job /\ job'[i] = [job[i] EXCEPT !.canceled = TRUE]
    BY <1>1, <1>2 DEF TypeOK, Inserted
  <2>2. QED
    BY <2>1 DEF Job
<1>6. ASSUME NEW t \in Submissions
      PROVE  StateOf(t)' = asked[t]
  <2>1. CASE t = s
    <3>1. j \in Outstanding'
      BY <1>2 DEF Outstanding
    <3>2. QED
      BY <1>2, <2>1, <3>1 DEF StateOf
  <2>2. ASSUME t # s, NEW i \in Jobs
        PROVE  job'[i].sub = t /\ i \in Outstanding' <=>
                 job[i].sub = t /\ i \in Outstanding /\ i \notin dead
    <3>1. CASE i = j
      BY <1>2, <2>2, <3>1 DEF Outstanding
    <3>2. CASE i \in dead
      BY <1>5, <3>2 DEF Outstanding
    <3>3. CASE i # j /\ i \notin dead /\ i \in Inserted
      BY <1>2, <3>3 DEF Outstanding
    <3>4. CASE i # j /\ i \notin Inserted
      BY <1>2, <3>4 DEF Outstanding
    <3>5. QED
      BY <3>1, <3>2, <3>3, <3>4
  <2>3. ASSUME t # s, sub[t].variant = v, StateOf(t) = "waiting"
        PROVE  StateOf(t)' = "saved"
    <3>1. PICK i \in Jobs : job[i].sub = t /\ i \in Outstanding
      BY <2>3 DEF StateOf
    <3>2. ~\E k \in Jobs : job[k].sub = t /\ k \in Outstanding /\ k \notin dead
      BY <2>3 DEF CanceledBy
    <3>3. ~sub'[t].requested
      BY <1>2, <2>3, <3>1 DEF StillRequested, CanceledBy
    <3>4. QED
      BY <2>2, <2>3, <3>2, <3>3 DEF StateOf
  <2>4. ASSUME t # s, sub[t].variant # v \/ StateOf(t) # "waiting"
        PROVE  StateOf(t)' = StateOf(t)
    <3>1. ~\E i \in dead : job[i].sub = t
      BY <2>4 DEF CanceledBy, StateOf, Outstanding, Inserted
    <3>2. sub'[t].requested = sub[t].requested
      <4>1. sub[t].requested \in BOOLEAN
        BY <1>1 DEF TypeOK, Submission
      <4>2. QED
        BY <1>2, <2>4, <3>1, <4>1 DEF StillRequested
    <3>3. QED
      BY <2>2, <2>4, <3>1, <3>2, SameState
  <2>5. QED
    BY <1>3, <2>1, <2>3, <2>4
<1>7. \A t \in Submissions : sub'[t].variant = sub[t].variant
  BY <1>2 DEF RowsKept, Saved
<1>8. ai'.open = ai.open /\ grade'.points = grade.points
  BY <1>1, <1>2 DEF AssessmentInstanceGrade, PointsUpToDate, TypeOK, AssessmentInstance
<1> HIDE DEF s, v, dead
<1>9. [t \in Submissions |-> StateOf(t)]' = asked
  BY <1>6
<1>10. asked = [t \in Submissions |->
                 IF t = s THEN "waiting"
                 ELSE IF /\ [x \in Submissions |-> [variant |-> sub[x].variant, score |-> sub[x].score]][t].variant
                              = [x \in Submissions |-> [variant |-> sub[x].variant, score |-> sub[x].score]][s].variant
                         /\ [x \in Submissions |-> StateOf(x)][t] = "waiting"
                   THEN "saved" ELSE [x \in Submissions |-> StateOf(x)][t]]
  BY <1>3
<1>11. Service!Ask(s)
  <2> HIDE DEF asked
  <2>1. QED
    BY <1>2, <1>3, <1>4, <1>7, <1>8, <1>9, <1>10, ServiceTerms DEF Service!Ask
<1>12. QED
  BY <1>3, <1>11 DEF s

\* The rows of a result that is stored: its submission was waiting for it.
LEMMA ResultRows ==
  ASSUME IInv, NEW j \in Inserted, NEW gradable \in BOOLEAN, NEW score \in Scores,
         StoreResult(j, gradable, score), ~ResultUnneeded(j)
  PROVE  LET kept == IF gradable THEN score ELSE Null
         IN  /\ j \in Outstanding /\ job[j].sub \in Saved
             /\ \A s \in Submissions : /\ sub'[s].variant = sub[s].variant
                                       /\ sub'[s].requested = sub[s].requested
                                       /\ sub'[s].score = IF s = job[j].sub THEN kept ELSE sub[s].score
             /\ job'[j].graded /\ job'[j].sub = job[j].sub
             /\ \A i \in Jobs : i # j => job'[i] = job[i]
<1> DEFINE s == job[j].sub
           kept == IF gradable THEN score ELSE Null
           new == [sub[s] EXCEPT !.gradable = gradable, !.score = kept]
           graded == [job[j] EXCEPT !.graded = TRUE, !.gradable = gradable, !.score = kept]
<1>1. /\ j \in Jobs /\ job[j] \in Job /\ s \in Saved /\ s \in Submissions /\ sub[s] \in Submission
      /\ job \in [Jobs -> Job] /\ sub \in [Submissions -> Submission]
  BY DEF IInv, References, Inserted, Saved, TypeOK
<1>2. job' = [job EXCEPT ![j] = graded] /\ sub' = [sub EXCEPT ![s] = new]
  BY <1>1 DEF StoreResult
<1>3. new.variant = sub[s].variant /\ new.requested = sub[s].requested /\ new.score = kept
  BY <1>1 DEF Submission
<1>4. graded.graded /\ graded.sub = s
  BY <1>1 DEF Job
<1>5. j \in Outstanding
  BY DEF ResultUnneeded, Outstanding
<1> HIDE DEF new, graded, kept
<1>6. /\ sub'[s] = new /\ \A t \in Submissions : t # s => sub'[t] = sub[t]
      /\ job'[j] = graded /\ \A i \in Jobs : i # j => job'[i] = job[i]
  BY <1>1, <1>2
<1>7. QED
  BY <1>1, <1>3, <1>4, <1>5, <1>6 DEF kept

\* The submission of the result becomes decided, and nothing else changes state.
LEMMA ResultDecides ==
  ASSUME JobsInv, NEW j \in Inserted, NEW gradable \in BOOLEAN, NEW score \in Scores,
         StoreResult(j, gradable, score), ~ResultUnneeded(j)
  PROVE  \A t \in Submissions :
           StateOf(t)' = IF t = job[j].sub THEN "decided" ELSE StateOf(t)
<1> DEFINE s == job[j].sub
<1>1. /\ j \in Outstanding /\ s \in Saved /\ s \in Submissions
      /\ \A t \in Submissions : sub'[t].requested = sub[t].requested /\ sub'[t].variant = sub[t].variant
      /\ job'[j].graded /\ job'[j].sub = s
      /\ \A i \in Jobs : i # j => job'[i] = job[i]
  BY ResultRows DEF JobsInv, Saved
<1>2. j \notin Outstanding'
  BY <1>1 DEF Outstanding
<1>3. \A i \in Jobs : i # j => (job'[i].sub = job[i].sub /\ (i \in Outstanding' <=> i \in Outstanding))
  BY <1>1 DEF Outstanding, Inserted
<1>4. ~\E i \in Jobs : job'[i].sub = s /\ i \in Outstanding'
  BY <1>2, <1>3, <1>1 DEF JobsInv, OneOutstandingJob
<1>5. sub'[s].requested
  BY <1>1 DEF JobsInv, RequestsBacked
<1>6. ASSUME NEW t \in Submissions, t = s
      PROVE  StateOf(t)' = "decided"
  BY <1>4, <1>5, <1>6 DEF StateOf
<1>7. ASSUME NEW t \in Submissions, t # s
      PROVE  StateOf(t)' = StateOf(t)
  <2>2. \A i \in Jobs : job'[i].sub = t /\ i \in Outstanding' <=> job[i].sub = t /\ i \in Outstanding
    BY <1>1, <1>2, <1>3, <1>7
  <2>3. QED
    BY <1>1, <2>2, SameState
<1>8. QED
  BY <1>6, <1>7

\* Nothing newer of the question waits or was graded: the submission is due.
LEMMA ResultDue ==
  ASSUME JobsInv, NEW j \in Inserted, ~ResultUnneeded(j), NEW s, s = job[j].sub
  PROVE  Service!Due(s)
<1>1. /\ j \in Outstanding /\ j \in Jobs /\ s \in Submissions
  BY DEF ResultUnneeded, Outstanding, JobsInv, IInv, References, Inserted, Saved
<1>2. StateOf(s) = "waiting"
  BY <1>1 DEF StateOf
<1>3. ASSUME NEW t \in Saved, t > s, QuestionOf(t) = QuestionOf(s)
      PROVE  StateOf(t) = "saved"
  <2>1. ~sub[t].requested
    BY <1>3 DEF ResultUnneeded, NewerRequested
  <2>2. \A i \in Outstanding : job[i].sub # t
    BY <2>1 DEF JobsInv, RequestsBacked
  <2>3. QED
    BY <2>1, <2>2 DEF StateOf
<1>4. Saved \subseteq Submissions
  BY DEF Saved
<1>5. QED
  BY <1>1, <1>2, <1>3, <1>4, ServiceTerms DEF Service!Due

\* grading_jobs_update_after_grading: a result nobody waits for is dropped, and
\* one that is stored is a decision.
LEMMA ResultServes ==
  ASSUME JobsInv, PointsUpToDate', NEW j \in Inserted, NEW gradable \in BOOLEAN, NEW score \in Scores,
         UpdateAfterGrading(j, gradable, score), NEW s, s = job[j].sub
  PROVE  \/ UNCHANGED Service!vars
         \/ s \in Saved /\ Service!Due(s) /\ Service!Decide(s)
<1> DEFINE v == sub[s].variant
           q == QuestionOf(s)
           kept == IF gradable THEN score ELSE Null
           answer == [t \in Submissions |-> [variant |-> sub[t].variant, score |-> sub[t].score]]
           state == [t \in Submissions |-> StateOf(t)]
<1>1. IInv /\ TypeOK
  BY DEF JobsInv, IInv
<1>2. CASE UNCHANGED rows
  <2>1. UNCHANGED <<ai, grade, iq, variant, sub, job>>
    BY <1>2 DEF rows
  <2>2. \A t \in Submissions : StateOf(t)' = StateOf(t)
    BY <2>1, OthersKeepState
  <2>3. QED
    BY <2>1, <2>2 DEF Service!vars
<1>3. ~ResultUnneeded(j) => Service!Due(s)
  BY ResultDue
<1>4. CASE ~ResultUnneeded(j) /\ StoreResult(j, gradable, score)
  <2>1. /\ s \in Saved /\ s \in Submissions
        /\ \A t \in Submissions : /\ sub'[t].variant = sub[t].variant
                                  /\ sub'[t].score = IF t = s THEN kept ELSE sub[t].score
    BY <1>1, <1>4, ResultRows DEF Saved
  <2>2. /\ v \in MadeVariants /\ v \in Variants /\ variant[v].question = q /\ q \in Questions
    BY <1>1, <2>1 DEF IInv, References, MadeVariants, TypeOK, Variant, QuestionOf
  <2>3. answer' = [answer EXCEPT ![s].score = kept] /\ answer[s].variant = v
    <3> HIDE DEF kept
    <3>1. answer[s] = [variant |-> sub[s].variant, score |-> sub[s].score]
      BY <2>1
    <3>2. \A t \in Submissions :
            [variant |-> sub'[t].variant, score |-> sub'[t].score] =
              IF t = s THEN [variant |-> sub[s].variant, score |-> kept]
              ELSE [variant |-> sub[t].variant, score |-> sub[t].score]
      BY <2>1
    <3>3. answer' = [answer EXCEPT ![s] = [variant |-> sub[s].variant, score |-> kept]]
      BY <3>2
    <3>4. [answer[s] EXCEPT !.score = kept] = [variant |-> sub[s].variant, score |-> kept]
      BY <3>1
    <3> HIDE DEF answer
    <3>5. QED
      BY <3>1, <3>3, <3>4
  <2>4. state' = [state EXCEPT ![s] = "decided"]
    BY <1>4, ResultDecides
  <2>5. Service!QuestionOf(s) = q
    BY <2>1, ServiceTerms
  <2>6. CASE ~gradable
    <3>1. iq' = [iq EXCEPT ![q].status = "invalid"] /\ UNCHANGED <<ai, variant>>
      BY <1>4, <2>6 DEF UpdateAfterGrading
    <3>2. Service!Show(q)
      BY <3>1 DEF Service!Show, Service!Become, PointsUpToDate, Statuses
    <3>3. kept = Null
      BY <2>6
    <3> HIDE DEF q, kept
    <3>4. Service!Refuse(s)
      BY <2>3, <2>5, <3>1, <3>2, <3>3 DEF Service!Refuse
    <3>5. Service!Decide(s)
      BY <2>4, <3>1, <3>4 DEF Service!Decide
    <3>6. QED
      BY <1>3, <1>4, <2>1, <3>5
  <2>7. CASE gradable
    <3> DEFINE stays == ~(/\ AQ[q].type = "Homework"
                          /\ ~AQ[q].singleVariant
                          /\ variant[v].tries + 1 >= AQ[q].triesPerVariant \/ Correct(score))
    <3>1. variant' = VariantUpdateAfterGrading(v, Correct(score)) /\ GradeQuestion(q, score, sub[s].credit)
      BY <1>4, <2>7 DEF UpdateAfterGrading
    <3>2. variant' = [variant EXCEPT ![v].tries = @ + 1, ![v].open = @ /\ stays]
      BY <2>2, <3>1 DEF VariantUpdateAfterGrading
    <3>3. stays \in BOOLEAN
      OBVIOUS
    <3>4. iq' = IF iq[q].open THEN [iq EXCEPT ![q] = GradedQuestion(AQ[q], @, score)] ELSE iq
      BY <3>1 DEF GradeQuestion
    <3>5. ai'.open = ai.open
      BY <1>1, <3>1 DEF GradeQuestion, AssessmentInstanceGrade, TypeOK, AssessmentInstance
    <3>6. kept = score
      BY <2>7
    <3> HIDE DEF v, q, kept, stays
    <3>7. Service!Score(s, score)
      BY <2>3, <2>5, <3>2, <3>3, <3>4, <3>6 DEF Service!Score, Service!Become, PointsUpToDate
    <3>8. Service!Decide(s)
      BY <2>4, <3>5, <3>7 DEF Service!Decide
    <3>9. QED
      BY <1>3, <1>4, <2>1, <3>8
  <2>8. QED
    BY <2>6, <2>7
<1>5. QED
  BY <1>2, <1>4 DEF UpdateAfterGrading

\* grade_rate_minutes passing is nothing to the service.
LEMMA GradeRatePassesServes ==
  ASSUME IInv, GradeRatePasses
  PROVE  UNCHANGED Service!vars
<1>1. job' = [j \in Jobs |-> [job[j] EXCEPT !.rate = "past"]] /\ UNCHANGED <<ai, grade, iq, variant, sub>>
  BY DEF GradeRatePasses
<1>2. ASSUME NEW j \in Jobs
      PROVE  job'[j].sub = job[j].sub /\ (j \in Outstanding' <=> j \in Outstanding)
  <2>1. job[j] \in Job /\ job'[j] = [job[j] EXCEPT !.rate = "past"]
    BY <1>1 DEF IInv, TypeOK
  <2>2. /\ job'[j].sub = job[j].sub
        /\ job'[j].graded = job[j].graded /\ job'[j].canceled = job[j].canceled
    BY <2>1 DEF Job
  <2>3. QED
    BY <2>2 DEF Outstanding, Inserted
<1>3. \A s \in Submissions : StateOf(s)' = StateOf(s)
  BY <1>1, <1>2, SameState
<1>4. QED
  BY <1>1, <1>3 DEF Service!vars

\* Every step of the handlers, the graders and the cron job is a step of the
\* service, or one that the service does not see.
LEMMA NextServes ==
  ASSUME ServiceInv, ServiceInv', [Next]_vars
  PROVE  [Service!Next]_Service!vars
<1>1. AskInv /\ JobsInv /\ IInv /\ PointsUpToDate /\ PointsUpToDate' /\ IInv'
  BY DEF ServiceInv, JobsInv
<1>2. CASE \E q \in Questions : CreateVariant(q)
  BY <1>1, <1>2, CreateVariantServes DEF Service!Next
<1>3. ASSUME NEW s \in Submissions, NEW v \in Variants, NEW gradable \in BOOLEAN,
             NEW credit \in Credits, InsertSubmission(s, v, gradable, credit)
      PROVE  Service!Next
  BY <1>1, <1>3, InsertSubmissionServes, ServiceTerms DEF Service!Next
<1>4. ASSUME NEW w \in Processes, InsertJob(w)
      PROVE  Service!Next
  BY <1>1, <1>4, InsertJobServes, ServiceTerms DEF Service!Next
<1>5. ASSUME NEW j \in Inserted, NEW gradable \in BOOLEAN, NEW score \in Scores,
             UpdateAfterGrading(j, gradable, score)
      PROVE  Service!Next \/ UNCHANGED Service!vars
  <2>1. PICK s : s = job[j].sub
    OBVIOUS
  <2>2. CASE s \in Saved /\ Service!Due(s) /\ Service!Decide(s)
    BY <2>2, ServiceTerms DEF Service!Next
  <2>3. QED
    BY <1>1, <1>5, <2>1, <2>2, ResultServes
<1>6. CASE GradeRatePasses
  BY <1>1, <1>6, GradeRatePassesServes
<1>7. CASE ai'.open = ai.open /\ UNCHANGED <<iq, variant, sub, job, grade>>
  <2>1. \A s \in Submissions : StateOf(s)' = StateOf(s)
    BY <1>7, OthersKeepState
  <2>2. QED
    BY <1>7, <2>1 DEF Service!vars
<1>8. CASE ai.open /\ ~ai'.open /\ UNCHANGED <<iq, variant, sub, job, grade>>
  <2>1. \A s \in Submissions : StateOf(s)' = StateOf(s)
    BY <1>8, OthersKeepState
  <2>2. ai.open = TRUE /\ ai'.open = FALSE
    BY <1>1, <1>8 DEF IInv, TypeOK, AssessmentInstance
  <2>3. Service!Close
    BY <1>8, <2>1, <2>2 DEF Service!Close
  <2>4. QED
    BY <2>3 DEF Service!Next
<1>9. QED
  BY <1>1, <1>2, <1>3, <1>4, <1>5, <1>6, <1>7, <1>8, VisibleSteps

\* A new assessment instance is one of the service.
LEMMA InitServes == Init /\ PointsUpToDate => Service!Init
<1> SUFFICES ASSUME Init, PointsUpToDate PROVE Service!Init
  OBVIOUS
<1>1. /\ ai.open = TRUE /\ iq = [q \in Questions |-> NewInstanceQuestion(AQ[q])]
      /\ variant = [v \in Variants |-> Service!NoVariant]
      /\ \A s \in Submissions : sub[s] = NoSubmission
      /\ \A j \in Jobs : job[j] = NoJob
  BY DEF Init, NoVariant, Service!NoVariant
<1>2. \A s \in Submissions : StateOf(s) = "saved"
  BY <1>1 DEF StateOf, Outstanding, Inserted, NoJob, NoSubmission
<1>3. \A s \in Submissions : [variant |-> sub[s].variant, score |-> sub[s].score] = Service!NoAnswer
  BY <1>1 DEF NoSubmission, Service!NoAnswer
<1>4. QED
  BY <1>1, <1>2, <1>3 DEF Service!Init, PointsUpToDate

\* Grading serves answers as GradingService promises: each answer that waits gets
\* at most one result, in the order in which the answers were given, and with the
\* result the variant, the question and the points of the assessment instance
\* change together, whoever interleaves or dies.
THEOREM AnswersAreServed == Spec => ImplementsService
<1>1. Spec => []ServiceInv
  <2>1. PInv => PointsUpToDate
    BY DEF PInv, Earned
  <2>2. QED
    BY <2>1, AskInvariance, JobsInvariance, EarnedInvariance, PTL DEF ServiceInv
<1>2. ServiceInv => PointsUpToDate
  BY DEF ServiceInv
<1>3. QED
  BY <1>1, <1>2, InitServes, NextServes, PTL DEF Spec, ImplementsService, Service!Spec

-----------------------------------------------------------------------------
(* The largest member of a set, and the reference definitions made of it. *)

LEMMA LargestIs ==
  ASSUME NEW S, S \subseteq Int, NEW m \in S, \A y \in S : m >= y
  PROVE  Max(S) = m
<1>1. \A x \in S : (\A y \in S : x >= y) => x = m
  OBVIOUS
<1>2. QED
  BY <1>1 DEF Max

LEMMA LargestOf ==
  ASSUME NEW S, IsFiniteSet(S), S # {}, S \subseteq Int
  PROVE  Max(S) \in S /\ \A y \in S : Max(S) >= y
<1> DEFINE g == [x \in S |-> x]
<1>1. PICK x \in S : \A y \in S : g[x] >= g[y]
  <2>1. \A x \in S : g[x] \in Int
    OBVIOUS
  <2> HIDE DEF g
  <2>2. QED
    BY <2>1, LargestValue
<1>2. \A y \in S : x >= y
  BY <1>1
<1>3. QED
  BY <1>2, LargestIs

\* The best of some scores is one of them, or zero.
LEMMA BestIsScore ==
  ASSUME NEW s \in Seq(Scores), NEW i \in Nat \ {0}, NEW j \in 0..Len(s)
  PROVE  /\ Best(s, i, j) \in Scores
         /\ \A k \in i..j : s[k] \in Scores /\ Best(s, i, j) >= s[k]
         /\ Best(s, i, j) = 0 \/ \E k \in i..j : Best(s, i, j) = s[k]
<1> DEFINE S == {s[k] : k \in i..j} \cup {0}
<1>1. \A k \in i..j : s[k] \in Scores
  <2>1. \A k \in i..j : k \in 1..Len(s)
    OBVIOUS
  <2>2. QED
    BY <2>1
<1>2. S \subseteq Scores
  BY <1>1, ScoreUnitAssumption DEF Scores
<1>3. IsFiniteSet(Scores) /\ Scores \subseteq Int
  BY ScoreUnitAssumption, FS_Interval DEF Scores
<1>4. IsFiniteSet(S) /\ S # {} /\ S \subseteq Int
  BY <1>2, <1>3, FS_Subset
<1>5. Max(S) \in S /\ \A y \in S : Max(S) >= y
  <2> HIDE DEF S
  <2>1. QED
    BY <1>4, LargestOf
<1>6. Best(s, i, j) = Max(S)
  BY DEF Best
<1>7. QED
  BY <1>1, <1>2, <1>5, <1>6

\* One more score changes the best of a range only if it is in the range.
LEMMA BestAppend ==
  ASSUME NEW s \in Seq(Scores), NEW x \in Scores, NEW i \in Nat \ {0}
  PROVE  /\ \A j \in 0..Len(s) : Best(Append(s, x), i, j) = Best(s, i, j)
         /\ i <= Len(s) + 1 =>
              Best(Append(s, x), i, Len(s) + 1) = MaxOf(x, Best(s, i, Len(s)))
<1> DEFINE t == Append(s, x)
           n == Len(s)
<1>1. n \in Nat /\ t \in Seq(Scores) /\ Len(t) = n + 1 /\ t[n + 1] = x
      /\ \A k \in 1..n : t[k] = s[k]
  OBVIOUS
<1> HIDE DEF t
<1>2. ASSUME NEW j \in 0..n
      PROVE  Best(t, i, j) = Best(s, i, j)
  <2>1. {t[k] : k \in i..j} = {s[k] : k \in i..j}
    BY <1>1
  <2>2. QED
    BY <2>1 DEF Best
<1>3. ASSUME i <= n + 1
      PROVE  Best(t, i, n + 1) = MaxOf(x, Best(s, i, n))
  <2>1. /\ Best(s, i, n) \in Scores
        /\ \A k \in i..n : Best(s, i, n) >= s[k]
        /\ Best(s, i, n) = 0 \/ \E k \in i..n : Best(s, i, n) = s[k]
    BY <1>1, BestIsScore
  <2> DEFINE S == {t[k] : k \in i..(n + 1)} \cup {0}
             m == MaxOf(x, Best(s, i, n))
  <2>2. S \subseteq Int
    BY <1>1, ScoreUnitAssumption DEF Scores
  <2>3. Best(s, i, n) \in S
    BY <1>1, <2>1
  <2>4. x \in S
    BY <1>1, <1>3
  <2>5. m \in S
    BY <2>3, <2>4 DEF MaxOf
  <2>6. x \in Nat /\ Best(s, i, n) \in Nat
    BY <2>1, ScoreUnitAssumption DEF Scores
  <2>7. m >= x /\ m >= Best(s, i, n) /\ m \in Nat
    BY <2>6 DEF MaxOf
  <2>8. \A y \in S : m >= y
    <3> HIDE DEF m
    <3>1. ASSUME NEW k \in i..(n + 1) PROVE m >= t[k]
      <4>1. CASE k = n + 1
        BY <1>1, <2>7, <4>1
      <4>2. CASE k # n + 1
        <5>1. k \in i..n /\ t[k] = s[k] /\ s[k] \in Scores
          BY <1>1, <4>2
        <5>2. s[k] \in Int /\ Best(s, i, n) >= s[k]
          BY <5>1, <2>1, ScoreUnitAssumption DEF Scores
        <5>3. QED
          BY <5>1, <5>2, <2>6, <2>7
      <4>3. QED
        BY <4>1, <4>2
    <3>2. QED
      BY <3>1, <2>7
  <2>9. Max(S) = m
    <3> HIDE DEF S, m
    <3>1. QED
      BY <2>2, <2>5, <2>8, LargestIs
  <2>10. QED
    BY <2>9 DEF Best
<1>4. QED
  BY <1>1, <1>2, <1>3 DEF t

LEMMA BestOfNone ==
  ASSUME NEW s, NEW n \in Nat
  PROVE  Best(s, n + 1, n) = 0
<1>1. {s[k] : k \in (n + 1)..n} \cup {0} = {0}
  OBVIOUS
<1>2. QED
  BY <1>1, LargestIs DEF Best

\* Where the last of some places is.
LEMMA LastPlace ==
  ASSUME NEW n \in Nat, NEW S, S \subseteq 1..n
  PROVE  /\ Max(S \cup {0}) \in 0..n
         /\ Max(S \cup {0}) = 0 \/ Max(S \cup {0}) \in S
         /\ \A k \in S : Max(S \cup {0}) >= k
         /\ Max(S \cup {n + 1} \cup {0}) = n + 1
<1>1. IsFiniteSet(0..n) /\ S \cup {0} \subseteq 0..n
  BY FS_Interval
<1>2. IsFiniteSet(S \cup {0})
  BY <1>1, FS_Subset
<1>6. S \cup {0} # {} /\ S \cup {0} \subseteq Int
  BY <1>1
<1>3. Max(S \cup {0}) \in S \cup {0} /\ \A y \in S \cup {0} : Max(S \cup {0}) >= y
  BY <1>2, <1>6, LargestOf
<1>4. Max(S \cup {n + 1} \cup {0}) = n + 1
  <2> DEFINE T == S \cup {n + 1} \cup {0}
  <2>1. T \subseteq Int /\ n + 1 \in T /\ \A y \in T : n + 1 >= y
    OBVIOUS
  <2> HIDE DEF T
  <2>2. Max(T) = n + 1
    BY <2>1, LargestIs
  <2>3. QED
    BY <2>2 DEF T
<1>5. QED
  BY <1>1, <1>3, <1>4

LEMMA LastAppend ==
  ASSUME NEW s \in Seq(Scores), NEW x \in Scores
  PROVE  LET t == Append(s, x)
             n == Len(s)
         IN  /\ \A i \in 0..n : LastCorrect(t, i) = LastCorrect(s, i) /\ LastMissed(t, i) = LastMissed(s, i)
             /\ LastCorrect(t, n + 1) = IF Correct(x) THEN n + 1 ELSE LastCorrect(s, n)
             /\ LastMissed(t, n + 1) = IF Correct(x) THEN LastMissed(s, n) ELSE n + 1
             /\ LastCorrect(s, n) \in 0..n /\ LastMissed(s, n) \in 0..n
<1> DEFINE t == Append(s, x)
           n == Len(s)
           C(u, i) == {k \in 1..i : Correct(u[k])}
           M(u, i) == {k \in 1..i : ~Correct(u[k])}
<1>1. n \in Nat /\ t \in Seq(Scores) /\ Len(t) = n + 1 /\ t[n + 1] = x
      /\ \A k \in 1..n : t[k] = s[k]
  OBVIOUS
<1> HIDE DEF t
<1>2. \A i \in 0..n : C(t, i) = C(s, i) /\ M(t, i) = M(s, i)
  BY <1>1 DEF Correct
<1>3. /\ C(t, n + 1) = IF Correct(x) THEN C(s, n) \cup {n + 1} ELSE C(s, n)
      /\ M(t, n + 1) = IF Correct(x) THEN M(s, n) ELSE M(s, n) \cup {n + 1}
  <2>1. 1..(n + 1) = 1..n \cup {n + 1}
    BY <1>1
  <2>2. QED
    BY <1>1, <2>1 DEF Correct
<1>4. /\ \A u, i : LastCorrect(u, i) = Max(C(u, i) \cup {0}) /\ LastMissed(u, i) = Max(M(u, i) \cup {0})
      /\ C(s, n) \subseteq 1..n /\ M(s, n) \subseteq 1..n
  BY DEF LastCorrect, LastMissed
<1> HIDE DEF C, M
<1>5. /\ Max(C(s, n) \cup {0}) \in 0..n /\ Max(M(s, n) \cup {0}) \in 0..n
      /\ Max(C(s, n) \cup {n + 1} \cup {0}) = n + 1
      /\ Max(M(s, n) \cup {n + 1} \cup {0}) = n + 1
  BY <1>1, <1>4, LastPlace
<1>6. QED
  BY <1>2, <1>3, <1>4, <1>5 DEF t

\* A sum over one more place.
LEMMA SumAppend ==
  ASSUME NEW n \in Nat, NEW f, NEW g,
         \A i \in 1..n : f[i] = g[i], \A i \in 1..(n + 1) : g[i] \in Int
  PROVE  /\ SumFunctionOnSet(g, 1..(n + 1)) = SumFunctionOnSet(f, 1..n) + g[n + 1]
         /\ SumFunctionOnSet(f, 1..n) \in Int
<1>1. IsFiniteSet(1..n) /\ n + 1 \notin 1..n /\ 1..(n + 1) = 1..n \cup {n + 1}
  BY FS_Interval
<1>2. \A i \in 1..n : f[i] \in Int /\ g[i] \in Int
  OBVIOUS
<1>3. SumFunctionOnSet(f, 1..n) \in Int
  BY <1>1, <1>2, SumType
<1>4. SumFunctionOnSet(f, 1..n) = SumFunctionOnSet(g, 1..n)
  BY <1>1, SameSum
<1>5. \A i \in 1..n \cup {n + 1} : g[i] \in Int
  BY <1>1
<1>6. SumFunctionOnSet(g, 1..n \cup {n + 1}) = g[n + 1] + SumFunctionOnSet(g, 1..n)
  BY <1>1, <1>5, SumAdd
<1>7. g[n + 1] \in Int
  BY <1>1, <1>5
<1>8. SumFunctionOnSet(g, 1..(n + 1)) = g[n + 1] + SumFunctionOnSet(f, 1..n)
  BY <1>1, <1>4, <1>6, Zenon
<1>9. QED
  BY <1>3, <1>7, <1>8

-----------------------------------------------------------------------------
(* Exams. *)

\* The row of a question after the scores s.
Follows(r, s) ==
  /\ r \in InstanceQuestion /\ s \in Seq(Scores)
  /\ r.attempts = Len(s)
  /\ r.highest = Best(s, 1, Len(s))

\* While the next attempt is worth the whole of the question, the best score has
\* earned its share of it: only then is a correct answer worth the maximum.
ExamFollows(q, r, s) ==
  /\ Len(s) <= Len(q.list)
  /\ r.auto = ExamTotal(q, s)
  /\ r.open /\ q.list[r.attempts + 1] - q.maxManual = q.maxAuto => r.auto = q.maxAuto * r.highest

LEMMA FollowsGraded ==
  ASSUME NEW q \in AssessmentQuestion, NEW r, NEW s, NEW score \in Scores,
         r.open, AttemptsLeft(q, r), Follows(r, s)
  PROVE  /\ Follows(GradedQuestion(q, r, score), Append(s, score))
         /\ AttemptsLeft(q, GradedQuestion(q, r, score))
         /\ GradedQuestion(q, r, score).highest = MaxOf(score, r.highest)
<1> DEFINE p == GradedQuestion(q, r, score)
           x == IF q.type = "Exam" THEN ExamPoints(q, r, score) ELSE HomeworkPoints(q, r, score)
<1>1. r \in InstanceQuestion /\ s \in Seq(Scores) /\ r.attempts = Len(s)
      /\ r.highest = Best(s, 1, Len(s))
  BY DEF Follows
<1>2. p \in InstanceQuestion /\ AttemptsLeft(q, p) /\ p.attempts = r.attempts + 1
  BY <1>1, GradedTypes, GradedAttempts
<1>3. x.highest = MaxOf(score, r.highest)
  BY <1>1 DEF ExamPoints, HomeworkPoints, InstanceQuestion
<1>4. x \in InstanceQuestion
  BY <1>1, ExamTypes, HomeworkTypes
<1>5. p = [x EXCEPT !.attempts = r.attempts + 1]
  BY DEF GradedQuestion
<1>6. p.highest = x.highest
  <2> HIDE DEF x, p
  <2>1. QED
    BY <1>4, <1>5 DEF InstanceQuestion
<1> HIDE DEF p, x
<1>7. /\ Append(s, score) \in Seq(Scores) /\ Len(Append(s, score)) = Len(s) + 1
      /\ Best(Append(s, score), 1, Len(s) + 1) = MaxOf(score, Best(s, 1, Len(s)))
  <2>1. Len(s) \in Nat /\ 1 <= Len(s) + 1
    BY <1>1
  <2>2. QED
    BY <1>1, <2>1, BestAppend
<1>8. QED
  BY <1>1, <1>2, <1>3, <1>6, <1>7 DEF Follows, p

\* What one more score adds to the total.
LEMMA ExamTotalAppend ==
  ASSUME NEW q \in AssessmentQuestion, q.type = "Exam",
         NEW s \in Seq(Scores), NEW score \in Scores, Len(s) < Len(q.list)
  PROVE  LET best == Best(s, 1, Len(s)) IN
           ExamTotal(q, Append(s, score)) =
             ExamTotal(q, s) + (q.list[Len(s) + 1] - q.maxManual) * (MaxOf(score, best) - best)
<1> DEFINE t == Append(s, score)
           n == Len(s)
           f == [i \in 1..n |-> ExamGain(q, s, i)]
           g == [i \in 1..(n + 1) |-> ExamGain(q, t, i)]
           best == Best(s, 1, n)
<1>1. n \in Nat /\ t \in Seq(Scores) /\ Len(t) = n + 1
  OBVIOUS
<1>2. /\ \A j \in 0..n : Best(t, 1, j) = Best(s, 1, j)
      /\ Best(t, 1, n + 1) = MaxOf(score, best)
  BY <1>1, BestAppend
<1>3. \A i \in 1..n : f[i] = g[i]
  <2> TAKE i \in 1..n
  <2>1. i \in 0..n /\ i - 1 \in 0..n /\ i \in 1..(n + 1)
    BY <1>1
  <2>2. ExamGain(q, s, i) = ExamGain(q, t, i)
    BY <1>2, <2>1 DEF ExamGain
  <2>3. QED
    BY <2>1, <2>2
<1>4. \A i \in 1..(n + 1) : g[i] \in Int
  <2> TAKE i \in 1..(n + 1)
  <2>1. i \in 1..Len(q.list) /\ i \in 0..Len(t) /\ i - 1 \in 0..Len(t)
    <3>1. q.list \in Seq(Nat)
      BY DEF AssessmentQuestion
    <3>2. QED
      BY <1>1, <3>1
  <2>2. q.list[i] - q.maxManual \in Nat
    BY <2>1, ListFalls
  <2>3. Best(t, 1, i) \in Scores /\ Best(t, 1, i - 1) \in Scores
    <3>1. 1 \in Nat \ {0}
      OBVIOUS
    <3> HIDE DEF t
    <3>2. QED
      BY <1>1, <2>1, <3>1, BestIsScore
  <2>4. Best(t, 1, i) \in Int /\ Best(t, 1, i - 1) \in Int
    BY <2>3 DEF Scores
  <2>5. ExamGain(q, t, i) \in Int
    BY <2>2, <2>4 DEF ExamGain
  <2>6. QED
    BY <2>5
<1>5. SumFunctionOnSet(g, 1..(n + 1)) = SumFunctionOnSet(f, 1..n) + g[n + 1]
  <2> HIDE DEF f, g
  <2>1. QED
    BY <1>1, <1>3, <1>4, SumAppend
<1>6. g[n + 1] = (q.list[n + 1] - q.maxManual) * (MaxOf(score, best) - best)
  <2>1. (n + 1) - 1 = n /\ n + 1 \in 1..(n + 1) /\ n \in 0..n
    BY <1>1
  <2>2. g[n + 1] = ExamGain(q, t, n + 1)
    BY <2>1
  <2>3. QED
    BY <1>2, <2>1, <2>2 DEF ExamGain
<1>7. ExamTotal(q, s) = SumFunctionOnSet(f, 1..n) /\ ExamTotal(q, t) = SumFunctionOnSet(g, 1..(n + 1))
  <2> HIDE DEF t
  <2>1. QED
    BY <1>1 DEF ExamTotal
<1>8. QED
  BY <1>5, <1>6, <1>7

LEMMA ExamFollowsGraded ==
  ASSUME NEW q \in AssessmentQuestion, q.type = "Exam", NEW r, NEW s, NEW score \in Scores,
         r.open, AttemptsLeft(q, r), Follows(r, s), ExamFollows(q, r, s)
  PROVE  ExamFollows(q, GradedQuestion(q, r, score), Append(s, score))
<1> DEFINE p     == GradedQuestion(q, r, score)
           x     == ExamPoints(q, r, score)
           t     == Append(s, score)
           n     == Len(s)
           worth == q.list[r.attempts + 1] - q.maxManual
           gain  == MaxOf(0, score - r.highest)
           high  == MaxOf(score, r.highest)
<1>1. /\ r \in InstanceQuestion /\ s \in Seq(Scores) /\ r.attempts = n /\ n \in Nat
      /\ r.highest = Best(s, 1, n)
  BY DEF Follows
<1>2. /\ r.auto \in Int /\ q.maxAuto \in Nat /\ ScoreUnit \in Nat /\ score \in Nat
      /\ r.highest \in Nat /\ score <= ScoreUnit /\ r.highest <= ScoreUnit
      /\ q.list \in Seq(Nat) /\ q.maxManual \in Nat
  BY <1>1, ScoreUnitAssumption DEF AssessmentQuestion, InstanceQuestion, Scores
<1>3. r.attempts + 1 \in 1..Len(q.list) /\ n < Len(q.list)
  BY <1>1, <1>2 DEF AttemptsLeft
<1>4. worth \in Nat /\ worth <= q.maxAuto
  BY <1>3, ListFalls
<1>5. gain \in Nat /\ high \in Nat /\ high = r.highest + gain
  BY <1>2 DEF MaxOf
<1>6. p \in InstanceQuestion /\ AttemptsLeft(q, p) /\ p.attempts = n + 1 /\ p.highest = high
  <2>1. p \in InstanceQuestion /\ AttemptsLeft(q, p) /\ p.attempts = r.attempts + 1
    BY <1>1, GradedTypes, GradedAttempts
  <2>2. p.highest = high
    BY FollowsGraded
  <2>3. QED
    BY <1>1, <2>1, <2>2
<1>7. p.auto = ExamAutoPoints(q, r, score)
  <2>1. x \in InstanceQuestion
    BY <1>1, ExamTypes
  <2>2. x.auto = ExamAutoPoints(q, r, score)
    BY <1>1 DEF ExamPoints, InstanceQuestion
  <2>3. p = [x EXCEPT !.attempts = r.attempts + 1]
    BY DEF GradedQuestion
  <2> HIDE DEF x, p
  <2>4. QED
    BY <2>1, <2>2, <2>3 DEF InstanceQuestion
<1>8. Len(t) = n + 1 /\ Len(t) <= Len(q.list)
  BY <1>1, <1>2, <1>3
<1> HIDE DEF p, t
<1>9. ExamTotal(q, t) = r.auto + worth * gain
  <2>1. ExamTotal(q, t) = ExamTotal(q, s)
          + (q.list[n + 1] - q.maxManual) * (MaxOf(score, Best(s, 1, n)) - Best(s, 1, n))
    BY <1>1, <1>3, ExamTotalAppend DEF t
  <2>2. MaxOf(score, Best(s, 1, n)) - Best(s, 1, n) = gain
    BY <1>1, <1>2, <1>5
  <2>3. ExamTotal(q, s) = r.auto
    BY DEF ExamFollows
  <2>4. QED
    BY <1>1, <2>1, <2>2, <2>3
<1> HIDE DEF worth, gain, high
<1>10. CASE Correct(score) /\ worth = q.maxAuto
  <2>1. p.auto = q.maxAuto * ScoreUnit
    BY <1>7, <1>10 DEF ExamAutoPoints, worth
  <2>2. high = ScoreUnit
    BY <1>2, <1>10 DEF Correct, high, MaxOf
  <2>3. r.auto = q.maxAuto * r.highest
    BY <1>10 DEF ExamFollows, worth
  <2>4. q.maxAuto * high = q.maxAuto * r.highest + q.maxAuto * gain
    BY <1>2, <1>5
  <2>5. p.auto = q.maxAuto * high /\ p.auto = r.auto + worth * gain
    BY <1>10, <2>1, <2>2, <2>3, <2>4
  <2>6. p.auto = q.maxAuto * p.highest /\ p.auto = ExamTotal(q, t)
    BY <1>6, <1>9, <2>5
  <2>7. QED
    BY <1>8, <2>6 DEF ExamFollows, p, t
<1>11. CASE ~(Correct(score) /\ worth = q.maxAuto)
  <2>1. p.auto = r.auto + worth * gain
    BY <1>7, <1>11 DEF ExamAutoPoints, worth, gain
  <2>2. ASSUME p.open, q.list[p.attempts + 1] - q.maxManual = q.maxAuto
        PROVE  p.auto = q.maxAuto * p.highest
    <3>1. p.attempts + 1 \in 1..Len(q.list) /\ p.attempts + 1 = n + 2
      <4>1. Len(q.list) \in Nat /\ n \in Nat
        BY <1>1, <1>2
      <4>2. Len(q.list) - p.attempts >= 1 /\ p.attempts = n + 1
        BY <1>6, <2>2 DEF AttemptsLeft
      <4>3. QED
        BY <4>1, <4>2
    <3>2. q.list[n + 2] <= q.list[n + 1]
      <4>1. /\ \A i \in 2..Len(q.list) : q.list[i] <= q.list[i - 1]
            /\ n + 2 \in 2..Len(q.list) /\ (n + 2) - 1 = n + 1
        BY <1>1, <1>2, <3>1, SMTT(30) DEF AssessmentQuestion
      <4>2. QED
        BY <4>1
    <3>3. q.list[n + 2] \in Nat /\ q.list[n + 1] \in Nat /\ q.maxManual \in Nat /\ q.maxAuto \in Nat
      <4>1. n + 2 \in 1..Len(q.list) /\ n + 1 \in 1..Len(q.list)
        BY <1>1, <1>3, <3>1
      <4>2. q.list \in Seq(Nat)
        BY <1>2
      <4>3. q.list[n + 2] \in Nat /\ q.list[n + 1] \in Nat
        BY <4>1, <4>2
      <4>4. QED
        BY <1>2, <4>3
    <3>4. worth = q.maxAuto
      <4>1. worth = q.list[n + 1] - q.maxManual
        BY <1>1 DEF worth
      <4>2. q.list[n + 2] - q.maxManual = q.maxAuto
        BY <2>2, <3>1
      <4>3. QED
        BY <1>4, <3>2, <3>3, <4>1, <4>2
    <3>5. r.auto = q.maxAuto * r.highest
      BY <3>4 DEF ExamFollows, worth
    <3>6. q.maxAuto * high = q.maxAuto * r.highest + q.maxAuto * gain
      BY <1>2, <1>5
    <3>7. QED
      BY <1>6, <2>1, <3>4, <3>5, <3>6
  <2>3. p.auto = ExamTotal(q, t)
    BY <1>9, <2>1
  <2>4. QED
    BY <1>8, <2>2, <2>3 DEF ExamFollows, p, t
<1>12. QED
  BY <1>10, <1>11

\* What an open question advertises is what a full score adds.
LEMMA AdvertisedGain ==
  ASSUME NEW q \in AssessmentQuestion, q.type = "Exam", NEW r, NEW s,
         r.open, AttemptsLeft(q, r), Follows(r, s), ExamFollows(q, r, s)
  PROVE  ExamPoints(q, r, ScoreUnit).auto - r.auto = ListHead(q, r) - q.maxManual * ScoreUnit
<1> DEFINE worth == q.list[r.attempts + 1] - q.maxManual
           gain  == MaxOf(0, ScoreUnit - r.highest)
<1>1. /\ r \in InstanceQuestion /\ r.auto \in Int /\ q.maxAuto \in Nat /\ ScoreUnit \in Nat
      /\ r.highest \in Nat /\ r.highest <= ScoreUnit /\ r.attempts \in Nat
      /\ q.list \in Seq(Nat) /\ q.maxManual \in Nat
  BY ScoreUnitAssumption DEF AssessmentQuestion, InstanceQuestion, Scores, Follows
<1>2. r.attempts + 1 \in 1..Len(q.list)
  BY <1>1, SMTT(30) DEF AttemptsLeft
<1>3. worth \in Nat
  BY <1>2, ListFalls
<1>4. gain \in Nat /\ gain = ScoreUnit - r.highest
  BY <1>1 DEF MaxOf
<1>5. ExamPoints(q, r, ScoreUnit).auto = ExamAutoPoints(q, r, ScoreUnit)
  BY <1>1 DEF ExamPoints, InstanceQuestion
<1>6. ListHead(q, r) = worth * gain + q.maxManual * ScoreUnit
  BY <1>4 DEF ListHead
<1>7. ExamAutoPoints(q, r, ScoreUnit) = r.auto + worth * gain
  <2> DEFINE auto == ExamAutoPoints(q, r, ScoreUnit)
  <2>1. CASE worth = q.maxAuto
    <3>1. auto = q.maxAuto * ScoreUnit
      BY <1>1, <2>1 DEF ExamAutoPoints, Correct
    <3>2. r.auto = q.maxAuto * r.highest
      BY <2>1 DEF ExamFollows
    <3> HIDE DEF worth, gain, auto
    <3>3. q.maxAuto * ScoreUnit = q.maxAuto * r.highest + q.maxAuto * gain
      BY <1>1, <1>4
    <3>4. QED
      BY <2>1, <3>1, <3>2, <3>3 DEF auto
  <2>2. CASE worth # q.maxAuto
    BY <2>2 DEF ExamAutoPoints
  <2>3. QED
    BY <2>1, <2>2
<1> HIDE DEF worth, gain
<1> DEFINE more == worth * gain
           manual == q.maxManual * ScoreUnit
<1>8. more \in Int /\ manual \in Int /\ r.auto \in Int
  BY <1>1, <1>3, <1>4
<1>9. ExamPoints(q, r, ScoreUnit).auto = r.auto + more /\ ListHead(q, r) = more + manual
  BY <1>5, <1>6, <1>7
<1> HIDE DEF more
<1>10. ListHead(q, r) - manual = more /\ ExamPoints(q, r, ScoreUnit).auto - r.auto = more
  <2> HIDE DEF manual
  <2>1. QED
    BY <1>8, <1>9
<1>11. QED
  BY <1>10

-----------------------------------------------------------------------------
(* Homework. *)

\* What the points of a homework question depend on: the place of the last correct
\* score, how many were correct in a row, the best since, the worth of the correct ones.
CorrectAt(s)  == LastCorrect(s, Len(s))
InARow(s)     == Len(s) - LastMissed(s, Len(s))
BestSince(s)  == Best(s, CorrectAt(s) + 1, Len(s))
Values(q, s)  == SumFunctionOnSet([i \in 1..Len(s) |-> AnswerValue(q, s, i)], 1..Len(s))
NextValue(q, s) == IF q.constantValue THEN AutoPoints(q)
                   ELSE MinOf(AutoPoints(q) * (InARow(s) + 1), q.maxAuto)

LEMMA AutoPointsType ==
  ASSUME NEW q \in AssessmentQuestion
  PROVE  /\ AutoPoints(q) \in Nat /\ q.maxAuto \in Nat /\ q.maxManual \in Nat /\ q.init \in Nat
         /\ q.init = AutoPoints(q) + q.maxManual /\ ScoreUnit \in Nat \ {0}
         /\ q.maxPoints = q.maxManual + q.maxAuto
BY ScoreUnitAssumption DEF AssessmentQuestion, AutoPoints

LEMMA InARowType ==
  ASSUME NEW s \in Seq(Scores)
  PROVE  CorrectAt(s) \in 0..Len(s) /\ InARow(s) \in Nat /\ BestSince(s) \in Scores /\ Len(s) \in Nat
<1>1. 0 \in Scores /\ Len(s) \in Nat
  BY ScoreUnitAssumption DEF Scores
<1>2. LastCorrect(s, Len(s)) \in 0..Len(s) /\ LastMissed(s, Len(s)) \in 0..Len(s)
  BY <1>1, LastAppend
<1>3. CorrectAt(s) \in 0..Len(s) /\ InARow(s) \in Nat
  BY <1>1, <1>2 DEF CorrectAt, InARow
<1>4. CorrectAt(s) + 1 \in Nat \ {0} /\ Len(s) \in 0..Len(s)
  BY <1>1, <1>3
<1>5. BestSince(s) \in Scores
  BY <1>4, BestIsScore DEF BestSince
<1>6. QED
  BY <1>1, <1>3, <1>5

LEMMA NextValueType ==
  ASSUME NEW q \in AssessmentQuestion, NEW s \in Seq(Scores)
  PROVE  NextValue(q, s) \in Nat
<1> DEFINE a == AutoPoints(q)
           k == InARow(s) + 1
<1>1. a \in Nat /\ q.maxAuto \in Nat /\ k \in Nat
  BY AutoPointsType, InARowType
<1> HIDE DEF a, k
<1>2. a * k \in Nat
  BY <1>1
<1>3. MinOf(a * k, q.maxAuto) \in Nat
  BY <1>1, <1>2 DEF MinOf
<1>4. QED
  BY <1>1, <1>3 DEF NextValue, a, k

\* What one more score does to them.
LEMMA HistoryAppend ==
  ASSUME NEW q \in AssessmentQuestion, NEW s \in Seq(Scores), NEW score \in Scores
  PROVE  LET t == Append(s, score) IN
    /\ Len(t) = Len(s) + 1
    /\ CorrectAt(t) = IF Correct(score) THEN Len(s) + 1 ELSE CorrectAt(s)
    /\ InARow(t) = IF Correct(score) THEN InARow(s) + 1 ELSE 0
    /\ BestSince(t) = IF Correct(score) THEN 0 ELSE MaxOf(score, BestSince(s))
    /\ Values(q, s) \in Int
    /\ Values(q, t) = Values(q, s) + (IF Correct(score) THEN NextValue(q, s) ELSE 0)
<1> DEFINE t == Append(s, score)
           n == Len(s)
           f == [i \in 1..n |-> AnswerValue(q, s, i)]
           g == [i \in 1..(n + 1) |-> AnswerValue(q, t, i)]
<1>1. n \in Nat /\ t \in Seq(Scores) /\ Len(t) = n + 1 /\ t[n + 1] = score
      /\ \A k \in 1..n : t[k] = s[k]
  OBVIOUS
<1>2. /\ \A i \in 0..n : LastMissed(t, i) = LastMissed(s, i)
      /\ LastCorrect(t, n + 1) = IF Correct(score) THEN n + 1 ELSE LastCorrect(s, n)
      /\ LastMissed(t, n + 1) = IF Correct(score) THEN LastMissed(s, n) ELSE n + 1
      /\ LastCorrect(s, n) \in 0..n /\ LastMissed(s, n) \in 0..n
  BY LastAppend
<1>3. BestSince(t) = IF Correct(score) THEN 0 ELSE MaxOf(score, BestSince(s))
  <2>1. CASE Correct(score)
    <3>1. BestSince(t) = Best(t, (n + 1) + 1, n + 1)
      BY <1>1, <1>2, <2>1 DEF BestSince, CorrectAt
    <3>2. QED
      BY <1>1, <2>1, <3>1, BestOfNone
  <2>2. CASE ~Correct(score)
    <3>1. BestSince(t) = Best(t, LastCorrect(s, n) + 1, n + 1)
      BY <1>1, <1>2, <2>2 DEF BestSince, CorrectAt
    <3>2. LastCorrect(s, n) + 1 \in Nat \ {0} /\ LastCorrect(s, n) + 1 <= n + 1
      BY <1>1, <1>2
    <3>3. Best(t, LastCorrect(s, n) + 1, n + 1) = MaxOf(score, Best(s, LastCorrect(s, n) + 1, n))
      BY <3>2, BestAppend
    <3>4. QED
      BY <2>2, <3>1, <3>3 DEF BestSince, CorrectAt
  <2>3. QED
    BY <2>1, <2>2
<1>4. /\ CorrectAt(t) = IF Correct(score) THEN n + 1 ELSE CorrectAt(s)
      /\ InARow(t) = IF Correct(score) THEN InARow(s) + 1 ELSE 0
  <2> HIDE DEF t
  <2>1. QED
    BY <1>1, <1>2 DEF CorrectAt, InARow
<1>5. \A i \in 1..n : f[i] = g[i]
  <2> TAKE i \in 1..n
  <2>1. i \in 0..n /\ i \in 1..(n + 1)
    BY <1>1
  <2>2. t[i] = s[i] /\ LastMissed(t, i) = LastMissed(s, i)
    BY <1>1, <1>2, <2>1
  <2>3. AnswerValue(q, s, i) = AnswerValue(q, t, i)
    BY <2>2 DEF AnswerValue
  <2>4. QED
    BY <2>1, <2>3
<1>6. g[n + 1] = IF Correct(score) THEN NextValue(q, s) ELSE 0
  <2>1. n + 1 \in 1..(n + 1)
    BY <1>1
  <2>2. g[n + 1] = AnswerValue(q, t, n + 1)
    BY <2>1
  <2> HIDE DEF t, g
  <2>3. Correct(score) => (n + 1) - LastMissed(t, n + 1) = InARow(s) + 1
    BY <1>1, <1>2 DEF InARow
  <2>4. QED
    BY <1>1, <2>2, <2>3 DEF AnswerValue, NextValue
<1>7. \A i \in 1..(n + 1) : g[i] \in Int
  <2> TAKE i \in 1..(n + 1)
  <2>1. g[i] = AnswerValue(q, t, i)
    OBVIOUS
  <2>2. AutoPoints(q) \in Int /\ q.maxAuto \in Int
    BY AutoPointsType
  <2>3. i \in 1..n => LastMissed(t, i) \in Int
    <3>1. ASSUME i \in 1..n PROVE LastMissed(t, i) \in Int
      <4> DEFINE S == {k \in 1..i : ~Correct(t[k])}
      <4>1. S \subseteq 1..i /\ i \in Nat
        BY <3>1
      <4>2. Max(S \cup {0}) \in 0..i
        <5> HIDE DEF S
        <5>1. QED
          BY <4>1, LastPlace
      <4>3. LastMissed(t, i) = Max(S \cup {0})
        BY DEF LastMissed
      <4> HIDE DEF S, t
      <4>4. QED
        BY <4>1, <4>2, <4>3
    <3>2. QED
      BY <3>1
  <2>4. LastMissed(t, i) \in Int /\ i \in Int
    <3> HIDE DEF t
    <3>1. QED
      BY <1>1, <1>2, <2>3
  <2>5. AutoPoints(q) * (i - LastMissed(t, i)) \in Int
    BY <2>2, <2>4
  <2>6. AnswerValue(q, t, i) \in Int
    BY <2>2, <2>5 DEF AnswerValue, MinOf
  <2>7. QED
    BY <2>1, <2>6
<1>8. /\ SumFunctionOnSet(g, 1..(n + 1)) = SumFunctionOnSet(f, 1..n) + g[n + 1]
      /\ SumFunctionOnSet(f, 1..n) \in Int
  <2> HIDE DEF f, g
  <2>1. QED
    BY <1>1, <1>5, <1>7, SumAppend
<1>9. Values(q, s) = SumFunctionOnSet(f, 1..n) /\ Values(q, t) = SumFunctionOnSet(g, 1..(n + 1))
  <2> HIDE DEF t
  <2>1. QED
    BY <1>1 DEF Values
<1> HIDE DEF f, g
<1>10. QED
  BY <1>1, <1>3, <1>4, <1>6, <1>8, <1>9

\* The documented points have been counted exactly while the first value is within
\* the maximum or no answer was correct; afterwards the maximum is reached for good.
Exact(q, s) == AutoPoints(q) <= q.maxAuto \/ CorrectAt(s) = 0

HomeworkFollows(q, r, s) ==
  /\ PointsFit(q, r)
  /\ Values(q, s) >= 0
  /\ BestSince(s) < ScoreUnit
  /\ CorrectAt(s) = 0 => InARow(s) = 0
  /\ r.value = IF q.constantValue \/ InARow(s) = 0 THEN q.init * ScoreUnit
               ELSE ScoreUnit * NextValue(q, s)
  /\ IF Exact(q, s) THEN r.varSum = ScoreUnit * Values(q, s) + PartialCredit(q, s)
                    ELSE r.varSum >= ScoreUnit * q.maxAuto /\ Values(q, s) >= q.maxAuto
  /\ CorrectAt(s) < Len(s) => (Exact(q, s) => r.varLast = PartialCredit(q, s))
  /\ CorrectAt(s) = Len(s) =>
       /\ BestSince(s) = 0
       /\ Exact(q, s) => r.varLast = Null \/ r.varLast >= AutoPoints(q) * ScoreUnit

\* The columns of a graded homework question.
LEMMA HomeworkFields ==
  ASSUME NEW q \in AssessmentQuestion, q.type = "Homework", NEW r \in InstanceQuestion,
         NEW score \in Scores
  PROVE  LET p      == GradedQuestion(q, r, score)
             base   == IF Correct(score) THEN r.value ELSE q.init * ScoreUnit
             earned == score * ((base \div ScoreUnit) - q.maxManual)
             replay == r.varLast # Null /\ r.varLast < AutoPoints(q) * ScoreUnit
         IN  /\ p.varLast = IF replay THEN MaxOf(r.varLast, earned) ELSE earned
             /\ p.varSum = r.varSum + p.varLast - (IF replay THEN r.varLast ELSE 0)
             /\ p.value = IF Correct(score) /\ ~q.constantValue
                            THEN MinOf(r.value + q.init * ScoreUnit, q.maxPoints * ScoreUnit)
                            ELSE base
<1> DEFINE x == HomeworkPoints(q, r, score)
           p == GradedQuestion(q, r, score)
<1>1. x \in InstanceQuestion
  BY HomeworkTypes
<1>2. p = [x EXCEPT !.attempts = r.attempts + 1]
  BY DEF GradedQuestion
<1>3. p.varLast = x.varLast /\ p.varSum = x.varSum /\ p.value = x.value
  <2> HIDE DEF x, p
  <2>1. QED
    BY <1>1, <1>2 DEF InstanceQuestion
<1>4. QED
  BY <1>3 DEF HomeworkPoints, InstanceQuestion, AutoPoints

LEMMA Quotient ==
  ASSUME NEW u \in Nat \ {0}, NEW m \in Int
  PROVE  (m * u) \div u = m /\ (u * m) \div u = m
<1> DEFINE d == (m * u) \div u
           e == (m * u) % u
<1>1. d \in Int /\ e \in 0..(u - 1) /\ m * u = u * d + e /\ u * m = m * u /\ m * u \in Int
  OBVIOUS
<1> HIDE DEF d, e
<1>2. u * (m - d) = u * m - u * d
  BY <1>1
<1>3. u * (m - d) = e
  BY <1>1, <1>2
<1>4. m - d = 0
  <2>1. CASE m - d >= 1
    <3>1. u * 1 <= u * (m - d)
      BY <1>1, <2>1, ProductMonotone
    <3>2. QED
      BY <1>1, <1>3, <3>1
  <2>2. CASE m - d <= -1
    <3>1. u * (m - d) <= u * (-1)
      BY <1>1, <2>2, ProductMonotone
    <3>2. QED
      BY <1>1, <1>3, <3>1
  <2>3. QED
    BY <1>1, <2>1, <2>2
<1>5. QED
  BY <1>1, <1>4 DEF d

\* What an answer earns.
LEMMA HomeworkEarned ==
  ASSUME NEW q \in AssessmentQuestion, q.type = "Homework",
         q.maxManual = 0 \/ q.constantValue,
         NEW r \in InstanceQuestion, NEW s \in Seq(Scores), NEW score \in Scores,
         HomeworkFollows(q, r, s)
  PROVE  LET base   == IF Correct(score) THEN r.value ELSE q.init * ScoreUnit
             earned == score * ((base \div ScoreUnit) - q.maxManual)
         IN  /\ ~Correct(score) => earned = AutoPoints(q) * score
             /\ Correct(score) /\ InARow(s) = 0 => earned = AutoPoints(q) * ScoreUnit
             /\ Correct(score) /\ AutoPoints(q) <= q.maxAuto =>
                  earned = ScoreUnit * NextValue(q, s)
<1> DEFINE a == AutoPoints(q)
           w == NextValue(q, s)
           base == IF Correct(score) THEN r.value ELSE q.init * ScoreUnit
           share == (base \div ScoreUnit) - q.maxManual
<1>1. /\ a \in Nat /\ q.maxAuto \in Nat /\ q.maxManual \in Nat /\ q.init \in Nat
      /\ q.init = a + q.maxManual /\ ScoreUnit \in Nat \ {0} /\ w \in Nat
      /\ score \in Nat /\ score <= ScoreUnit /\ InARow(s) \in Nat
  BY AutoPointsType, NextValueType, InARowType, ScoreUnitAssumption DEF Scores
<1>2. Correct(score) => score = ScoreUnit
  BY <1>1 DEF Correct
<1>3. (q.init * ScoreUnit) \div ScoreUnit = q.init /\ (ScoreUnit * w) \div ScoreUnit = w
  BY <1>1, Quotient
<1>4. r.value = IF q.constantValue \/ InARow(s) = 0 THEN q.init * ScoreUnit ELSE ScoreUnit * w
  BY DEF HomeworkFollows
<1>5. ~Correct(score) \/ InARow(s) = 0 \/ q.constantValue => share = a
  <2>1. ~Correct(score) \/ InARow(s) = 0 \/ q.constantValue => base = q.init * ScoreUnit
    BY <1>4
  <2> HIDE DEF base
  <2>2. QED
    BY <1>1, <1>3, <2>1
<1>6. Correct(score) /\ InARow(s) # 0 /\ ~q.constantValue => share = w
  <2>1. Correct(score) /\ InARow(s) # 0 /\ ~q.constantValue => base = ScoreUnit * w
    BY <1>4
  <2> HIDE DEF base
  <2>2. QED
    BY <1>1, <1>3, <2>1, SMTT(30)
<1>7. Correct(score) /\ a <= q.maxAuto => share = w
  <2>1. q.constantValue => w = a
    BY DEF NextValue
  <2>2. ~q.constantValue /\ InARow(s) = 0 /\ a <= q.maxAuto => w = a
    <3>1. a * (0 + 1) = a
      BY <1>1
    <3>2. QED
      BY <1>1, <3>1 DEF NextValue, MinOf
  <2> HIDE DEF share, w
  <2>3. QED
    BY <1>1, <1>5, <1>6, <2>1, <2>2
<1> HIDE DEF share, a, w
<1>8. /\ ~Correct(score) => score * share = a * score
      /\ Correct(score) /\ InARow(s) = 0 => score * share = a * ScoreUnit
      /\ Correct(score) /\ a <= q.maxAuto => score * share = ScoreUnit * w
  BY <1>1, <1>2, <1>5, <1>7, SMTT(30)
<1>9. QED
  BY <1>8 DEF share, a, w

LEMMA ScaledMinimum ==
  ASSUME NEW u \in Nat, NEW x \in Nat, NEW y \in Nat
  PROVE  MinOf(u * x, u * y) = u * MinOf(x, y) /\ MinOf(u * x, y * u) = u * MinOf(x, y)
<1>1. u * x \in Nat /\ u * y \in Nat /\ y * u = u * y
  OBVIOUS
<1>2. CASE x <= y
  <2>1. u * x <= u * y
    BY <1>2, ProductMonotone
  <2>2. QED
    BY <1>1, <1>2, <2>1 DEF MinOf
<1>3. CASE y < x
  <2>1. u * y <= u * x
    BY <1>3, ProductMonotone
  <2>2. QED
    BY <1>1, <1>3, <2>1 DEF MinOf
<1>4. QED
  BY <1>2, <1>3

\* A further correct answer in a row raises the value by the first one.
LEMMA RaisedValue ==
  ASSUME NEW a \in Nat, NEW m \in Nat, NEW max \in Nat, NEW k \in Nat,
         m = IF k = 0 THEN a ELSE MinOf(a * (k + 1), max)
  PROVE  MinOf(m + a, max) = MinOf(a * ((k + 1) + 1), max)
<1> DEFINE x == a * (k + 1)
<1>1. x \in Nat /\ a * ((k + 1) + 1) = x + a /\ (k = 0 => x = a)
  BY SMT
<1> HIDE DEF x
<1>2. m = x \/ (m = max /\ max <= x)
  BY <1>1 DEF MinOf, x
<1>3. QED
  BY <1>1, <1>2 DEF MinOf

LEMMA HomeworkValue ==
  ASSUME NEW q \in AssessmentQuestion, q.type = "Homework",
         q.maxManual = 0 \/ q.constantValue,
         NEW r \in InstanceQuestion, NEW s \in Seq(Scores), NEW score \in Scores,
         HomeworkFollows(q, r, s)
  PROVE  LET p == GradedQuestion(q, r, score)
             t == Append(s, score)
         IN  p.value = IF q.constantValue \/ InARow(t) = 0 THEN q.init * ScoreUnit
                       ELSE ScoreUnit * NextValue(q, t)
<1> DEFINE a == AutoPoints(q)
           k == InARow(s)
           p == GradedQuestion(q, r, score)
           t == Append(s, score)
<1>1. /\ a \in Nat /\ q.maxAuto \in Nat /\ q.maxManual \in Nat /\ q.init \in Nat
      /\ q.init = a + q.maxManual /\ ScoreUnit \in Nat \ {0} /\ k \in Nat
      /\ q.maxPoints = q.maxManual + q.maxAuto
  BY AutoPointsType, InARowType
<1>2. InARow(t) = IF Correct(score) THEN k + 1 ELSE 0
  BY HistoryAppend
<1>3. p.value = IF Correct(score) /\ ~q.constantValue
                  THEN MinOf(r.value + q.init * ScoreUnit, q.maxPoints * ScoreUnit)
                  ELSE IF Correct(score) THEN r.value ELSE q.init * ScoreUnit
  BY HomeworkFields
<1>4. r.value = IF q.constantValue \/ k = 0 THEN q.init * ScoreUnit ELSE ScoreUnit * NextValue(q, s)
  BY DEF HomeworkFollows
<1> HIDE DEF a, k, p, t
<1>5. CASE ~Correct(score)
  BY <1>2, <1>3, <1>5 DEF p, t
<1>6. CASE Correct(score) /\ q.constantValue
  BY <1>3, <1>4, <1>6 DEF p, t
<1>7. CASE Correct(score) /\ ~q.constantValue
  <2> DEFINE m == IF k = 0 THEN a ELSE MinOf(a * (k + 1), q.maxAuto)
  <2>1. q.init = a /\ q.maxPoints = q.maxAuto
    BY <1>1, <1>7
  <2>2. r.value = ScoreUnit * m
    <3>1. NextValue(q, s) = MinOf(a * (k + 1), q.maxAuto)
      BY <1>7 DEF NextValue, a, k
    <3>2. a * ScoreUnit = ScoreUnit * a
      BY <1>1
    <3>3. QED
      BY <1>4, <1>7, <2>1, <3>1, <3>2
  <2>3. m \in Nat
    <3>1. a * (k + 1) \in Nat
      BY <1>1
    <3>2. QED
      BY <1>1, <3>1 DEF MinOf
  <2>4. MinOf(m + a, q.maxAuto) = MinOf(a * ((k + 1) + 1), q.maxAuto)
    <3>1. m = IF k = 0 THEN a ELSE MinOf(a * (k + 1), q.maxAuto)
      OBVIOUS
    <3> HIDE DEF m
    <3>2. a \in Nat /\ q.maxAuto \in Nat /\ k \in Nat
      BY <1>1
    <3>3. QED
      BY <2>3, <3>1, <3>2, RaisedValue
  <2>5. NextValue(q, t) = MinOf(a * ((k + 1) + 1), q.maxAuto) /\ InARow(t) # 0
    BY <1>1, <1>2, <1>7 DEF NextValue, a
  <2> HIDE DEF m
  <2>6. r.value + q.init * ScoreUnit = ScoreUnit * (m + a) /\ m + a \in Nat
    BY <1>1, <2>1, <2>2, <2>3
  <2>7. p.value = ScoreUnit * MinOf(m + a, q.maxAuto)
    <3>1. p.value = MinOf(ScoreUnit * (m + a), q.maxAuto * ScoreUnit)
      BY <1>3, <1>7, <2>1, <2>6
    <3> DEFINE x == m + a
               y == q.maxAuto
    <3>2. x \in Nat /\ y \in Nat /\ ScoreUnit \in Nat
      BY <1>1, <2>6
    <3> HIDE DEF x, y
    <3>3. MinOf(ScoreUnit * x, y * ScoreUnit) = ScoreUnit * MinOf(x, y)
      BY <3>2, ScaledMinimum
    <3>4. QED
      BY <3>1, <3>3 DEF x, y
  <2>8. p.value = ScoreUnit * NextValue(q, t)
    BY <2>4, <2>5, <2>7
  <2>9. QED
    BY <1>7, <2>5, <2>8 DEF p, t
<1>8. QED
  BY <1>5, <1>6, <1>7

LEMMA HomeworkSums ==
  ASSUME NEW q \in AssessmentQuestion, q.type = "Homework",
         q.maxManual = 0 \/ q.constantValue,
         NEW r \in InstanceQuestion, NEW s \in Seq(Scores), NEW score \in Scores,
         HomeworkFollows(q, r, s)
  PROVE  LET p == GradedQuestion(q, r, score)
             t == Append(s, score)
         IN  /\ Values(q, t) >= 0 /\ BestSince(t) < ScoreUnit
             /\ CorrectAt(t) = 0 => InARow(t) = 0
             /\ IF Exact(q, t) THEN p.varSum = ScoreUnit * Values(q, t) + PartialCredit(q, t)
                               ELSE p.varSum >= ScoreUnit * q.maxAuto /\ Values(q, t) >= q.maxAuto
             /\ CorrectAt(t) < Len(t) => (Exact(q, t) => p.varLast = PartialCredit(q, t))
             /\ CorrectAt(t) = Len(t) =>
                  /\ BestSince(t) = 0
                  /\ Exact(q, t) => p.varLast = Null \/ p.varLast >= AutoPoints(q) * ScoreUnit
<1> DEFINE a      == AutoPoints(q)
           w      == NextValue(q, s)
           V      == Values(q, s)
           n      == Len(s)
           at     == CorrectAt(s)
           best   == BestSince(s)
           part   == a * best
           whole  == a * ScoreUnit
           p      == GradedQuestion(q, r, score)
           t      == Append(s, score)
           base   == IF Correct(score) THEN r.value ELSE q.init * ScoreUnit
           earned == score * ((base \div ScoreUnit) - q.maxManual)
           replay == r.varLast # Null /\ r.varLast < AutoPoints(q) * ScoreUnit
<1>1. /\ a \in Nat /\ q.maxAuto \in Nat /\ ScoreUnit \in Nat \ {0} /\ w \in Nat
      /\ score \in Nat /\ score <= ScoreUnit /\ best \in Nat /\ at \in 0..n /\ n \in Nat
      /\ r.varLast \in Int /\ r.varSum \in Int /\ V \in Int
  BY AutoPointsType, NextValueType, InARowType, HistoryAppend, ScoreUnitAssumption
     DEF Scores, InstanceQuestion
<1>2. /\ Len(t) = n + 1
      /\ CorrectAt(t) = IF Correct(score) THEN n + 1 ELSE at
      /\ InARow(t) = IF Correct(score) THEN InARow(s) + 1 ELSE 0
      /\ BestSince(t) = IF Correct(score) THEN 0 ELSE MaxOf(score, best)
      /\ Values(q, t) = V + (IF Correct(score) THEN w ELSE 0)
  BY HistoryAppend
<1>3. /\ p.varLast = IF replay THEN MaxOf(r.varLast, earned) ELSE earned
      /\ p.varSum = r.varSum + p.varLast - (IF replay THEN r.varLast ELSE 0)
  BY HomeworkFields
<1>4. /\ ~Correct(score) => earned = a * score
      /\ Correct(score) /\ InARow(s) = 0 => earned = whole
      /\ Correct(score) /\ a <= q.maxAuto => earned = ScoreUnit * w
  BY HomeworkEarned
<1>5. /\ V >= 0 /\ best < ScoreUnit
      /\ at = 0 => InARow(s) = 0
      /\ IF Exact(q, s) THEN r.varSum = ScoreUnit * V + PartialCredit(q, s)
                        ELSE r.varSum >= ScoreUnit * q.maxAuto /\ V >= q.maxAuto
      /\ at < n => (Exact(q, s) => r.varLast = PartialCredit(q, s))
      /\ at = n => /\ best = 0
                   /\ Exact(q, s) => r.varLast = Null \/ r.varLast >= whole
  BY DEF HomeworkFollows
<1>6. PartialCredit(q, s) = part /\ PartialCredit(q, t) = a * BestSince(t)
  BY DEF PartialCredit, BestSince, CorrectAt
<1>7. /\ Exact(q, s) <=> a <= q.maxAuto \/ at = 0
      /\ Exact(q, t) <=> a <= q.maxAuto \/ CorrectAt(t) = 0
  BY DEF Exact
<1>8. replay <=> r.varLast # Null /\ r.varLast < whole
  OBVIOUS
<1>9. p.varSum >= r.varSum /\ p.varSum \in Int /\ p.varLast \in Int
  <2>1. PointsFit(q, r)
    BY DEF HomeworkFollows
  <2>2. HomeworkPoints(q, r, score).varSum >= r.varSum
    BY <2>1, HomeworkGains
  <2>3. HomeworkPoints(q, r, score) \in InstanceQuestion
    BY HomeworkTypes
  <2>4. p = [HomeworkPoints(q, r, score) EXCEPT !.attempts = r.attempts + 1]
    BY DEF GradedQuestion
  <2> DEFINE x == HomeworkPoints(q, r, score)
  <2> HIDE DEF x, p
  <2>5. x \in InstanceQuestion /\ x.varSum >= r.varSum /\ p = [x EXCEPT !.attempts = r.attempts + 1]
    BY <2>2, <2>3, <2>4 DEF x
  <2>6. QED
    BY <2>5 DEF InstanceQuestion
<1> HIDE DEF a, w, V, n, at, best, p, t, base, earned, replay
<1>10. part \in Nat /\ whole \in Nat /\ part <= whole /\ (a > 0 => part < whole) /\ (a = 0 => part = 0)
  <2>1. a * (best + 1) <= a * ScoreUnit
    BY <1>1, <1>5, ProductMonotone
  <2>2. a * (best + 1) = a * best + a /\ a * best \in Nat /\ a * ScoreUnit \in Nat
    BY <1>1
  <2>3. a = 0 => a * best = 0
    BY <1>1
  <2>4. QED
    BY <1>1, <2>1, <2>2, <2>3
<1>11. Correct(score) <=> score = ScoreUnit
  BY <1>1 DEF Correct
<1>12. Values(q, t) >= V /\ Values(q, t) \in Int /\ BestSince(t) < ScoreUnit
  BY <1>1, <1>2, <1>5, <1>11 DEF MaxOf
<1>13. Null = -1
  BY DEF Null
<1> DEFINE Sums  == IF Exact(q, t) THEN p.varSum = ScoreUnit * Values(q, t) + PartialCredit(q, t)
                                   ELSE p.varSum >= ScoreUnit * q.maxAuto /\ Values(q, t) >= q.maxAuto
           Lasts == /\ CorrectAt(t) < Len(t) => (Exact(q, t) => p.varLast = PartialCredit(q, t))
                    /\ CorrectAt(t) = Len(t) =>
                         /\ BestSince(t) = 0
                         /\ Exact(q, t) => p.varLast = Null \/ p.varLast >= whole
           Result == /\ Values(q, t) >= 0 /\ BestSince(t) < ScoreUnit
                     /\ CorrectAt(t) = 0 => InARow(t) = 0
                     /\ Sums /\ Lasts
<1>14. ASSUME ~Correct(score) PROVE Result
  <2> DEFINE b == MaxOf(score, best)
             next == a * b
  <2>1. b \in Nat /\ (b = score \/ b = best) /\ score <= b /\ best <= b
    BY <1>1 DEF MaxOf
  <2>2. CASE Exact(q, s)
    <3>1. Exact(q, t) /\ BestSince(t) = b /\ Values(q, t) = V /\ CorrectAt(t) = at /\ Len(t) = n + 1
      BY <1>1, <1>2, <1>7, <1>14, <2>2
    <3>2. a * score <= next /\ part <= next /\ next \in Nat /\ a * score \in Nat
      BY <1>1, <2>1, ProductMonotone, SMTT(30)
    <3>3. next = a * score \/ next = part
      BY <2>1
    <3>4. earned = a * score
      BY <1>4, <1>14
    <3>5. r.varSum = ScoreUnit * V + part
      BY <1>5, <1>6, <2>2
    <3>6. PartialCredit(q, t) = next
      BY <1>6, <3>1
    <3> DEFINE worth == ScoreUnit * V
               x == a * score
    <3>7. worth \in Int
      BY <1>1
    <3>12. a = 0 => x = 0 /\ next = 0
      BY <1>1, <2>1
    <3>13. at = n => part = 0 /\ next = x
      <4>1. ASSUME at = n PROVE part = 0 /\ next = x
        <5>1. best = 0
          BY <1>5, <4>1
        <5>2. b = score /\ a * 0 = 0
          BY <1>1, <5>1 DEF MaxOf
        <5>3. QED
          BY <5>1, <5>2
      <4>2. QED
        BY <4>1
    <3>14. /\ CorrectAt(t) # Len(t) /\ Values(q, t) >= 0 /\ InARow(t) = 0
           /\ ScoreUnit * Values(q, t) = worth
      BY <1>1, <1>2, <1>5, <1>14, <3>1
    <3> HIDE DEF part, whole, next, worth, b, x
    <3>15. ASSUME p.varLast = next, p.varSum = worth + next
           PROVE  Result
      BY <1>12, <3>1, <3>6, <3>14, <3>15
    <3>8. CASE at = n
      <4>1. ~replay
        BY <1>1, <1>5, <1>8, <1>10, <2>2, <3>8
      <4>2. p.varLast = x /\ p.varSum = r.varSum + x
        BY <1>1, <1>3, <3>2, <3>4, <4>1 DEF x
      <4>3. p.varLast = next /\ p.varSum = worth + next
        BY <3>5, <3>7, <3>8, <3>13, <4>2, <1>10 DEF worth
      <4>4. QED
        BY <3>15, <4>3
    <3>9. CASE at # n
      <4>1. r.varLast = part
        BY <1>1, <1>5, <1>6, <2>2, <3>9
      <4>2. p.varLast = next /\ p.varSum = r.varSum + next - part
        <5>1. CASE replay
          <6>1. p.varLast = MaxOf(part, x)
            BY <1>3, <3>4, <4>1, <5>1 DEF x
          <6>2. MaxOf(part, x) = next
            BY <1>10, <3>2, <3>3 DEF MaxOf, x
          <6>3. QED
            BY <1>3, <4>1, <5>1, <6>1, <6>2
        <5>2. CASE ~replay
          <6>1. a = 0
            BY <1>1, <1>8, <1>10, <1>13, <4>1, <5>2
          <6>2. p.varLast = 0 /\ next = 0 /\ part = 0
            BY <1>3, <1>10, <3>4, <3>12, <5>2, <6>1 DEF x
          <6>3. QED
            BY <1>1, <1>3, <5>2, <6>2
        <5>3. QED
          BY <5>1, <5>2
      <4>3. p.varSum = worth + next
        BY <1>10, <3>2, <3>5, <3>7, <4>2 DEF worth
      <4>4. QED
        BY <3>15, <4>2, <4>3
    <3>10. QED
      BY <3>8, <3>9
  <2>3. CASE ~Exact(q, s)
    <3>1. ~Exact(q, t) /\ Values(q, t) = V /\ CorrectAt(t) = at /\ Len(t) = n + 1
      BY <1>1, <1>2, <1>7, <1>14, <2>3
    <3>2. p.varSum >= ScoreUnit * q.maxAuto
      <4> DEFINE m == ScoreUnit * q.maxAuto
      <4>1. m \in Int /\ r.varSum >= m
        BY <1>1, <1>5, <2>3
      <4> HIDE DEF m
      <4>2. p.varSum >= m
        BY <1>1, <1>9, <4>1
      <4>3. QED
        BY <4>2 DEF m
    <3>3. CorrectAt(t) # Len(t)
      BY <1>1, <3>1
    <3>4. QED
      BY <1>5, <1>12, <1>14, <1>2, <2>3, <3>1, <3>2, <3>3
  <2>4. QED
    BY <2>2, <2>3
<1>15. ASSUME Correct(score) PROVE Result
  <2>1. CorrectAt(t) = n + 1 /\ Len(t) = n + 1 /\ BestSince(t) = 0 /\ Values(q, t) = V + w
    BY <1>2, <1>15
  <2>2. CorrectAt(t) # 0 /\ (Exact(q, t) <=> a <= q.maxAuto)
    BY <1>1, <1>7, <2>1
  <2>3. PartialCredit(q, t) = 0
    BY <1>1, <1>6, <2>1
  <2>4. CASE a <= q.maxAuto
    <3>1. Exact(q, s) /\ Exact(q, t) /\ earned = ScoreUnit * w
      BY <1>4, <1>7, <1>15, <2>2, <2>4
    <3>2. r.varSum = ScoreUnit * V + part
      BY <1>5, <1>6, <3>1
    <3>3. w >= a
      <4>1. a * (InARow(s) + 1) = a * InARow(s) + a /\ a * InARow(s) \in Nat
        <5>1. InARow(s) \in Nat
          BY InARowType
        <5>2. QED
          BY <1>1, <5>1
      <4>2. w = a \/ w = a * (InARow(s) + 1) \/ w = q.maxAuto
        BY DEF w, a, NextValue, MinOf
      <4>3. QED
        BY <1>1, <2>4, <4>1, <4>2
    <3> DEFINE x == ScoreUnit * w
               worth == ScoreUnit * V
    <3>4. whole <= x /\ x \in Int
      <4>1. ScoreUnit * a <= ScoreUnit * w
        BY <1>1, <3>3, ProductMonotone
      <4>2. QED
        BY <1>1, <4>1
    <3>5. ScoreUnit * Values(q, t) = worth + x /\ worth \in Int
      BY <1>1, <2>1
    <3> HIDE DEF x, worth, part, whole
    <3>6. p.varLast = x /\ p.varSum = worth + x
      <4>1. CASE at = n
        <5>1. ~replay /\ best = 0
          BY <1>1, <1>5, <1>8, <1>10, <3>1, <4>1
        <5>2. part = 0
          BY <1>1, <5>1 DEF part
        <5>3. QED
          BY <1>1, <1>3, <3>1, <3>2, <3>4, <3>5, <5>1, <5>2 DEF x, worth
      <4>2. CASE at # n
        <5>1. r.varLast = part
          BY <1>1, <1>5, <1>6, <3>1, <4>2
        <5>2. CASE replay
          <6>1. MaxOf(part, x) = x
            BY <1>10, <3>4 DEF MaxOf
          <6>2. p.varLast = x /\ p.varSum = r.varSum + x - part
            BY <1>3, <3>1, <5>1, <5>2, <6>1 DEF x
          <6>3. QED
            BY <1>10, <3>2, <3>4, <3>5, <6>2 DEF worth
        <5>3. CASE ~replay
          <6>1. part = 0
            BY <1>1, <1>8, <1>10, <1>13, <5>1, <5>3
          <6>2. p.varLast = x /\ p.varSum = r.varSum + x
            BY <1>1, <1>3, <3>1, <3>4, <5>3 DEF x
          <6>3. QED
            BY <3>2, <3>4, <3>5, <6>1, <6>2 DEF worth
        <5>4. QED
          BY <5>2, <5>3
      <4>3. QED
        BY <4>1, <4>2
    <3>7. p.varSum = ScoreUnit * Values(q, t) + PartialCredit(q, t) /\ p.varLast >= whole
      BY <1>10, <2>3, <3>4, <3>5, <3>6
    <3>8. CorrectAt(t) = Len(t) /\ ~(CorrectAt(t) < Len(t))
      BY <1>1, <2>1
    <3>9. Values(q, t) >= 0
      BY <1>1, <1>5, <2>1
    <3>10. QED
      BY <1>12, <2>1, <2>2, <3>1, <3>7, <3>8, <3>9
  <2>5. CASE ~(a <= q.maxAuto)
    <3>1. ~Exact(q, t)
      BY <2>2, <2>5
    <3>2. p.varSum >= ScoreUnit * q.maxAuto /\ V + w >= q.maxAuto
      <4> DEFINE m == ScoreUnit * q.maxAuto
                 worth == ScoreUnit * V
      <4>1. m \in Nat /\ worth \in Nat /\ m <= whole
        <5>1. ScoreUnit * q.maxAuto <= ScoreUnit * a
          BY <1>1, <2>5, ProductMonotone
        <5>2. QED
          BY <1>1, <1>5, <5>1
      <4>2. CASE at = 0
        <5>1. Exact(q, s) /\ InARow(s) = 0 /\ earned = whole
          BY <1>4, <1>5, <1>7, <1>15, <4>2
        <5>2. r.varSum = worth + part
          BY <1>5, <1>6, <5>1
        <5>3. V + w >= q.maxAuto
          <6>1. a * (0 + 1) = a
            BY <1>1
          <6>2. w = a \/ w = MinOf(a * (0 + 1), q.maxAuto)
            BY <5>1 DEF w, a, NextValue
          <6>3. w >= q.maxAuto
            BY <1>1, <2>5, <6>1, <6>2 DEF MinOf
          <6>4. QED
            BY <1>1, <1>5, <6>3
        <5> HIDE DEF part, whole, worth, m
        <5>4. p.varSum >= whole
          <6>1. CASE replay
            <7>1. r.varLast = part \/ at = n
              BY <1>1, <1>5, <1>6, <5>1
            <7>2. r.varLast = part
              BY <1>1, <1>5, <1>8, <1>10, <5>1, <6>1, <7>1
            <7>3. MaxOf(part, whole) = whole
              BY <1>10 DEF MaxOf
            <7>4. p.varSum = r.varSum + whole - part
              BY <1>3, <5>1, <6>1, <7>2, <7>3
            <7>5. QED
              BY <1>10, <4>1, <5>2, <7>4
          <6>2. CASE ~replay
            <7>1. p.varSum = r.varSum + whole - 0
              BY <1>3, <5>1, <6>2
            <7>2. QED
              BY <1>10, <4>1, <5>2, <7>1
          <6>3. QED
            BY <6>1, <6>2
        <5>5. p.varSum >= m
          BY <1>9, <1>10, <4>1, <5>4
        <5>6. QED
          BY <5>3, <5>5 DEF m
      <4>3. CASE at # 0
        <5>1. ~Exact(q, s)
          BY <1>7, <2>5, <4>3
        <5>2. r.varSum >= m /\ V >= q.maxAuto
          BY <1>5, <5>1
        <5>3. V + w >= q.maxAuto
          BY <1>1, <5>2
        <5> HIDE DEF m
        <5>4. p.varSum >= m
          BY <1>1, <1>9, <4>1, <5>2
        <5>5. QED
          BY <5>3, <5>4 DEF m
      <4>4. QED
        BY <4>2, <4>3
    <3>3. CorrectAt(t) = Len(t) /\ ~(CorrectAt(t) < Len(t)) /\ Values(q, t) >= 0
      BY <1>1, <1>5, <2>1
    <3>4. QED
      BY <1>12, <2>1, <2>2, <3>1, <3>2, <3>3
  <2>6. QED
    BY <2>4, <2>5
<1>16. Result
  BY <1>14, <1>15
<1>17. QED
  BY <1>16 DEF p, t, a

LEMMA HomeworkFollowsGraded ==
  ASSUME NEW q \in AssessmentQuestion, q.type = "Homework",
         q.maxManual = 0 \/ q.constantValue,
         NEW r, NEW s, NEW score \in Scores,
         r.open, AttemptsLeft(q, r), Follows(r, s), HomeworkFollows(q, r, s)
  PROVE  HomeworkFollows(q, GradedQuestion(q, r, score), Append(s, score))
<1>1. r \in InstanceQuestion /\ s \in Seq(Scores)
  BY DEF Follows
<1>2. PointsFit(q, r)
  BY DEF HomeworkFollows
<1>3. PointsFit(q, GradedQuestion(q, r, score))
  BY <1>1, <1>2, GradingGains
<1>4. QED
  BY <1>1, <1>3, HomeworkValue, HomeworkSums DEF HomeworkFollows

-----------------------------------------------------------------------------
(* The history of a question, for every assessment question. *)

HistoryInv ==
  /\ question \in Documented
  /\ Follows(row, scores) /\ AttemptsLeft(question, row)
  /\ question.type = "Exam" => ExamFollows(question, row, scores)
  /\ question.type = "Homework" => HomeworkFollows(question, row, scores)

LEMMA NothingScored ==
  /\ Len(<<>>) = 0 /\ <<>> \in Seq(Scores)
  /\ Best(<<>>, 1, 0) = 0 /\ CorrectAt(<<>>) = 0 /\ InARow(<<>>) = 0 /\ BestSince(<<>>) = 0
  /\ \A q : ExamTotal(q, <<>>) = 0 /\ Values(q, <<>>) = 0 /\ PartialCredit(q, <<>>) = AutoPoints(q) * 0
<1> DEFINE none == <<>>
<1>1. Len(none) = 0 /\ none \in Seq(Scores) /\ 0 \in Nat /\ 0 + 1 = 1 /\ 1..0 = {}
  OBVIOUS
<1> HIDE DEF none
<1>2. Best(none, 1, 0) = 0
  BY <1>1, BestOfNone
<1>3. LastCorrect(none, 0) = 0 /\ LastMissed(none, 0) = 0
  <2>1. Max({} \cup {0}) = 0
    BY LargestIs
  <2>2. {k \in 1..0 : Correct(none[k])} = {} /\ {k \in 1..0 : ~Correct(none[k])} = {}
    BY <1>1
  <2>3. QED
    BY <2>1, <2>2 DEF LastCorrect, LastMissed
<1>4. CorrectAt(none) = 0 /\ InARow(none) = 0 /\ BestSince(none) = 0
  BY <1>1, <1>2, <1>3 DEF CorrectAt, InARow, BestSince
<1>5. ASSUME NEW f PROVE SumFunctionOnSet(f, 1..0) = 0
  <2>1. IsFiniteSet(1..0) /\ \A x \in 1..0 : f[x] = 0
    BY <1>1, FS_EmptySet
  <2>2. QED
    BY <2>1, SumOfZeros
<1>6. \A q : ExamTotal(q, none) = 0 /\ Values(q, none) = 0
  BY <1>1, <1>5 DEF ExamTotal, Values
<1>7. \A q : PartialCredit(q, none) = AutoPoints(q) * 0
  BY <1>1, <1>2, <1>3 DEF PartialCredit
<1>8. QED
  BY <1>1, <1>2, <1>4, <1>6, <1>7 DEF none

LEMMA NewQuestionFollows ==
  ASSUME NEW q \in Documented
  PROVE  LET r == NewInstanceQuestion(q) IN
           /\ Follows(r, <<>>) /\ AttemptsLeft(q, r)
           /\ q.type = "Exam" => ExamFollows(q, r, <<>>)
           /\ q.type = "Homework" => HomeworkFollows(q, r, <<>>)
<1> DEFINE r == NewInstanceQuestion(q)
           none == <<>>
<1>1. q \in AssessmentQuestion
  BY DEF Documented
<1>2. r \in InstanceQuestion /\ AttemptsLeft(q, r)
  BY <1>1, NewQuestionTypes
<1>3. /\ r.attempts = 0 /\ r.highest = 0 /\ r.auto = 0 /\ r.varSum = 0 /\ r.varLast = Null
      /\ r.value = q.init * ScoreUnit
  BY DEF NewInstanceQuestion
<1>4. /\ q.list \in Seq(Nat) /\ q.init \in Nat /\ q.maxManual \in Nat /\ q.maxAuto \in Nat
      /\ q.maxManual <= q.init /\ ScoreUnit \in Nat \ {0} /\ AutoPoints(q) \in Nat
  BY <1>1, AutoPointsType DEF AssessmentQuestion
<1> HIDE DEF r
<1>5. /\ Len(none) = 0 /\ none \in Seq(Scores) /\ Best(none, 1, 0) = 0 /\ CorrectAt(none) = 0
      /\ InARow(none) = 0 /\ BestSince(none) = 0 /\ ExamTotal(q, none) = 0 /\ Values(q, none) = 0
      /\ PartialCredit(q, none) = 0
  <2>1. AutoPoints(q) * 0 = 0
    BY <1>4
  <2>2. QED
    BY <2>1, NothingScored
<1> HIDE DEF none
<1>6. Follows(r, none)
  BY <1>2, <1>3, <1>5 DEF Follows
<1>7. q.maxAuto * 0 = 0 /\ ScoreUnit * 0 = 0 /\ q.maxAuto * ScoreUnit \in Nat
  BY <1>4
<1>8. ExamFollows(q, r, none)
  <2>1. Len(q.list) \in Nat
    BY <1>4
  <2>2. QED
    BY <1>3, <1>5, <1>7, <2>1 DEF ExamFollows
<1>9. PointsFit(q, r)
  <2>1. ScoreUnit * q.maxManual <= ScoreUnit * q.init
    BY <1>4, ProductMonotone
  <2>2. q.maxManual * ScoreUnit <= q.init * ScoreUnit
    BY <1>4, <2>1
  <2>3. QED
    BY <1>3, <1>7, <2>2 DEF PointsFit, MinOf
<1>10. HomeworkFollows(q, r, none)
  BY <1>3, <1>4, <1>5, <1>7, <1>9 DEF HomeworkFollows, Exact
<1>11. QED
  BY <1>2, <1>6, <1>8, <1>10 DEF r, none

\* Every reachable row is that of its scores.
THEOREM HistoryInvariance == HistorySpec => []HistoryInv
<1>1. HistoryInit => HistoryInv
  BY NewQuestionFollows, ConfigsAssumption DEF HistoryInit, HistoryInv
<1>2. HistoryInv /\ [HistoryNext]_history => HistoryInv'
  <2> SUFFICES ASSUME HistoryInv, [HistoryNext]_history PROVE HistoryInv'
    OBVIOUS
  <2>1. CASE UNCHANGED history
    BY <2>1 DEF HistoryInv, history
  <2>2. ASSUME NEW score \in Scores, GradeNext(score)
        PROVE  HistoryInv'
    <3>1. /\ row.open /\ question' = question /\ scores' = Append(scores, score)
          /\ row' = GradedQuestion(question, row, score)
      BY <2>2 DEF GradeNext
    <3>2. /\ question \in AssessmentQuestion /\ question \in Documented
          /\ question.type = "Homework" => question.maxManual = 0 \/ question.constantValue
      BY DEF HistoryInv, Documented
    <3>3. Follows(row', scores') /\ AttemptsLeft(question, row')
      BY <3>1, <3>2, FollowsGraded DEF HistoryInv
    <3>4. question.type = "Exam" => ExamFollows(question, row', scores')
      BY <3>1, <3>2, ExamFollowsGraded DEF HistoryInv
    <3>5. question.type = "Homework" => HomeworkFollows(question, row', scores')
      BY <3>1, <3>2, HomeworkFollowsGraded DEF HistoryInv
    <3>6. QED
      BY <3>1, <3>2, <3>3, <3>4, <3>5 DEF HistoryInv
  <2>3. QED
    BY <2>1, <2>2 DEF HistoryNext
<1>3. QED
  BY <1>1, <1>2, PTL DEF HistorySpec

\* The points of an exam question are what its attempts improved on each other.
THEOREM ExamsEarnTheirList == HistorySpec => []ExamWorth
<1>1. HistoryInv => ExamWorth
  BY DEF HistoryInv, ExamFollows, ExamWorth
<1>2. QED
  BY <1>1, HistoryInvariance, PTL

\* The points list an open exam question shows promises exactly what a correct
\* answer adds.
THEOREM ListsPromiseTheGain == HistorySpec => []AdvertisedIsEarned
<1>1. HistoryInv => AdvertisedIsEarned
  BY AdvertisedGain
     DEF HistoryInv, Documented, AdvertisedIsEarned
<1>2. QED
  BY <1>1, HistoryInvariance, PTL

\* A homework question earns the documented points, however its value is raised,
\* capped and reset.
THEOREM HomeworkEarnsItsValues == HistorySpec => []HomeworkWorth
<1>1. ASSUME HistoryInv, question.type = "Homework"
      PROVE  row.auto = HomeworkTotal(question, scores)
  <2> DEFINE q == question
             max == ScoreUnit * q.maxAuto
             worth == ScoreUnit * Values(q, scores)
             part == PartialCredit(q, scores)
  <2>1. q \in AssessmentQuestion /\ HomeworkFollows(q, row, scores) /\ scores \in Seq(Scores)
    BY <1>1 DEF HistoryInv, Documented, Follows
  <2>2. row.auto = MinOf(row.varSum, q.maxAuto * ScoreUnit)
    BY <1>1, <2>1 DEF HomeworkFollows, PointsFit
  <2>3. HomeworkTotal(q, scores) = MinOf(worth + part, max)
    BY DEF HomeworkTotal, Values
  <2>4. q.maxAuto * ScoreUnit = max /\ max \in Nat /\ q.maxAuto \in Nat /\ ScoreUnit \in Nat
    BY <2>1, AutoPointsType
  <2>5. part \in Nat
    <3>1. AutoPoints(q) \in Nat /\ BestSince(scores) \in Nat
      BY <2>1, AutoPointsType, InARowType, ScoreUnitAssumption DEF Scores
    <3>2. PartialCredit(q, scores) = AutoPoints(q) * BestSince(scores)
      BY DEF PartialCredit, BestSince, CorrectAt
    <3>3. QED
      BY <3>1, <3>2
  <2>6. CASE Exact(q, scores)
    BY <2>1, <2>2, <2>3, <2>4, <2>6 DEF HomeworkFollows
  <2>7. CASE ~Exact(q, scores)
    <3>1. row.varSum >= max /\ Values(q, scores) >= q.maxAuto
      BY <2>1, <2>7 DEF HomeworkFollows
    <3>2. row.varSum \in Int /\ Values(q, scores) \in Int
      <4>1. row \in InstanceQuestion /\ 0 \in Scores
        BY <1>1, ScoreUnitAssumption DEF HistoryInv, Follows, Scores
      <4>2. QED
        BY <2>1, <4>1, HistoryAppend DEF InstanceQuestion
    <3>3. max <= worth /\ worth \in Int
      BY <2>4, <3>1, <3>2, ProductMonotone
    <3> HIDE DEF max, worth, part
    <3>4. MinOf(row.varSum, max) = max /\ MinOf(worth + part, max) = max
      BY <2>4, <2>5, <3>1, <3>2, <3>3 DEF MinOf
    <3>5. QED
      BY <2>2, <2>3, <2>4, <3>4
  <2>8. QED
    BY <2>6, <2>7
<1>2. HistoryInv => HomeworkWorth
  BY <1>1 DEF HomeworkWorth
<1>3. QED
  BY <1>2, HistoryInvariance, PTL
=============================================================================

------------------------------- MODULE Grading ------------------------------
(***************************************************************************)
(* Saving, grading and finishing one assessment instance.                  *)
(*                                                                         *)
(* The rows are those of variants, submissions, grading_jobs,              *)
(* instance_questions and assessment_instances.  Every transaction of the  *)
(* grading code first locks the assessment instance, so a transaction is   *)
(* one step; everything the code does between two transactions may         *)
(* interleave with the other requests, with the results of the external    *)
(* graders and with the autoFinishExams cron job.  A worker is one request *)
(* being handled (or the cron job), and its record holds what the handler  *)
(* keeps in local variables across its awaits.                             *)
(***************************************************************************)
EXTENDS QuestionPoints, FiniteSetsExt, Functions

CONSTANTS
  Questions,        \* instance question ids, in the order of the assessment
  AQ,               \* the assessment_questions row of each
  Zones,            \* the zones rows, each with its questions
  MaxPoints,        \* assessment_instances.max_points
  MaxBonusPoints,   \* assessment_instances.max_bonus_points
  Credits,          \* credit percentages a submission may be saved with
  RawResults,       \* results an external grader may send
  AutoClose,        \* assessment_instances.auto_close
  RateLimited,      \* is grade_rate_minutes set?
  Workers,          \* request handlers
  Cron,             \* the autoFinishExams job
  MaxVariants, MaxSubmissions, MaxJobs, MaxCrashes   \* bounds

ASSUME GradingAssumption ==
  /\ Questions \subseteq Nat
  /\ IsFiniteSet(Questions)
  /\ AQ \in [Questions -> AssessmentQuestion]
  /\ Zones \subseteq [questions: SUBSET Questions, best: Nat \cup {Null}, max: Nat \cup {Null}]
  /\ IsFiniteSet(Zones)
  /\ MaxPoints \in Nat /\ MaxBonusPoints \in Nat
  /\ Credits \subseteq Nat
  /\ AutoClose \in BOOLEAN /\ RateLimited \in BOOLEAN
  /\ Cron \notin Workers
  /\ MaxVariants \in Nat /\ MaxSubmissions \in Nat /\ MaxJobs \in Nat
  /\ MaxCrashes \in Nat

Processes == Workers \cup {Cron}

\* Identifiers increase with the date of the row.
Variants    == 1..MaxVariants
Submissions == 1..MaxSubmissions
Jobs        == 1..MaxJobs

VARIABLES
  ai,          \* the assessment_instances row,
  grade,       \* with its points and score_perc columns
  iq,          \* the instance_questions rows
  variant,     \* the variants rows
  sub,         \* the submissions rows
  job,         \* the grading_jobs rows
  issues,      \* "Submission when instance question is closed" issues
  worker,      \* local state of each handler
  atGrader,    \* jobs sent to the external graders
  results,     \* messages in the results queue
  crashes      \* crashes so far

rows == <<ai, grade, iq, variant, sub, job, issues>>
vars == <<ai, grade, iq, variant, sub, job, issues, worker, atGrader, results, crashes>>

-----------------------------------------------------------------------------
(* Rows.  A row that is not there yet has Null where its parent's id goes. *)

AssessmentInstance == [open: BOOLEAN, needed: BOOLEAN, age: 0..2]

Variant    == [question: Questions \cup {Null}, open: BOOLEAN, tries: Nat]
Submission == [variant: Variants \cup {Null}, credit: Credits \cup {Null},
               gradable: BOOLEAN, requested: BOOLEAN, score: Scores \cup {Null}]
Job        == [sub: Submissions \cup {Null}, graded: BOOLEAN, canceled: BOOLEAN,
               gradable: BOOLEAN, score: Scores \cup {Null},
               rate: {"past", "limited", "override"}]

NoVariant    == [question |-> Null, open |-> FALSE, tries |-> 0]
NoSubmission == [variant |-> Null, credit |-> Null, gradable |-> FALSE,
                 requested |-> FALSE, score |-> Null]
NoJob        == [sub |-> Null, graded |-> FALSE, canceled |-> FALSE,
                 gradable |-> FALSE, score |-> Null, rate |-> "past"]

MadeVariants == {v \in Variants : variant[v].question # Null}
Saved        == {s \in Submissions : sub[s].variant # Null}
Inserted     == {j \in Jobs : job[j].sub # Null}

QuestionOf(s) == variant[sub[s].variant].question

\* ORDER BY date DESC, id DESC LIMIT 1
IsLast(x, S) == x \in S /\ \A y \in S : y <= x
\* The identifier the next inserted row gets.
IsNextId(x, made, all) == x \in all \ made /\ \A y \in all \ made : x <= y

VariantsOf(q)    == {v \in MadeVariants : variant[v].question = q}
SubmissionsOf(v) == {s \in Saved : sub[s].variant = v}

\* Jobs that were requested and neither graded nor canceled.
Outstanding == {j \in Inserted : ~job[j].graded /\ ~job[j].canceled}

WorkerStates == {"idle", "select", "rate", "insert", "grade", "begin",
                 "close", "variants", "unset"}

Worker == [pc: WorkerStates, v: Variants \cup {Null}, check: Submissions \cup {Null},
           sub: Submissions \cup {Null}, job: Jobs \cup {Null},
           todo: SUBSET Variants, exam: BOOLEAN, override: BOOLEAN]

IdleWorker == [pc |-> "idle", v |-> Null, check |-> Null, sub |-> Null, job |-> Null,
               todo |-> {}, exam |-> FALSE, override |-> FALSE]

Init ==
  /\ ai = [open |-> TRUE, needed |-> FALSE, age |-> 0]
  /\ grade = [points |-> 0, score |-> 0]
  /\ iq = [q \in Questions |-> NewInstanceQuestion(AQ[q])]
  /\ variant = [v \in Variants |-> NoVariant]
  /\ sub = [s \in Submissions |-> NoSubmission]
  /\ job = [j \in Jobs |-> NoJob]
  /\ issues = 0
  /\ worker = [w \in Processes |-> IdleWorker]
  /\ atGrader = {}
  /\ results = {}
  /\ crashes = 0

-----------------------------------------------------------------------------
(* The sprocs the transactions are made of.                                *)

(***************************************************************************)
(* assessment_instances_points: a zone counts its best_questions best      *)
(* questions, up to its max_points; Null is no limit.  Nobody grades       *)
(* manually here, so the points of a question are its auto points.         *)
(***************************************************************************)
ZonePoints(z, points) ==
  LET counted == {S \in SUBSET z.questions : z.best = Null \/ Cardinality(S) <= z.best}
      best    == Max({SumFunctionOnSet(points, S) : S \in counted})
  IN  IF z.max = Null THEN best ELSE MinOf(best, z.max * ScoreUnit)

TotalPoints(points) == SumFunctionOnSet([z \in Zones |-> ZonePoints(z, points)], Zones)

AwardedPoints(qs) ==
  MinOf(TotalPoints([q \in Questions |-> qs[q].auto]), (MaxPoints + MaxBonusPoints) * ScoreUnit)

\* score_perc before it is kept from decreasing
CreditedScore(points, credit) ==
  LET perc == (points * 100) \div (ScoreUnit * (IF MaxPoints > 0 THEN MaxPoints ELSE 1))
  IN  IF credit < 100 THEN MinOf(perc, credit)
      ELSE IF credit > 100 /\ points >= MaxPoints * ScoreUnit THEN (credit * perc) \div 100
      ELSE perc

\* Mutant: the credit of the last submission alone decides, score_perc may drop.
ScoreMayDrop(qs, credit) ==
  /\ ai' = [ai EXCEPT !.age = 0]
  /\ grade' = [points |-> AwardedPoints(qs), score |-> CreditedScore(AwardedPoints(qs), credit)]

\* assessment_instances_grade, once the questions are qs
AssessmentInstanceGrade(qs, credit) ==
  /\ ai' = [ai EXCEPT !.age = 0]
  /\ grade' = [points |-> AwardedPoints(qs),
               score |-> MaxOf(CreditedScore(AwardedPoints(qs), credit), grade.score)]

\* variants_update_after_grading
VariantUpdateAfterGrading(v, correct) ==
  LET aq    == AQ[variant[v].question]
      tries == variant[v].tries + 1
  IN  [variant EXCEPT
        ![v].tries = tries,
        ![v].open = @ /\ ~(/\ aq.type = "Homework"
                           /\ ~aq.singleVariant
                           /\ tries >= aq.triesPerVariant \/ correct)]

\* Mutant: no look at the other submissions.
AnyOrder(s) == FALSE

NewerRequested(s) ==
  \E t \in Saved : t > s /\ QuestionOf(t) = QuestionOf(s) /\ sub[t].requested

(***************************************************************************)
(* grading_jobs_update_after_grading: one transaction, for the internal    *)
(* graders and for the results of the external ones.                       *)
(***************************************************************************)
\* Mutant: a job that was graded already takes another result.
CanceledOnly(j) == job[j].canceled \/ NewerRequested(job[j].sub)

ResultUnneeded(j) == job[j].canceled \/ job[j].graded \/ NewerRequested(job[j].sub)

StoreResult(j, gradable, score) ==
  LET kept == IF gradable THEN score ELSE Null
  IN  /\ sub' = [sub EXCEPT ![job[j].sub].gradable = gradable, ![job[j].sub].score = kept]
      /\ job' = [job EXCEPT ![j].graded = TRUE, ![j].gradable = gradable, ![j].score = kept]

\* Mutant: the assessment instance is graded before its question.
GradeParentFirst(q, score, credit) ==
  /\ AssessmentInstanceGrade(iq, credit)
  /\ iq' = IF iq[q].open THEN [iq EXCEPT ![q] = GradedQuestion(AQ[q], @, score)] ELSE iq
  /\ issues' = IF iq[q].open THEN issues ELSE issues + 1

\* instance_questions_grade and assessment_instances_grade
GradeQuestion(q, score, credit) ==
  IF iq[q].open
    THEN LET qs == [iq EXCEPT ![q] = GradedQuestion(AQ[q], @, score)]
         IN  /\ iq' = qs
             /\ AssessmentInstanceGrade(qs, credit)
             /\ UNCHANGED issues
    ELSE /\ issues' = issues + 1
         /\ AssessmentInstanceGrade(iq, credit)
         /\ UNCHANGED iq

UpdateAfterGrading(j, gradable, score) ==
  LET s == job[j].sub
      q == QuestionOf(s)
  IN  \/ ResultUnneeded(j) /\ UNCHANGED rows
      \/ /\ ~ResultUnneeded(j)
         /\ StoreResult(j, gradable, score)
         /\ \/ /\ ~gradable
               /\ iq' = [iq EXCEPT ![q].status = "invalid"]
               /\ UNCHANGED <<ai, grade, variant, issues>>
            \/ /\ gradable
               /\ variant' = VariantUpdateAfterGrading(sub[s].variant, Correct(score))
               /\ GradeQuestion(q, score, sub[s].credit)

\* The insert_submission transaction of insertSubmission.
InsertSubmission(s, v, gradable, credit) ==
  LET q == variant[v].question
  IN  /\ IsNextId(s, Saved, Submissions)
      /\ v \in MadeVariants /\ variant[v].open /\ iq[q].open /\ ai.open
      /\ sub' = [sub EXCEPT ![s] = [variant |-> v, credit |-> credit, gradable |-> gradable,
                                    requested |-> FALSE, score |-> Null]]
      /\ iq' = [iq EXCEPT ![q].status = IF gradable THEN "saved" ELSE "invalid"]
      /\ ai' = [ai EXCEPT !.age = 0]
      /\ UNCHANGED <<grade, variant, job, issues>>

-----------------------------------------------------------------------------
(* A student opens a question, and saves.                                  *)

CreateVariant(q) == \E v \in Variants :
  /\ IsNextId(v, MadeVariants, Variants)
  /\ ~\E u \in VariantsOf(q) : variant[u].open
  /\ iq[q].open /\ ai.open
  /\ variant' = [variant EXCEPT ![v] = [question |-> q, open |-> TRUE, tries |-> 0]]
  /\ UNCHANGED <<ai, grade, iq, sub, job, issues, worker, atGrader, results, crashes>>

SaveSubmission(v, gradable, credit) == \E s \in Submissions :
  /\ InsertSubmission(s, v, gradable, credit)
  /\ UNCHANGED <<worker, atGrader, results, crashes>>

\* saveAndGradeSubmission: the submission it saves must be the one it grades.
SaveAndGrade(w, v, gradable, credit) == \E s \in Submissions :
  /\ worker[w].pc = "idle"
  /\ InsertSubmission(s, v, gradable, credit)
  /\ worker' = [worker EXCEPT ![w] = [IdleWorker EXCEPT !.pc = "select", !.v = v, !.check = s]]
  /\ UNCHANGED <<atGrader, results, crashes>>

-----------------------------------------------------------------------------
(* gradeVariant, one action per transaction or query.                      *)

\* What is left of eachSeries(variants) in gradeAssessmentInstance.
NextVariant(me) ==
  IF me.todo = {} THEN [me EXCEPT !.pc = "unset", !.v = Null, !.sub = Null, !.job = Null]
  ELSE LET v == CHOOSE u \in me.todo :
                  \A x \in me.todo : variant[u].question <= variant[x].question
       IN  [me EXCEPT !.pc = "select", !.v = v, !.sub = Null, !.job = Null,
                      !.todo = me.todo \ {v}]

\* gradeVariant returns to its caller.
Return(w) == worker' = [worker EXCEPT ![w] = IF @.exam THEN NextVariant(@) ELSE IdleWorker]

ManualOnly(q) == AQ[q].maxAuto = 0 /\ AQ[q].maxManual # 0

NeedsGrading(s) == sub[s].score = Null /\ ~sub[s].requested /\ sub[s].gradable

\* selectSubmissionForGrading
Select(w) ==
  LET me == worker[w]
  IN  /\ me.pc = "select"
      /\ \/ /\ SubmissionsOf(me.v) = {} \/ ManualOnly(variant[me.v].question)
            /\ Return(w)
         \/ /\ ~ManualOnly(variant[me.v].question)
            /\ \E s \in Submissions :
                 /\ IsLast(s, SubmissionsOf(me.v))
                 /\ \/ /\ me.check \notin {Null, s}      \* Submission ID mismatch
                       /\ worker' = [worker EXCEPT ![w] = IdleWorker]
                    \/ /\ me.check \in {Null, s}
                       /\ ~NeedsGrading(s)
                       /\ Return(w)
                    \/ /\ me.check \in {Null, s}
                       /\ NeedsGrading(s)
                       /\ worker' = [worker EXCEPT
                                      ![w].sub = s,
                                      ![w].pc = IF me.override THEN "insert" ELSE "rate"]
      /\ UNCHANGED <<rows, atGrader, results, crashes>>

\* instance_questions_next_allowed_grade: only jobs that were graded count.
GradeRateBlocks(q) ==
  /\ RateLimited
  /\ \E j \in Inserted : job[j].gradable /\ job[j].rate # "past" /\ QuestionOf(job[j].sub) = q

CheckRate(w) ==
  /\ worker[w].pc = "rate"
  /\ \/ GradeRateBlocks(variant[worker[w].v].question) /\ Return(w)
     \/ /\ ~GradeRateBlocks(variant[worker[w].v].question)
        /\ worker' = [worker EXCEPT ![w].pc = "insert"]
  /\ UNCHANGED <<rows, atGrader, results, crashes>>

(***************************************************************************)
(* grading_jobs_insert.  Jobs outstanding for the variant are canceled,    *)
(* whichever of its submissions they are for.                              *)
(***************************************************************************)
\* Mutant: only the jobs of the variant's last submission are canceled.
CancelLast(v) == {j \in Outstanding : IsLast(job[j].sub, SubmissionsOf(v))}

CanceledBy(v) == {j \in Outstanding : sub[job[j].sub].variant = v}

\* Mutant: canceling a job leaves its submission marked as requested.
MarkStays(s, dead) == sub[s].requested

StillRequested(s, dead) == sub[s].requested /\ ~\E i \in dead : job[i].sub = s

InsertJob(w) == \E j \in Jobs :
  LET me   == worker[w]
      dead == CanceledBy(me.v)
      new  == [sub |-> me.sub, graded |-> FALSE, canceled |-> FALSE, gradable |-> FALSE,
               score |-> Null, rate |-> IF ~RateLimited THEN "past"
                                         ELSE IF me.override THEN "override" ELSE "limited"]
  IN  /\ me.pc = "insert"
      /\ IsNextId(j, Inserted, Jobs)
      /\ job' = [i \in Jobs |-> IF i = j THEN new
                                ELSE IF i \in dead THEN [job[i] EXCEPT !.canceled = TRUE]
                                ELSE job[i]]
      /\ sub' = [s \in Submissions |->
                   [sub[s] EXCEPT !.requested = s = me.sub \/ StillRequested(s, dead)]]
      /\ AssessmentInstanceGrade(iq, sub[me.sub].credit)
      /\ worker' = [worker EXCEPT
                     ![w].job = j,
                     ![w].pc = IF AQ[variant[me.v].question].method = "External"
                                 THEN "begin" ELSE "grade"]
      /\ UNCHANGED <<iq, variant, issues, atGrader, results, crashes>>

\* The question's own grading code has run; its result is stored.
GradeInternal(w) == \E gradable \in BOOLEAN, score \in Scores :
  /\ worker[w].pc = "grade"
  /\ UpdateAfterGrading(worker[w].job, gradable, score)
  /\ Return(w)
  /\ UNCHANGED <<atGrader, results, crashes>>

-----------------------------------------------------------------------------
(* External grading: requests and results travel through queues.           *)

\* What beginGradingJob hands to processGradingResult by itself.
NotGraded == [jobSucceeded |-> FALSE, succeeded |-> FALSE, gradable |-> FALSE,
              number |-> TRUE, score |-> 0]

(***************************************************************************)
(* beginGradingJob.  External grading may be off, or the upload may fail   *)
(* (even though the request arrived); processGradingResult is then called  *)
(* with a result that is not gradable, and nobody waits for it.            *)
(***************************************************************************)
BeginExternal(w) ==
  LET j == worker[w].job
  IN  /\ worker[w].pc = "begin"
      /\ \/ atGrader' = atGrader \cup {j} /\ UNCHANGED results
         \/ /\ atGrader' \in {atGrader, atGrader \cup {j}}
            /\ results' = results \cup {[job |-> j, raw |-> NotGraded]}
      /\ Return(w)
      /\ UNCHANGED <<rows, crashes>>

\* A grader host runs the job and sends a result; it may do so again.
GradeExternally(j) == \E raw \in RawResults :
  /\ j \in atGrader
  /\ results' = results \cup {[job |-> j, raw |-> raw]}
  /\ atGrader' \in {atGrader, atGrader \ {j}}
  /\ UNCHANGED <<rows, worker, crashes>>

(***************************************************************************)
(* processGradingResult: what is stored of a raw result.  number says      *)
(* whether grading.score is a finite number; its value then may lie        *)
(* outside of 0 .. ScoreUnit.                                              *)
(***************************************************************************)
ResultScore(raw)   == IF raw.succeeded THEN raw.score ELSE 0
ResultNumber(raw)  == raw.number \/ ~raw.succeeded

ResultGradable(raw) ==
  /\ raw.jobSucceeded /\ raw.gradable
  /\ ResultNumber(raw) /\ ResultScore(raw) \in Scores

\* A message is deleted only after it was processed, so it may come back.
ProcessResult(m) ==
  /\ m \in results
  /\ UpdateAfterGrading(m.job, ResultGradable(m.raw),
                        IF ResultGradable(m.raw) THEN ResultScore(m.raw) ELSE 0)
  /\ results' = results \ {m} \/ (results' = results /\ m.raw # NotGraded)
  /\ UNCHANGED <<worker, atGrader, crashes>>

-----------------------------------------------------------------------------
(* gradeAssessmentInstance: grade all, finish, and the cron job.           *)

ExamWorker(pc, override) ==
  [IdleWorker EXCEPT !.pc = pc, !.exam = TRUE, !.override = override]

Close == ai' = [ai EXCEPT !.open = FALSE, !.needed = TRUE, !.age = 0]

\* requireOpen without close: "Grade saved answers", with or without rate limits
StartGrading(w, override) ==
  /\ worker[w].pc = "idle" /\ ai.open
  /\ worker' = [worker EXCEPT ![w] = ExamWorker("variants", override)]
  /\ UNCHANGED <<rows, atGrader, results, crashes>>

\* close: grade rates are overridden
Finish(w) ==
  /\ worker[w].pc = "idle" /\ ai.open
  /\ Close
  /\ worker' = [worker EXCEPT ![w] = ExamWorker("variants", TRUE)]
  /\ UNCHANGED <<grade, iq, variant, sub, job, issues, atGrader, results, crashes>>

IsExam == \A q \in Questions : AQ[q].type = "Exam"

\* Mutant: the query only finds open exams.
OpenToAutoFinish ==
  /\ IsExam /\ ai.open /\ AutoClose /\ ai.age = 1

\* autoFinishExams: the query, whose open column is acted on later
ToAutoFinish ==
  /\ IsExam /\ ai.age < 2
  /\ (ai.open /\ AutoClose /\ ai.age >= 1) \/ (~ai.open /\ ai.needed)

CronPick ==
  /\ worker[Cron].pc = "idle" /\ ToAutoFinish
  /\ worker' = [worker EXCEPT ![Cron] = ExamWorker(IF ai.open THEN "close" ELSE "variants", TRUE)]
  /\ UNCHANGED <<rows, atGrader, results, crashes>>

CronClose ==
  /\ worker[Cron].pc = "close"
  /\ \/ /\ ai.open
        /\ Close
        /\ worker' = [worker EXCEPT ![Cron].pc = "variants"]
     \/ /\ ~ai.open                     \* 403, logged
        /\ worker' = [worker EXCEPT ![Cron] = IdleWorker]
        /\ UNCHANGED ai
  /\ UNCHANGED <<grade, iq, variant, sub, job, issues, atGrader, results, crashes>>

\* The newest variant of each question.
LatestVariants == {v \in MadeVariants : IsLast(v, VariantsOf(variant[v].question))}

SelectVariants(w) ==
  /\ worker[w].pc = "variants"
  /\ worker' = [worker EXCEPT ![w] = NextVariant([@ EXCEPT !.todo = LatestVariants])]
  /\ UNCHANGED <<rows, atGrader, results, crashes>>

UnsetGradingNeeded(w) ==
  /\ worker[w].pc = "unset"
  /\ ai' = [ai EXCEPT !.needed = FALSE]
  /\ worker' = [worker EXCEPT ![w] = IdleWorker]
  /\ UNCHANGED <<grade, iq, variant, sub, job, issues, atGrader, results, crashes>>

-----------------------------------------------------------------------------
(* The environment.                                                        *)

\* The process handling a request dies between two transactions.
Crash(w) ==
  /\ worker[w].pc # "idle" /\ crashes < MaxCrashes
  /\ worker' = [worker EXCEPT ![w] = IdleWorker]
  /\ crashes' = crashes + 1
  /\ UNCHANGED <<rows, atGrader, results>>

(***************************************************************************)
(* autoFinishAgeMins pass since modified_at.  The cron job is scheduled    *)
(* much more often than that, so it has seen a row that needs it before    *)
(* the row leaves the window of its query.  Of homework nobody asks the    *)
(* age.                                                                    *)
(***************************************************************************)
Age ==
  /\ IsExam /\ ai.age < 2 /\ ~ToAutoFinish /\ worker[Cron].pc = "idle"
  /\ ai' = [ai EXCEPT !.age = @ + 1]
  /\ UNCHANGED <<grade, iq, variant, sub, job, issues, worker, atGrader, results, crashes>>

\* grade_rate_minutes pass.
GradeRatePasses ==
  /\ \E j \in Jobs : job[j].rate # "past"
  /\ job' = [j \in Jobs |-> [job[j] EXCEPT !.rate = "past"]]
  /\ UNCHANGED <<ai, grade, iq, variant, sub, issues, worker, atGrader, results, crashes>>

-----------------------------------------------------------------------------
Proceed(w) ==
  \/ Select(w) \/ CheckRate(w) \/ InsertJob(w) \/ GradeInternal(w) \/ BeginExternal(w)
  \/ SelectVariants(w) \/ UnsetGradingNeeded(w)

Next ==
  \/ \E q \in Questions : CreateVariant(q)
  \/ \E v \in Variants, gradable \in BOOLEAN, credit \in Credits :
       \/ SaveSubmission(v, gradable, credit)
       \/ \E w \in Workers : SaveAndGrade(w, v, gradable, credit)
  \/ \E w \in Workers : Finish(w) \/ \E override \in BOOLEAN : StartGrading(w, override)
  \/ \E w \in Processes : Proceed(w) \/ Crash(w)
  \/ CronPick \/ CronClose
  \/ \E j \in Jobs : GradeExternally(j)
  \/ \E m \in results : ProcessResult(m)
  \/ Age \/ GradeRatePasses

Spec == Init /\ [][Next]_vars

(***************************************************************************)
(* Liveness.  The server keeps running the handlers it has started, the    *)
(* cron job is scheduled forever, time passes, and SQS delivers what the   *)
(* graders send; nobody has to open, save, grade or finish anything.       *)
(***************************************************************************)
Fairness ==
  /\ \A w \in Processes : WF_vars(Proceed(w))
  /\ WF_vars(CronPick) /\ WF_vars(CronClose) /\ WF_vars(Age)
  /\ \A j \in Jobs : SF_vars(GradeExternally(j) /\ atGrader' # atGrader)
  /\ \A j \in Jobs, raw \in RawResults :
       SF_vars(ProcessResult([job |-> j, raw |-> raw]) /\ results' # results)

FairSpec == Spec /\ Fairness

-----------------------------------------------------------------------------
(* Properties.                                                             *)

\* Every row, queue and handler only holds values of its declared type.  (What
\* grade holds is said by PointsUpToDate and PointsNeverDecrease.)
TypeOK ==
  /\ ai \in AssessmentInstance /\ DOMAIN grade = {"points", "score"}
  /\ iq \in [Questions -> InstanceQuestion]
  /\ variant \in [Variants -> Variant]
  /\ sub \in [Submissions -> Submission]
  /\ job \in [Jobs -> Job]
  /\ issues \in Nat
  /\ worker \in [Processes -> Worker]
  /\ atGrader \subseteq Jobs
  /\ results \subseteq [job: Jobs, raw: RawResults \cup {NotGraded}]
  /\ crashes \in 0..MaxCrashes

\* However requests interleave, at most one grading job of a variant is waiting
\* for a result: grading_jobs_insert cancels the others.
OneOutstandingJob == \A i, j \in Outstanding :
  sub[job[i].sub].variant = sub[job[j].sub].variant => i = j

\* grading_requested_at and the jobs agree: a submission with a waiting job is
\* marked as requested, and a marked one has a job that was not canceled. A
\* mark without a job would keep the submission from ever being graded.
RequestsBacked ==
  /\ \A j \in Outstanding : sub[job[j].sub].requested
  /\ \A s \in Saved : sub[s].requested =>
       \E j \in Inserted : job[j].sub = s /\ ~job[j].canceled

\* num_tries of a variant counts exactly the jobs that were graded for it, and
\* every such job used an attempt of its question or was reported as an issue.
AttemptsCounted ==
  /\ \A v \in MadeVariants : variant[v].tries =
       Cardinality({j \in Inserted : job[j].gradable /\ sub[job[j].sub].variant = v})
  /\ issues + SumFunctionOnSet([q \in Questions |-> iq[q].attempts], Questions) =
       Cardinality({j \in Inserted : job[j].gradable})

\* "We'll concurrently try to grade the same variant twice.  This shouldn't impact
\* correctness" (assessment.ts, of a request and the cron job): however often an
\* answer is graded, it is one attempt at its question.
OneAttemptPerAnswer == \A q \in Questions :
  iq[q].attempts <= Cardinality({s \in Saved : QuestionOf(s) = q})

\* instance_questions_points_exam: "instance_question will be closed when
\* number_attempts exceeds bound", so an open exam question always has a next
\* entry in its points list.
AttemptWithinList == \A q \in Questions :
  AQ[q].type = "Exam" /\ iq[q].open =>
    /\ iq[q].left = Len(AQ[q].list) - iq[q].attempts
    /\ iq[q].left >= 1

\* The points of the assessment instance are those of its questions: no
\* transaction changes a question and leaves the total behind.
PointsUpToDate == grade.points = AwardedPoints(iq)

\* A job that was graded or canceled keeps its result: a late, duplicated or
\* reordered result changes nothing.
DecidedJobsFinal == [][\A j \in Inserted :
  (job[j].graded \/ job[j].canceled) =>
    [job'[j] EXCEPT !.rate = job[j].rate] = job[j]]_vars

\* No step of anyone costs a student points or credit already earned.
PointsNeverDecrease == [][
  /\ \A q \in Questions : iq'[q].auto >= iq[q].auto
  /\ grade'.points >= grade.points
  /\ grade'.score >= grade.score]_vars

\* "This prevents a race condition where we grade submissions in a different
\* order than how they were saved": once a submission has a score, no older one
\* of the same question gets another.  A handler that selected the older one
\* before can still undo this by canceling a second job of the newer one: that
\* takes away the mark which the check looks for.
GradedInOrder == [][\A s, t \in Saved :
  (/\ s < t /\ QuestionOf(s) = QuestionOf(t) /\ sub[t].score # Null
   /\ ~\E j \in Inserted : job[j].sub = t /\ job[j].canceled) =>
    sub'[s].score = sub[s].score]_vars

\* Once nobody is working on a finished exam and its grading_needed flag is off,
\* the answer each internally graded question was left with has been graded.
GradingComplete ==
  (/\ ~ai.open /\ ~ai.needed
   /\ \A w \in Processes : worker[w].pc = "idle") =>
     \A v \in MadeVariants, s \in Submissions :
       /\ IsLast(v, VariantsOf(variant[v].question))
       /\ IsLast(s, SubmissionsOf(v))
       /\ sub[s].gradable
       /\ AQ[variant[v].question].method = "Internal"
       /\ ~ManualOnly(variant[v].question)
       => sub[s].score # Null

\* An exam left alone is closed by autoFinishExams, and one that was closed
\* leaves the "grading needed" state even if the server crashes on the way.
ExamFinishes ==
  /\ AutoClose => <>(~ai.open)
  /\ (~ai.open /\ ai.needed) ~> ~ai.needed

-----------------------------------------------------------------------------
(* What requests, jobs, queues and the cron job are for. *)

\* Somebody waits for the result of a submission, or its mark says that it has one.
StateOf(s) ==
  IF \E j \in Jobs : job[j].sub = s /\ j \in Outstanding THEN "waiting"
  ELSE IF sub[s].requested THEN "decided" ELSE "saved"

Service == INSTANCE GradingService WITH
  Automatic <- {q \in Questions : ~ManualOnly(q)},
  NewQuestion <- [q \in Questions |-> NewInstanceQuestion(AQ[q])],
  Counted <- LAMBDA q, row, score : GradedQuestion(AQ[q], row, score),
  Awarded <- AwardedPoints,
  open <- ai.open, question <- iq,
  answer <- [s \in Submissions |-> [variant |-> sub[s].variant, score |-> sub[s].score]],
  state <- [s \in Submissions |-> StateOf(s)],
  points <- grade.points

\* However requests, cron jobs and results interleave, whatever graders send and
\* whichever processes die, each answer has the results that the service promises.
ImplementsService == Service!Spec
=============================================================================

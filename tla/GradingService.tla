--------------------------- MODULE GradingService ---------------------------
(***************************************************************************)
(* What Grading promises about the answers of one assessment instance,     *)
(* without handlers, jobs and queues, and whichever of them die.           *)
(*                                                                         *)
(* An answer is saved while everything it belongs to is open.  Somebody    *)
(* asks for it to be graded, which withdraws what was asked for its        *)
(* variant before.  An answer that waits gets one result, unless a newer   *)
(* answer to the question waits or has its result.  A score from 0 to 1.0  *)
(* counts once for each time it was asked for, by the points rules, and    *)
(* with it the points of the assessment instance change; a result without  *)
(* one changes no points.                                                  *)
(***************************************************************************)
EXTENDS Integers

CONSTANTS
  Questions, Variants, Submissions,
  Scores, Statuses, Null,      \* as in QuestionPoints
  Automatic,                   \* questions that are not only graded manually
  NewQuestion,                 \* the row of each question before it is answered,
  Counted(_, _, _),            \* and with one more score
  Awarded(_)                   \* what the questions are worth together

VARIABLES
  open,       \* does the assessment instance take answers?
  question,   \* the rows of the questions
  variant,    \* their variants
  answer,     \* the rows of the submissions,
  state,      \* and whether each is only saved, waits for a result or has it
  points      \* of the assessment instance

vars == <<open, question, variant, answer, state, points>>

NoVariant == [question |-> Null, open |-> FALSE, tries |-> 0]
NoAnswer  == [variant |-> Null, score |-> Null]

Init ==
  /\ open = TRUE
  /\ question = NewQuestion
  /\ variant = [v \in Variants |-> NoVariant]
  /\ answer = [s \in Submissions |-> NoAnswer]
  /\ state = [s \in Submissions |-> "saved"]
  /\ points = Awarded(NewQuestion)

Made  == {v \in Variants : variant[v].question # Null}
Saved == {s \in Submissions : answer[s].variant # Null}

QuestionOf(s) == variant[answer[s].variant].question

\* The questions become these; the points of the assessment instance follow.
Become(questions) ==
  /\ question' = questions
  /\ points' = Awarded(questions)

\* The status of a question is for display.
Show(q) == \E status \in Statuses : Become([question EXCEPT ![q].status = status])

Create(q) == \E v \in Variants \ Made :
  /\ open /\ question[q].open
  /\ \A u \in Made : variant[u].question = q => ~variant[u].open /\ u < v
  /\ variant' = [variant EXCEPT ![v] = [question |-> q, open |-> TRUE, tries |-> 0]]
  /\ UNCHANGED <<open, question, answer, state, points>>

Save(v) == \E s \in Submissions \ Saved :
  /\ \A t \in Saved : t < s
  /\ variant[v].open /\ question[variant[v].question].open /\ open
  /\ answer' = [answer EXCEPT ![s] = [variant |-> v, score |-> Null]]
  /\ Show(variant[v].question)
  /\ UNCHANGED <<open, variant, state>>

Ask(s) ==
  /\ QuestionOf(s) \in Automatic
  /\ state' = [t \in Submissions |->
                 IF t = s THEN "waiting"
                 ELSE IF answer[t].variant = answer[s].variant /\ state[t] = "waiting"
                   THEN "saved" ELSE state[t]]
  /\ UNCHANGED <<open, question, variant, answer, points>>

\* s waits for a result, and no newer answer is in its way.
Due(s) ==
  /\ state[s] = "waiting"
  /\ \A t \in Saved : t > s /\ QuestionOf(t) = QuestionOf(s) => state[t] = "saved"

\* The result is a score: an attempt at the variant, which may close with it, and
\* at the question unless that has closed.
Score(s, score) ==
  LET v == answer[s].variant
      q == QuestionOf(s)
  IN  /\ answer' = [answer EXCEPT ![s].score = score]
      /\ \E stays \in BOOLEAN :
           variant' = [variant EXCEPT ![v].tries = @ + 1, ![v].open = @ /\ stays]
      /\ Become(IF question[q].open
                  THEN [question EXCEPT ![q] = Counted(q, @, score)] ELSE question)

\* The answer could not be graded, or its score is none.
Refuse(s) ==
  /\ answer' = [answer EXCEPT ![s].score = Null]
  /\ Show(QuestionOf(s))
  /\ UNCHANGED variant

Decide(s) ==
  /\ state' = [state EXCEPT ![s] = "decided"]
  /\ Refuse(s) \/ \E score \in Scores : Score(s, score)
  /\ UNCHANGED open

Close ==
  /\ open /\ open' = FALSE
  /\ UNCHANGED <<question, variant, answer, state, points>>

Next ==
  \/ \E q \in Questions : Create(q)
  \/ \E v \in Made : Save(v)
  \/ \E s \in Saved : Ask(s) \/ (Due(s) /\ Decide(s))
  \/ Close

Spec == Init /\ [][Next]_vars

=============================================================================

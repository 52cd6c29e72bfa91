-------------------------- MODULE MCQuestionPoints --------------------------
(* Instances of QuestionHistory for TLC: assessment questions of every kind. *)
EXTENDS QuestionHistory

ExamConfigs ==
  {[type |-> "Exam", method |-> "Internal", list |-> list, maxManual |-> manual,
    maxAuto |-> list[1] - manual, init |-> list[1], maxPoints |-> list[1],
    constantValue |-> TRUE, triesPerVariant |-> 1, singleVariant |-> TRUE] :
     list \in {<<6>>, <<6, 6, 6>>, <<6, 4, 2>>, <<6, 5, 5, 1>>, <<6, 6, 3, 2>>}, manual \in {0, 1}}

\* A maximum below the first value, at it, and well above it.
HomeworkConfigs(manuals, constants) ==
  {[type |-> "Homework", method |-> "Internal", list |-> <<>>, maxManual |-> manual,
    maxAuto |-> max, init |-> 3 + manual, maxPoints |-> max + manual,
    constantValue |-> constant, triesPerVariant |-> 1, singleVariant |-> FALSE] :
     max \in {2, 3, 7, 12, 30}, manual \in manuals, constant \in constants}

AllConfigs ==
  ExamConfigs \cup HomeworkConfigs({0}, BOOLEAN) \cup HomeworkConfigs({2}, {TRUE})
=============================================================================

------------------------- MODULE ManualGradingProofs -------------------------
(***************************************************************************)
(* Proofs about ManualGrading, for any questions, rubric, graders and      *)
(* uploads.  The inductive invariant says of every transaction, for each   *)
(* assessment instance, that what it has written so far either leaves the  *)
(* points alone, or is complete and made under the locks of all rows it    *)
(* adds up, unless it is just between the question and the instance.       *)
(* That every commit is one step of Gradebook needs more: what a request   *)
(* has read and holds at each statement (GradingInv), and what it has      *)
(* written, as a change to the rows as they are committed now (BookInv).   *)
(***************************************************************************)
EXTENDS ManualGrading, SumTheorems

Fields == {"op", "pc", "q", "submission", "seen", "score", "conflict", "grading",
           "points", "total", "form", "found", "todo"}

QuestionFields == {"auto", "manual", "points", "modified", "requiresManualGrading", "grading"}

QuestionRow(x) == /\ DOMAIN x = QuestionFields
                  /\ x.points = x.auto + x.manual
                  /\ x.modified \in Nat \ {0}

PointsIn(rows, a) == SumFunctionOnSet([q \in Questions |-> rows[q].points], QuestionsOf(a))

\* Rows are whole, and what is committed adds up.
RowInv ==
  /\ DOMAIN row = Rows /\ DOMAIN pending = Rows
  /\ lock \in [Rows -> Txns \cup {NoTxn}]
  /\ \A r \in Rows : lock[r] = NoTxn => pending[r] = row[r]
  /\ \A q \in Questions : QuestionRow(row[q]) /\ QuestionRow(pending[q])
  /\ \A a \in Instances : row[a].points = PointsIn(row, a)

\* What t has written leaves the points of assessment instance a as they are,
Kept(t, a) ==
  /\ \A q \in QuestionsOf(a) : Holds(t, q) =>
       pending[q].points = row[q].points /\ pending[q].manual = row[q].manual
  /\ Holds(t, a) => pending[a] = row[a]

\* or is complete, and nobody else can change the questions of a.
Settled(t, a) ==
  /\ Holds(t, a) /\ \A q \in QuestionsOf(a) : Holds(t, q)
  /\ pending[a].points = PointsIn(pending, a)

Even(t, a) == Kept(t, a) \/ Settled(t, a)

-----------------------------------------------------------------------------
(* What statements do to the rows. *)

LEMMA RowSets ==
  /\ Questions \subseteq Rows /\ Instances \subseteq Rows /\ AQ \in Rows
  /\ Questions \cap Instances = {} /\ AQ \notin Questions \cup Instances
  /\ \A q \in Questions : InstanceOf[q] \in Instances /\ q \in QuestionsOf(InstanceOf[q])
  /\ \A a : QuestionsOf(a) \subseteq Questions /\ IsFiniteSet(QuestionsOf(a))
  /\ NoTxn \notin Txns
<1>1. \A a : QuestionsOf(a) \subseteq Questions
  BY DEF QuestionsOf
<1>2. QED
  BY <1>1, ManualGradingAssumption, FS_Subset DEF Instances, QuestionsOf

\* Sums over rows with the same points.
LEMMA SamePointsIn ==
  ASSUME NEW f, NEW g, NEW a, \A q \in QuestionsOf(a) : f[q].points = g[q].points
  PROVE  PointsIn(f, a) = PointsIn(g, a)
<1> DEFINE x == [q \in Questions |-> f[q].points]
           y == [q \in Questions |-> g[q].points]
<1>1. \A q \in QuestionsOf(a) : x[q] = y[q]
  BY RowSets
<1>2. PointsIn(f, a) = SumFunctionOnSet(x, QuestionsOf(a)) /\ PointsIn(g, a) = SumFunctionOnSet(y, QuestionsOf(a))
  BY DEF PointsIn
<1> HIDE DEF x, y
<1>3. QED
  BY <1>1, <1>2, RowSets, SameSum

\* u still holds what it held, and nobody wrote there.
Untouched(u) ==
  \A r \in Rows : /\ lock'[r] = u <=> lock[r] = u
                  /\ lock[r] = u => row'[r] = row[r] /\ pending'[r] = pending[r]

\* Nobody commits new points of an assessment instance that u has a part of.
StablePoints(u) ==
  \A a \in Instances :
    \/ \A q \in QuestionsOf(a) : row'[q].points = row[q].points /\ row'[q].manual = row[q].manual
    \/ lock[a] # u /\ \A q \in QuestionsOf(a) : lock[q] # u

\* Locking a row.
LEMMA RowLocked ==
  ASSUME RowInv, NEW t \in Txns, NEW r \in Rows, LockRow(t, r)
  PROVE  /\ RowInv' /\ lock'[r] = t /\ UNCHANGED <<row, pending>>
         /\ \A x \in Rows : lock'[x] = IF x = r THEN t ELSE lock[x]
         /\ \A x \in Rows : Sees(t, x)' = Sees(t, x)
         /\ \A a \in Instances : Even(t, a) => Even(t, a)'
         /\ \A u \in Txns \ {t} : Untouched(u) /\ StablePoints(u)
<1>1. /\ UNCHANGED <<row, pending>>
      /\ \A x \in Rows : lock'[x] = IF x = r THEN t ELSE lock[x]
      /\ lock[r] \in {NoTxn, t}
      /\ lock' \in [Rows -> Txns \cup {NoTxn}]
      /\ lock[r] = NoTxn => pending[r] = row[r]
  BY DEF LockRow, RowInv, Available
<1>2. RowInv'
  BY <1>1, RowSets DEF RowInv, PointsIn
<1>3. \A x \in Rows : Sees(t, x)' = Sees(t, x)
  BY <1>1, RowSets DEF Sees, Holds
<1>4. ASSUME NEW a \in Instances, Kept(t, a)
      PROVE  Kept(t, a)'
  BY <1>1, <1>4, RowSets DEF Kept, Holds
<1>5. ASSUME NEW a \in Instances, Settled(t, a)
      PROVE  Settled(t, a)'
  BY <1>1, <1>5, RowSets DEF Settled, Holds, PointsIn
<1>6. \A u \in Txns \ {t} : Untouched(u) /\ StablePoints(u)
  BY <1>1, RowSets DEF Untouched, StablePoints
<1>7. QED
  BY <1>1, <1>2, <1>3, <1>4, <1>5, <1>6 DEF Even

\* Writing a row.
LEMMA RowUpdated ==
  ASSUME RowInv, NEW t \in Txns, NEW r \in Rows, NEW new, UpdateRow(t, r, new),
         r \in Questions => QuestionRow(new)
  PROVE  /\ RowInv' /\ row' = row
         /\ \A x \in Rows : lock'[x] = IF x = r THEN t ELSE lock[x]
         /\ \A x \in Rows : pending'[x] = IF x = r THEN new ELSE pending[x]
         /\ \A x \in Rows : Sees(t, x)' = IF x = r THEN new ELSE Sees(t, x)
         /\ lock[r] = NoTxn => pending[r] = row[r]
         /\ lock[r] \in {NoTxn, t}
         /\ \A u \in Txns \ {t} : Untouched(u) /\ StablePoints(u)
<1>1. /\ row' = row
      /\ \A x \in Rows : lock'[x] = IF x = r THEN t ELSE lock[x]
      /\ \A x \in Rows : pending'[x] = IF x = r THEN new ELSE pending[x]
      /\ DOMAIN pending' = Rows
      /\ lock[r] \in {NoTxn, t}
      /\ lock' \in [Rows -> Txns \cup {NoTxn}]
      /\ lock[r] = NoTxn => pending[r] = row[r]
  BY DEF UpdateRow, RowInv, Available
<1>2. RowInv'
  BY <1>1, RowSets DEF RowInv, PointsIn
<1>3. \A x \in Rows : Sees(t, x)' = IF x = r THEN new ELSE Sees(t, x)
  BY <1>1, RowSets DEF Sees, Holds
<1>4. \A u \in Txns \ {t} : Untouched(u) /\ StablePoints(u)
  BY <1>1, RowSets DEF Untouched, StablePoints
<1>5. QED
  BY <1>1, <1>2, <1>3, <1>4

\* A write elsewhere, or one that leaves the points as they are, keeps what is even.
LEMMA EvenUpdate ==
  ASSUME RowInv, NEW t \in Txns, NEW r \in Rows, NEW new, UpdateRow(t, r, new),
         r \in Questions => QuestionRow(new),
         NEW a \in Instances, Even(t, a), r # a,
         r \in QuestionsOf(a) => new.points = Sees(t, r).points /\ new.manual = Sees(t, r).manual
  PROVE  Even(t, a)'
<1>1. /\ row' = row
      /\ \A x \in Rows : lock'[x] = IF x = r THEN t ELSE lock[x]
      /\ \A x \in Rows : pending'[x] = IF x = r THEN new ELSE pending[x]
      /\ lock[r] = NoTxn => pending[r] = row[r]
      /\ lock[r] \in {NoTxn, t}
  BY RowUpdated
<1>2. CASE Kept(t, a)
  BY <1>1, <1>2, RowSets DEF Even, Kept, Holds, Sees
<1>3. CASE Settled(t, a)
  <2>1. \A q \in QuestionsOf(a) : pending'[q].points = pending[q].points
    BY <1>1, <1>3, RowSets DEF Settled, Holds, Sees
  <2>2. PointsIn(pending', a) = PointsIn(pending, a)
    BY <2>1, SamePointsIn
  <2>3. PointsIn(pending, a)' = PointsIn(pending', a)
    BY DEF PointsIn
  <2>4. QED
    BY <1>1, <1>3, <2>2, <2>3, RowSets DEF Even, Settled, Holds
<1>4. QED
  BY <1>2, <1>3 DEF Even

\* A commit of even changes keeps the totals right.
LEMMA RowsCommitted ==
  ASSUME RowInv, NEW t \in Txns, Commit(t), \A a \in Instances : Even(t, a)
  PROVE  /\ RowInv' /\ \A r \in Rows : lock'[r] # t
         /\ \A u \in Txns \ {t} : Untouched(u) /\ StablePoints(u)
<1>1. /\ DOMAIN row' = Rows /\ pending' = pending
      /\ \A r \in Rows : row'[r] = IF lock[r] = t THEN pending[r] ELSE row[r]
      /\ \A r \in Rows : lock'[r] = IF lock[r] = t THEN NoTxn ELSE lock[r]
      /\ lock' \in [Rows -> Txns \cup {NoTxn}]
  BY DEF Commit, Unlocked, Holds, Sees, RowInv
<1>2. ASSUME NEW a \in Instances, Kept(t, a)
      PROVE  /\ \A q \in QuestionsOf(a) : row'[q].points = row[q].points /\ row'[q].manual = row[q].manual
             /\ row'[a] = row[a]
  BY <1>1, <1>2, RowSets DEF Kept, Holds
<1>3. ASSUME NEW a \in Instances, Settled(t, a)
      PROVE  /\ \A q \in QuestionsOf(a) : row'[q] = pending[q] /\ lock[q] = t
             /\ row'[a] = pending[a] /\ lock[a] = t
  BY <1>1, <1>3, RowSets DEF Settled, Holds
<1>4. ASSUME NEW a \in Instances
      PROVE  row'[a].points = PointsIn(row', a)
  <2>1. CASE Kept(t, a)
    <3>1. PointsIn(row', a) = PointsIn(row, a)
      BY <1>2, <2>1, SamePointsIn
    <3>2. QED
      BY <1>2, <2>1, <3>1 DEF RowInv
  <2>2. CASE Settled(t, a)
    <3>1. PointsIn(row', a) = PointsIn(pending, a)
      BY <1>3, <2>2, SamePointsIn
    <3>2. QED
      BY <1>3, <2>2, <3>1 DEF Settled
  <2>3. QED
    BY <2>1, <2>2 DEF Even
<1>5. RowInv'
  BY <1>1, <1>4, RowSets DEF RowInv, PointsIn
<1>6. ASSUME NEW u \in Txns \ {t}
      PROVE  Untouched(u) /\ StablePoints(u)
  <2>1. Untouched(u)
    BY <1>1, <1>6, RowSets DEF Untouched
  <2>2. StablePoints(u)
    <3>1. \A q \in Questions : lock[q] = t => lock[q] # u
      BY <1>6
    <3>2. QED
      BY <1>2, <1>3, <3>1, RowSets DEF StablePoints, Even
  <2>3. QED
    BY <2>1, <2>2
<1>7. \A r \in Rows : lock'[r] # t
  BY <1>1, RowSets
<1>8. QED
  BY <1>5, <1>6, <1>7

\* A rollback commits nothing.
LEMMA RowsRolledBack ==
  ASSUME RowInv, NEW t \in Txns, Rollback(t)
  PROVE  /\ RowInv' /\ \A r \in Rows : lock'[r] # t
         /\ \A u \in Txns \ {t} : Untouched(u) /\ StablePoints(u)
<1>1. /\ row' = row /\ DOMAIN pending' = Rows
      /\ \A r \in Rows : pending'[r] = IF lock[r] = t THEN row[r] ELSE pending[r]
      /\ \A r \in Rows : lock'[r] = IF lock[r] = t THEN NoTxn ELSE lock[r]
      /\ lock' \in [Rows -> Txns \cup {NoTxn}]
  BY DEF Rollback, Unlocked, Holds, RowInv
<1>2. RowInv'
  BY <1>1, RowSets DEF RowInv, PointsIn
<1>3. QED
  BY <1>1, <1>2, RowSets DEF Untouched, StablePoints

\* Reassigning a question that nobody has locked.
LEMMA RowReassigned ==
  ASSUME RowInv, NEW q \in Questions, NEW required \in BOOLEAN, Reassign(q, required)
  PROVE  RowInv' /\ \A u \in Txns : Untouched(u) /\ StablePoints(u)
<1> DEFINE new == [row[q] EXCEPT !.requiresManualGrading = required]
<1>1. QuestionRow(row[q])
  BY DEF RowInv
<1>2. QuestionRow(new) /\ new.points = row[q].points /\ new.manual = row[q].manual
  BY <1>1 DEF QuestionRow, QuestionFields
<1>3. /\ DOMAIN row' = Rows /\ DOMAIN pending' = Rows /\ lock' = lock /\ lock[q] = NoTxn
      /\ \A r \in Rows : row'[r] = IF r = q THEN new ELSE row[r]
      /\ \A r \in Rows : pending'[r] = IF r = q THEN new ELSE pending[r]
  <2>1. row' = [row EXCEPT ![q] = new] /\ pending' = [pending EXCEPT ![q] = row'[q]]
        /\ lock' = lock /\ lock[q] = NoTxn
    BY RowSets DEF Reassign, RowInv
  <2> HIDE DEF new
  <2>2. QED
    BY <2>1, RowSets DEF RowInv
<1> HIDE DEF new
<1>4. \A r \in Questions : row'[r].points = row[r].points /\ row'[r].manual = row[r].manual
  BY <1>2, <1>3, RowSets
<1>5. \A a \in Instances : row'[a] = row[a] /\ PointsIn(row', a) = PointsIn(row, a)
  BY <1>3, <1>4, RowSets, SamePointsIn
<1>6. \A r \in Questions : QuestionRow(row'[r]) /\ QuestionRow(pending'[r])
  BY <1>2, <1>3, RowSets DEF RowInv
<1>7. RowInv'
  <2>1. \A a \in Instances : PointsIn(row, a)' = PointsIn(row', a)
    BY DEF PointsIn
  <2>2. \A r \in Questions : QuestionRow(row[r])' /\ QuestionRow(pending[r])'
    BY <1>6 DEF QuestionRow
  <2>3. \A r \in Rows : lock'[r] = NoTxn => pending'[r] = row'[r]
    BY <1>3 DEF RowInv
  <2>4. QED
    BY <1>3, <1>5, <2>1, <2>2, <2>3 DEF RowInv
<1>8. \A u \in Txns : Untouched(u) /\ StablePoints(u)
  BY <1>3, <1>4, RowSets DEF Untouched, StablePoints
<1>9. QED
  BY <1>7, <1>8

-----------------------------------------------------------------------------
(* What a transaction knows. *)

HasQuestion(t) == txn[t].pc \in {"opened", "select", "lock", "items", "grading", "write", "total",
                                 "questions", "instance", "grade", "store", "insert"}

\* What it works on are questions, and between requests it holds nothing.
WellFormed(t) ==
  /\ DOMAIN txn[t] = Fields
  /\ HasQuestion(t) => txn[t].q \in Questions
  /\ txn[t].todo \subseteq Questions
  /\ txn[t].pc \in {"idle", "opened", "done"} => \A r \in Rows : lock[r] # t

BetweenWrites(t, a) == txn[t].pc \in {"total", "questions"} /\ a = InstanceOf[txn[t].q]

\* The total is that of the questions as they will be committed.
Totals(t) ==
  /\ \A a \in Instances : Even(t, a) \/ BetweenWrites(t, a)
  /\ txn[t].pc \in {"total", "questions"} => lock[txn[t].q] = t
  /\ txn[t].pc = "questions" =>
       txn[t].total = SumFunctionOnSet([r \in Questions |-> Sees(t, r).points], Siblings(txn[t].q))

\* Automatic grading adds points to manual points that nobody can change.
AutoGrading(t) ==
  /\ txn[t].pc \in {"grade", "store"} => lock[InstanceOf[txn[t].q]] = t
  /\ txn[t].pc = "store" => txn[t].points = txn[t].score.auto + Sees(t, txn[t].q).manual

\* A grader only changes rows that were last modified when they opened the page.
PageCurrent(t) ==
  txn[t].op = "page" =>
    /\ txn[t].pc \notin {"instance", "insert"} /\ txn[t].seen \in Nat \ {0}
    /\ \A q \in Questions : lock[q] = t =>
         pending[q].modified = row[q].modified \/ row[q].modified = txn[t].seen
    /\ txn[t].pc \in {"items", "grading", "write"} /\ ~txn[t].conflict =>
         lock[txn[t].q] = t /\ row[txn[t].q].modified = txn[t].seen

TxnInv(t) == WellFormed(t) /\ Totals(t) /\ AutoGrading(t) /\ PageCurrent(t)

Inv == RowInv /\ DOMAIN txn = Txns /\ \A t \in Txns : TxnInv(t)

\* A transaction that does not move.
SameTxn(u) == txn'[u] = txn[u]

\* What a transaction knows stays true while others move.
LEMMA OthersKeep ==
  ASSUME RowInv, RowInv', NEW u \in Txns, TxnInv(u), SameTxn(u), Untouched(u), StablePoints(u)
  PROVE  TxnInv(u)'
<1>1. /\ DOMAIN txn'[u] = Fields
      /\ txn'[u].pc = txn[u].pc /\ txn'[u].q = txn[u].q /\ txn'[u].todo = txn[u].todo
      /\ txn'[u].total = txn[u].total /\ txn'[u].points = txn[u].points
      /\ txn'[u].score = txn[u].score /\ txn'[u].op = txn[u].op /\ txn'[u].seen = txn[u].seen
      /\ txn'[u].conflict = txn[u].conflict
  BY DEF TxnInv, WellFormed, SameTxn, Fields
<1>2. WellFormed(u)'
  BY <1>1 DEF TxnInv, WellFormed, HasQuestion, Untouched
<1>3. ASSUME NEW a \in Instances, Even(u, a)
      PROVE  Even(u, a)'
  <2>1. CASE Kept(u, a)
    BY <2>1, RowSets DEF Even, Kept, Holds, Untouched
  <2>2. CASE Settled(u, a)
    <3>1. \A q \in QuestionsOf(a) : pending'[q].points = pending[q].points
      BY <2>2, RowSets DEF Settled, Holds, Untouched
    <3>2. PointsIn(pending', a) = PointsIn(pending, a)
      BY <3>1, SamePointsIn
    <3>3. PointsIn(pending, a)' = PointsIn(pending', a)
      BY DEF PointsIn
    <3>4. QED
      BY <2>2, <3>2, <3>3, RowSets DEF Even, Settled, Holds, Untouched
  <2>3. QED
    BY <1>3, <2>1, <2>2 DEF Even
\* What u sees of an assessment instance it has a part of.
<1>4. ASSUME NEW a \in Instances, lock[a] = u \/ \E q \in QuestionsOf(a) : lock[q] = u
      PROVE  \A q \in QuestionsOf(a) : /\ Sees(u, q)'.points = Sees(u, q).points
                                       /\ Sees(u, q)'.manual = Sees(u, q).manual
  BY <1>4, RowSets DEF StablePoints, Untouched, Sees, Holds
<1>5. Totals(u)'
  <2>1. \A a \in Instances : Even(u, a)' \/ BetweenWrites(u, a)'
    BY <1>1, <1>3 DEF TxnInv, Totals, BetweenWrites
  <2>2. CASE txn[u].pc \in {"total", "questions"}
    <3> DEFINE a == InstanceOf[txn[u].q]
    <3>1. txn[u].q \in Questions /\ a \in Instances /\ lock[txn[u].q] = u /\ txn[u].q \in QuestionsOf(a)
      BY <2>2, RowSets DEF TxnInv, Totals, WellFormed, HasQuestion
    <3>2. \A q \in QuestionsOf(a) : Sees(u, q)'.points = Sees(u, q).points
      BY <1>4, <3>1
    <3>3. lock'[txn[u].q] = u
      BY <3>1, RowSets DEF Untouched
    <3> DEFINE f == [r \in Questions |-> Sees(u, r).points]
               g == [r \in Questions |-> Sees(u, r)'.points]
    <3>4. \A q \in QuestionsOf(a) : f[q] = g[q]
      BY <3>2, RowSets
    <3> HIDE DEF f, g
    <3>5. SumFunctionOnSet(f, QuestionsOf(a)) = SumFunctionOnSet(g, QuestionsOf(a))
      BY <3>4, RowSets, SameSum
    <3>6. QED
      BY <1>1, <2>1, <3>3, <3>5 DEF f, g, TxnInv, Totals, Siblings, QuestionsOf
  <2>3. CASE txn[u].pc \notin {"total", "questions"}
    BY <1>1, <2>1, <2>3 DEF Totals
  <2>4. QED
    BY <2>2, <2>3
<1>6. AutoGrading(u)'
  <2>1. CASE txn[u].pc \in {"grade", "store"}
    <3> DEFINE a == InstanceOf[txn[u].q]
    <3>1. txn[u].q \in Questions /\ a \in Instances /\ lock[a] = u /\ txn[u].q \in QuestionsOf(a)
      BY <2>1, RowSets DEF TxnInv, AutoGrading, WellFormed, HasQuestion
    <3>2. Sees(u, txn[u].q)'.manual = Sees(u, txn[u].q).manual /\ lock'[a] = u
      <4>1. lock'[a] = u
        BY <3>1, RowSets DEF Untouched
      <4>2. \A q \in QuestionsOf(a) : Sees(u, q)'.manual = Sees(u, q).manual
        BY <1>4, <3>1
      <4>3. QED
        BY <1>1, <3>1, <4>1, <4>2 DEF Sees, Holds
    <3>3. QED
      BY <1>1, <3>2 DEF TxnInv, AutoGrading, Sees, Holds
  <2>2. CASE txn[u].pc \notin {"grade", "store"}
    BY <1>1, <2>2 DEF AutoGrading
  <2>3. QED
    BY <2>1, <2>2
<1>7. PageCurrent(u)'
  BY <1>1, RowSets DEF TxnInv, PageCurrent, WellFormed, HasQuestion, Untouched
<1>8. QED
  BY <1>2, <1>5, <1>6, <1>7 DEF TxnInv

-----------------------------------------------------------------------------
(* Every statement of a transaction keeps the invariant. *)

LEMMA OneMoves ==
  ASSUME Inv, RowInv', DOMAIN txn' = Txns, NEW t \in Txns, TxnInv(t)',
         \A u \in Txns \ {t} : SameTxn(u) /\ Untouched(u) /\ StablePoints(u)
  PROVE  Inv'
<1>1. ASSUME NEW u \in Txns
      PROVE  TxnInv(u)'
  <2>1. CASE u = t
    BY <2>1
  <2>2. CASE u # t
    BY <2>2, OthersKeep DEF Inv
  <2>3. QED
    BY <2>1, <2>2
<1>2. QED
  BY <1>1 DEF Inv

\* What a statement changes of its transaction.
Moves(t) == /\ DOMAIN txn' = Txns
            /\ \A u \in Txns \ {t} : txn'[u] = txn[u]

LEMMA RowsKept ==
  ASSUME RowInv, UNCHANGED rowVars
  PROVE  /\ RowInv' /\ \A u \in Txns : Untouched(u) /\ StablePoints(u)
         /\ \A t, a : Even(t, a)' = Even(t, a)
         /\ \A t, r : Sees(t, r)' = Sees(t, r)
BY DEF rowVars, RowInv, PointsIn, QuestionRow, Untouched, StablePoints, Even, Kept, Settled, Holds, Sees

\* A statement that only reads, outside of the update of an assessment instance.
LEMMA ReadStep ==
  ASSUME Inv, NEW t \in Txns, UNCHANGED rowVars, Moves(t), WellFormed(t)',
         txn[t].pc \notin {"total", "questions"}, txn'[t].pc \notin {"total", "questions"},
         AutoGrading(t)', PageCurrent(t)'
  PROVE  Inv'
<1>1. ASSUME NEW a \in Instances
      PROVE  Even(t, a)'
  <2>1. Even(t, a)
    BY DEF Inv, TxnInv, Totals, BetweenWrites
  <2>2. QED
    BY <2>1, RowsKept DEF Inv
<1>2. TxnInv(t)'
  BY <1>1 DEF TxnInv, Totals
<1>3. \A u \in Txns \ {t} : SameTxn(u)
  BY DEF Moves, SameTxn
<1>4. QED
  BY <1>2, <1>3, RowsKept, OneMoves DEF Inv, Moves

\* A page is opened.
LEMMA OpenStep ==
  ASSUME Inv, NEW t \in Txns, NEW q \in Questions, Open(t, q)
  PROVE  Inv'
<1>1. /\ Moves(t) /\ UNCHANGED rowVars /\ txn[t].pc = "idle"
      /\ DOMAIN txn'[t] = Fields /\ txn'[t].pc = "opened" /\ txn'[t].q = q
      /\ txn'[t].seen = row[q].modified /\ txn'[t].todo = txn[t].todo
  BY DEF Open, At, Become, Moves, Inv, TxnInv, WellFormed, Fields
<1>2. row[q].modified \in Nat \ {0} /\ \A r \in Rows : lock[r] # t
  BY <1>1 DEF Inv, RowInv, QuestionRow, TxnInv, WellFormed
<1>3. WellFormed(t)' /\ AutoGrading(t)'
  BY <1>1, <1>2 DEF WellFormed, HasQuestion, AutoGrading, rowVars, Inv, TxnInv
<1>4. PageCurrent(t)'
  BY <1>1, <1>2, RowSets DEF PageCurrent, rowVars
<1>5. QED
  BY <1>1, <1>3, <1>4, ReadStep

\* A request starts that is no page.
LEMMA RequestStep ==
  ASSUME Inv, NEW t \in Txns, Moves(t), UNCHANGED rowVars, txn[t].pc = "idle",
         DOMAIN txn'[t] = Fields, txn'[t].pc \in {"select", "instance", "rubric"},
         txn'[t].pc # "rubric" => txn'[t].q \in Questions,
         txn'[t].op # "page", txn'[t].todo = txn[t].todo
  PROVE  Inv'
<1>1. WellFormed(t)' /\ AutoGrading(t)' /\ PageCurrent(t)'
  BY DEF WellFormed, HasQuestion, AutoGrading, PageCurrent, Inv, TxnInv
<1>2. QED
  BY <1>1, ReadStep

LEMMA RequestSteps ==
  ASSUME Inv, NEW t \in Txns,
         Edit(t) \/ \E q \in Questions : Upload(t, q) \/ Grade(t, q) \/ Save(t, q)
  PROVE  Inv'
<1>1. ASSUME NEW q \in Questions, Upload(t, q)
      PROVE  Inv'
  <2>1. /\ Moves(t) /\ UNCHANGED rowVars /\ txn[t].pc = "idle"
        /\ DOMAIN txn'[t] = Fields /\ txn'[t].pc = "select" /\ txn'[t].q = q
        /\ txn'[t].op = "upload" /\ txn'[t].todo = txn[t].todo
    BY <1>1 DEF Upload, At, Become, Moves, Inv, TxnInv, WellFormed, Fields
  <2>2. QED
    BY <2>1, RequestStep
<1>2. ASSUME NEW q \in Questions, Grade(t, q) \/ Save(t, q)
      PROVE  Inv'
  <2>1. /\ Moves(t) /\ UNCHANGED rowVars /\ txn[t].pc = "idle"
        /\ DOMAIN txn'[t] = Fields /\ txn'[t].pc = "instance" /\ txn'[t].q = q
        /\ txn'[t].op \in {"auto", "save"} /\ txn'[t].todo = txn[t].todo
    BY <1>2 DEF Grade, Save, At, Become, Moves, Inv, TxnInv, WellFormed, Fields
  <2>2. QED
    BY <2>1, RequestStep
<1>3. CASE Edit(t)
  <2>1. /\ Moves(t) /\ UNCHANGED rowVars /\ txn[t].pc = "idle"
        /\ DOMAIN txn'[t] = Fields /\ txn'[t].pc = "rubric"
        /\ txn'[t].op = "edit" /\ txn'[t].todo = txn[t].todo
    BY <1>3 DEF Edit, At, Become, Moves, Inv, TxnInv, WellFormed, Fields
  <2>2. QED
    BY <2>1, RequestStep
<1>4. QED
  BY <1>1, <1>2, <1>3

\* The update of a score reads what it needs.
LEMMA ScoreReads ==
  ASSUME Inv, NEW t \in Txns,
         Submit(t) \/ SelectSubmission(t) \/ SelectItems(t) \/ InsertGrading(t)
  PROVE  Inv'
<1>1. /\ Moves(t) /\ UNCHANGED rowVars /\ DOMAIN txn'[t] = Fields
      /\ <<txn[t].pc, txn'[t].pc>> \in {<<"opened", "select">>, <<"select", "lock">>,
                                         <<"items", "grading">>, <<"grading", "write">>}
      /\ txn'[t].q = txn[t].q /\ txn'[t].todo = txn[t].todo /\ txn'[t].op = txn[t].op
      /\ txn'[t].seen = txn[t].seen /\ txn'[t].conflict = txn[t].conflict
  <2>1. CASE Submit(t)
    BY <2>1 DEF Submit, At, Become, Moves, Inv, TxnInv, WellFormed, Fields
  <2>2. CASE SelectSubmission(t)
    BY <2>2 DEF SelectSubmission, At, Become, Moves, Inv, TxnInv, WellFormed, Fields
  <2>3. CASE SelectItems(t)
    BY <2>3 DEF SelectItems, At, Become, Moves, Inv, TxnInv, WellFormed, Fields
  <2>4. CASE InsertGrading(t)
    BY <2>4 DEF InsertGrading, At, Become, Moves, Inv, TxnInv, WellFormed, Fields
  <2>5. QED
    BY <2>1, <2>2, <2>3, <2>4
<1>2. WellFormed(t)' /\ AutoGrading(t)'
  BY <1>1 DEF WellFormed, HasQuestion, AutoGrading, Inv, TxnInv
<1>3. PageCurrent(t)'
  BY <1>1 DEF PageCurrent, Inv, TxnInv, rowVars
<1>4. QED
  BY <1>1, <1>2, <1>3, ReadStep

\* The edit of a rubric goes on.
LEMMA EditReads ==
  ASSUME Inv, NEW t \in Txns, Review(t) \/ ReviewedLocked(t) \/ Recompute(t) \/ Recomputed(t)
  PROVE  Inv'
<1>1. /\ Moves(t) /\ UNCHANGED rowVars /\ DOMAIN txn'[t] = Fields
      /\ txn[t].pc \in {"review", "wait", "recompute"}
      /\ txn'[t].pc \in {"wait", "recompute", "select", "tag", "commit"}
      /\ txn'[t].op = txn[t].op /\ txn'[t].seen = txn[t].seen
      /\ txn'[t].pc = "select" => txn'[t].q \in Questions
      /\ txn'[t].todo \subseteq Questions
  <2>1. CASE Review(t)
    <3>1. PICK found, todo : /\ todo \subseteq Rubriced
                             /\ Become(t, [pc |-> "wait", found |-> found, todo |-> todo])
      BY <2>1 DEF Review, LastGradings
    <3>2. Rubriced \subseteq Questions
      BY ManualGradingAssumption
    <3>3. txn[t].pc = "review" /\ UNCHANGED rowVars
      BY <2>1 DEF Review, At
    <3>4. DOMAIN txn = Txns /\ DOMAIN txn[t] = Fields
      BY DEF Inv, TxnInv, WellFormed
    <3>5. QED
      BY <3>1, <3>2, <3>3, <3>4 DEF Become, Moves, Fields
  <2>2. CASE ReviewedLocked(t)
    BY <2>2 DEF ReviewedLocked, At, GoTo, Moves, Inv, TxnInv, WellFormed, Fields
  <2>3. CASE Recompute(t)
    <3>1. PICK q, submission, score :
            /\ q \in txn[t].todo
            /\ Become(t, [pc |-> "select", q |-> q, submission |-> submission,
                          score |-> score, todo |-> txn[t].todo \ {q}])
      BY <2>3 DEF Recompute
    <3>2. q \in Questions /\ txn[t].todo \subseteq Questions /\ txn[t].pc = "recompute"
      BY <2>3, <3>1 DEF Recompute, At, Inv, TxnInv, WellFormed
    <3>3. UNCHANGED rowVars
      BY <2>3 DEF Recompute
    <3>4. DOMAIN txn = Txns /\ DOMAIN txn[t] = Fields
      BY DEF Inv, TxnInv, WellFormed
    <3>5. QED
      BY <3>1, <3>2, <3>3, <3>4 DEF Become, Moves, Fields
  <2>4. CASE Recomputed(t)
    <3>1. \/ Become(t, [pc |-> "tag", todo |-> Rubriced])
          \/ Become(t, [pc |-> "commit"])
      BY <2>4 DEF Recomputed
    <3>2. Rubriced \subseteq Questions /\ txn[t].todo = {} /\ txn[t].pc = "recompute" /\ UNCHANGED rowVars
      BY <2>4, ManualGradingAssumption DEF Recomputed, At
    <3>3. QED
      BY <3>1, <3>2 DEF Become, Moves, Inv, TxnInv, WellFormed, Fields
  <2>5. QED
    BY <2>1, <2>2, <2>3, <2>4
<1>2. WellFormed(t)' /\ AutoGrading(t)'
  BY <1>1 DEF WellFormed, HasQuestion, AutoGrading, Inv, TxnInv
<1>3. PageCurrent(t)'
  BY <1>1 DEF PageCurrent, Inv, TxnInv, rowVars
<1>4. QED
  BY <1>1, <1>2, <1>3, ReadStep

\* assessment_instances_grade adds up what the transaction sees.
LEMMA TotalStep ==
  ASSUME Inv, NEW t \in Txns, Total(t)
  PROVE  Inv'
<1> DEFINE total == SumFunctionOnSet([r \in Questions |-> Sees(t, r).points], Siblings(txn[t].q))
<1>1. /\ Moves(t) /\ UNCHANGED rowVars /\ DOMAIN txn'[t] = Fields
      /\ txn[t].pc = "total" /\ txn'[t].pc = "questions"
      /\ txn'[t].total = total
      /\ txn'[t].q = txn[t].q /\ txn'[t].todo = txn[t].todo
      /\ txn'[t].op = txn[t].op /\ txn'[t].seen = txn[t].seen
  BY DEF Total, At, Become, Moves, Inv, TxnInv, WellFormed, Fields
<1>2. total' = total
  BY <1>1 DEF Sees, Holds, Siblings, QuestionsOf, rowVars
<1> HIDE DEF total
<1>3. WellFormed(t)' /\ AutoGrading(t)'
  BY <1>1 DEF WellFormed, HasQuestion, AutoGrading, Inv, TxnInv
<1>4. PageCurrent(t)'
  BY <1>1 DEF PageCurrent, Inv, TxnInv, rowVars
<1>5. Totals(t)'
  <2>1. \A a \in Instances : Even(t, a)' \/ BetweenWrites(t, a)'
    BY <1>1, RowsKept DEF Inv, TxnInv, Totals, BetweenWrites
  <2>2. lock'[txn'[t].q] = t
    BY <1>1 DEF Inv, TxnInv, Totals, rowVars
  <2>3. QED
    BY <1>1, <1>2, <2>1, <2>2 DEF Totals, total
<1>6. QED
  BY <1>1, <1>3, <1>4, <1>5, RowsKept, OneMoves DEF Inv, Moves, SameTxn, TxnInv

\* What the row of a question or of the rubric becomes when it is locked.
LEMMA LockStep ==
  ASSUME Inv, NEW t \in Txns, NEW r \in Rows, LockRow(t, r), Moves(t), WellFormed(t)',
         <<txn[t].pc, txn'[t].pc>> \in {<<"lock", "items">>, <<"lock", "write">>, <<"wait", "wait">>,
                                        <<"instance", "grade">>, <<"instance", "insert">>},
         AutoGrading(t)', PageCurrent(t)'
  PROVE  Inv'
<1>1. ASSUME NEW a \in Instances
      PROVE  Even(t, a)'
  <2>1. Even(t, a)
    BY DEF Inv, TxnInv, Totals, BetweenWrites
  <2>2. QED
    BY <2>1, RowLocked DEF Inv
<1>2. TxnInv(t)'
  BY <1>1 DEF TxnInv, Totals
<1>3. RowInv' /\ \A u \in Txns \ {t} : Untouched(u) /\ StablePoints(u)
  BY RowLocked DEF Inv
<1>4. QED
  BY <1>2, <1>3, OneMoves DEF Moves, SameTxn

\* The question is read under its lock; a page that is not current conflicts.
LEMMA LockQuestionStep ==
  ASSUME Inv, NEW t \in Txns, LockQuestion(t)
  PROVE  Inv'
<1> DEFINE q == txn[t].q
<1>1. /\ Moves(t) /\ DOMAIN txn'[t] = Fields /\ LockRow(t, q)
      /\ txn[t].pc = "lock" /\ txn'[t].pc \in {"items", "write"}
      /\ txn'[t].q = q /\ txn'[t].todo = txn[t].todo
      /\ txn'[t].op = txn[t].op /\ txn'[t].seen = txn[t].seen
      /\ txn'[t].conflict = (txn[t].seen \notin {0, Sees(t, q).modified})
  BY DEF LockQuestion, At, Become, Moves, Inv, TxnInv, WellFormed, Fields
<1>2. q \in Questions /\ q \in Rows
  BY <1>1, RowSets DEF Inv, TxnInv, WellFormed, HasQuestion
<1>3. WellFormed(t)' /\ AutoGrading(t)'
  BY <1>1, <1>2 DEF WellFormed, HasQuestion, AutoGrading, Inv, TxnInv
<1>4. /\ UNCHANGED <<row, pending>> /\ \A x \in Rows : lock'[x] = IF x = q THEN t ELSE lock[x]
      /\ lock[q] \in {NoTxn, t}
      /\ lock[q] = NoTxn => pending[q] = row[q]
  BY <1>1, <1>2, RowLocked DEF LockRow, Available, Inv, RowInv
<1>5. PageCurrent(t)'
  <2> SUFFICES ASSUME txn[t].op = "page" PROVE PageCurrent(t)'
    BY <1>1 DEF PageCurrent
  <2>1. /\ txn[t].seen \in Nat \ {0}
        /\ \A x \in Questions : lock[x] = t =>
             pending[x].modified = row[x].modified \/ row[x].modified = txn[t].seen
    BY DEF Inv, TxnInv, PageCurrent
  <2>2. pending[q].modified = row[q].modified \/ row[q].modified = txn[t].seen
    BY <1>2, <1>4, <2>1
  <2>3. \A x \in Questions : lock'[x] = t =>
          pending'[x].modified = row'[x].modified \/ row'[x].modified = txn[t].seen
    BY <1>4, <2>1, <2>2, RowSets
  <2>4. ~txn'[t].conflict => row[q].modified = txn[t].seen
    BY <1>1, <1>2, <1>4, <2>1, <2>2 DEF Sees, Holds
  <2>5. QED
    BY <1>1, <1>2, <1>4, <2>1, <2>3, <2>4 DEF PageCurrent
<1>6. QED
  BY <1>1, <1>2, <1>3, <1>5, LockStep

\* Automatic grading and saving lock the assessment instance.
LEMMA LockInstanceStep ==
  ASSUME Inv, NEW t \in Txns, LockInstance(t)
  PROVE  Inv'
<1> DEFINE a == InstanceOf[txn[t].q]
<1>1. /\ Moves(t) /\ DOMAIN txn'[t] = Fields /\ LockRow(t, a)
      /\ txn[t].pc = "instance" /\ txn'[t].pc \in {"grade", "insert"}
      /\ txn'[t].q = txn[t].q /\ txn'[t].todo = txn[t].todo
      /\ txn'[t].op = txn[t].op /\ txn'[t].seen = txn[t].seen
  BY DEF LockInstance, At, GoTo, Moves, Inv, TxnInv, WellFormed, Fields
<1>2. txn[t].q \in Questions /\ a \in Rows /\ a \notin Questions
  BY <1>1, RowSets DEF Inv, TxnInv, WellFormed, HasQuestion
<1>3. /\ UNCHANGED <<row, pending>> /\ \A x \in Rows : lock'[x] = IF x = a THEN t ELSE lock[x]
  BY <1>1, <1>2, RowLocked DEF Inv
<1>4. WellFormed(t)' /\ AutoGrading(t)'
  BY <1>1, <1>2, <1>3 DEF WellFormed, HasQuestion, AutoGrading, Inv, TxnInv
<1>5. PageCurrent(t)'
  <2> SUFFICES ASSUME txn[t].op = "page" PROVE FALSE
    BY <1>1 DEF PageCurrent
  <2>1. QED
    BY <1>1 DEF Inv, TxnInv, PageCurrent
<1>6. QED
  BY <1>1, <1>2, <1>4, <1>5, LockStep

\* The edit of a rubric waits for the questions it found.
LEMMA LockReviewedStep ==
  ASSUME Inv, NEW t \in Txns, LockReviewed(t)
  PROVE  Inv'
<1>1. PICK q \in txn[t].todo : LockRow(t, q) /\ txn[t].pc = "wait" /\ txn' = txn
  BY DEF LockReviewed, At
<1>2. q \in Questions /\ q \in Rows
  BY <1>1, RowSets DEF Inv, TxnInv, WellFormed
<1>3. /\ UNCHANGED <<row, pending>> /\ \A x \in Rows : lock'[x] = IF x = q THEN t ELSE lock[x]
      /\ lock[q] \in {NoTxn, t}
      /\ lock[q] = NoTxn => pending[q] = row[q]
  BY <1>1, <1>2, RowLocked DEF LockRow, Available, Inv, RowInv
<1>4. WellFormed(t)' /\ AutoGrading(t)' /\ Moves(t)
  BY <1>1 DEF WellFormed, HasQuestion, AutoGrading, Moves, Inv, TxnInv
<1>5. PageCurrent(t)'
  <2> SUFFICES ASSUME txn[t].op = "page" PROVE PageCurrent(t)'
    BY <1>1 DEF PageCurrent
  <2>1. \A x \in Questions : lock'[x] = t =>
          pending'[x].modified = row'[x].modified \/ row'[x].modified = txn[t].seen
    BY <1>3, RowSets DEF Inv, TxnInv, PageCurrent
  <2>2. QED
    BY <1>1, <2>1 DEF Inv, TxnInv, PageCurrent
<1>6. QED
  BY <1>1, <1>2, <1>4, <1>5, LockStep

\* assessment_instances_grade marks the questions it has added up.
LEMMA MarkUsedStep ==
  ASSUME Inv, NEW t \in Txns, MarkUsed(t)
  PROVE  Inv'
<1>1. PICK r \in Unmarked(t) : LockRow(t, r) /\ txn[t].pc = "questions" /\ txn' = txn
  BY DEF MarkUsed, At
<1>2. r \in Questions /\ r \in Rows /\ txn[t].q \in Questions
  BY <1>1, RowSets DEF Unmarked, Siblings, Inv, TxnInv, WellFormed, HasQuestion
<1>3. /\ RowInv' /\ UNCHANGED <<row, pending>>
      /\ \A x \in Rows : lock'[x] = IF x = r THEN t ELSE lock[x]
      /\ lock[r] \in {NoTxn, t}
      /\ lock[r] = NoTxn => pending[r] = row[r]
      /\ \A x \in Rows : Sees(t, x)' = Sees(t, x)
      /\ \A a \in Instances : Even(t, a) => Even(t, a)'
      /\ \A u \in Txns \ {t} : Untouched(u) /\ StablePoints(u)
  BY <1>1, <1>2, RowLocked DEF LockRow, Available, Inv, RowInv
<1>4. WellFormed(t)' /\ AutoGrading(t)' /\ Moves(t)
  BY <1>1 DEF WellFormed, HasQuestion, AutoGrading, Moves, Inv, TxnInv
<1>5. PageCurrent(t)'
  <2> SUFFICES ASSUME txn[t].op = "page" PROVE PageCurrent(t)'
    BY <1>1 DEF PageCurrent
  <2>1. \A x \in Questions : lock'[x] = t =>
          pending'[x].modified = row'[x].modified \/ row'[x].modified = txn[t].seen
    BY <1>3, RowSets DEF Inv, TxnInv, PageCurrent
  <2>2. QED
    BY <1>1, <2>1 DEF Inv, TxnInv, PageCurrent
<1>6. Totals(t)'
  <2>1. \A a \in Instances : Even(t, a)' \/ BetweenWrites(t, a)'
    BY <1>1, <1>3 DEF Inv, TxnInv, Totals, BetweenWrites
  <2>2. lock'[txn[t].q] = t
    BY <1>1, <1>2, <1>3, RowSets DEF Inv, TxnInv, Totals
  <2>3. [x \in Questions |-> Sees(t, x)'.points] = [x \in Questions |-> Sees(t, x).points]
    BY <1>3, RowSets
  <2>4. QED
    BY <1>1, <2>1, <2>2, <2>3 DEF Inv, TxnInv, Totals, Siblings, QuestionsOf
<1>7. QED
  BY <1>3, <1>4, <1>5, <1>6, OneMoves DEF Inv, Moves, SameTxn, TxnInv

\* A write that leaves all points as they are.
LEMMA QuietUpdate ==
  ASSUME Inv, NEW t \in Txns, NEW r \in Rows \ Instances, NEW new, UpdateRow(t, r, new),
         r \in Questions => /\ QuestionRow(new)
                            /\ new.points = Sees(t, r).points /\ new.manual = Sees(t, r).manual,
         DOMAIN txn' = Txns, \A u \in Txns \ {t} : SameTxn(u), WellFormed(t)',
         txn[t].pc \notin {"total", "questions"}, txn'[t].pc \notin {"total", "questions"},
         AutoGrading(t)', PageCurrent(t)'
  PROVE  Inv'
<1>1. ASSUME NEW a \in Instances
      PROVE  Even(t, a)'
  <2>1. Even(t, a)
    BY DEF Inv, TxnInv, Totals, BetweenWrites
  <2>2. r # a /\ RowInv /\ (r \in Questions => QuestionRow(new))
        /\ (r \in QuestionsOf(a) => new.points = Sees(t, r).points /\ new.manual = Sees(t, r).manual)
    BY RowSets DEF Inv
  <2>3. QED
    BY <2>1, <2>2, EvenUpdate
<1>2. TxnInv(t)'
  BY <1>1 DEF TxnInv, Totals
<1>3. RowInv' /\ \A u \in Txns \ {t} : Untouched(u) /\ StablePoints(u)
  BY RowUpdated DEF Inv
<1>4. QED
  BY <1>2, <1>3, OneMoves

\* What a transaction sees of a question is whole.
LEMMA SeenRow ==
  ASSUME RowInv, NEW t, NEW q \in Questions
  PROVE  QuestionRow(Sees(t, q))
BY DEF RowInv, Sees

\* update_instance_question_post_submission
LEMMA InsertSubmissionStep ==
  ASSUME Inv, NEW t \in Txns, InsertSubmission(t)
  PROVE  Inv'
<1> DEFINE q   == txn[t].q
           old == Sees(t, q)
           new == Answered(old)
<1>1. /\ UpdateRow(t, q, new) /\ Moves(t) /\ DOMAIN txn'[t] = Fields
      /\ txn[t].pc = "insert" /\ txn'[t].pc = "commit"
      /\ txn'[t].q = q /\ txn'[t].todo = txn[t].todo /\ txn'[t].op = txn[t].op
  BY DEF InsertSubmission, At, GoTo, Moves, Inv, TxnInv, WellFormed, Fields
<1>2. q \in Questions /\ q \in Rows \ Instances
  BY <1>1, RowSets DEF Inv, TxnInv, WellFormed, HasQuestion
<1>3. QuestionRow(new) /\ new.points = old.points /\ new.manual = old.manual
  <2>1. QuestionRow(old)
    BY <1>2, SeenRow DEF Inv
  <2> HIDE DEF old
  <2>2. QED
    BY <2>1 DEF QuestionRow, QuestionFields, Answered
<1>4. txn[t].op # "page"
  BY <1>1 DEF Inv, TxnInv, PageCurrent
<1>5. WellFormed(t)' /\ AutoGrading(t)' /\ PageCurrent(t)' /\ \A u \in Txns \ {t} : SameTxn(u)
  BY <1>1, <1>4 DEF WellFormed, HasQuestion, AutoGrading, PageCurrent, Moves, SameTxn, Inv, TxnInv
<1> HIDE DEF new
<1>6. QED
  BY <1>1, <1>2, <1>3, <1>5, QuietUpdate DEF Moves

\* tag_for_manual_grading
LEMMA TagStep ==
  ASSUME Inv, NEW t \in Txns, Tag(t)
  PROVE  Inv'
<1>1. PICK q \in txn[t].todo :
        /\ UpdateRow(t, q, Tagged(Sees(t, q)))
        /\ Become(t, [pc |-> IF txn[t].todo = {q} THEN "commit" ELSE "tag", todo |-> txn[t].todo \ {q}])
        /\ txn[t].pc = "tag"
  BY DEF Tag, At
<1> DEFINE old == Sees(t, q)
           new == Tagged(old)
<1>2. q \in Questions /\ q \in Rows \ Instances
  BY <1>1, RowSets DEF Inv, TxnInv, WellFormed
<1>3. /\ Moves(t) /\ DOMAIN txn'[t] = Fields /\ txn'[t].pc \in {"commit", "tag"}
      /\ txn'[t].todo = txn[t].todo \ {q} /\ txn'[t].op = txn[t].op /\ txn'[t].seen = txn[t].seen
      /\ txn'[t].pc = "commit" => txn'[t].todo = {}
  BY <1>1 DEF Become, Moves, Inv, TxnInv, WellFormed, Fields
<1>4. /\ QuestionRow(new) /\ new.points = old.points /\ new.manual = old.manual
      /\ new.modified = old.modified
  <2>1. QuestionRow(old)
    BY <1>2, SeenRow DEF Inv
  <2> HIDE DEF old
  <2>2. QED
    BY <2>1 DEF QuestionRow, QuestionFields, Tagged
<1>5. UpdateRow(t, q, new)
  BY <1>1
<1> HIDE DEF new
<1>6. WellFormed(t)' /\ AutoGrading(t)' /\ \A u \in Txns \ {t} : SameTxn(u)
  BY <1>1, <1>3 DEF WellFormed, HasQuestion, AutoGrading, Moves, SameTxn, Inv, TxnInv
<1>7. PageCurrent(t)'
  <2> SUFFICES ASSUME txn[t].op = "page" PROVE PageCurrent(t)'
    BY <1>3 DEF PageCurrent
  <2>1. /\ row' = row
        /\ \A x \in Rows : lock'[x] = IF x = q THEN t ELSE lock[x]
        /\ \A x \in Rows : pending'[x] = IF x = q THEN new ELSE pending[x]
    BY <1>2, <1>4, <1>5, RowUpdated DEF Inv
  <2>2. \A x \in Questions : lock'[x] = t =>
          pending'[x].modified = row'[x].modified \/ row'[x].modified = txn[t].seen
    BY <1>2, <1>4, <2>1, RowSets DEF Inv, TxnInv, PageCurrent, Sees, Holds
  <2>3. QED
    BY <1>3, <2>2 DEF Inv, TxnInv, PageCurrent
<1>8. QED
  BY <1>1, <1>2, <1>3, <1>4, <1>5, <1>6, <1>7, QuietUpdate DEF Moves

\* The rubric is updated.
LEMMA UpdateRubricStep ==
  ASSUME Inv, NEW t \in Txns, UpdateRubric(t)
  PROVE  Inv'
<1>1. /\ UpdateRow(t, AQ, Revised(row[AQ], txn[t].form)) /\ txn[t].pc = "rubric"
      /\ GoTo(t, "review")
  BY DEF UpdateRubric, At
<1>2. AQ \in Rows \ Instances /\ AQ \notin Questions
  BY RowSets
<1>3. DOMAIN txn' = Txns /\ \A u \in Txns \ {t} : SameTxn(u)
  BY <1>1 DEF GoTo, SameTxn, Inv, TxnInv, WellFormed, Fields
<1>4. /\ DOMAIN txn'[t] = Fields /\ txn'[t].pc = "review" /\ txn'[t].todo = txn[t].todo
      /\ txn'[t].op = txn[t].op /\ txn'[t].seen = txn[t].seen
  BY <1>1 DEF GoTo, Inv, TxnInv, WellFormed, Fields
<1>5. WellFormed(t)' /\ AutoGrading(t)'
  BY <1>1, <1>4 DEF WellFormed, HasQuestion, AutoGrading, Inv, TxnInv
<1>6. PageCurrent(t)'
  <2> SUFFICES ASSUME txn[t].op = "page" PROVE PageCurrent(t)'
    BY <1>4 DEF PageCurrent
  <2>1. /\ row' = row
        /\ \A x \in Questions : lock'[x] = lock[x] /\ pending'[x] = pending[x]
    BY <1>1, <1>2, RowUpdated, RowSets DEF Inv
  <2>2. \A x \in Questions : lock'[x] = t =>
          pending'[x].modified = row'[x].modified \/ row'[x].modified = txn[t].seen
    BY <2>1 DEF Inv, TxnInv, PageCurrent
  <2>3. QED
    BY <1>4, <2>2 DEF Inv, TxnInv, PageCurrent
<1>7. QED
  BY <1>1, <1>2, <1>3, <1>4, <1>5, <1>6, QuietUpdate

\* New points of a question: its assessment instance is next.
LEMMA ScoreWritten ==
  ASSUME Inv, NEW t \in Txns, NEW q \in Questions, q = txn[t].q,
         NEW new, QuestionRow(new), UpdateRow(t, q, new), Moves(t),
         DOMAIN txn'[t] = Fields, txn[t].pc \in {"write", "store"}, txn'[t].pc = "total",
         txn'[t].q = q, txn'[t].todo = txn[t].todo, PageCurrent(t)'
  PROVE  Inv'
<1>1. q \in Rows /\ q \notin Instances
  BY RowSets
<1>2. /\ RowInv' /\ \A x \in Rows : lock'[x] = IF x = q THEN t ELSE lock[x]
      /\ \A u \in Txns \ {t} : Untouched(u) /\ StablePoints(u)
  BY <1>1, RowUpdated DEF Inv
<1>3. ASSUME NEW a \in Instances, a # InstanceOf[q]
      PROVE  Even(t, a)'
  <2>1. Even(t, a) /\ q # a /\ q \notin QuestionsOf(a) /\ RowInv
    BY <1>1, <1>3 DEF Inv, TxnInv, Totals, BetweenWrites, QuestionsOf
  <2>2. QED
    BY <1>1, <2>1, EvenUpdate
<1>4. Totals(t)'
  BY <1>1, <1>2, <1>3 DEF Totals, BetweenWrites
<1>5. WellFormed(t)' /\ AutoGrading(t)' /\ \A u \in Txns \ {t} : SameTxn(u)
  BY DEF WellFormed, HasQuestion, AutoGrading, Moves, SameTxn, Inv, TxnInv
<1>6. QED
  BY <1>2, <1>4, <1>5, OneMoves DEF Inv, Moves, TxnInv

\* update_submission_score and update_instance_question_score
LEMMA WriteScoreStep ==
  ASSUME Inv, NEW t \in Txns, WriteScore(t)
  PROVE  Inv'
<1> DEFINE q   == txn[t].q
           old == Sees(t, q)
           new == Scored(old, txn[t].score, txn[t].submission, GradingOf(t))
<1>1. txn[t].pc = "write" /\ q \in Questions /\ q \in Rows /\ q \notin Instances
  BY RowSets DEF WriteScore, At, Inv, TxnInv, WellFormed, HasQuestion
<1>2. CASE txn[t].conflict
  <2>1. /\ Moves(t) /\ UNCHANGED rowVars /\ DOMAIN txn'[t] = Fields
        /\ txn'[t].pc \in {"recompute", "commit"} /\ txn'[t].todo = txn[t].todo
        /\ txn'[t].op = txn[t].op /\ txn'[t].seen = txn[t].seen
    BY <1>2 DEF WriteScore, GoTo, Updated, Moves, Inv, TxnInv, WellFormed, Fields
  <2>2. WellFormed(t)' /\ AutoGrading(t)' /\ PageCurrent(t)'
    BY <1>1, <2>1 DEF WellFormed, HasQuestion, AutoGrading, PageCurrent, Inv, TxnInv, rowVars
  <2>3. QED
    BY <1>1, <2>1, <2>2, ReadStep
<1>3. CASE ~txn[t].conflict
  <2>1. /\ UpdateRow(t, q, new) /\ Moves(t) /\ DOMAIN txn'[t] = Fields
        /\ txn'[t].pc = "total" /\ txn'[t].q = q /\ txn'[t].todo = txn[t].todo
        /\ txn'[t].op = txn[t].op /\ txn'[t].seen = txn[t].seen
    BY <1>3 DEF WriteScore, GoTo, Moves, Inv, TxnInv, WellFormed, Fields
  <2>2. QuestionRow(new)
    <3>1. QuestionRow(old)
      BY <1>1, SeenRow DEF Inv
    <3> HIDE DEF old
    <3>2. QED
      BY <3>1 DEF Scored, QuestionRow, QuestionFields
  <2> HIDE DEF new
  <2>3. PageCurrent(t)'
    <3> SUFFICES ASSUME txn[t].op = "page" PROVE PageCurrent(t)'
      BY <2>1 DEF PageCurrent
    <3>1. row[q].modified = txn[t].seen
      BY <1>1, <1>3 DEF Inv, TxnInv, PageCurrent
    <3>2. /\ row' = row
          /\ \A x \in Rows : lock'[x] = IF x = q THEN t ELSE lock[x]
          /\ \A x \in Rows : pending'[x] = IF x = q THEN new ELSE pending[x]
      BY <1>1, <2>1, <2>2, RowUpdated DEF Inv
    <3>3. \A x \in Questions : lock'[x] = t =>
            pending'[x].modified = row'[x].modified \/ row'[x].modified = txn[t].seen
      BY <3>1, <3>2, RowSets DEF Inv, TxnInv, PageCurrent
    <3>4. QED
      BY <2>1, <3>3 DEF Inv, TxnInv, PageCurrent
  <2>4. QED
    BY <1>1, <2>1, <2>2, <2>3, ScoreWritten
<1>4. QED
  BY <1>2, <1>3

\* instance_questions_points reads the manual points,
LEMMA ComputePointsStep ==
  ASSUME Inv, NEW t \in Txns, ComputePoints(t)
  PROVE  Inv'
<1>1. PICK auto \in AutoPoints :
        Become(t, [pc |-> "store", score |-> [NoScore EXCEPT !.auto = auto],
                   points |-> auto + Sees(t, txn[t].q).manual])
  BY DEF ComputePoints
<1>2. txn[t].pc = "grade" /\ UNCHANGED rowVars /\ txn[t].q \in Questions
  BY DEF ComputePoints, At, Inv, TxnInv, WellFormed, HasQuestion
<1>3. /\ Moves(t) /\ DOMAIN txn'[t] = Fields /\ txn'[t].pc = "store"
      /\ txn'[t].q = txn[t].q /\ txn'[t].todo = txn[t].todo
      /\ txn'[t].op = txn[t].op /\ txn'[t].seen = txn[t].seen
      /\ txn'[t].score.auto = auto /\ txn'[t].points = auto + Sees(t, txn[t].q).manual
  BY <1>1, <1>2 DEF Become, NoScore, Moves, Inv, TxnInv, WellFormed, Fields
<1>4. AutoGrading(t)'
  BY <1>2, <1>3 DEF AutoGrading, Sees, Holds, rowVars, Inv, TxnInv
<1>5. WellFormed(t)' /\ PageCurrent(t)'
  BY <1>2, <1>3 DEF WellFormed, HasQuestion, PageCurrent, rowVars, Inv, TxnInv
<1>6. QED
  BY <1>2, <1>3, <1>4, <1>5, ReadStep

\* and instance_questions_grade stores the sum.
LEMMA StorePointsStep ==
  ASSUME Inv, NEW t \in Txns, StorePoints(t)
  PROVE  Inv'
<1> DEFINE q   == txn[t].q
           old == Sees(t, q)
           new == [old EXCEPT !.auto = txn[t].score.auto, !.points = txn[t].points]
<1>1. txn[t].pc = "store" /\ q \in Questions /\ q \in Rows /\ q \notin Instances
  BY RowSets DEF StorePoints, At, Inv, TxnInv, WellFormed, HasQuestion
<1>2. /\ UpdateRow(t, q, new) /\ Moves(t) /\ DOMAIN txn'[t] = Fields
      /\ txn'[t].pc = "total" /\ txn'[t].q = q /\ txn'[t].todo = txn[t].todo
      /\ txn'[t].op = txn[t].op /\ txn'[t].seen = txn[t].seen
  BY DEF StorePoints, GoTo, Moves, Inv, TxnInv, WellFormed, Fields
<1>3. QuestionRow(new) /\ new.modified = old.modified
  <2>1. QuestionRow(old) /\ txn[t].points = txn[t].score.auto + old.manual
    BY <1>1, SeenRow DEF Inv, TxnInv, AutoGrading
  <2> HIDE DEF old
  <2>2. QED
    BY <2>1 DEF QuestionRow, QuestionFields
<1> HIDE DEF new
<1>4. PageCurrent(t)'
  <2> SUFFICES ASSUME txn[t].op = "page" PROVE PageCurrent(t)'
    BY <1>2 DEF PageCurrent
  <2>1. /\ row' = row
        /\ \A x \in Rows : lock'[x] = IF x = q THEN t ELSE lock[x]
        /\ \A x \in Rows : pending'[x] = IF x = q THEN new ELSE pending[x]
    BY <1>1, <1>2, <1>3, RowUpdated DEF Inv
  <2>2. \A x \in Questions : lock'[x] = t =>
          pending'[x].modified = row'[x].modified \/ row'[x].modified = txn[t].seen
    BY <1>1, <1>3, <2>1, RowSets DEF Inv, TxnInv, PageCurrent, Sees, Holds
  <2>3. QED
    BY <1>2, <2>2 DEF Inv, TxnInv, PageCurrent
<1>5. QED
  BY <1>1, <1>2, <1>3, <1>4, ScoreWritten

\* The instance gets the total when all its questions are locked.
LEMMA UpdateInstanceStep ==
  ASSUME Inv, NEW t \in Txns, UpdateInstance(t)
  PROVE  Inv'
<1> DEFINE new == [points |-> txn[t].total]
<1>1. PICK a \in Instances :
        /\ txn[t].pc = "questions" /\ a = InstanceOf[txn[t].q]
        /\ txn[t].q \in Questions /\ a \in Rows /\ a \notin Questions
  BY RowSets DEF UpdateInstance, At, Inv, TxnInv, WellFormed, HasQuestion
<1>2. /\ UpdateRow(t, a, new) /\ Moves(t) /\ DOMAIN txn'[t] = Fields
      /\ txn'[t].pc \in {"recompute", "commit"} /\ txn'[t].todo = txn[t].todo
      /\ txn'[t].op = txn[t].op /\ txn'[t].seen = txn[t].seen
  BY <1>1 DEF UpdateInstance, GoTo, Updated, Moves, Inv, TxnInv, WellFormed, Fields
<1>3. /\ RowInv' /\ row' = row
      /\ \A x \in Rows : lock'[x] = IF x = a THEN t ELSE lock[x]
      /\ \A x \in Rows : pending'[x] = IF x = a THEN new ELSE pending[x]
      /\ \A u \in Txns \ {t} : Untouched(u) /\ StablePoints(u)
  BY <1>1, <1>2, RowUpdated DEF Inv
<1>4. ASSUME NEW b \in Instances, b # a
      PROVE  Even(t, b)'
  <2>1. Even(t, b) /\ a \notin QuestionsOf(b) /\ RowInv
    BY <1>1, <1>4, RowSets DEF Inv, TxnInv, Totals, BetweenWrites
  <2>2. QED
    BY <1>1, <1>2, <1>4, <2>1, EvenUpdate
<1>5. Settled(t, a)'
  <2>1. \A q \in QuestionsOf(a) : lock[q] = t
    BY <1>1 DEF UpdateInstance, Unmarked, Siblings, Holds
  <2>2. \A q \in QuestionsOf(a) : lock'[q] = t /\ pending'[q] = pending[q]
    BY <1>1, <1>3, <2>1, RowSets
  <2>3. txn[t].total = PointsIn(pending', a)
    <3> DEFINE f == [r \in Questions |-> Sees(t, r).points]
               g == [r \in Questions |-> pending'[r].points]
    <3>1. \A q \in QuestionsOf(a) : f[q] = g[q]
      BY <2>1, <2>2, RowSets DEF Sees, Holds
    <3>2. txn[t].total = SumFunctionOnSet(f, QuestionsOf(a))
      BY <1>1 DEF Siblings, Inv, TxnInv, Totals
    <3> HIDE DEF f
    <3>3. PointsIn(pending', a) = SumFunctionOnSet(g, QuestionsOf(a))
      BY DEF PointsIn
    <3> HIDE DEF g
    <3>4. QED
      BY <3>1, <3>2, <3>3, RowSets, SameSum
  <2>4. lock'[a] = t /\ pending'[a].points = txn[t].total
    BY <1>1, <1>3
  <2>5. PointsIn(pending, a)' = PointsIn(pending', a)
    BY DEF PointsIn
  <2>6. QED
    BY <2>2, <2>3, <2>4, <2>5 DEF Settled, Holds
<1>6. Totals(t)'
  BY <1>2, <1>4, <1>5 DEF Totals, Even
<1>7. WellFormed(t)' /\ AutoGrading(t)' /\ \A u \in Txns \ {t} : SameTxn(u)
  BY <1>1, <1>2 DEF WellFormed, HasQuestion, AutoGrading, Moves, SameTxn, Inv, TxnInv
<1>8. PageCurrent(t)'
  <2> SUFFICES ASSUME txn[t].op = "page" PROVE PageCurrent(t)'
    BY <1>2 DEF PageCurrent
  <2>1. \A x \in Questions : lock'[x] = t =>
          pending'[x].modified = row'[x].modified \/ row'[x].modified = txn[t].seen
    BY <1>1, <1>3, RowSets DEF Inv, TxnInv, PageCurrent
  <2>2. QED
    BY <1>2, <2>1 DEF Inv, TxnInv, PageCurrent
<1>9. QED
  BY <1>2, <1>3, <1>6, <1>7, <1>8, OneMoves DEF Moves, TxnInv

\* A transaction that has ended holds nothing.
LEMMA EndStep ==
  ASSUME Inv, NEW t \in Txns, End(t), RowInv', \A r \in Rows : lock'[r] # t,
         \A u \in Txns \ {t} : Untouched(u) /\ StablePoints(u)
  PROVE  Inv'
<1>1. /\ Moves(t) /\ DOMAIN txn'[t] = Fields /\ txn'[t].pc = "done" /\ txn'[t].op = "none"
      /\ txn'[t].todo = {}
  BY DEF End, NewTxn, Moves, Fields, Inv
<1>2. \A a \in Instances : Even(t, a)'
  BY RowSets DEF Even, Kept, Holds
<1>3. TxnInv(t)' /\ \A u \in Txns \ {t} : SameTxn(u)
  BY <1>1, <1>2 DEF TxnInv, WellFormed, HasQuestion, Totals, AutoGrading, PageCurrent, Moves, SameTxn
<1>4. QED
  BY <1>1, <1>3, OneMoves DEF Moves

LEMMA CommitStep ==
  ASSUME Inv, NEW t \in Txns, CommitTxn(t)
  PROVE  Inv'
<1>1. txn[t].pc = "commit" /\ Commit(t) /\ End(t)
  BY DEF CommitTxn, At
<1>2. \A a \in Instances : Even(t, a)
  BY <1>1 DEF Inv, TxnInv, Totals, BetweenWrites
<1>3. QED
  BY <1>1, <1>2, RowsCommitted, EndStep DEF Inv

LEMMA AbortStep ==
  ASSUME Inv, NEW t \in Txns, Abort(t)
  PROVE  Inv'
<1>1. Rollback(t) /\ End(t)
  BY DEF Abort
<1>2. QED
  BY <1>1, RowsRolledBack, EndStep DEF Inv

LEMMA ReassignStep ==
  ASSUME Inv, NEW q \in Questions, NEW required \in BOOLEAN, Reassign(q, required)
  PROVE  Inv'
<1>1. RowInv' /\ txn' = txn /\ \A u \in Txns : SameTxn(u) /\ Untouched(u) /\ StablePoints(u)
  BY RowReassigned DEF Reassign, SameTxn, Inv
<1>2. QED
  BY <1>1, OthersKeep DEF Inv

-----------------------------------------------------------------------------
(* The theorems. *)

LEMMA InitInv == Init => Inv
<1> SUFFICES ASSUME Init PROVE Inv
  OBVIOUS
<1>1. /\ DOMAIN row = Rows /\ pending = row
      /\ \A r \in Rows : lock[r] = NoTxn
      /\ lock \in [Rows -> Txns \cup {NoTxn}]
      /\ \A q \in Questions : row[q] = NewQuestion
      /\ \A a \in Instances : row[a].points = 0
  BY RowSets DEF Init, RowsInit
<1>2. QuestionRow(NewQuestion) /\ NewQuestion.points = 0
  BY DEF NewQuestion, QuestionRow, QuestionFields
<1>3. ASSUME NEW a \in Instances
      PROVE  PointsIn(row, a) = 0
  <2> DEFINE f == [q \in Questions |-> row[q].points]
  <2>1. \A q \in QuestionsOf(a) : f[q] = 0
    BY <1>1, <1>2, RowSets
  <2>2. PointsIn(row, a) = SumFunctionOnSet(f, QuestionsOf(a))
    BY DEF PointsIn
  <2> HIDE DEF f
  <2>3. QED
    BY <2>1, <2>2, RowSets, SumOfZeros
<1>4. RowInv
  BY <1>1, <1>2, <1>3 DEF RowInv
<1>5. ASSUME NEW t \in Txns
      PROVE  TxnInv(t)
  <2>1. /\ DOMAIN txn[t] = Fields /\ txn[t].pc = "idle" /\ txn[t].op = "none" /\ txn[t].todo = {}
    BY DEF Init, NewTxn, Fields
  <2>2. /\ \A r \in Rows : lock[r] # t
        /\ \A a \in Instances : Even(t, a)
    BY <1>1, RowSets DEF Even, Kept, Holds
  <2>3. QED
    BY <2>1, <2>2 DEF TxnInv, WellFormed, HasQuestion, Totals, AutoGrading, PageCurrent
<1>6. DOMAIN txn = Txns
  BY DEF Init
<1>7. QED
  BY <1>4, <1>5, <1>6 DEF Inv

LEMMA NextInv == Inv /\ [Next]_vars => Inv'
<1> SUFFICES ASSUME Inv, [Next]_vars PROVE Inv'
  OBVIOUS
<1>1. ASSUME NEW t \in Txns, CommitTxn(t)
      PROVE  Inv'
  BY <1>1, CommitStep
<1>2. ASSUME NEW t \in Txns, Step(t)
      PROVE  Inv'
  BY <1>2, ScoreReads, LockQuestionStep, WriteScoreStep, TotalStep, MarkUsedStep,
     UpdateInstanceStep, LockInstanceStep, ComputePointsStep, StorePointsStep,
     InsertSubmissionStep, UpdateRubricStep, EditReads, LockReviewedStep, TagStep, AbortStep
     DEF Step
<1>3. ASSUME NEW t \in Txns, Start(t)
      PROVE  Inv'
  BY <1>3, OpenStep, RequestSteps, ScoreReads DEF Start
<1>4. ASSUME NEW q \in Questions, NEW required \in BOOLEAN, Reassign(q, required)
      PROVE  Inv'
  BY <1>4, ReassignStep
<1>5. CASE UNCHANGED vars
  <2>1. RowInv' /\ txn' = txn /\ \A u \in Txns : SameTxn(u) /\ Untouched(u) /\ StablePoints(u)
    BY <1>5, RowsKept DEF vars, SameTxn, Inv
  <2>2. QED
    BY <2>1, OthersKeep DEF Inv
<1>6. QED
  BY <1>1, <1>2, <1>3, <1>4, <1>5 DEF Next

\* Whatever transactions of graders, uploads, edits and students do at the same
\* time, each assessment instance, each question and each transaction is in order.
THEOREM Invariance == Spec => []Inv
<1>1. QED
  BY InitInv, NextInv, PTL DEF Spec

\* Committed points add up: those of a question from its automatic and manual
\* points, those of an assessment instance from its questions.
THEOREM CommittedPointsAddUp == Spec => []PointsAddUp
<1>1. Inv => PointsAddUp
  BY DEF Inv, RowInv, QuestionRow, PointsIn, PointsAddUp
<1>2. QED
  BY <1>1, Invariance, PTL

\* Only a commit and a reassignment change what is committed.
LEMMA CommittedBy ==
  ASSUME NEW t \in Txns, Start(t) \/ Step(t)
  PROVE  row' = row
<1>1. CASE Start(t)
  BY <1>1 DEF Start, Open, Upload, Grade, Save, Submit, Edit, rowVars
<1>2. CASE Step(t)
  BY <1>2 DEF Step, SelectSubmission, LockQuestion, SelectItems, InsertGrading, WriteScore, Total,
     MarkUsed, UpdateInstance, LockInstance, ComputePoints, StorePoints, InsertSubmission,
     UpdateRubric, Review, LockReviewed, ReviewedLocked, Recompute, Recomputed, Tag, Abort,
     LockRow, UpdateRow, Rollback, rowVars
<1>3. QED
  BY <1>1, <1>2

\* Points that a grader submits from a page replace what was shown on it: if the
\* question was modified since, by a student or by another grader, they do not.
THEOREM GradersReplaceWhatTheySaw == Spec => GraderSawLatest
<1>1. ASSUME Inv, [Next]_vars, NEW t \in Txns, txn[t].op = "page", NEW q \in Questions,
             Holds(t, q), row'[q].modified # row[q].modified
      PROVE  row[q].modified = txn[t].seen
  <2>1. q \in Rows /\ lock[q] = t
    BY <1>1, RowSets DEF Holds
  <2>2. CASE CommitTxn(t)
    <3>1. row'[q] = pending[q]
      BY <2>1, <2>2 DEF CommitTxn, Commit, Sees, Holds
    <3>2. QED
      BY <1>1, <2>1, <3>1 DEF Inv, TxnInv, PageCurrent
  <2>3. ASSUME NEW u \in Txns, CommitTxn(u), u # t
        PROVE  FALSE
    <3>1. \A a \in Instances : Even(u, a)
      BY <1>1, <2>3 DEF CommitTxn, At, Inv, TxnInv, Totals, BetweenWrites
    <3>2. Untouched(t)
      BY <1>1, <2>3, <3>1, RowsCommitted DEF CommitTxn, Inv
    <3>3. QED
      BY <1>1, <2>1, <3>2 DEF Untouched
  <2>4. ASSUME NEW u \in Txns, Start(u) \/ Step(u)
        PROVE  FALSE
    BY <1>1, <2>4, CommittedBy
  <2>5. ASSUME NEW r \in Questions, NEW required \in BOOLEAN, Reassign(r, required)
        PROVE  FALSE
    <3>1. Untouched(t)
      BY <1>1, <2>5, RowReassigned DEF Inv
    <3>2. QED
      BY <1>1, <2>1, <3>1 DEF Untouched
  <2>6. CASE UNCHANGED vars
    BY <1>1, <2>6 DEF vars, rowVars
  <2>7. QED
    BY <1>1, <2>2, <2>3, <2>4, <2>5, <2>6 DEF Next
<1>2. Inv /\ [Next]_vars =>
        [\A t \in Txns : txn[t].op = "page" =>
           \A q \in Questions : Holds(t, q) /\ row'[q].modified # row[q].modified =>
             row[q].modified = txn[t].seen]_vars
  BY <1>1
<1>3. QED
  BY <1>2, Invariance, PTL DEF Spec, GraderSawLatest

-----------------------------------------------------------------------------
(* Gradings. *)

\* The gradings of a question: one for each of its submissions.
GradingSeq(s) ==
  /\ s \in Seq(Range(s)) /\ Len(s) >= 1
  /\ \A i \in 1..Len(s) : s[i].applied \subseteq Items

LEMMA SubsetsOfItems ==
  ASSUME NEW S, S \subseteq Items
  PROVE  IsFiniteSet(S)
BY ScoresAssumption, FS_Subset

-----------------------------------------------------------------------------
(* The last grading of a question. *)

LEMMA LastGraded ==
  ASSUME NEW x, GradingSeq(x.grading), Graded(x) # {}
  PROVE  /\ Max(Graded(x)) \in Graded(x) /\ Graded(x) \subseteq 1..Len(x.grading)
         /\ \A i \in Graded(x) : i <= Max(Graded(x))
<1> DEFINE S == Graded(x)
           g == [i \in S |-> i]
<1>1. Len(x.grading) \in Nat /\ DOMAIN x.grading = 1..Len(x.grading)
  BY DEF GradingSeq
<1>2. S \subseteq 1..Len(x.grading) /\ IsFiniteSet(1..Len(x.grading))
  BY <1>1, FS_Interval DEF Graded
<1>3. IsFiniteSet(S) /\ \A i \in S : g[i] \in Int
  BY <1>1, <1>2, FS_Subset
<1>4. S # {}
  OBVIOUS
<1> HIDE DEF S
<1>5. PICK m \in S : \A y \in S : g[m] >= g[y]
  <2> HIDE DEF g
  <2>1. QED
    BY <1>3, <1>4, LargestValue
<1>6. Max(S) \in S /\ \A y \in S : Max(S) >= y
  BY <1>5 DEF Max
<1>7. QED
  BY <1>1, <1>2, <1>6 DEF S

\* A grading is written at a submission.
LEMMA GradingSet ==
  ASSUME NEW s, GradingSeq(s), NEW k \in 1..Len(s), NEW g, g.applied \subseteq Items
  PROVE  LET n == [s EXCEPT ![k] = g] IN
         /\ GradingSeq(n) /\ Len(n) = Len(s) /\ n[k] = g
         /\ \A i \in 1..Len(s) : i # k => n[i] = s[i]
<1> DEFINE n == [s EXCEPT ![k] = g]
<1>1. /\ Len(s) \in Nat /\ DOMAIN s = 1..Len(s)
      /\ s = [i \in 1..Len(s) |-> s[i]]
  BY DEF GradingSeq
<1>2. n = [i \in 1..Len(s) |-> IF i = k THEN g ELSE s[i]]
  BY <1>1
<1> DEFINE R == Range(n)
<1>3. n \in [1..Len(s) -> R]
  BY <1>2 DEF Range
<1>4. n \in Seq(R) /\ Len(n) = Len(s)
  <2> HIDE DEF n, R
  <2>1. n \in Seq(R)
    BY <1>1, <1>3
  <2>2. QED
    BY <1>1, <1>3, <2>1
<1>5. QED
  BY <1>2, <1>4 DEF GradingSeq

\* A submission is saved.
LEMMA GradingAdded ==
  ASSUME NEW s, GradingSeq(s)
  PROVE  LET n == Append(s, NoGrading) IN
         /\ GradingSeq(n) /\ Len(n) = Len(s) + 1 /\ n[Len(n)] = NoGrading
         /\ \A i \in 1..Len(s) : n[i] = s[i]
<1> DEFINE n == Append(s, NoGrading)
           S == Range(s) \cup {NoGrading}
<1>1. s \in Seq(S) /\ NoGrading \in S /\ Len(s) \in Nat
  BY DEF GradingSeq
<1>2. /\ n \in Seq(S) /\ Len(n) = Len(s) + 1 /\ n[Len(s) + 1] = NoGrading
      /\ \A i \in 1..Len(s) : n[i] = s[i]
  <2> HIDE DEF S
  <2>1. QED
    BY <1>1
<1> DEFINE R == Range(n)
<1>3. n \in [1..Len(n) -> R]
  <2> HIDE DEF n, S
  <2>1. DOMAIN n = 1..Len(n) /\ n = [i \in 1..Len(n) |-> n[i]]
    BY <1>2
  <2>2. \A i \in 1..Len(n) : n[i] \in R
    BY <2>1 DEF Range
  <2>3. QED
    BY <2>1, <2>2
<1>4. n \in Seq(R)
  <2> HIDE DEF n, R
  <2>1. Len(n) \in Nat
    BY <1>1, <1>2
  <2>2. QED
    BY <1>3, <2>1
<1>5. \A i \in 1..Len(n) : n[i].applied \subseteq Items
  BY <1>1, <1>2 DEF GradingSeq, NoGrading
<1> HIDE DEF n
<1>6. QED
  BY <1>1, <1>2, <1>4, <1>5 DEF GradingSeq, n

-----------------------------------------------------------------------------
(* What transactions know of the rubric and of the gradings. *)

\* The statements of each kind of request.
Staged(t) ==
  \/ /\ txn[t].op = "none" /\ txn[t].pc \in {"idle", "done"}
     /\ txn[t].seen = 0 /\ ~txn[t].conflict /\ txn[t].todo = {}
  \/ txn[t].op = "page" /\ txn[t].pc \in {"opened", "select", "lock", "items", "grading", "write",
                                          "total", "questions", "commit"}
  \/ txn[t].op = "upload" /\ txn[t].pc \in {"select", "lock", "write", "total", "questions", "commit"}
  \/ txn[t].op = "edit" /\ txn[t].pc \in {"rubric", "review", "wait", "recompute", "select", "lock",
                                          "items", "grading", "write", "total", "questions", "tag",
                                          "commit"}
  \/ txn[t].op = "auto" /\ txn[t].pc \in {"instance", "grade", "store", "total", "questions", "commit"}
  \/ txn[t].op = "save" /\ txn[t].pc \in {"instance", "insert", "commit"}

HoldsNoQuestion(t) == \A q \in Questions : lock[q] # t

\* Only gradings are written for submissions, at their place: what is pending is
\* never shorter, and only as long as what is committed if the question is not
\* modified.
GradingRows ==
  \A q \in Questions :
    /\ GradingSeq(row[q].grading) /\ GradingSeq(pending[q].grading)
    /\ Len(row[q].grading) <= Len(pending[q].grading)
    /\ row[q].modified <= pending[q].modified
    /\ row[q].modified = pending[q].modified => Len(row[q].grading) = Len(pending[q].grading)

Scores(t) == txn[t].op \in {"page", "upload"}
Before(t) == txn[t].pc \in {"opened", "select", "lock"}

\* A score locks its question and writes one grading there.
Scoring(t) ==
  /\ txn[t].q \in Questions /\ lock[AQ] # t
  /\ txn[t].submission \in 1..Len(row[txn[t].q].grading)
  /\ IF Before(t) THEN HoldsNoQuestion(t) ELSE lock[txn[t].q] = t
  /\ txn[t].pc # "opened" =>
       /\ txn[t].score.applied \subseteq Items
       /\ txn[t].score.rubric <=> txn[t].op = "page" /\ txn[t].q \in Rubriced

Written(t) == txn[t].pc \in {"total", "questions", "commit"} /\ ~txn[t].conflict

Writing(t) ==
  \A q \in Questions : lock[q] = t =>
    pending[q].grading =
      IF q = txn[t].q /\ Written(t) THEN [row[q].grading EXCEPT ![txn[t].submission] = GradingOf(t)]
                                    ELSE row[q].grading

\* A page that is current grades the last submission.
PageLast(t) ==
  txn[t].op = "page" =>
    LET question == row[txn[t].q] IN
    /\ txn[t].seen \in Nat \ {0} /\ txn[t].seen <= question.modified
    /\ question.modified = txn[t].seen => txn[t].submission = Len(question.grading)
    /\ ~Before(t) /\ ~txn[t].conflict => question.modified = txn[t].seen

\* Students save submissions without a grading; automatic grading changes none.
Answering(t) ==
  txn[t].op \notin {"page", "upload", "edit"} =>
    /\ lock[AQ] # t
    /\ txn[t].pc \in {"instance", "grade", "store", "insert"} => txn[t].q \in Questions
    /\ txn[t].pc \in {"instance", "insert"} => HoldsNoQuestion(t)
    /\ \A q \in Questions : lock[q] = t =>
         pending[q].grading \in {row[q].grading, Append(row[q].grading, NoGrading)}

Editing(t) == txn[t].pc \in {"select", "lock", "items", "grading", "write", "total", "questions"}

\* An edit of the rubric knows the gradings it found, and scores them.
Recomputing(t) ==
  txn[t].op = "edit" =>
    /\ txn[t].seen = 0 /\ ~txn[t].conflict
    /\ IF txn[t].pc = "rubric" THEN lock[AQ] # t ELSE lock[AQ] = t
    /\ txn[t].pc \in {"rubric", "review"} => HoldsNoQuestion(t)
    /\ Editing(t) => /\ txn[t].q \in Questions
                     /\ txn[t].submission \in 1..Len(Sees(t, txn[t].q).grading)
                     /\ txn[t].score.rubric /\ txn[t].score.applied \subseteq Items
    /\ txn[t].pc = "commit" => txn[t].todo = {}
    /\ txn[t].pc \notin {"rubric", "review"} =>
         /\ txn[t].pc # "tag" => txn[t].todo \subseteq DOMAIN txn[t].found
         /\ \A q \in DOMAIN txn[t].found :
              /\ q \in Rubriced /\ txn[t].found[q].applied \subseteq Items
              /\ txn[t].found[q].submission \in 1..Len(Sees(t, q).grading)

EditInv(t) ==
  /\ Staged(t) /\ txn[t].grading.applied \subseteq Items
  /\ txn[t].pc = "grading" => "applied" \in DOMAIN txn[t].grading
  /\ Scores(t) => Scoring(t) /\ Writing(t) /\ PageLast(t)
  /\ Answering(t) /\ Recomputing(t)

GradingInv == GradingRows /\ \A t \in Txns : EditInv(t)

-----------------------------------------------------------------------------
(* What others do. *)

\* The gradings that are committed stay as they are.
GradingsStay ==
  \A q \in Questions : row'[q].grading = row[q].grading /\ row'[q].modified = row[q].modified

\* What is the same for a transaction that does not move.
LEMMA StillThere ==
  ASSUME Inv, NEW u \in Txns, SameTxn(u), Untouched(u)
  PROVE  /\ txn'[u].op = txn[u].op /\ txn'[u].pc = txn[u].pc /\ txn'[u].q = txn[u].q
         /\ txn'[u].submission = txn[u].submission /\ txn'[u].seen = txn[u].seen
         /\ txn'[u].score = txn[u].score /\ txn'[u].conflict = txn[u].conflict
         /\ txn'[u].grading = txn[u].grading /\ txn'[u].todo = txn[u].todo
         /\ txn'[u].found = txn[u].found
         /\ (Scores(u) <=> Scores(u)') /\ (Before(u) <=> Before(u)') /\ (Written(u) <=> Written(u)')
         /\ (Editing(u) <=> Editing(u)') /\ (Staged(u) <=> Staged(u)')
         /\ GradingOf(u)' = GradingOf(u)
         /\ (HoldsNoQuestion(u) <=> HoldsNoQuestion(u)')
         /\ \A q \in Questions : /\ lock'[q] = u <=> lock[q] = u
                                 /\ lock[q] = u => pending'[q] = pending[q] /\ row'[q] = row[q]
                                                   /\ Sees(u, q)' = Sees(u, q)
         /\ lock'[AQ] = u <=> lock[AQ] = u
         /\ lock[AQ] = u => pending'[AQ] = pending[AQ]
<1>1. /\ txn'[u].op = txn[u].op /\ txn'[u].pc = txn[u].pc /\ txn'[u].q = txn[u].q
      /\ txn'[u].submission = txn[u].submission /\ txn'[u].seen = txn[u].seen
      /\ txn'[u].score = txn[u].score /\ txn'[u].conflict = txn[u].conflict
      /\ txn'[u].grading = txn[u].grading /\ txn'[u].todo = txn[u].todo
      /\ txn'[u].found = txn[u].found
  BY DEF SameTxn
<1>2. /\ \A q \in Questions : /\ lock'[q] = u <=> lock[q] = u
                              /\ lock[q] = u => pending'[q] = pending[q] /\ row'[q] = row[q]
      /\ lock'[AQ] = u <=> lock[AQ] = u
      /\ lock[AQ] = u => pending'[AQ] = pending[AQ]
  BY RowSets DEF Untouched
<1>3. /\ (Scores(u) <=> Scores(u)') /\ (Before(u) <=> Before(u)') /\ (Written(u) <=> Written(u)')
      /\ (Editing(u) <=> Editing(u)') /\ (Staged(u) <=> Staged(u)')
      /\ GradingOf(u)' = GradingOf(u)
  BY <1>1 DEF Scores, Before, Written, Editing, Staged, GradingOf
<1>4. (HoldsNoQuestion(u) <=> HoldsNoQuestion(u)')
  BY <1>2 DEF HoldsNoQuestion
<1>5. \A q \in Questions : lock[q] = u => Sees(u, q)' = Sees(u, q)
  BY <1>2 DEF Sees, Holds
<1>6. QED
  BY <1>1, <1>2, <1>3, <1>4, <1>5

\* What a transaction has yet to commit is not touched.
LEMMA OthersWrite ==
  ASSUME Inv, NEW u \in Txns, SameTxn(u), Untouched(u), Writing(u)
  PROVE  Writing(u)'
<1>1. /\ txn'[u].q = txn[u].q /\ txn'[u].submission = txn[u].submission
      /\ (Written(u)' <=> Written(u)) /\ GradingOf(u)' = GradingOf(u)
      /\ \A x \in Questions : lock'[x] = u =>
           lock[x] = u /\ pending'[x] = pending[x] /\ row'[x] = row[x]
  BY StillThere
<1> DEFINE W(x, put) == IF put THEN [row[x].grading EXCEPT ![txn[u].submission] = GradingOf(u)]
                               ELSE row[x].grading
<1>2. \A x \in Questions : lock[x] = u => pending[x].grading = W(x, x = txn[u].q /\ Written(u))
  BY DEF Writing
<1>3. \A x \in Questions : lock'[x] = u => pending'[x].grading = W(x, x = txn[u].q /\ Written(u))'
  BY <1>1, <1>2
<1>4. QED
  BY <1>3 DEF Writing

\* What a transaction knows of gradings stays true while others do not commit.
LEMMA OthersKeepGradings ==
  ASSUME Inv, NEW u \in Txns, EditInv(u), SameTxn(u), Untouched(u), GradingsStay
  PROVE  EditInv(u)'
<1> USE StillThere
<1>1. \A q \in Questions : Sees(u, q)'.grading = Sees(u, q).grading
  BY DEF Sees, Holds, GradingsStay
<1>3. ASSUME Scores(u)
      PROVE  Scoring(u)' /\ Writing(u)' /\ PageLast(u)'
  <2>1. Scoring(u) /\ Writing(u) /\ PageLast(u) /\ txn[u].q \in Questions
    BY <1>3 DEF EditInv, Scoring
  <2>2. Scoring(u)'
    BY <2>1 DEF Scoring, GradingsStay
  <2>3. Writing(u)'
    BY <2>1, OthersWrite
  <2>4. PageLast(u)'
    BY <2>1 DEF PageLast, GradingsStay
  <2>5. QED
    BY <2>2, <2>3, <2>4
<1>4. Answering(u)'
  <2> SUFFICES ASSUME txn[u].op \notin {"page", "upload", "edit"}
               PROVE  Answering(u)'
    BY DEF Answering
  <2>1. \A q \in Questions : lock[q] = u =>
          pending[q].grading \in {row[q].grading, Append(row[q].grading, NoGrading)}
    BY DEF EditInv, Answering
  <2>2. \A q \in Questions : lock'[q] = u =>
          pending'[q].grading \in {row'[q].grading, Append(row'[q].grading, NoGrading)}
    <3> SUFFICES ASSUME NEW q \in Questions, lock'[q] = u
                 PROVE  pending'[q].grading \in {row'[q].grading, Append(row'[q].grading, NoGrading)}
      OBVIOUS
    <3>1. lock[q] = u /\ pending'[q] = pending[q] /\ row'[q] = row[q]
      OBVIOUS
    <3>2. pending[q].grading \in {row[q].grading, Append(row[q].grading, NoGrading)}
      BY <2>1, <3>1
    <3>3. QED
      BY <3>1, <3>2, Zenon
  <2>3. QED
    BY <2>2 DEF EditInv, Answering
<1>5. Recomputing(u)'
  <2>1. Rubriced \subseteq Questions
    BY ManualGradingAssumption
  <2>2. QED
    BY <1>1, <2>1 DEF EditInv, Recomputing
<1>6. QED
  BY <1>3, <1>4, <1>5 DEF EditInv

-----------------------------------------------------------------------------
(* Statements. *)

LEMMA OneKeepsGradings ==
  ASSUME Inv, GradingInv, NEW t \in Txns, row' = row, GradingRows', EditInv(t)',
         \A u \in Txns \ {t} : SameTxn(u) /\ Untouched(u)
  PROVE  GradingInv'
<1>1. GradingsStay
  BY DEF GradingsStay
<1>2. ASSUME NEW u \in Txns
      PROVE  EditInv(u)'
  <2>1. CASE u = t
    BY <2>1
  <2>2. CASE u # t
    BY <1>1, <2>2, OthersKeepGradings DEF GradingInv
  <2>3. QED
    BY <2>1, <2>2
<1>3. QED
  BY <1>2 DEF GradingInv

LEMMA ReadKeepsGradings ==
  ASSUME Inv, GradingInv, NEW t \in Txns, UNCHANGED rowVars, Moves(t), EditInv(t)'
  PROVE  GradingInv'
<1>1. GradingRows'
  BY DEF GradingInv, GradingRows, rowVars
<1>2. \A u \in Txns \ {t} : SameTxn(u) /\ Untouched(u)
  BY DEF Moves, SameTxn, Untouched, rowVars
<1>3. QED
  BY <1>1, <1>2, OneKeepsGradings DEF rowVars

LEMMA LockKeepsGradings ==
  ASSUME Inv, GradingInv, NEW t \in Txns, NEW r \in Rows \ {AQ}, LockRow(t, r),
         Moves(t), EditInv(t)'
  PROVE  GradingInv'
<1>1. /\ UNCHANGED <<row, pending>> /\ \A x \in Rows : lock'[x] = IF x = r THEN t ELSE lock[x]
      /\ \A u \in Txns \ {t} : Untouched(u)
  BY RowLocked DEF Inv
<1>2. GradingRows'
  BY <1>1 DEF GradingInv, GradingRows
<1>3. \A u \in Txns \ {t} : SameTxn(u)
  BY DEF Moves, SameTxn
<1>4. QED
  BY <1>1, <1>2, <1>3, OneKeepsGradings

\* A question or an instance is written: gradings are not lost.
LEMMA UpdateKeepsGradings ==
  ASSUME Inv, GradingInv, NEW t \in Txns, NEW r \in Rows \ {AQ}, NEW new, UpdateRow(t, r, new),
         r \in Questions =>
           /\ QuestionRow(new) /\ GradingSeq(new.grading)
           /\ Len(Sees(t, r).grading) <= Len(new.grading)
           /\ Sees(t, r).modified <= new.modified
           /\ Sees(t, r).modified = new.modified => Len(new.grading) = Len(Sees(t, r).grading),
         Moves(t), EditInv(t)'
  PROVE  GradingInv'
<1>1. /\ row' = row
      /\ \A x \in Rows : lock'[x] = IF x = r THEN t ELSE lock[x]
      /\ \A x \in Rows : pending'[x] = IF x = r THEN new ELSE pending[x]
      /\ \A u \in Txns \ {t} : Untouched(u)
      /\ lock[r] = NoTxn => pending[r] = row[r]
      /\ lock[r] \in {NoTxn, t}
  BY RowUpdated DEF Inv
<1>2. GradingRows'
  <2>1. ASSUME NEW q \in Questions
        PROVE  /\ GradingSeq(row'[q].grading) /\ GradingSeq(pending'[q].grading)
               /\ Len(row'[q].grading) <= Len(pending'[q].grading)
               /\ row'[q].modified <= pending'[q].modified
               /\ row'[q].modified = pending'[q].modified => Len(row'[q].grading) = Len(pending'[q].grading)
    <3>1. /\ GradingSeq(row[q].grading) /\ GradingSeq(pending[q].grading)
          /\ Len(row[q].grading) <= Len(pending[q].grading)
          /\ row[q].modified <= pending[q].modified
          /\ row[q].modified = pending[q].modified => Len(row[q].grading) = Len(pending[q].grading)
      BY DEF GradingInv, GradingRows
    <3>2. row[q].modified \in Nat /\ pending[q].modified \in Nat /\ q \in Rows
      BY RowSets DEF Inv, RowInv, QuestionRow
    <3>3. CASE q # r
      BY <1>1, <3>1, <3>2, <3>3
    <3>4. CASE q = r
      <4>1. Sees(t, r) = pending[r] /\ pending'[r] = new /\ row' = row
        BY <1>1, <3>2, <3>4 DEF Sees, Holds
      <4>2. Len(row[q].grading) \in Nat /\ Len(pending[q].grading) \in Nat /\ Len(new.grading) \in Nat
            /\ new.modified \in Nat
        BY <3>1, <3>4 DEF GradingSeq, QuestionRow
      <4>3. /\ GradingSeq(new.grading) /\ Len(pending[q].grading) <= Len(new.grading)
            /\ pending[q].modified <= new.modified
            /\ pending[q].modified = new.modified => Len(new.grading) = Len(pending[q].grading)
        BY <3>4, <4>1
      <4>4. /\ Len(row[q].grading) <= Len(new.grading) /\ row[q].modified <= new.modified
            /\ row[q].modified = new.modified => Len(row[q].grading) = Len(new.grading)
        <5>1. Len(row[q].grading) <= Len(new.grading)
          BY <3>1, <4>2, <4>3
        <5>2. row[q].modified <= new.modified
          BY <3>1, <3>2, <4>2, <4>3
        <5>3. ASSUME row[q].modified = new.modified
              PROVE  Len(row[q].grading) = Len(new.grading)
          <6>1. row[q].modified = pending[q].modified /\ pending[q].modified = new.modified
            BY <3>1, <3>2, <4>2, <4>3, <5>3
          <6>2. QED
            BY <3>1, <4>3, <6>1
        <5>4. QED
          BY <5>1, <5>2, <5>3
      <4>5. QED
        BY <3>1, <3>4, <4>1, <4>3, <4>4
    <3>5. QED
      BY <3>3, <3>4
  <2>2. QED
    BY <2>1 DEF GradingRows
<1>3. \A u \in Txns \ {t} : SameTxn(u)
  BY DEF Moves, SameTxn
<1>4. QED
  BY <1>1, <1>2, <1>3, OneKeepsGradings

\* Requests start between transactions.
LEMMA StartKeepsGradings ==
  ASSUME Inv, GradingInv, NEW t \in Txns, Start(t)
  PROVE  GradingInv'
<1>1. ASSUME NEW q \in Questions, Open(t, q)
      PROVE  GradingInv'
  <2>1. /\ Moves(t) /\ UNCHANGED rowVars /\ txn[t].pc = "idle"
        /\ txn'[t].op = "page" /\ txn'[t].pc = "opened" /\ txn'[t].q = q
        /\ txn'[t].seen = row[q].modified /\ txn'[t].submission = Len(row[q].grading)
        /\ txn'[t].grading = txn[t].grading
    BY <1>1 DEF Open, At, Become, Moves, Inv, TxnInv, WellFormed, Fields
  <2>2. /\ row[q].modified \in Nat \ {0} /\ \A r \in Rows : lock[r] # t
        /\ GradingSeq(row[q].grading) /\ txn[t].grading.applied \subseteq Items
    BY <2>1 DEF Inv, RowInv, QuestionRow, TxnInv, WellFormed, GradingInv, GradingRows, EditInv
  <2>3. Len(row[q].grading) \in 1..Len(row[q].grading)
    BY <2>2 DEF GradingSeq
  <2>4. HoldsNoQuestion(t)' /\ lock'[AQ] # t
    BY <2>1, <2>2, RowSets DEF HoldsNoQuestion, rowVars
  <2>5. /\ Staged(t)' /\ Scoring(t)' /\ Writing(t)' /\ PageLast(t)'
        /\ Answering(t)' /\ Recomputing(t)'
    BY <2>1, <2>2, <2>3, <2>4 DEF Staged, Scoring, Before, Writing, HoldsNoQuestion, PageLast,
       Answering, Recomputing, rowVars
  <2>6. EditInv(t)'
    BY <2>1, <2>2, <2>5 DEF EditInv
  <2>7. QED
    BY <2>1, <2>6, ReadKeepsGradings
<1>2. ASSUME NEW q \in Questions, Upload(t, q)
      PROVE  GradingInv'
  <2>1. PICK score \in Uploads :
          Become(t, [op |-> "upload", pc |-> "select", q |-> q, score |-> score,
                     submission |-> Len(row[q].grading)])
    BY <1>2 DEF Upload
  <2>2. /\ Moves(t) /\ UNCHANGED rowVars /\ txn[t].pc = "idle"
        /\ txn'[t].op = "upload" /\ txn'[t].pc = "select" /\ txn'[t].q = q
        /\ txn'[t].submission = Len(row[q].grading) /\ txn'[t].score = score
        /\ txn'[t].grading = txn[t].grading
    BY <1>2, <2>1 DEF Upload, At, Become, Moves, Inv, TxnInv, WellFormed, Fields
  <2>3. /\ \A r \in Rows : lock[r] # t
        /\ GradingSeq(row[q].grading) /\ txn[t].grading.applied \subseteq Items
    BY <2>2 DEF Inv, TxnInv, WellFormed, GradingInv, GradingRows, EditInv
  <2>4. Len(row[q].grading) \in 1..Len(row[q].grading)
    BY <2>3 DEF GradingSeq
  <2>5. HoldsNoQuestion(t)' /\ lock'[AQ] # t
    BY <2>2, <2>3, RowSets DEF HoldsNoQuestion, rowVars
  <2>6. score.applied \subseteq Items /\ score.rubric = FALSE
    BY <2>1, ScoresAssumption DEF Score
  <2>7. /\ Staged(t)' /\ Scoring(t)' /\ Writing(t)' /\ PageLast(t)'
        /\ Answering(t)' /\ Recomputing(t)'
    BY <2>2, <2>3, <2>4, <2>5, <2>6 DEF Staged, Scoring, Before, Writing, HoldsNoQuestion, PageLast,
       Answering, Recomputing, rowVars
  <2>8. EditInv(t)'
    BY <2>2, <2>3, <2>7 DEF EditInv
  <2>9. QED
    BY <2>2, <2>8, ReadKeepsGradings
<1>3. ASSUME NEW q \in Questions, Grade(t, q) \/ Save(t, q)
      PROVE  GradingInv'
  <2>1. /\ Moves(t) /\ UNCHANGED rowVars /\ txn[t].pc = "idle"
        /\ txn'[t].op \in {"auto", "save"} /\ txn'[t].pc = "instance" /\ txn'[t].q = q
        /\ txn'[t].grading = txn[t].grading
    BY <1>3 DEF Grade, Save, At, Become, Moves, Inv, TxnInv, WellFormed, Fields
  <2>2. /\ \A r \in Rows : lock[r] # t /\ txn[t].grading.applied \subseteq Items
    BY <2>1 DEF Inv, TxnInv, WellFormed, GradingInv, EditInv
  <2>3. HoldsNoQuestion(t)' /\ lock'[AQ] # t
    BY <2>1, <2>2, RowSets DEF HoldsNoQuestion, rowVars
  <2>4. Staged(t)' /\ Answering(t)' /\ Recomputing(t)' /\ ~Scores(t)'
    BY <2>1, <2>3 DEF Staged, Scores, Answering, HoldsNoQuestion, Recomputing
  <2>5. EditInv(t)'
    BY <2>1, <2>2, <2>4, RowSets DEF EditInv
  <2>6. QED
    BY <2>1, <2>5, ReadKeepsGradings
<1>4. CASE Submit(t)
  <2>1. PICK score \in Grades :
          /\ score.rubric <=> txn[t].q \in Rubriced
          /\ Become(t, [pc |-> "select", score |-> score])
    BY <1>4 DEF Submit
  <2>2. /\ Moves(t) /\ UNCHANGED rowVars /\ txn[t].pc = "opened"
        /\ txn'[t].op = txn[t].op /\ txn'[t].pc = "select" /\ txn'[t].q = txn[t].q
        /\ txn'[t].submission = txn[t].submission /\ txn'[t].score = score
        /\ txn'[t].seen = txn[t].seen /\ txn'[t].grading = txn[t].grading
    BY <1>4, <2>1 DEF Submit, At, Become, Moves, Inv, TxnInv, WellFormed, Fields
  <2>3. /\ txn[t].op = "page" /\ Scoring(t) /\ Writing(t) /\ PageLast(t)
        /\ txn[t].grading.applied \subseteq Items
    BY <2>2 DEF GradingInv, EditInv, Staged, Scores
  <2>4. score.applied \subseteq Items
    BY <2>1, ScoresAssumption DEF Score
  <2>5. /\ Staged(t)' /\ Scoring(t)' /\ Writing(t)' /\ PageLast(t)'
        /\ Answering(t)' /\ Recomputing(t)'
    BY <2>1, <2>2, <2>3, <2>4 DEF Staged, Scoring, Before, Writing, HoldsNoQuestion, PageLast,
       Answering, Recomputing, rowVars
  <2>6. EditInv(t)'
    BY <2>2, <2>3, <2>5 DEF EditInv
  <2>7. QED
    BY <2>2, <2>6, ReadKeepsGradings
<1>5. CASE Edit(t)
  <2>1. /\ Moves(t) /\ UNCHANGED rowVars /\ txn[t].pc = "idle"
        /\ txn'[t].op = "edit" /\ txn'[t].pc = "rubric" /\ txn'[t].seen = txn[t].seen
        /\ txn'[t].conflict = txn[t].conflict /\ txn'[t].todo = txn[t].todo
        /\ txn'[t].grading = txn[t].grading
    BY <1>5 DEF Edit, At, Become, Moves, Inv, TxnInv, WellFormed, Fields
  <2>2. /\ \A r \in Rows : lock[r] # t /\ txn[t].grading.applied \subseteq Items
        /\ txn[t].seen = 0 /\ ~txn[t].conflict /\ txn[t].todo = {}
    BY <2>1 DEF Inv, TxnInv, WellFormed, GradingInv, EditInv, Staged
  <2>3. HoldsNoQuestion(t)' /\ lock'[AQ] # t
    BY <2>1, <2>2, RowSets DEF HoldsNoQuestion, rowVars
  <2>4. Staged(t)' /\ Answering(t)' /\ Recomputing(t)' /\ ~Scores(t)'
    BY <2>1, <2>2, <2>3 DEF Staged, Scores, Answering, Recomputing, Editing
  <2>5. EditInv(t)'
    BY <2>1, <2>2, <2>4, RowSets DEF EditInv
  <2>6. QED
    BY <2>1, <2>5, ReadKeepsGradings
<1>6. QED
  BY <1>1, <1>2, <1>3, <1>4, <1>5 DEF Start

\* What a transaction sees of the gradings of a question.
LEMMA SeenGradings ==
  ASSUME Inv, GradingInv, NEW t \in Txns, NEW q \in Questions
  PROVE  /\ GradingSeq(Sees(t, q).grading) /\ Len(row[q].grading) <= Len(Sees(t, q).grading)
         /\ Len(Sees(t, q).grading) \in Nat /\ Len(row[q].grading) \in Nat
         /\ row[q].modified <= Sees(t, q).modified
         /\ row[q].modified \in Nat \ {0} /\ Sees(t, q).modified \in Nat \ {0}
         /\ row[q].modified = Sees(t, q).modified => Len(row[q].grading) = Len(Sees(t, q).grading)
BY DEF GradingInv, GradingRows, Sees, Inv, RowInv, QuestionRow, GradingSeq

\* select_submission_for_score_update
LEMMA SelectSubmissionKeepsGradings ==
  ASSUME Inv, GradingInv, NEW t \in Txns, SelectSubmission(t)
  PROVE  GradingInv'
<1> DEFINE q == txn[t].q
           k == txn[t].submission
           g == Sees(t, q).grading[k]
<1>1. /\ Moves(t) /\ UNCHANGED rowVars /\ txn[t].pc = "select"
      /\ txn'[t].pc = "lock" /\ txn'[t].op = txn[t].op /\ txn'[t].q = q /\ txn'[t].submission = k
      /\ txn'[t].seen = txn[t].seen /\ txn'[t].score = txn[t].score
      /\ txn'[t].conflict = txn[t].conflict /\ txn'[t].todo = txn[t].todo
      /\ txn'[t].grading = g /\ txn'[t].found = txn[t].found
  BY DEF SelectSubmission, At, Become, Moves, Inv, TxnInv, WellFormed, Fields
<1>2. q \in Questions /\ k \in 1..Len(Sees(t, q).grading)
  <2>1. CASE txn[t].op = "edit"
    BY <1>1, <2>1 DEF GradingInv, EditInv, Recomputing, Editing
  <2>2. CASE txn[t].op # "edit"
    <3>1. Scoring(t)
      BY <1>1, <2>2 DEF GradingInv, EditInv, Staged, Scores
    <3>2. Len(row[q].grading) <= Len(Sees(t, q).grading)
          /\ Len(Sees(t, q).grading) \in Nat /\ Len(row[q].grading) \in Nat
      BY <3>1, SeenGradings DEF Scoring
    <3>3. QED
      BY <3>1, <3>2 DEF Scoring
  <2>3. QED
    BY <2>1, <2>2
<1>3. g.applied \subseteq Items
  BY <1>2, SeenGradings DEF GradingSeq
<1>4. Staged(t)' /\ Answering(t)'
  BY <1>1 DEF Staged, Answering, GradingInv, EditInv
<1>5. Recomputing(t)'
  <2> SUFFICES ASSUME txn[t].op = "edit"
               PROVE  Recomputing(t)'
    BY <1>1 DEF Recomputing
  <2>1. \A x \in Questions : Sees(t, x)' = Sees(t, x)
    BY <1>1 DEF Sees, Holds, rowVars
  <2>2. Rubriced \subseteq Questions
    BY ManualGradingAssumption
  <2>3. QED
    BY <1>1, <2>1, <2>2 DEF GradingInv, EditInv, Recomputing, Editing, rowVars
<1>6. ASSUME Scores(t)
      PROVE  Scoring(t)' /\ Writing(t)' /\ PageLast(t)'
  <2>1. Scoring(t) /\ Writing(t) /\ PageLast(t) /\ HoldsNoQuestion(t)
    BY <1>1, <1>6 DEF GradingInv, EditInv, Scoring, Before
  <2>2. Scoring(t)' /\ Writing(t)' /\ PageLast(t)'
    BY <1>1, <2>1 DEF Scoring, Before, Writing, HoldsNoQuestion, PageLast, rowVars
  <2>3. QED
    BY <2>2
<1>7. Scores(t)' <=> Scores(t)
  BY <1>1 DEF Scores
<1>8. EditInv(t)'
  BY <1>1, <1>3, <1>4, <1>5, <1>6, <1>7 DEF EditInv
<1>9. QED
  BY <1>1, <1>8, ReadKeepsGradings

\* The lock of the question: a page is current or conflicts.
LEMMA LockQuestionKeepsGradings ==
  ASSUME Inv, GradingInv, NEW t \in Txns, LockQuestion(t)
  PROVE  GradingInv'
<1> DEFINE q == txn[t].q
<1>1. /\ Moves(t) /\ LockRow(t, q) /\ txn[t].pc = "lock"
      /\ txn'[t].pc = (IF txn[t].score.rubric THEN "items" ELSE "write")
      /\ txn'[t].op = txn[t].op /\ txn'[t].q = q /\ txn'[t].submission = txn[t].submission
      /\ txn'[t].seen = txn[t].seen /\ txn'[t].score = txn[t].score
      /\ txn'[t].todo = txn[t].todo /\ txn'[t].grading = txn[t].grading
      /\ txn'[t].found = txn[t].found
      /\ txn'[t].conflict = (txn[t].seen \notin {0, Sees(t, q).modified})
  BY DEF LockQuestion, At, Become, Moves, Inv, TxnInv, WellFormed, Fields
<1>2. q \in Questions /\ q \in Rows \ {AQ}
  BY <1>1, RowSets DEF Inv, TxnInv, WellFormed, HasQuestion
<1>3. /\ row' = row /\ pending' = pending
      /\ \A x \in Rows : lock'[x] = IF x = q THEN t ELSE lock[x]
      /\ \A x \in Rows : Sees(t, x)' = Sees(t, x)
      /\ lock[q] \in {NoTxn, t}
      /\ lock[q] = NoTxn => pending[q] = row[q]
  <2> HIDE DEF q
  <2>1. lock[q] \in {NoTxn, t}
    BY <1>1 DEF LockRow, Available
  <2>2. lock[q] = NoTxn => pending[q] = row[q]
    BY <1>2 DEF Inv, RowInv
  <2>3. QED
    BY <1>1, <1>2, <2>1, <2>2, RowLocked DEF Inv
<1>4. /\ lock'[AQ] = lock[AQ] /\ lock'[q] = t
      /\ \A x \in Questions : lock'[x] = IF x = q THEN t ELSE lock[x]
      /\ \A x \in Questions : Sees(t, x)' = Sees(t, x)
  BY <1>2, <1>3, RowSets
<1>5. Answering(t)'
  BY <1>1 DEF Staged, Answering, GradingInv, EditInv
<1>6. CASE txn[t].op = "edit"
  <2>1. Recomputing(t) /\ txn[t].score.rubric
    BY <1>1, <1>6 DEF GradingInv, EditInv, Recomputing, Editing
  <2>2. Rubriced \subseteq Questions
    BY ManualGradingAssumption
  <2>3. txn'[t].pc = "items" /\ ~txn'[t].conflict
    BY <1>1, <1>6, <2>1 DEF Recomputing
  <2>4. Recomputing(t)'
    BY <1>1, <1>3, <1>4, <1>6, <2>1, <2>2, <2>3 DEF Recomputing, Editing
  <2>5. EditInv(t)'
    BY <1>1, <1>5, <1>6, <2>3, <2>4 DEF EditInv, Staged, Scores, GradingInv
  <2>6. QED
    BY <1>1, <1>2, <2>5, LockKeepsGradings
<1>7. CASE txn[t].op # "edit"
  <2>1. /\ Scores(t) /\ Scoring(t) /\ Writing(t) /\ PageLast(t)
        /\ HoldsNoQuestion(t) /\ txn[t].op \in {"page", "upload"}
    BY <1>1, <1>7 DEF GradingInv, EditInv, Staged, Scores, Scoring, Before
  <2>2. lock[q] = NoTxn /\ pending[q] = row[q] /\ Sees(t, q) = row[q]
    BY <1>2, <1>3, <2>1 DEF HoldsNoQuestion, Sees, Holds
  <2>3. Scoring(t)' /\ Writing(t)'
    BY <1>1, <1>2, <1>3, <1>4, <2>1, <2>2 DEF Scoring, Before, Writing, Written, HoldsNoQuestion
  <2>4. PageLast(t)'
    <3>1. ~txn'[t].conflict => txn[t].seen \in {0, row[q].modified}
      BY <1>1, <2>2
    <3>2. QED
      BY <1>1, <1>3, <2>1, <3>1 DEF PageLast
  <2>5. Staged(t)' /\ Recomputing(t)'
    BY <1>1, <1>7, <2>1 DEF Staged, Recomputing, Scoring
  <2>6. EditInv(t)'
    BY <1>1, <1>5, <2>3, <2>4, <2>5 DEF EditInv, GradingInv
  <2>7. QED
    BY <1>1, <1>2, <2>6, LockKeepsGradings
<1>8. QED
  BY <1>6, <1>7

\* The rubric a transaction sees.
LEMMA SeenRubric ==
  ASSUME Inv, GradingInv, NEW t \in Txns
  PROVE  /\ Scores(t) => Sees(t, AQ) = row[AQ]
         /\ txn[t].op = "edit" /\ txn[t].pc # "rubric" => Sees(t, AQ) = pending[AQ]
BY DEF GradingInv, EditInv, Scoring, Recomputing, Sees, Holds

\* insertRubricGrading
LEMMA InsertGradingKeepsGradings ==
  ASSUME Inv, GradingInv, NEW t \in Txns, SelectItems(t) \/ InsertGrading(t)
  PROVE  GradingInv'
<1> DEFINE q      == txn[t].q
           rubric == Sees(t, AQ)
           new    == RubricGrading(rubric, txn[t].score.applied)
<1>1. /\ Moves(t) /\ UNCHANGED rowVars
      /\ txn'[t].op = txn[t].op /\ txn'[t].q = q /\ txn'[t].submission = txn[t].submission
      /\ txn'[t].seen = txn[t].seen /\ txn'[t].score = txn[t].score
      /\ txn'[t].todo = txn[t].todo /\ txn'[t].found = txn[t].found
      /\ txn'[t].conflict = txn[t].conflict
      /\ \/ txn[t].pc = "items" /\ txn'[t].pc = "grading" /\ txn'[t].grading = new
         \/ /\ txn[t].pc = "grading" /\ txn'[t].pc = "write"
            /\ txn'[t].grading = [txn[t].grading EXCEPT !.start = rubric.start, !.item = rubric.item]
  <2>1. CASE SelectItems(t)
    BY <2>1 DEF SelectItems, At, Become, Moves, Inv, TxnInv, WellFormed, Fields
  <2>2. CASE InsertGrading(t)
    BY <2>2 DEF InsertGrading, At, Become, Moves, Inv, TxnInv, WellFormed, Fields
  <2>3. QED
    BY <2>1, <2>2
<1>2. txn[t].score.applied \subseteq Items /\ txn[t].op \in {"page", "edit"}
  BY <1>1 DEF GradingInv, EditInv, Staged, Scores, Scoring, Recomputing, Editing
<1>3. "applied" \in DOMAIN new /\ new.applied = txn[t].score.applied
  BY DEF RubricGrading
<1> HIDE DEF new
<1>4. /\ txn'[t].grading.applied \subseteq Items
      /\ txn'[t].pc = "grading" => "applied" \in DOMAIN txn'[t].grading
  BY <1>1, <1>2, <1>3 DEF GradingInv, EditInv
<1>5. Staged(t)' /\ Answering(t)'
  BY <1>1, <1>2 DEF Staged, Answering, GradingInv, EditInv
<1>6. CASE txn[t].op = "edit"
  <2>1. Recomputing(t) /\ \A x \in Questions : Sees(t, x)' = Sees(t, x)
    BY <1>1 DEF GradingInv, EditInv, Sees, Holds, rowVars
  <2>2. Rubriced \subseteq Questions
    BY ManualGradingAssumption
  <2>3. Recomputing(t)'
    BY <1>1, <1>6, <2>1, <2>2 DEF Recomputing, Editing, rowVars
  <2>4. EditInv(t)'
    BY <1>1, <1>4, <1>5, <1>6, <2>3 DEF EditInv, Scores
  <2>5. QED
    BY <1>1, <2>4, ReadKeepsGradings
<1>7. CASE txn[t].op # "edit"
  <2>1. Scores(t) /\ Scoring(t) /\ Writing(t) /\ PageLast(t) /\ txn[t].op = "page"
    BY <1>2, <1>7 DEF GradingInv, EditInv, Scores
  <2>2. Scoring(t)' /\ Writing(t)' /\ PageLast(t)'
    BY <1>1, <2>1 DEF Scoring, Before, Writing, Written, PageLast, rowVars
  <2>3. Recomputing(t)'
    BY <1>1, <1>7 DEF Recomputing
  <2>4. EditInv(t)'
    BY <1>1, <1>4, <1>5, <2>2, <2>3 DEF EditInv
  <2>5. QED
    BY <1>1, <2>4, ReadKeepsGradings
<1>8. QED
  BY <1>6, <1>7

\* update_submission_score and update_instance_question_score
LEMMA WriteScoreKeepsGradings ==
  ASSUME Inv, GradingInv, NEW t \in Txns, WriteScore(t)
  PROVE  GradingInv'
<1> DEFINE q   == txn[t].q
           k   == txn[t].submission
           old == Sees(t, q)
           g   == GradingOf(t)
           new == Scored(old, txn[t].score, k, g)
<1>1. /\ Moves(t) /\ txn[t].pc = "write"
      /\ txn'[t].op = txn[t].op /\ txn'[t].q = q /\ txn'[t].submission = k
      /\ txn'[t].seen = txn[t].seen /\ txn'[t].score = txn[t].score
      /\ txn'[t].todo = txn[t].todo /\ txn'[t].found = txn[t].found
      /\ txn'[t].conflict = txn[t].conflict /\ txn'[t].grading = txn[t].grading
      /\ IF txn[t].conflict
           THEN UNCHANGED rowVars /\ txn'[t].pc = (IF txn[t].op = "edit" THEN "recompute" ELSE "commit")
           ELSE UpdateRow(t, q, new) /\ txn'[t].pc = "total"
  BY DEF WriteScore, At, GoTo, Updated, Moves, Inv, TxnInv, WellFormed, Fields
<1>2. /\ q \in Questions /\ q \in Rows \ {AQ}
      /\ txn[t].op \in {"page", "upload", "edit"} /\ txn[t].grading.applied \subseteq Items
  BY <1>1, RowSets DEF Inv, TxnInv, WellFormed, HasQuestion, GradingInv, EditInv, Staged
<1>3. Answering(t)'
  BY <1>1, <1>2 DEF Answering
<1>4. (Scores(t)' <=> Scores(t)) /\ GradingOf(t)' = g
  BY <1>1 DEF Scores, GradingOf
<1>5. Scores(t) => /\ Scoring(t) /\ Writing(t) /\ PageLast(t)
                   /\ lock[q] = t /\ k \in 1..Len(row[q].grading)
  BY <1>1 DEF GradingInv, EditInv, Scoring, Before
<1>6. CASE txn[t].conflict
  <2>1. txn[t].op \in {"page", "upload"} /\ Scores(t)
    BY <1>1, <1>2, <1>6 DEF GradingInv, EditInv, Recomputing, Scores
  <2>2. Scoring(t)' /\ Writing(t)' /\ PageLast(t)'
    BY <1>1, <1>5, <1>6, <2>1 DEF Scoring, Before, Writing, Written, PageLast, rowVars
  <2>3. Staged(t)' /\ Recomputing(t)'
    BY <1>1, <1>6, <2>1 DEF Staged, Recomputing
  <2>4. EditInv(t)'
    BY <1>1, <1>2, <1>3, <1>6, <2>1, <2>2, <2>3 DEF EditInv
  <2>5. QED
    BY <1>1, <1>6, <2>4, ReadKeepsGradings
<1>7. CASE ~txn[t].conflict
  <2>1. /\ GradingSeq(old.grading) /\ QuestionRow(old) /\ k \in 1..Len(old.grading)
    <3>1. txn[t].op = "edit" => k \in 1..Len(old.grading)
      BY <1>1 DEF GradingInv, EditInv, Recomputing, Editing
    <3>2. QED
      BY <1>2, <1>5, <3>1, SeenGradings, SeenRow DEF Scores, Inv
  <2>2. g.applied \subseteq Items
    BY <1>2 DEF GradingOf, NoGrading
  <2>3. /\ QuestionRow(new) /\ new.grading = [old.grading EXCEPT ![k] = g]
        /\ new.modified = old.modified + 1
    <3> HIDE DEF old, k, g
    <3>1. QED
      BY <2>1 DEF Scored, QuestionRow, QuestionFields
  <2> HIDE DEF new
  <2>4. GradingSeq(new.grading) /\ Len(new.grading) = Len(old.grading)
    BY <2>1, <2>2, <2>3, GradingSet
  <2>5. UpdateRow(t, q, new) /\ txn'[t].pc = "total"
    BY <1>1, <1>7
  <2>6. /\ row' = row
        /\ \A x \in Rows : lock'[x] = IF x = q THEN t ELSE lock[x]
        /\ \A x \in Rows : pending'[x] = IF x = q THEN new ELSE pending[x]
        /\ \A x \in Rows : Sees(t, x)' = IF x = q THEN new ELSE Sees(t, x)
    BY <1>2, <2>3, <2>5, RowUpdated DEF Inv
  <2>7. /\ lock'[AQ] = lock[AQ] /\ pending'[AQ] = pending[AQ] /\ lock'[q] = t /\ pending'[q] = new
        /\ \A x \in Questions : x # q => /\ lock'[x] = lock[x] /\ pending'[x] = pending[x]
                                         /\ Sees(t, x)' = Sees(t, x)
        /\ \A x \in Questions : x = q => Sees(t, x)' = new
    BY <1>2, <2>6, RowSets
  <2>8. EditInv(t)'
    <3>1. CASE txn[t].op = "edit"
      <4>1. Recomputing(t)
        BY DEF GradingInv, EditInv
      <4>2. \A x \in Questions : Len(Sees(t, x)'.grading) = Len(Sees(t, x).grading)
        BY <2>4, <2>7
      <4>3. Rubriced \subseteq Questions
        BY ManualGradingAssumption
      <4>4. Recomputing(t)'
        BY <1>1, <2>5, <2>7, <3>1, <4>1, <4>2, <4>3 DEF Recomputing, Editing
      <4>5. Staged(t)' /\ ~Scores(t)'
        BY <1>1, <2>5, <3>1 DEF Staged, Scores
      <4>6. QED
        BY <1>1, <1>2, <1>3, <2>5, <4>4, <4>5 DEF EditInv
    <3>2. CASE txn[t].op # "edit"
      <4>1. Scores(t) /\ txn[t].op \in {"page", "upload"}
        BY <1>2, <3>2 DEF Scores
      <4>2. old = pending[q] /\ old.grading = row[q].grading
        BY <1>1, <1>2, <1>5, <4>1 DEF Sees, Holds, Writing, Written
      <4>3. Scoring(t)' /\ PageLast(t)'
        BY <1>1, <1>5, <2>5, <2>6, <2>7, <4>1 DEF Scoring, Before, PageLast
      <4>4. Written(t)' /\ ~Written(t)
        BY <1>1, <1>7, <2>5 DEF Written
      <4>5. Writing(t)'
        BY <1>1, <1>2, <1>4, <1>5, <2>3, <2>6, <2>7, <4>1, <4>2, <4>4 DEF Writing
      <4>6. Staged(t)' /\ Recomputing(t)'
        BY <1>1, <2>5, <4>1 DEF Staged, Recomputing
      <4>7. QED
        BY <1>1, <1>2, <1>3, <2>5, <4>3, <4>5, <4>6 DEF EditInv
    <3>3. QED
      BY <3>1, <3>2
  <2>9. /\ Len(old.grading) <= Len(new.grading) /\ old.modified <= new.modified
        /\ old.modified # new.modified
    BY <2>1, <2>3, <2>4, SMTT(30) DEF GradingSeq, QuestionRow
  <2>10. QED
    BY <1>1, <1>2, <2>3, <2>4, <2>5, <2>8, <2>9, UpdateKeepsGradings
<1>8. QED
  BY <1>6, <1>7

\* A statement that leaves all gradings as they are.
Quietly(t) ==
  /\ row' = row /\ lock'[AQ] = lock[AQ] /\ pending'[AQ] = pending[AQ]
  /\ txn'[t].op = txn[t].op /\ txn'[t].q = txn[t].q /\ txn'[t].submission = txn[t].submission
  /\ txn'[t].seen = txn[t].seen /\ txn'[t].todo = txn[t].todo /\ txn'[t].found = txn[t].found
  /\ txn'[t].conflict = txn[t].conflict /\ txn'[t].grading = txn[t].grading
  /\ txn[t].op # "auto" => txn'[t].score = txn[t].score
  /\ \A x \in Questions :
       /\ Sees(t, x)'.grading = Sees(t, x).grading
       /\ lock[x] = t => lock'[x] = t /\ pending'[x].grading = pending[x].grading
       /\ lock'[x] = t /\ lock[x] # t =>
            pending'[x].grading = row[x].grading /\ txn[t].pc \in {"questions", "store", "wait"}

LEMMA QuietKeepsGradings ==
  ASSUME Inv, GradingInv, NEW t \in Txns, Quietly(t),
         \/ <<txn[t].pc, txn'[t].pc>> \in
               {<<"total", "questions">>, <<"questions", "questions">>, <<"wait", "wait">>,
                <<"wait", "recompute">>, <<"instance", "grade">>, <<"instance", "insert">>,
                <<"grade", "store">>, <<"store", "total">>}
         \/ /\ txn[t].pc = "questions"
            /\ txn'[t].pc = (IF txn[t].op = "edit" THEN "recompute" ELSE "commit"),
         txn[t].pc = "instance" => txn'[t].pc = (IF txn[t].op = "auto" THEN "grade" ELSE "insert")
  PROVE  EditInv(t)'
<1>1. EditInv(t)
  BY DEF GradingInv
<1>2. Staged(t)' /\ txn'[t].grading.applied \subseteq Items /\ (Scores(t)' <=> Scores(t))
  BY <1>1 DEF EditInv, Staged, Quietly, Scores
<1>4. ASSUME Scores(t)
      PROVE  Scoring(t)' /\ Writing(t)' /\ PageLast(t)'
  <2>1. /\ Scoring(t) /\ Writing(t) /\ PageLast(t) /\ txn[t].op \in {"page", "upload"}
        /\ txn'[t].score = txn[t].score /\ txn[t].pc \in {"total", "questions"}
        /\ txn'[t].pc \in {"questions", "commit"}
    BY <1>1, <1>4 DEF EditInv, Scores, Staged, Quietly
  <2>2. lock[txn[t].q] = t /\ txn[t].q \in Questions
    BY <2>1 DEF Scoring, Before
  <2>3. Scoring(t)' /\ PageLast(t)'
    BY <2>1, <2>2 DEF Scoring, Before, PageLast, Quietly
  <2>4. (Written(t)' <=> Written(t)) /\ GradingOf(t)' = GradingOf(t)
    BY <2>1 DEF Written, GradingOf, Quietly
  <2>5. Writing(t)'
    <3>1. ASSUME NEW x \in Questions, lock'[x] = t
          PROVE  pending'[x].grading =
                   IF x = txn[t].q /\ Written(t) THEN [row[x].grading EXCEPT ![txn[t].submission] = GradingOf(t)]
                                                 ELSE row[x].grading
      <4>1. CASE lock[x] = t
        BY <2>1, <4>1 DEF Writing, Quietly
      <4>2. CASE lock[x] # t
        BY <2>2, <3>1, <4>2 DEF Quietly
      <4>3. QED
        BY <4>1, <4>2
    <3>2. txn'[t].q = txn[t].q /\ txn'[t].submission = txn[t].submission /\ row' = row
      BY DEF Quietly
    <3>3. QED
      BY <2>4, <3>1, <3>2 DEF Writing
  <2>6. QED
    BY <2>3, <2>5
<1>5. Answering(t)'
  <2> SUFFICES ASSUME txn[t].op \notin {"page", "upload", "edit"}
               PROVE  Answering(t)'
    BY DEF Answering, Quietly
  <2>1. Answering(t) /\ lock[AQ] # t /\ txn[t].op \in {"auto", "save"}
    BY <1>1 DEF EditInv, Answering, Staged
  <2>2. ASSUME NEW x \in Questions, lock'[x] = t
        PROVE  pending'[x].grading \in {row'[x].grading, Append(row'[x].grading, NoGrading)}
    <3>1. CASE lock[x] = t
      <4>1. /\ pending'[x].grading = pending[x].grading /\ row' = row
            /\ pending[x].grading \in {row[x].grading, Append(row[x].grading, NoGrading)}
        BY <2>1, <3>1 DEF Quietly, Answering
      <4>2. QED
        BY <4>1, Zenon
    <3>2. CASE lock[x] # t
      BY <2>2, <3>2 DEF Quietly
    <3>3. QED
      BY <3>1, <3>2
  <2>3. txn'[t].pc \in {"instance", "grade", "store", "insert"} =>
          txn'[t].q \in Questions /\ txn[t].pc \in {"instance", "grade"}
    BY <2>1 DEF Answering, Quietly
  <2>4. txn'[t].pc \in {"instance", "insert"} => HoldsNoQuestion(t)'
    BY <2>1 DEF Answering, HoldsNoQuestion, Quietly
  <2>5. QED
    BY <2>1, <2>2, <2>3, <2>4 DEF Answering, Quietly
<1>6. Recomputing(t)'
  <2> SUFFICES ASSUME txn[t].op = "edit"
               PROVE  Recomputing(t)'
    BY DEF Recomputing, Quietly
  <2>1. Recomputing(t) /\ txn[t].pc \in {"total", "questions", "wait"} /\ txn'[t].score = txn[t].score
        /\ txn'[t].pc \in {"questions", "wait", "recompute"}
    BY <1>1 DEF EditInv, Staged, Quietly
  <2>2. Rubriced \subseteq Questions
    BY ManualGradingAssumption
  <2>3. QED
    BY <2>1, <2>2 DEF Recomputing, Editing, Quietly
<1>7. QED
  BY <1>2, <1>4, <1>5, <1>6 DEF EditInv

\* assessment_instances_grade, and what waits for locks.
LEMMA TotalKeepsGradings ==
  ASSUME Inv, GradingInv, NEW t \in Txns,
         Total(t) \/ MarkUsed(t) \/ UpdateInstance(t) \/ LockReviewed(t) \/ ReviewedLocked(t)
  PROVE  GradingInv'
<1>1. CASE Total(t) \/ ReviewedLocked(t)
  <2>1. /\ Moves(t) /\ UNCHANGED rowVars
        /\ txn'[t].op = txn[t].op /\ txn'[t].q = txn[t].q /\ txn'[t].submission = txn[t].submission
        /\ txn'[t].seen = txn[t].seen /\ txn'[t].todo = txn[t].todo /\ txn'[t].found = txn[t].found
        /\ txn'[t].conflict = txn[t].conflict /\ txn'[t].grading = txn[t].grading
        /\ txn'[t].score = txn[t].score
        /\ <<txn[t].pc, txn'[t].pc>> \in {<<"total", "questions">>, <<"wait", "recompute">>}
    <3>1. CASE Total(t)
      BY <3>1 DEF Total, At, Become, Moves, Inv, TxnInv, WellFormed, Fields
    <3>2. CASE ReviewedLocked(t)
      BY <3>2 DEF ReviewedLocked, At, GoTo, Moves, Inv, TxnInv, WellFormed, Fields
    <3>3. QED
      BY <1>1, <3>1, <3>2
  <2>2. Quietly(t)
    BY <2>1 DEF Quietly, Sees, Holds, rowVars
  <2>3. QED
    BY <2>1, <2>2, QuietKeepsGradings, ReadKeepsGradings
<1>2. CASE MarkUsed(t) \/ LockReviewed(t)
  <2>1. PICK r \in Questions : LockRow(t, r) /\ txn' = txn /\ txn[t].pc \in {"questions", "wait"}
    <3>1. \A r \in Unmarked(t) : r \in Questions
      BY DEF Unmarked, Siblings, QuestionsOf
    <3>2. txn[t].todo \subseteq Questions
      BY DEF Inv, TxnInv, WellFormed
    <3>3. QED
      BY <1>2, <3>1, <3>2 DEF MarkUsed, LockReviewed, At
  <2>2. r \in Rows \ {AQ} /\ Moves(t)
    BY <2>1, RowSets DEF Moves, Inv
  <2>3. /\ row' = row /\ pending' = pending
        /\ \A x \in Rows : lock'[x] = IF x = r THEN t ELSE lock[x]
        /\ \A x \in Rows : Sees(t, x)' = Sees(t, x)
        /\ lock[r] \in {NoTxn, t}
        /\ lock[r] = NoTxn => pending[r] = row[r]
    BY <2>1, <2>2, RowLocked DEF LockRow, Available, Inv, RowInv
  <2>4. Quietly(t)
    BY <2>1, <2>2, <2>3, RowSets DEF Quietly
  <2>5. EditInv(t)'
    BY <2>1, <2>4, QuietKeepsGradings
  <2>6. QED
    BY <2>1, <2>2, <2>5, LockKeepsGradings
<1>3. CASE UpdateInstance(t)
  <2> DEFINE new == [points |-> txn[t].total]
  <2>1. PICK a \in Instances : UpdateRow(t, a, new) /\ txn[t].pc = "questions"
    BY <1>3, RowSets DEF UpdateInstance, At, Inv, TxnInv, WellFormed, HasQuestion
  <2>2. a \in Rows \ {AQ} /\ a \notin Questions
    BY RowSets
  <2>3. /\ Moves(t)
        /\ txn'[t].op = txn[t].op /\ txn'[t].q = txn[t].q /\ txn'[t].submission = txn[t].submission
        /\ txn'[t].seen = txn[t].seen /\ txn'[t].todo = txn[t].todo /\ txn'[t].found = txn[t].found
        /\ txn'[t].conflict = txn[t].conflict /\ txn'[t].grading = txn[t].grading
        /\ txn'[t].score = txn[t].score
        /\ txn'[t].pc = (IF txn[t].op = "edit" THEN "recompute" ELSE "commit")
    BY <1>3 DEF UpdateInstance, GoTo, Updated, Moves, Inv, TxnInv, WellFormed, Fields
  <2> HIDE DEF new
  <2>4. /\ row' = row
        /\ \A x \in Rows : lock'[x] = IF x = a THEN t ELSE lock[x]
        /\ \A x \in Rows : pending'[x] = IF x = a THEN new ELSE pending[x]
        /\ \A x \in Rows : Sees(t, x)' = IF x = a THEN new ELSE Sees(t, x)
    BY <2>1, <2>2, RowUpdated DEF Inv
  <2>5. Quietly(t)
    BY <2>2, <2>3, <2>4, RowSets DEF Quietly
  <2>6. EditInv(t)'
    BY <2>1, <2>3, <2>5, QuietKeepsGradings
  <2>7. QED
    BY <2>1, <2>2, <2>3, <2>6, UpdateKeepsGradings
<1>4. QED
  BY <1>1, <1>2, <1>3

\* What students do, but for saving.
LEMMA GradeKeepsGradings ==
  ASSUME Inv, GradingInv, NEW t \in Txns, LockInstance(t) \/ ComputePoints(t) \/ StorePoints(t)
  PROVE  GradingInv'
<1>1. /\ Moves(t)
      /\ txn'[t].op = txn[t].op /\ txn'[t].q = txn[t].q /\ txn'[t].submission = txn[t].submission
      /\ txn'[t].seen = txn[t].seen /\ txn'[t].todo = txn[t].todo /\ txn'[t].found = txn[t].found
      /\ txn'[t].conflict = txn[t].conflict /\ txn'[t].grading = txn[t].grading
      /\ txn[t].op # "auto" => txn'[t].score = txn[t].score
      /\ txn[t].pc \in {"instance", "grade", "store"} /\ txn[t].q \in Questions
      /\ <<txn[t].pc, txn'[t].pc>> \in {<<"instance", "grade">>, <<"instance", "insert">>,
                                         <<"grade", "store">>, <<"store", "total">>}
      /\ txn[t].pc = "instance" => txn'[t].pc = (IF txn[t].op = "auto" THEN "grade" ELSE "insert")
  <2>1. CASE LockInstance(t)
    BY <2>1 DEF LockInstance, At, GoTo, Moves, Inv, TxnInv, WellFormed, HasQuestion, Fields
  <2>2. CASE ComputePoints(t)
    <3>1. PICK auto \in AutoPoints :
            Become(t, [pc |-> "store", score |-> [NoScore EXCEPT !.auto = auto],
                       points |-> auto + Sees(t, txn[t].q).manual])
      BY <2>2 DEF ComputePoints
    <3>2. txn[t].pc = "grade" /\ txn[t].op = "auto"
      BY <2>2 DEF ComputePoints, At, GradingInv, EditInv, Staged
    <3>3. QED
      BY <3>1, <3>2 DEF Become, Moves, Inv, TxnInv, WellFormed, HasQuestion, Fields
  <2>3. CASE StorePoints(t)
    BY <2>3 DEF StorePoints, At, GoTo, Moves, Inv, TxnInv, WellFormed, HasQuestion, Fields
  <2>4. QED
    BY <2>1, <2>2, <2>3
<1>2. CASE LockInstance(t)
  <2> DEFINE a == InstanceOf[txn[t].q]
  <2>1. LockRow(t, a) /\ a \in Rows \ {AQ} /\ a \notin Questions
    BY <1>1, <1>2, RowSets DEF LockInstance
  <2>2. /\ row' = row /\ pending' = pending
        /\ \A x \in Rows : lock'[x] = IF x = a THEN t ELSE lock[x]
        /\ \A x \in Rows : Sees(t, x)' = Sees(t, x)
    BY <2>1, RowLocked DEF Inv
  <2>3. Quietly(t)
    BY <1>1, <2>1, <2>2, RowSets DEF Quietly
  <2>4. EditInv(t)'
    BY <1>1, <2>3, QuietKeepsGradings
  <2>5. QED
    BY <1>1, <2>1, <2>4, LockKeepsGradings
<1>3. CASE ComputePoints(t)
  <2>1. UNCHANGED rowVars
    BY <1>3 DEF ComputePoints
  <2>2. Quietly(t)
    BY <1>1, <2>1 DEF Quietly, Sees, Holds, rowVars
  <2>3. EditInv(t)'
    BY <1>1, <2>2, QuietKeepsGradings
  <2>4. QED
    BY <1>1, <2>1, <2>3, ReadKeepsGradings
<1>4. CASE StorePoints(t)
  <2>1. PICK q \in Questions : q = txn[t].q /\ q \in Rows \ {AQ}
    BY <1>1, RowSets
  <2> DEFINE old == Sees(t, q)
             new == [old EXCEPT !.auto = txn[t].score.auto, !.points = txn[t].points]
  <2>2. UpdateRow(t, q, new) /\ txn[t].pc = "store"
    BY <1>4, <2>1 DEF StorePoints, At
  <2>3. QuestionRow(new) /\ new.grading = old.grading /\ new.modified = old.modified
    <3>1. QuestionRow(old) /\ txn[t].points = txn[t].score.auto + old.manual
      BY <2>1, <2>2, SeenRow DEF Inv, TxnInv, AutoGrading
    <3> HIDE DEF old
    <3>2. QED
      BY <3>1 DEF QuestionRow, QuestionFields
  <2> HIDE DEF new
  <2>4. /\ row' = row
        /\ \A x \in Rows : lock'[x] = IF x = q THEN t ELSE lock[x]
        /\ \A x \in Rows : pending'[x] = IF x = q THEN new ELSE pending[x]
        /\ \A x \in Rows : Sees(t, x)' = IF x = q THEN new ELSE Sees(t, x)
    BY <2>1, <2>2, <2>3, RowUpdated DEF Inv
  <2>5. /\ lock[q] = t => new.grading = pending[q].grading
        /\ lock[q] # t => new.grading = row[q].grading
    BY <2>3 DEF Sees, Holds
  <2>6. Quietly(t)
    BY <1>1, <2>1, <2>2, <2>3, <2>4, <2>5, RowSets DEF Quietly
  <2>7. EditInv(t)'
    BY <1>1, <2>6, QuietKeepsGradings
  <2>8. GradingSeq(new.grading) /\ Len(old.grading) \in Nat /\ old.modified \in Nat
    BY <2>3, SeenGradings
  <2>9. QED
    BY <1>1, <2>1, <2>2, <2>3, <2>7, <2>8, UpdateKeepsGradings
<1>5. QED
  BY <1>2, <1>3, <1>4

\* update_instance_question_post_submission
LEMMA InsertSubmissionKeepsGradings ==
  ASSUME Inv, GradingInv, NEW t \in Txns, InsertSubmission(t)
  PROVE  GradingInv'
<1>1. txn[t].pc = "insert" /\ txn[t].op = "save"
  BY DEF InsertSubmission, At, GradingInv, EditInv, Staged
<1>2. PICK q \in Questions : q = txn[t].q /\ q \in Rows \ {AQ}
  BY <1>1, RowSets DEF GradingInv, EditInv, Answering
<1> DEFINE old == Sees(t, q)
           new == Answered(old)
<1>3. /\ UpdateRow(t, q, new) /\ Moves(t)
      /\ txn'[t].op = "save" /\ txn'[t].pc = "commit" /\ txn'[t].grading = txn[t].grading
  BY <1>1, <1>2 DEF InsertSubmission, GoTo, Moves, Inv, TxnInv, WellFormed, Fields
<1>4. /\ lock[AQ] # t /\ HoldsNoQuestion(t) /\ old = row[q] /\ txn[t].grading.applied \subseteq Items
  BY <1>1, <1>2 DEF GradingInv, EditInv, Answering, HoldsNoQuestion, Sees, Holds
<1>5. /\ QuestionRow(new) /\ new.grading = Append(row[q].grading, NoGrading)
      /\ new.modified = old.modified + 1
  <2>1. QuestionRow(old)
    BY SeenRow DEF Inv
  <2> HIDE DEF old
  <2>2. QED
    BY <1>4, <2>1 DEF QuestionRow, QuestionFields, Answered
<1> HIDE DEF new
<1>6. /\ GradingSeq(new.grading) /\ Len(new.grading) = Len(old.grading) + 1
      /\ Len(old.grading) \in Nat /\ old.modified \in Nat
  BY <1>4, <1>5, SeenGradings, GradingAdded
<1>7. /\ row' = row
      /\ \A x \in Rows : lock'[x] = IF x = q THEN t ELSE lock[x]
      /\ \A x \in Rows : pending'[x] = IF x = q THEN new ELSE pending[x]
  BY <1>2, <1>3, <1>5, RowUpdated DEF Inv
<1>8. Answering(t)'
  <2>1. lock'[AQ] # t
    BY <1>2, <1>4, <1>7, RowSets
  <2>2. ASSUME NEW x \in Questions, lock'[x] = t
        PROVE  pending'[x].grading \in {row'[x].grading, Append(row'[x].grading, NoGrading)}
    BY <1>2, <1>4, <1>5, <1>7, <2>2, RowSets DEF HoldsNoQuestion
  <2>3. QED
    BY <1>3, <2>1, <2>2 DEF Answering
<1>9. EditInv(t)'
  BY <1>3, <1>4, <1>8 DEF EditInv, Staged, Scores, Recomputing
<1>10. /\ Len(old.grading) <= Len(new.grading) /\ old.modified <= new.modified
       /\ old.modified # new.modified
  BY <1>5, <1>6
<1>11. QED
  BY <1>2, <1>3, <1>5, <1>6, <1>9, <1>10, UpdateKeepsGradings

\* The rubric is updated.
LEMMA UpdateRubricKeepsGradings ==
  ASSUME Inv, GradingInv, NEW t \in Txns, UpdateRubric(t)
  PROVE  GradingInv'
<1> DEFINE new == Revised(row[AQ], txn[t].form)
<1>1. /\ UpdateRow(t, AQ, new) /\ txn[t].pc = "rubric" /\ txn[t].op = "edit" /\ Moves(t)
      /\ txn'[t].pc = "review" /\ txn'[t].op = "edit" /\ txn'[t].seen = txn[t].seen
      /\ txn'[t].conflict = txn[t].conflict /\ txn'[t].todo = txn[t].todo
      /\ txn'[t].grading = txn[t].grading
  BY DEF UpdateRubric, At, GoTo, Moves, GradingInv, EditInv, Staged, Inv, TxnInv, WellFormed, Fields
<1> HIDE DEF new
<1>2. /\ row' = row
      /\ \A x \in Rows : lock'[x] = IF x = AQ THEN t ELSE lock[x]
      /\ \A x \in Rows : pending'[x] = IF x = AQ THEN new ELSE pending[x]
      /\ \A u \in Txns \ {t} : Untouched(u)
  BY <1>1, RowSets, RowUpdated DEF Inv
<1>3. /\ lock'[AQ] = t
      /\ \A x \in Questions : lock'[x] = lock[x] /\ pending'[x] = pending[x]
  BY <1>2, RowSets
<1>4. \A u \in Txns \ {t} : SameTxn(u)
  BY <1>1 DEF Moves, SameTxn
<1>5. GradingRows'
  BY <1>2, <1>3 DEF GradingInv, GradingRows
<1>6. Recomputing(t) /\ HoldsNoQuestion(t) /\ txn[t].grading.applied \subseteq Items
  BY <1>1 DEF GradingInv, EditInv, Recomputing
<1>7. HoldsNoQuestion(t)'
  BY <1>3, <1>6 DEF HoldsNoQuestion
<1>8. Recomputing(t)'
  BY <1>1, <1>3, <1>6, <1>7 DEF Recomputing, Editing
<1>9. EditInv(t)'
  BY <1>1, <1>6, <1>8 DEF EditInv, Staged, Scores, Answering
<1>10. QED
  BY <1>2, <1>4, <1>5, <1>9, OneKeepsGradings

\* select_instance_questions_to_update: the gradings it finds are there.
LEMMA ReviewKeepsGradings ==
  ASSUME Inv, GradingInv, NEW t \in Txns, Review(t)
  PROVE  GradingInv'
<1> DEFINE last    == LastGradings(row, Rubriced)
           changed == {q \in DOMAIN last : Changed(row[q].grading[last[q].submission], Sees(t, AQ))}
           found   == Restrict(last, changed)
<1>1. Become(t, [pc |-> "wait", found |-> found, todo |-> changed]) /\ txn[t].pc = "review"
      /\ UNCHANGED rowVars
  BY DEF Review, At
<1>2. \A q \in DOMAIN last : /\ q \in Rubriced /\ Graded(row[q]) # {}
                             /\ last[q].submission = Max(Graded(row[q]))
                             /\ last[q].applied = row[q].grading[Max(Graded(row[q]))].applied
  BY DEF LastGradings
<1> HIDE DEF last
<1>3. DOMAIN found = changed /\ \A q \in changed : found[q] = last[q] /\ q \in DOMAIN last
  BY DEF Restrict
<1> HIDE DEF found, changed
<1>4. /\ Moves(t) /\ txn'[t].pc = "wait" /\ txn'[t].todo = changed /\ txn'[t].found = found
      /\ txn'[t].op = txn[t].op /\ txn'[t].seen = txn[t].seen
      /\ txn'[t].conflict = txn[t].conflict /\ txn'[t].grading = txn[t].grading
  BY <1>1 DEF Become, Moves, Inv, TxnInv, WellFormed, Fields
<1>5. /\ txn[t].op = "edit" /\ Recomputing(t) /\ HoldsNoQuestion(t) /\ lock[AQ] = t
      /\ txn[t].grading.applied \subseteq Items
  BY <1>1 DEF GradingInv, EditInv, Staged, Recomputing
<1>6. \A q \in Questions : Sees(t, q)' = row[q] /\ GradingSeq(row[q].grading)
  BY <1>1, <1>5 DEF Sees, Holds, HoldsNoQuestion, rowVars, GradingInv, GradingRows
<1>7. ASSUME NEW q \in changed
      PROVE  /\ q \in Rubriced /\ found[q].applied \subseteq Items
             /\ found[q].submission \in 1..Len(Sees(t, q)'.grading)
  <2>1. /\ q \in Rubriced /\ q \in Questions /\ Graded(row[q]) # {} /\ GradingSeq(row[q].grading)
        /\ found[q].submission = Max(Graded(row[q]))
        /\ found[q].applied = row[q].grading[Max(Graded(row[q]))].applied
    BY <1>2, <1>3, <1>6, ManualGradingAssumption
  <2>2. Max(Graded(row[q])) \in 1..Len(row[q].grading)
    BY <2>1, LastGraded
  <2>3. QED
    BY <1>6, <2>1, <2>2 DEF GradingSeq
<1>8. Recomputing(t)'
  BY <1>1, <1>3, <1>4, <1>5, <1>7 DEF Recomputing, Editing, rowVars
<1>9. EditInv(t)'
  BY <1>4, <1>5, <1>8 DEF EditInv, Staged, Scores, Answering
<1>10. QED
  BY <1>1, <1>4, <1>9, ReadKeepsGradings

\* recomputeInstanceQuestions takes the next of the questions it found, or ends.
LEMMA RecomputeKeepsGradings ==
  ASSUME Inv, GradingInv, NEW t \in Txns, Recompute(t) \/ Recomputed(t)
  PROVE  GradingInv'
<1>1. /\ txn[t].pc = "recompute" /\ txn[t].op = "edit" /\ Recomputing(t) /\ UNCHANGED rowVars
      /\ txn[t].grading.applied \subseteq Items
  BY DEF Recompute, Recomputed, At, GradingInv, EditInv, Staged
<1>2. Rubriced \subseteq Questions /\ \A x \in Questions : Sees(t, x)' = Sees(t, x)
  BY <1>1, ManualGradingAssumption DEF Sees, Holds, rowVars
<1>3. CASE Recompute(t)
  <2>1. PICK q \in txn[t].todo :
          Become(t, [pc |-> "select", q |-> q, submission |-> txn[t].found[q].submission,
                     score |-> ByItems(txn[t].found[q].applied),
                     todo |-> txn[t].todo \ {q}])
    BY <1>3 DEF Recompute
  <2>2. /\ Moves(t) /\ txn'[t].pc = "select" /\ txn'[t].q = q
        /\ txn'[t].submission = txn[t].found[q].submission
        /\ txn'[t].score.rubric = TRUE /\ txn'[t].score.applied = txn[t].found[q].applied
        /\ txn'[t].todo = txn[t].todo \ {q} /\ txn'[t].op = "edit" /\ txn'[t].seen = txn[t].seen
        /\ txn'[t].conflict = txn[t].conflict /\ txn'[t].grading = txn[t].grading
        /\ txn'[t].found = txn[t].found
    BY <1>1, <2>1 DEF Become, ByItems, NoScore, Moves, Inv, TxnInv, WellFormed, Fields
  <2>3. q \in DOMAIN txn[t].found
    BY <1>1, <2>1 DEF Recomputing
  <2>4. Recomputing(t)'
    BY <1>1, <1>2, <2>2, <2>3 DEF Recomputing, Editing, rowVars
  <2>5. EditInv(t)'
    BY <1>1, <2>2, <2>4 DEF EditInv, Staged, Scores, Answering
  <2>6. QED
    BY <1>1, <2>2, <2>5, ReadKeepsGradings
<1>4. CASE Recomputed(t)
  <2>1. /\ txn[t].todo = {}
        /\ \/ Become(t, [pc |-> "tag", todo |-> Rubriced])
           \/ Become(t, [pc |-> "commit"])
    BY <1>4 DEF Recomputed
  <2>2. /\ Moves(t) /\ txn'[t].op = "edit" /\ txn'[t].seen = txn[t].seen
        /\ txn'[t].conflict = txn[t].conflict /\ txn'[t].grading = txn[t].grading
        /\ txn'[t].found = txn[t].found
        /\ txn'[t].pc = "tag" \/ (txn'[t].pc = "commit" /\ txn'[t].todo = {})
    BY <1>1, <2>1 DEF Become, Moves, Inv, TxnInv, WellFormed, Fields
  <2>3. Recomputing(t)'
    BY <1>1, <1>2, <2>2 DEF Recomputing, Editing, rowVars
  <2>4. EditInv(t)'
    BY <1>1, <2>2, <2>3 DEF EditInv, Staged, Scores, Answering
  <2>5. QED
    BY <1>1, <2>2, <2>4, ReadKeepsGradings
<1>5. QED
  BY <1>3, <1>4

\* tag_for_manual_grading
LEMMA TagKeepsGradings ==
  ASSUME Inv, GradingInv, NEW t \in Txns, Tag(t)
  PROVE  GradingInv'
<1>1. PICK q \in txn[t].todo :
        /\ UpdateRow(t, q, Tagged(Sees(t, q)))
        /\ Become(t, [pc |-> IF txn[t].todo = {q} THEN "commit" ELSE "tag", todo |-> txn[t].todo \ {q}])
        /\ txn[t].pc = "tag"
  BY DEF Tag, At
<1> DEFINE old == Sees(t, q)
           new == Tagged(old)
<1>2. q \in Questions /\ q \in Rows \ {AQ}
  BY <1>1, RowSets DEF Inv, TxnInv, WellFormed
<1>3. /\ Moves(t) /\ txn'[t].pc \in {"commit", "tag"} /\ txn'[t].op = txn[t].op
      /\ txn'[t].seen = txn[t].seen /\ txn'[t].conflict = txn[t].conflict
      /\ txn'[t].grading = txn[t].grading /\ txn'[t].found = txn[t].found
      /\ txn'[t].pc = "commit" => txn'[t].todo = {}
  BY <1>1 DEF Become, Moves, Inv, TxnInv, WellFormed, Fields
<1>4. QuestionRow(new) /\ new.grading = old.grading /\ new.modified = old.modified
  <2>1. QuestionRow(old)
    BY <1>2, SeenRow DEF Inv
  <2> HIDE DEF old
  <2>2. QED
    BY <2>1 DEF QuestionRow, QuestionFields, Tagged
<1>5. UpdateRow(t, q, new)
  BY <1>1
<1> HIDE DEF new
<1>6. /\ row' = row
      /\ \A x \in Rows : lock'[x] = IF x = q THEN t ELSE lock[x]
      /\ \A x \in Rows : pending'[x] = IF x = q THEN new ELSE pending[x]
      /\ \A x \in Rows : Sees(t, x)' = IF x = q THEN new ELSE Sees(t, x)
  BY <1>2, <1>4, <1>5, RowUpdated DEF Inv
<1>7. \A x \in Questions : Sees(t, x)'.grading = Sees(t, x).grading
  BY <1>4, <1>6, RowSets
<1>8. /\ txn[t].op = "edit" /\ Recomputing(t) /\ txn[t].grading.applied \subseteq Items
  BY <1>1 DEF GradingInv, EditInv, Staged
<1>9. Recomputing(t)'
  <2>1. Rubriced \subseteq Questions
    BY ManualGradingAssumption
  <2>2. lock'[AQ] = t
    BY <1>1, <1>2, <1>6, <1>8, RowSets DEF Recomputing
  <2>3. QED
    BY <1>1, <1>3, <1>7, <1>8, <2>1, <2>2 DEF Recomputing, Editing
<1>10. EditInv(t)'
  BY <1>3, <1>8, <1>9 DEF EditInv, Staged, Scores, Answering
<1>11. GradingSeq(new.grading) /\ Len(old.grading) \in Nat /\ old.modified \in Nat
  BY <1>2, <1>4, SeenGradings
<1>12. QED
  BY <1>2, <1>3, <1>4, <1>5, <1>10, <1>11, UpdateKeepsGradings

\* A transaction that has ended.
LEMMA EndedInv ==
  ASSUME NEW t \in Txns, DOMAIN txn = Txns, End(t), \A r \in Rows : lock'[r] # t
  PROVE  EditInv(t)' /\ Moves(t)
<1>1. /\ txn'[t].op = "none" /\ txn'[t].pc = "done" /\ txn'[t].seen = 0 /\ txn'[t].conflict = FALSE
      /\ txn'[t].todo = {} /\ txn'[t].grading = NoGrading /\ Moves(t)
  BY DEF End, NewTxn, Moves
<1>2. QED
  BY <1>1, RowSets DEF EditInv, Staged, Scores, Answering, Recomputing, NoGrading

LEMMA AbortKeepsGradings ==
  ASSUME Inv, GradingInv, NEW t \in Txns, Abort(t)
  PROVE  GradingInv'
<1>1. /\ row' = row
      /\ \A r \in Rows : pending'[r] = IF lock[r] = t THEN row[r] ELSE pending[r]
      /\ \A r \in Rows : lock'[r] = IF lock[r] = t THEN NoTxn ELSE lock[r]
      /\ \A r \in Rows : lock'[r] # t
      /\ \A u \in Txns \ {t} : Untouched(u)
      /\ End(t)
  BY RowsRolledBack DEF Abort, Rollback, Unlocked, Holds, Inv
<1>2. EditInv(t)' /\ Moves(t)
  BY <1>1, EndedInv DEF Inv
<1>3. GradingRows'
  <2>1. \A q \in Questions : Len(row[q].grading) \in Nat /\ row[q].modified \in Nat
    BY DEF GradingInv, GradingRows, GradingSeq, Inv, RowInv, QuestionRow
  <2>2. QED
    BY <1>1, <2>1, RowSets DEF GradingInv, GradingRows
<1>4. \A u \in Txns \ {t} : SameTxn(u)
  BY <1>2 DEF Moves, SameTxn
<1>5. QED
  BY <1>1, <1>2, <1>3, <1>4, OneKeepsGradings

-----------------------------------------------------------------------------
(* Commits. *)

\* What a commit does to the rows.
LEMMA Committed ==
  ASSUME Inv, GradingInv, NEW t \in Txns, CommitTxn(t)
  PROVE  /\ txn[t].pc = "commit" /\ End(t)
         /\ \A r \in Rows : row'[r] = IF lock[r] = t THEN pending[r] ELSE row[r]
         /\ \A r \in Rows : lock'[r] = IF lock[r] = t THEN NoTxn ELSE lock[r]
         /\ pending' = pending
         /\ \A u \in Txns \ {t} : SameTxn(u) /\ Untouched(u)
         /\ EditInv(t)' /\ GradingRows'
         /\ \A q \in Questions :
              /\ Len(row[q].grading) <= Len(row'[q].grading)
              /\ row[q].modified <= row'[q].modified
              /\ row[q].modified = row'[q].modified => Len(row[q].grading) = Len(row'[q].grading)
<1>1. /\ txn[t].pc = "commit" /\ Commit(t) /\ End(t)
      /\ \A a \in Instances : Even(t, a)
  BY DEF CommitTxn, At, Inv, TxnInv, Totals, BetweenWrites
<1>2. /\ \A r \in Rows : row'[r] = IF lock[r] = t THEN pending[r] ELSE row[r]
      /\ \A r \in Rows : lock'[r] = IF lock[r] = t THEN NoTxn ELSE lock[r]
      /\ pending' = pending
  BY <1>1 DEF Commit, Unlocked, Holds, Sees
<1>3. /\ \A r \in Rows : lock'[r] # t
      /\ \A u \in Txns \ {t} : Untouched(u)
  BY <1>1, RowsCommitted DEF Inv
<1>4. EditInv(t)' /\ Moves(t)
  BY <1>1, <1>3, EndedInv DEF Inv
<1>5. \A u \in Txns \ {t} : SameTxn(u)
  BY <1>4 DEF Moves, SameTxn
<1>6. ASSUME NEW q \in Questions
      PROVE  /\ Len(row[q].grading) <= Len(row'[q].grading)
             /\ row[q].modified <= row'[q].modified
             /\ row[q].modified = row'[q].modified => Len(row[q].grading) = Len(row'[q].grading)
             /\ GradingSeq(row'[q].grading) /\ GradingSeq(pending'[q].grading)
             /\ Len(row'[q].grading) <= Len(pending'[q].grading)
             /\ row'[q].modified <= pending'[q].modified
             /\ row'[q].modified = pending'[q].modified => Len(row'[q].grading) = Len(pending'[q].grading)
  <2>1. row'[q] = (IF lock[q] = t THEN pending[q] ELSE row[q]) /\ pending'[q] = pending[q]
    BY <1>2, RowSets
  <2>2. /\ GradingSeq(row[q].grading) /\ GradingSeq(pending[q].grading)
        /\ Len(row[q].grading) <= Len(pending[q].grading)
        /\ row[q].modified <= pending[q].modified
        /\ row[q].modified = pending[q].modified => Len(row[q].grading) = Len(pending[q].grading)
    BY DEF GradingInv, GradingRows
  <2>3. /\ row[q].modified \in Nat /\ pending[q].modified \in Nat
        /\ Len(row[q].grading) \in Nat /\ Len(pending[q].grading) \in Nat
    BY <2>2 DEF GradingSeq, Inv, RowInv, QuestionRow
  <2>4. CASE lock[q] = t
    BY <2>1, <2>2, <2>3, <2>4
  <2>5. CASE lock[q] # t
    BY <2>1, <2>2, <2>3, <2>5
  <2>6. QED
    BY <2>4, <2>5
<1>7. GradingRows'
  BY <1>6 DEF GradingRows
<1>8. QED
  BY <1>1, <1>2, <1>3, <1>4, <1>5, <1>6, <1>7

LEMMA RowNumbers ==
  ASSUME Inv, GradingInv, NEW q \in Questions
  PROVE  /\ Len(row[q].grading) \in Nat /\ Len(pending[q].grading) \in Nat
         /\ row[q].modified \in Nat /\ pending[q].modified \in Nat
<1>1. Len(row[q].grading) \in Nat /\ Len(pending[q].grading) \in Nat
  BY DEF GradingInv, GradingRows, GradingSeq
<1>2. row[q].modified \in Nat /\ pending[q].modified \in Nat
  BY DEF Inv, RowInv, QuestionRow
<1>3. QED
  BY <1>1, <1>2

\* Gradings are not lost, and a question that is not modified gets none.
LEMMA RowsGrow ==
  ASSUME Inv, GradingInv, NEW t \in Txns, CommitTxn(t), NEW q \in Questions
  PROVE  /\ Len(row[q].grading) <= Len(row'[q].grading)
         /\ row[q].modified <= row'[q].modified
         /\ row[q].modified = row'[q].modified => Len(row[q].grading) = Len(row'[q].grading)
         /\ Len(row[q].grading) \in Nat /\ Len(row'[q].grading) \in Nat
         /\ row[q].modified \in Nat /\ row'[q].modified \in Nat
         /\ \A k \in 1..Len(row[q].grading) : k \in 1..Len(row'[q].grading)
<1>1. /\ Len(row[q].grading) <= Len(row'[q].grading)
      /\ row[q].modified <= row'[q].modified
      /\ row[q].modified = row'[q].modified => Len(row[q].grading) = Len(row'[q].grading)
      /\ row'[q] = IF lock[q] = t THEN pending[q] ELSE row[q]
  BY Committed, RowSets
<1>2. /\ Len(row[q].grading) \in Nat /\ Len(pending[q].grading) \in Nat
      /\ row[q].modified \in Nat /\ pending[q].modified \in Nat
  BY RowNumbers
<1>3. CASE lock[q] = t
  BY <1>1, <1>2, <1>3
<1>4. CASE lock[q] # t
  BY <1>1, <1>2, <1>4
<1>5. \A k \in 1..Len(row[q].grading) : k \in 1..Len(row'[q].grading)
  BY <1>1, <1>2, <1>3, <1>4
<1>6. QED
  BY <1>3, <1>4, <1>5

\* What scores know of their question when others commit.
LEMMA OthersScore ==
  ASSUME Inv, GradingInv, NEW t \in Txns, CommitTxn(t), NEW u \in Txns \ {t}, Recomputing(u)'
  PROVE  EditInv(u)'
<1> USE Committed
<1>1. SameTxn(u) /\ Untouched(u) /\ EditInv(u)
  BY DEF GradingInv
<1> USE <1>1, StillThere
<1>2. Answering(u)'
  <2> SUFFICES ASSUME txn[u].op \notin {"page", "upload", "edit"}
               PROVE  Answering(u)'
    BY DEF Answering
  <2>1. \A q \in Questions : lock[q] = u =>
          pending[q].grading \in {row[q].grading, Append(row[q].grading, NoGrading)}
    BY DEF EditInv, Answering
  <2>2. \A q \in Questions : lock'[q] = u =>
          pending'[q].grading \in {row'[q].grading, Append(row'[q].grading, NoGrading)}
    <3> SUFFICES ASSUME NEW q \in Questions, lock'[q] = u
                 PROVE  pending'[q].grading \in {row'[q].grading, Append(row'[q].grading, NoGrading)}
      OBVIOUS
    <3>1. lock[q] = u /\ pending'[q] = pending[q] /\ row'[q] = row[q]
      OBVIOUS
    <3>2. pending[q].grading \in {row[q].grading, Append(row[q].grading, NoGrading)}
      BY <2>1, <3>1
    <3>3. QED
      BY <3>1, <3>2, Zenon
  <2>3. QED
    BY <2>2 DEF EditInv, Answering
<1>3. ASSUME Scores(u)
      PROVE  Scoring(u)' /\ Writing(u)' /\ PageLast(u)'
  <2> DEFINE q == txn[u].q
  <2>1. Scoring(u) /\ Writing(u) /\ PageLast(u) /\ q \in Questions
    BY <1>3 DEF EditInv, Scoring
  <2>2. /\ Len(row[q].grading) <= Len(row'[q].grading)
        /\ row[q].modified <= row'[q].modified
        /\ row[q].modified = row'[q].modified => Len(row[q].grading) = Len(row'[q].grading)
        /\ Len(row[q].grading) \in Nat /\ Len(row'[q].grading) \in Nat
        /\ row[q].modified \in Nat /\ row'[q].modified \in Nat
        /\ lock[q] = u => row'[q] = row[q]
        /\ \A k \in 1..Len(row[q].grading) : k \in 1..Len(row'[q].grading)
    BY <2>1, RowsGrow
  <2>3. Scoring(u)'
    <3>1. txn[u].submission \in 1..Len(row[q].grading)
      BY <2>1 DEF Scoring
    <3>2. QED
      BY <2>1, <3>1 DEF Scoring
  <2>4. Writing(u)'
    BY <2>1, OthersWrite
  <2>5. PageLast(u)'
    BY <2>1, <2>2 DEF PageLast, Scoring
  <2>6. QED
    BY <2>3, <2>4, <2>5
<1>4. QED
  BY <1>2, <1>3 DEF EditInv

\* Those that go on see at least the submissions that they saw.
LEMMA SeenGrows ==
  ASSUME Inv, GradingInv, NEW t \in Txns, CommitTxn(t), NEW u \in Txns \ {t}, NEW q \in Questions
  PROVE  /\ Sees(u, q) = IF lock[q] = u THEN pending[q] ELSE row[q]
         /\ Sees(u, q)' = IF lock[q] = u THEN pending[q] ELSE row'[q]
         /\ \A k \in 1..Len(row[q].grading) : k \in 1..Len(row'[q].grading)
         /\ \A k \in Nat : k < Len(row[q].grading) => k < Len(row'[q].grading)
         /\ \A k \in 1..Len(Sees(u, q).grading) : k \in 1..Len(Sees(u, q)'.grading)
<1>1. /\ Len(row[q].grading) <= Len(row'[q].grading) /\ Untouched(u)
      /\ row'[q] = (IF lock[q] = t THEN pending[q] ELSE row[q]) /\ pending'[q] = pending[q]
  BY Committed, RowSets
<1>2. Len(row[q].grading) \in Nat /\ Len(pending[q].grading) \in Nat
  BY RowNumbers
<1>3. /\ Sees(u, q) = IF lock[q] = u THEN pending[q] ELSE row[q]
      /\ Sees(u, q)' = IF lock[q] = u THEN pending[q] ELSE row'[q]
  BY <1>1, RowSets DEF Untouched, Sees, Holds
<1>4. Len(row'[q].grading) \in Nat
  BY <1>1, <1>2
<1>5. \A k \in 1..Len(Sees(u, q).grading) : k \in 1..Len(Sees(u, q)'.grading)
  <2>1. CASE lock[q] = u
    BY <1>3, <2>1
  <2>2. CASE lock[q] # u
    BY <1>1, <1>2, <1>3, <1>4, <2>2
  <2>3. QED
    BY <2>1, <2>2
<1>6. QED
  BY <1>1, <1>2, <1>3, <1>4, <1>5

LEMMA CommitKeepsGradings ==
  ASSUME Inv, GradingInv, NEW t \in Txns, CommitTxn(t)
  PROVE  GradingInv'
<1>1. ASSUME NEW u \in Txns \ {t}
      PROVE  EditInv(u)'
  <2>1. EditInv(u) /\ SameTxn(u) /\ Untouched(u) /\ Recomputing(u)
    BY Committed DEF GradingInv, EditInv
  <2>2. /\ txn'[u].op = txn[u].op /\ txn'[u].pc = txn[u].pc /\ txn'[u].q = txn[u].q
        /\ txn'[u].submission = txn[u].submission /\ txn'[u].seen = txn[u].seen
        /\ txn'[u].score = txn[u].score /\ txn'[u].conflict = txn[u].conflict
        /\ txn'[u].todo = txn[u].todo /\ txn'[u].found = txn[u].found
        /\ (Editing(u) <=> Editing(u)')
        /\ (HoldsNoQuestion(u) <=> HoldsNoQuestion(u)') /\ (lock'[AQ] = u <=> lock[AQ] = u)
    BY <2>1, StillThere
  <2>3. \A q \in Questions : \A k \in 1..Len(Sees(u, q).grading) : k \in 1..Len(Sees(u, q)'.grading)
    BY SeenGrows
  <2>4. Rubriced \subseteq Questions
    BY ManualGradingAssumption
  <2>5. Recomputing(u)'
    BY <2>1, <2>2, <2>3, <2>4 DEF Recomputing
  <2>6. QED
    BY <2>5, OthersScore
<1>2. QED
  BY <1>1, Committed DEF GradingInv

\* Reassigning a question changes no grading.
LEMMA ReassignKeepsGradings ==
  ASSUME Inv, GradingInv, NEW q \in Questions, NEW required \in BOOLEAN, Reassign(q, required)
  PROVE  GradingInv'
<1> DEFINE new == [row[q] EXCEPT !.requiresManualGrading = required]
<1>1. QuestionRow(row[q])
  BY DEF Inv, RowInv
<1>2. new.grading = row[q].grading /\ new.modified = row[q].modified
  BY <1>1 DEF QuestionRow, QuestionFields
<1>3. /\ row' = [row EXCEPT ![q] = new] /\ pending' = [pending EXCEPT ![q] = row'[q]]
      /\ lock' = lock /\ txn' = txn /\ lock[q] = NoTxn
  BY RowSets DEF Reassign, Inv, RowInv
<1> HIDE DEF new
<1>4. /\ \A r \in Rows : row'[r] = IF r = q THEN new ELSE row[r]
      /\ \A r \in Rows : pending'[r] = IF r = q THEN new ELSE pending[r]
      /\ pending[q] = row[q]
  BY <1>3, RowSets DEF Inv, RowInv
<1>5. \A r \in Questions :
           /\ row'[r].grading = row[r].grading /\ row'[r].modified = row[r].modified
           /\ pending'[r].grading = pending[r].grading /\ pending'[r].modified = pending[r].modified
  BY <1>2, <1>4, RowSets
<1>6. GradingsStay
  BY <1>5 DEF GradingsStay
<1>7. GradingRows'
  BY <1>5 DEF GradingInv, GradingRows
<1>9. ASSUME NEW u \in Txns
      PROVE  EditInv(u)'
  <2>1. SameTxn(u) /\ EditInv(u)
    BY <1>3 DEF SameTxn, GradingInv
  <2>2. Untouched(u)
    BY RowReassigned DEF Inv
  <2>3. QED
    BY <1>3, <1>6, <2>1, <2>2, OthersKeepGradings
<1>10. QED
  BY <1>7, <1>9 DEF GradingInv

\* In the beginning no submission is graded.
LEMMA InitKeepsGradings ==
  ASSUME Init
  PROVE  GradingInv
<1>1. /\ lock = [r \in Rows |-> NoTxn] /\ pending = row
      /\ \A r \in Rows : row[r] = IF r \in Questions THEN NewQuestion
                                  ELSE IF r = AQ THEN FirstRubric ELSE [points |-> 0]
      /\ txn = [t \in Txns |-> NewTxn]
  BY DEF Init, RowsInit
<1>2. /\ NewQuestion.grading = <<NoGrading>> /\ NewQuestion.modified = 1
      /\ GradingSeq(<<NoGrading>>)
  <2>1. <<NoGrading>> \in Seq(Range(<<NoGrading>>)) /\ Len(<<NoGrading>>) = 1
    BY DEF Range
  <2>2. QED
    BY <2>1 DEF NewQuestion, GradingSeq, NoGrading
<1>3. \A q \in Questions : row[q] = NewQuestion
  BY <1>1, RowSets
<1>5. GradingRows
  BY <1>1, <1>2, <1>3 DEF GradingRows
<1>8. ASSUME NEW t \in Txns
      PROVE  EditInv(t)
  <2>1. /\ txn[t].op = "none" /\ txn[t].pc = "idle" /\ txn[t].seen = 0 /\ txn[t].conflict = FALSE
        /\ txn[t].todo = {} /\ txn[t].grading = NoGrading
    BY <1>1 DEF NewTxn
  <2>2. lock[AQ] # t /\ \A q \in Questions : lock[q] # t
    BY <1>1, RowSets
  <2>3. QED
    BY <2>1, <2>2 DEF EditInv, Staged, Scores, Answering, Recomputing, NoGrading
<1>9. QED
  BY <1>5, <1>8 DEF GradingInv

LEMMA NextKeepsGradings ==
  ASSUME Inv, GradingInv, [Next]_vars
  PROVE  GradingInv'
<1>1. ASSUME NEW t \in Txns, CommitTxn(t)
      PROVE  GradingInv'
  BY <1>1, CommitKeepsGradings
<1>2. ASSUME NEW t \in Txns, Step(t)
      PROVE  GradingInv'
  <2>1. CASE SelectSubmission(t) \/ LockQuestion(t)
    BY <1>2, <2>1, SelectSubmissionKeepsGradings, LockQuestionKeepsGradings
  <2>2. CASE SelectItems(t) \/ InsertGrading(t) \/ WriteScore(t)
    BY <1>2, <2>2, InsertGradingKeepsGradings, WriteScoreKeepsGradings
  <2>3. CASE Total(t) \/ MarkUsed(t) \/ UpdateInstance(t) \/ LockReviewed(t) \/ ReviewedLocked(t)
    BY <1>2, <2>3, TotalKeepsGradings
  <2>4. CASE LockInstance(t) \/ ComputePoints(t) \/ StorePoints(t) \/ InsertSubmission(t)
    BY <1>2, <2>4, GradeKeepsGradings, InsertSubmissionKeepsGradings
  <2>5. CASE UpdateRubric(t) \/ Review(t) \/ Recompute(t) \/ Recomputed(t) \/ Tag(t)
    BY <1>2, <2>5, UpdateRubricKeepsGradings, ReviewKeepsGradings, RecomputeKeepsGradings, TagKeepsGradings
  <2>6. CASE Abort(t)
    BY <1>2, <2>6, AbortKeepsGradings
  <2>7. QED
    BY <1>2, <2>1, <2>2, <2>3, <2>4, <2>5, <2>6 DEF Step
<1>3. ASSUME NEW q \in Questions, NEW required \in BOOLEAN, Reassign(q, required)
      PROVE  GradingInv'
  BY <1>3, ReassignKeepsGradings
<1>4. CASE UNCHANGED vars
  <2>1. UNCHANGED <<row, pending, lock, txn>>
    BY <1>4 DEF vars, rowVars
  <2>2. GradingRows'
    BY <2>1 DEF GradingInv, GradingRows
  <2>3. ASSUME NEW u \in Txns
        PROVE  EditInv(u)'
    <3>1. SameTxn(u) /\ Untouched(u) /\ GradingsStay /\ EditInv(u)
      BY <2>1 DEF SameTxn, Untouched, GradingsStay, GradingInv
    <3>2. QED
      BY <2>1, <3>1, OthersKeepGradings
  <2>4. QED
    BY <2>2, <2>3 DEF GradingInv
<1>5. QED
  BY <1>1, <1>2, <1>3, <1>4, StartKeepsGradings DEF Next

LEMMA GradingInvariance == Spec => []GradingInv
<1>1. Init => GradingInv
  BY InitKeepsGradings
<1>2. Inv /\ GradingInv /\ [Next]_vars => GradingInv'
  BY NextKeepsGradings
<1>3. QED
  BY <1>1, <1>2, Invariance, PTL DEF Spec

-----------------------------------------------------------------------------
(* What requests commit is as if each of them ran alone: the gradebook. *)

\* What a request asks for is one of the scores, results or forms there are.
Asked(t) ==
  /\ txn[t].op = "page" /\ txn[t].pc # "opened" =>
       txn[t].score \in Grades /\ (txn[t].score.rubric <=> txn[t].q \in Rubriced)
  /\ txn[t].op = "page" /\ txn[t].score.rubric /\ txn[t].pc \notin {"opened", "select", "lock", "items"} =>
       "start" \in DOMAIN txn[t].grading /\ txn[t].grading.applied = txn[t].score.applied
  /\ txn[t].op = "page" /\ txn[t].pc = "opened" => ~txn[t].score.rubric
  /\ txn[t].op = "upload" => txn[t].score \in Uploads
  /\ txn[t].op = "upload" /\ txn[t].pc = "select" => txn[t].grading = NoGrading
  /\ txn[t].op \in {"auto", "save"} => txn[t].q \in Questions
  /\ txn[t].op = "auto" /\ txn[t].pc \notin {"instance", "grade"} => txn[t].score.auto \in AutoPoints
  /\ txn[t].op = "edit" => txn[t].form \in Forms
  /\ txn[t].op = "none" => ~txn[t].score.rubric /\ txn[t].grading = NoGrading

\* What a score, automatic grading or a new submission has written is its
\* question, as it is committed, with nothing but that change.
ScoreWrites(t) ==
  Scores(t) => \A q \in Questions : lock[q] = t =>
    pending[q] = IF q = txn[t].q /\ Written(t)
                   THEN Scored(row[q], txn[t].score, txn[t].submission, GradingOf(t))
                   ELSE row[q]

AutoWrites(t) ==
  txn[t].op = "auto" => \A q \in Questions : lock[q] = t =>
    pending[q] = IF q = txn[t].q /\ txn[t].pc \in {"total", "questions", "commit"}
                   THEN AutoGraded(row[q], txn[t].score.auto)
                   ELSE row[q]

SaveWrites(t) ==
  txn[t].op = "save" => \A q \in Questions : lock[q] = t =>
    q = txn[t].q /\ pending[q] = Answered(row[q])

\* The edit has tagged the question; it has scored it.
TaggedBy(t, q) ==
  /\ txn[t].form.tag /\ q \in Rubriced
  /\ txn[t].pc = "commit" \/ (txn[t].pc = "tag" /\ q \notin txn[t].todo)

Taking(t) == txn[t].pc \in {"select", "lock", "items", "grading", "write"}

Rescored(t, q) ==
  /\ q \in DOMAIN txn[t].found
  /\ txn[t].pc # "tag" => q \notin txn[t].todo
  /\ Taking(t) => q # txn[t].q

\* What the edit has made of the question.
Rewritten(t, q) ==
  LET x == IF Rescored(t, q) THEN AtOnce!Regraded(q, txn[t].found, pending[AQ]) ELSE row[q]
  IN  IF TaggedBy(t, q) THEN Tagged(x) ELSE x

\* An edit scores the questions it found by the rubric that it will commit, each
\* once, and tags them at last if it has to.
EditWrites(t) ==
  txn[t].op = "edit" =>
    /\ txn[t].pc # "rubric" => pending[AQ] = Revised(row[AQ], txn[t].form)
    /\ txn[t].pc \notin {"rubric", "review"} =>
         \A q \in Questions : /\ lock[q] = t => pending[q] = Rewritten(t, q)
                              /\ Rescored(t, q) \/ TaggedBy(t, q) => lock[q] = t
    /\ Editing(t) => /\ txn[t].q \in DOMAIN txn[t].found \ txn[t].todo
                     /\ txn[t].submission = txn[t].found[txn[t].q].submission
                     /\ txn[t].score = ByItems(txn[t].found[txn[t].q].applied)
    /\ txn[t].pc \in {"grading", "write"} =>
         txn[t].grading = RubricGrading(pending[AQ], txn[t].score.applied)
    /\ txn[t].pc = "tag" => txn[t].form.tag /\ txn[t].todo \subseteq Rubriced /\ txn[t].todo # {}

BookInv(t) == Asked(t) /\ ScoreWrites(t) /\ AutoWrites(t) /\ SaveWrites(t) /\ EditWrites(t)

-----------------------------------------------------------------------------

LEMMA SumsAgree ==
  ASSUME NEW f, NEW S
  PROVE  AtOnce!SumFunctionOnSet(f, S) = SumFunctionOnSet(f, S)
BY Zenon DEF AtOnce!SumFunctionOnSet, AtOnce!FoldFunctionOnSet, AtOnce!MapThenFoldSet,
             SumFunctionOnSet, FoldFunctionOnSet, MapThenFoldSet

\* The abstract specification scores by the same rules.
LEMMA SameRules ==
  /\ \A question, score, i, grading :
       AtOnce!Scored(question, score, i, grading) = Scored(question, score, i, grading)
  /\ \A applied : AtOnce!ByItems(applied) = ByItems(applied)
  /\ \A rubric, applied : AtOnce!RubricGrading(rubric, applied) = RubricGrading(rubric, applied)
  /\ \A question, auto : AtOnce!AutoGraded(question, auto) = AutoGraded(question, auto)
  /\ \A question : AtOnce!Answered(question) = Answered(question) /\ AtOnce!Tagged(question) = Tagged(question)
  /\ \A rubric, form : AtOnce!Revised(rubric, form) = Revised(rubric, form)
  /\ AtOnce!NoGrading = NoGrading /\ AtOnce!NewQuestion = NewQuestion
  /\ \A rows, questions : AtOnce!LastGradings(rows, questions) = LastGradings(rows, questions)
<1>1. \A question, score, i, grading :
        AtOnce!Scored(question, score, i, grading) = Scored(question, score, i, grading)
  BY DEF AtOnce!Scored, Scored
<1>2. \A applied : AtOnce!ByItems(applied) = ByItems(applied)
  BY DEF AtOnce!ByItems, ByItems, AtOnce!NoScore, NoScore
<1>3. \A rubric, applied : AtOnce!RubricGrading(rubric, applied) = RubricGrading(rubric, applied)
  <2>1. \A rubric, applied : AtOnce!Computed(rubric, applied) = Computed(rubric, applied)
    BY SumsAgree DEF AtOnce!Computed, Computed, AtOnce!Clamp, Clamp
  <2>2. QED
    BY <2>1 DEF AtOnce!RubricGrading, RubricGrading
<1>4. AtOnce!NoGrading = NoGrading /\ AtOnce!NewQuestion = NewQuestion
  BY DEF AtOnce!NoGrading, NoGrading, AtOnce!NewQuestion, NewQuestion
<1>5. \A question, auto : AtOnce!AutoGraded(question, auto) = AutoGraded(question, auto)
  BY DEF AtOnce!AutoGraded, AutoGraded
<1>6. \A question : AtOnce!Answered(question) = Answered(question) /\ AtOnce!Tagged(question) = Tagged(question)
  BY <1>4 DEF AtOnce!Answered, Answered, AtOnce!Tagged, Tagged
<1>7. \A rubric, form : AtOnce!Revised(rubric, form) = Revised(rubric, form)
  BY DEF AtOnce!Revised, Revised
<1>8. \A rows, questions : AtOnce!LastGradings(rows, questions) = LastGradings(rows, questions)
  <2>1. \A question : AtOnce!Graded(question) = Graded(question)
    BY <1>4 DEF AtOnce!Graded, Graded
  <2>2. \A S : AtOnce!Max(S) = Max(S)
    BY DEF AtOnce!Max, Max
  <2>3. QED
    BY <2>1, <2>2 DEF AtOnce!LastGradings, LastGradings
<1>9. QED
  BY <1>1, <1>2, <1>3, <1>4, <1>5, <1>6, <1>7, <1>8

\* What a transaction has yet to commit stays what it is while others move.
LEMMA OthersWriteOn ==
  ASSUME Inv, GradingInv, NEW u \in Txns, BookInv(u), SameTxn(u), Untouched(u)
  PROVE  BookInv(u)'
<1>1. /\ txn'[u].op = txn[u].op /\ txn'[u].pc = txn[u].pc /\ txn'[u].q = txn[u].q
      /\ txn'[u].submission = txn[u].submission /\ txn'[u].score = txn[u].score
      /\ txn'[u].grading = txn[u].grading /\ txn'[u].todo = txn[u].todo
      /\ txn'[u].found = txn[u].found
      /\ (Scores(u) <=> Scores(u)') /\ (Written(u) <=> Written(u)') /\ (Editing(u) <=> Editing(u)')
      /\ GradingOf(u)' = GradingOf(u)
      /\ \A q \in Questions : /\ lock'[q] = u <=> lock[q] = u
                              /\ lock[q] = u => pending'[q] = pending[q] /\ row'[q] = row[q]
  BY StillThere
<1>2. txn'[u].form = txn[u].form
  BY DEF SameTxn, Fields
<1>3. lock[AQ] = u => pending'[AQ] = pending[AQ] /\ row'[AQ] = row[AQ]
  BY RowSets DEF Untouched
<1>4. Asked(u)' /\ ScoreWrites(u)' /\ AutoWrites(u)' /\ SaveWrites(u)'
  BY <1>1, <1>2 DEF BookInv, Asked, ScoreWrites, AutoWrites, SaveWrites
<1>5. EditWrites(u)'
  <2> SUFFICES ASSUME txn[u].op = "edit" PROVE EditWrites(u)'
    BY <1>1 DEF EditWrites
  <2>1. EditWrites(u) /\ Recomputing(u)
    BY DEF BookInv, GradingInv, EditInv
  <2>2. CASE txn[u].pc = "rubric"
    BY <1>1, <1>2, <2>1, <2>2 DEF EditWrites, Editing
  <2>3. CASE txn[u].pc # "rubric"
    <3>1. pending'[AQ] = pending[AQ] /\ row'[AQ] = row[AQ]
      BY <1>3, <2>1, <2>3 DEF Recomputing
    <3>2. \A q \in Questions : (TaggedBy(u, q)' <=> TaggedBy(u, q)) /\ (Rescored(u, q)' <=> Rescored(u, q))
      BY <1>1, <1>2 DEF TaggedBy, Rescored, Taking
    <3>3. \A q \in Questions : lock[q] = u => Rewritten(u, q)' = Rewritten(u, q)
      BY <1>1, <3>1, <3>2 DEF Rewritten, AtOnce!Regraded
    <3>4. QED
      BY <1>1, <1>2, <2>1, <3>1, <3>2, <3>3 DEF EditWrites
  <2>4. QED
    BY <2>2, <2>3
<1>6. QED
  BY <1>4, <1>5 DEF BookInv

LEMMA OneWrites ==
  ASSUME Inv, GradingInv, \A u \in Txns : BookInv(u), NEW t \in Txns, BookInv(t)',
         \A u \in Txns \ {t} : SameTxn(u) /\ Untouched(u)
  PROVE  \A u \in Txns : BookInv(u)'
BY OthersWriteOn

\* A statement that writes no question.
Calm(t) ==
  /\ row' = row /\ lock'[AQ] = lock[AQ] /\ pending'[AQ] = pending[AQ]
  /\ txn'[t].op = txn[t].op /\ txn'[t].q = txn[t].q /\ txn'[t].submission = txn[t].submission
  /\ txn'[t].form = txn[t].form /\ txn'[t].todo = txn[t].todo /\ txn'[t].found = txn[t].found
  /\ txn[t].op # "auto" => txn'[t].score = txn[t].score
  /\ \A x \in Questions :
       IF lock[x] = t THEN lock'[x] = t /\ pending'[x] = pending[x]
                      ELSE lock'[x] = t => pending'[x] = row[x]

LEMMA CalmWrites ==
  ASSUME Inv, GradingInv, NEW t \in Txns, BookInv(t), Calm(t),
         txn[t].pc \notin {"idle", "opened", "done", "store", "insert", "rubric", "review", "tag", "commit"},
         txn'[t].pc \notin {"idle", "opened", "done", "rubric", "review", "tag"},
         Scores(t) => (Written(t)' <=> Written(t)) /\ (Written(t) => GradingOf(t)' = GradingOf(t)),
         txn[t].op = "auto" =>
           /\ txn[t].pc \in {"total", "questions"} <=> txn'[t].pc \in {"total", "questions", "commit"}
           /\ txn[t].pc \in {"total", "questions"} => txn'[t].score = txn[t].score
           /\ txn'[t].pc \notin {"instance", "grade"} => txn'[t].score.auto \in AutoPoints,
         txn[t].op = "save" => \A q \in Questions : lock'[q] # t,
         txn[t].op = "page" /\ txn[t].score.rubric /\ txn'[t].pc \notin {"select", "lock", "items"} =>
           "start" \in DOMAIN txn'[t].grading /\ txn'[t].grading.applied = txn[t].score.applied,
         txn[t].op = "upload" => txn'[t].pc # "select",
         txn[t].op = "edit" =>
           /\ txn'[t].pc # "commit" /\ (Editing(t)' => Editing(t)) /\ (Taking(t)' <=> Taking(t))
           /\ txn'[t].pc \in {"grading", "write"} =>
                txn'[t].grading = RubricGrading(pending[AQ], txn[t].score.applied)
  PROVE  BookInv(t)'
<1>1. Asked(t)'
  BY DEF Calm, BookInv, Asked, GradingInv, EditInv, Staged
<1>2. ScoreWrites(t)'
  <2> SUFFICES ASSUME Scores(t), NEW q \in Questions, lock'[q] = t
               PROVE  pending'[q] = IF q = txn'[t].q /\ Written(t)'
                                      THEN Scored(row'[q], txn'[t].score, txn'[t].submission, GradingOf(t)')
                                      ELSE row'[q]
    BY DEF Calm, ScoreWrites, Scores
  <2>1. txn[t].op # "auto"
    BY DEF Scores
  <2>2. CASE lock[q] = t
    BY <2>1, <2>2 DEF Calm, BookInv, ScoreWrites
  <2>3. CASE lock[q] # t
    <3>1. ~(q = txn[t].q /\ Written(t))
      BY <2>3 DEF GradingInv, EditInv, Scoring, Before, Written
    <3>2. QED
      BY <2>3, <3>1 DEF Calm
  <2>4. QED
    BY <2>2, <2>3
<1>3. AutoWrites(t)'
  <2> SUFFICES ASSUME txn[t].op = "auto", NEW q \in Questions, lock'[q] = t
               PROVE  pending'[q] = IF q = txn'[t].q /\ txn'[t].pc \in {"total", "questions", "commit"}
                                      THEN AutoGraded(row'[q], txn'[t].score.auto)
                                      ELSE row'[q]
    BY DEF Calm, AutoWrites
  <2>1. CASE lock[q] = t
    BY <2>1 DEF Calm, BookInv, AutoWrites
  <2>2. CASE lock[q] # t
    <3>1. pending'[q] = row'[q]
      BY <2>2 DEF Calm
    <3>2. q = txn[t].q => txn[t].pc \notin {"total", "questions"}
      BY <2>2 DEF Inv, TxnInv, Totals
    <3>3. QED
      BY <3>1, <3>2 DEF Calm
  <2>3. QED
    BY <2>1, <2>2
<1>4. SaveWrites(t)'
  BY DEF Calm, SaveWrites
<1>5. EditWrites(t)'
  <2> SUFFICES ASSUME txn[t].op = "edit" PROVE EditWrites(t)'
    BY DEF Calm, EditWrites
  <2>1. EditWrites(t)
    BY DEF BookInv
  <2>2. \A q \in Questions : ~TaggedBy(t, q) /\ ~TaggedBy(t, q)' /\ (Rescored(t, q)' <=> Rescored(t, q))
    BY DEF TaggedBy, Rescored, Calm
  <2>3. ASSUME NEW q \in Questions, lock'[q] = t
        PROVE  pending'[q] = Rewritten(t, q)'
    <3>1. CASE lock[q] = t
      BY <2>1, <2>2, <3>1 DEF Calm, EditWrites, Rewritten, AtOnce!Regraded
    <3>2. CASE lock[q] # t
      BY <2>1, <2>2, <2>3, <3>2 DEF Calm, EditWrites, Rewritten
    <3>3. QED
      BY <3>1, <3>2
  <2>4. QED
    BY <2>1, <2>2, <2>3 DEF Calm, EditWrites
<1>6. QED
  BY <1>1, <1>2, <1>3, <1>4, <1>5 DEF BookInv

\* Reading and locking write nothing.
LEMMA CalmRead ==
  ASSUME Inv, NEW t \in Txns, UNCHANGED rowVars,
         txn'[t].op = txn[t].op, txn'[t].q = txn[t].q, txn'[t].submission = txn[t].submission,
         txn'[t].form = txn[t].form, txn'[t].todo = txn[t].todo, txn'[t].found = txn[t].found,
         txn[t].op # "auto" => txn'[t].score = txn[t].score
  PROVE  Calm(t) /\ \A u \in Txns : Untouched(u)
<1>1. \A x \in Questions : lock'[x] = lock[x] /\ pending'[x] = pending[x]
  BY DEF rowVars
<1>2. \A u \in Txns : Untouched(u)
  BY RowsKept DEF Inv
<1>3. QED
  BY <1>1, <1>2 DEF Calm, rowVars

LEMMA CalmLock ==
  ASSUME Inv, NEW t \in Txns, NEW r \in Rows \ {AQ}, LockRow(t, r),
         txn'[t].op = txn[t].op, txn'[t].q = txn[t].q, txn'[t].submission = txn[t].submission,
         txn'[t].form = txn[t].form, txn'[t].todo = txn[t].todo,
         txn'[t].found = txn[t].found, txn'[t].score = txn[t].score
  PROVE  /\ Calm(t) /\ \A u \in Txns \ {t} : Untouched(u)
         /\ \A x \in Rows : lock'[x] = IF x = r THEN t ELSE lock[x]
<1>1. /\ UNCHANGED <<row, pending>>
      /\ \A x \in Rows : lock'[x] = IF x = r THEN t ELSE lock[x]
      /\ \A u \in Txns \ {t} : Untouched(u)
  BY RowLocked DEF Inv
<1>2. lock[r] \in {NoTxn, t} /\ (lock[r] = NoTxn => pending[r] = row[r])
  BY DEF LockRow, Available, Inv, RowInv
<1>3. QED
  BY <1>1, <1>2, RowSets DEF Calm

\* A request starts, or a page is submitted: nothing is locked yet.
LEMMA StartWrites ==
  ASSUME Inv, GradingInv, \A u \in Txns : BookInv(u), NEW t \in Txns, Start(t)
  PROVE  \A u \in Txns : BookInv(u)'
<1>1. \A q \in Rows : lock'[q] # t
  BY DEF Start, Open, Upload, Grade, Save, Submit, Edit, At, rowVars, Inv, TxnInv, WellFormed
<1>2. /\ UNCHANGED rowVars
      /\ DOMAIN txn = Txns /\ DOMAIN txn[t] = Fields
      /\ \A u \in Txns \ {t} : txn'[u] = txn[u]
  BY DEF Start, Open, Upload, Grade, Save, Submit, Edit, Become, Inv, TxnInv, WellFormed
<1>3. \/ txn'[t].op = "page" /\ txn'[t].pc = "opened" /\ ~txn'[t].score.rubric
      \/ /\ txn'[t].op = "page" /\ txn'[t].pc = "select"
         /\ txn'[t].score \in Grades /\ (txn'[t].score.rubric <=> txn'[t].q \in Rubriced)
      \/ txn'[t].op = "upload" /\ txn'[t].score \in Uploads /\ txn'[t].grading = NoGrading
      \/ txn'[t].op \in {"auto", "save"} /\ txn'[t].pc = "instance" /\ txn'[t].q \in Questions
      \/ txn'[t].op = "edit" /\ txn'[t].pc = "rubric" /\ txn'[t].form \in Forms
  <2>1. CASE \E q \in Questions : Open(t, q) \/ Upload(t, q) \/ Grade(t, q) \/ Save(t, q)
    <3>1. PICK q \in Questions : Open(t, q) \/ Upload(t, q) \/ Grade(t, q) \/ Save(t, q)
      BY <2>1
    <3>2. CASE Open(t, q)
      <4>1. txn[t].op = "none"
        BY <3>2 DEF Open, At, GradingInv, EditInv, Staged
      <4>2. QED
        BY <1>2, <3>2, <4>1 DEF Open, Become, Fields, BookInv, Asked
    <3>3. CASE Upload(t, q)
      <4>1. txn[t].op = "none"
        BY <3>3 DEF Upload, At, GradingInv, EditInv, Staged
      <4>2. QED
        BY <1>2, <3>3, <4>1 DEF Upload, Become, Fields, BookInv, Asked
    <3>4. CASE Grade(t, q) \/ Save(t, q)
      BY <1>2, <3>4 DEF Grade, Save, Become, Fields
    <3>5. QED
      BY <3>1, <3>2, <3>3, <3>4
  <2>2. CASE Submit(t)
    <3>1. txn[t].op = "page"
      BY <2>2 DEF Submit, At, GradingInv, EditInv, Staged
    <3>2. QED
      BY <1>2, <2>2, <3>1 DEF Submit, Become, Fields
  <2>3. CASE Edit(t)
    BY <1>2, <2>3 DEF Edit, Become, Fields
  <2>4. QED
    BY <2>1, <2>2, <2>3 DEF Start
<1>4. Asked(t)'
  BY <1>3 DEF Asked
<1>5. ScoreWrites(t)' /\ AutoWrites(t)' /\ SaveWrites(t)'
  BY <1>1, RowSets DEF ScoreWrites, AutoWrites, SaveWrites
<1>6. EditWrites(t)'
  BY <1>3 DEF EditWrites, Editing
<1>7. \A u \in Txns : Untouched(u)
  BY <1>2, RowsKept DEF Inv
<1>8. QED
  BY <1>2, <1>4, <1>5, <1>6, <1>7, OneWrites DEF BookInv, SameTxn

\* A grading keeps the rubric it was computed from.
LEMMA SameRubric ==
  ASSUME NEW rubric, NEW applied, NEW g, g = RubricGrading(rubric, applied)
  PROVE  [g EXCEPT !.start = rubric.start, !.item = rubric.item] = g
<1>1. /\ DOMAIN g = {"applied", "points", "replace", "skipped", "start", "item"}
      /\ g.start = rubric.start /\ g.item = rubric.item /\ g = [x \in DOMAIN g |-> g[x]]
  BY DEF RubricGrading
<1>2. QED
  BY <1>1

\* The update of a score reads and locks what it needs.
LEMMA ScoreReadsOn ==
  ASSUME Inv, GradingInv, \A u \in Txns : BookInv(u), NEW t \in Txns,
         SelectSubmission(t) \/ LockQuestion(t) \/ SelectItems(t) \/ InsertGrading(t)
  PROVE  \A u \in Txns : BookInv(u)'
<1>1. /\ Moves(t)
      /\ txn'[t].op = txn[t].op /\ txn'[t].q = txn[t].q /\ txn'[t].submission = txn[t].submission
      /\ txn'[t].form = txn[t].form /\ txn'[t].todo = txn[t].todo /\ txn'[t].score = txn[t].score
      /\ txn'[t].found = txn[t].found
      /\ <<txn[t].pc, txn'[t].pc>> \in {<<"select", "lock">>, <<"lock", "items">>, <<"lock", "write">>,
                                        <<"items", "grading">>, <<"grading", "write">>}
  BY DEF SelectSubmission, LockQuestion, SelectItems, InsertGrading, At, Become, Moves,
         Inv, TxnInv, WellFormed, Fields
<1>2. Calm(t) /\ \A u \in Txns \ {t} : Untouched(u)
  <2>1. CASE LockQuestion(t)
    <3>1. LockRow(t, txn[t].q) /\ txn[t].q \in Rows \ {AQ}
      BY <2>1, RowSets DEF LockQuestion, At, Inv, TxnInv, WellFormed, HasQuestion
    <3>2. QED
      BY <1>1, <3>1, CalmLock
  <2>2. CASE ~LockQuestion(t)
    BY <1>1, <2>2, CalmRead DEF SelectSubmission, SelectItems, InsertGrading
  <2>3. QED
    BY <2>1, <2>2
<1>3. ~Written(t) /\ ~Written(t)' /\ txn[t].op \in {"page", "upload", "edit"}
  BY <1>1 DEF Written, GradingInv, EditInv, Staged
<1>4. ASSUME txn[t].op = "edit", txn'[t].pc \in {"grading", "write"}
      PROVE  txn'[t].grading = RubricGrading(pending[AQ], txn[t].score.applied)
  <2>1. Recomputing(t) /\ EditWrites(t) /\ txn[t].score.rubric
    BY <1>1, <1>4 DEF BookInv, GradingInv, EditInv, Recomputing, Editing
  <2>2. Sees(t, AQ) = pending[AQ]
    BY <1>1, <1>4, SeenRubric
  <2>3. CASE SelectItems(t)
    BY <1>1, <2>2, <2>3 DEF SelectItems, Become, Inv, TxnInv, WellFormed, Fields
  <2>4. CASE InsertGrading(t)
    <3>1. txn[t].grading = RubricGrading(pending[AQ], txn[t].score.applied)
      BY <1>4, <2>1, <2>4 DEF InsertGrading, At, EditWrites
    <3>2. txn'[t].grading = [txn[t].grading EXCEPT !.start = pending[AQ].start, !.item = pending[AQ].item]
      <4> DEFINE new == [txn[t].grading EXCEPT !.start = pending[AQ].start, !.item = pending[AQ].item]
      <4>1. Become(t, [pc |-> "write", grading |-> new])
        BY <2>2, <2>4 DEF InsertGrading
      <4>2. DOMAIN txn = Txns /\ DOMAIN txn[t] = Fields
        BY DEF Inv, TxnInv, WellFormed
      <4> HIDE DEF new
      <4>3. txn'[t].grading = new
        BY <4>1, <4>2 DEF Become, Fields
      <4>4. QED
        BY <4>3 DEF new
    <3> DEFINE old == txn[t].grading
               rubric == pending[AQ]
               applied == txn[t].score.applied
    <3>3. old = RubricGrading(rubric, applied) /\ txn'[t].grading = [old EXCEPT !.start = rubric.start, !.item = rubric.item]
      BY <3>1, <3>2
    <3> HIDE DEF old, rubric, applied
    <3>4. txn'[t].grading = RubricGrading(rubric, applied)
      BY <3>3, SameRubric
    <3>5. QED
      BY <3>4 DEF rubric, applied
  <2>5. QED
    BY <1>1, <1>4, <2>1, <2>3, <2>4 DEF SelectSubmission, LockQuestion, At, Become, Inv, TxnInv, WellFormed, Fields
<1>5. ASSUME txn[t].op = "page", txn[t].score.rubric, txn'[t].pc \in {"grading", "write"}
      PROVE  "start" \in DOMAIN txn'[t].grading /\ txn'[t].grading.applied = txn[t].score.applied
  <2>1. CASE LockQuestion(t)
    BY <1>5, <2>1 DEF LockQuestion, Become, Inv, TxnInv, WellFormed, Fields
  <2>2. CASE SelectItems(t)
    BY <2>2 DEF SelectItems, Become, RubricGrading, Inv, TxnInv, WellFormed, Fields
  <2>3. CASE InsertGrading(t)
    <3>1. /\ "applied" \in DOMAIN txn[t].grading /\ "start" \in DOMAIN txn[t].grading
          /\ txn[t].grading.applied = txn[t].score.applied
      BY <1>5, <2>3 DEF InsertGrading, At, GradingInv, EditInv, BookInv, Asked
    <3>2. PICK start, item : txn'[t].grading = [txn[t].grading EXCEPT !.start = start, !.item = item]
      BY <2>3 DEF InsertGrading, Become, Inv, TxnInv, WellFormed, Fields
    <3>3. QED
      BY <3>1, <3>2
  <2>4. QED
    BY <1>1, <1>5, <2>1, <2>2, <2>3 DEF SelectSubmission, At
<1>6. BookInv(t)'
  <2>1. Editing(t) /\ Taking(t) /\ Taking(t)'
    BY <1>1 DEF Editing, Taking
  <2>2. QED
    BY <1>1, <1>2, <1>3, <1>4, <1>5, <2>1, CalmWrites
<1>7. QED
  BY <1>1, <1>2, <1>6, OneWrites DEF Moves, SameTxn

\* assessment_instances_grade, and the edit that waits for its questions
LEMMA TotalWrites ==
  ASSUME Inv, GradingInv, \A u \in Txns : BookInv(u), NEW t \in Txns,
         Total(t) \/ MarkUsed(t) \/ UpdateInstance(t) \/ LockReviewed(t) \/ ReviewedLocked(t)
  PROVE  \A u \in Txns : BookInv(u)'
<1>1. /\ Moves(t)
      /\ txn'[t].op = txn[t].op /\ txn'[t].q = txn[t].q /\ txn'[t].submission = txn[t].submission
      /\ txn'[t].form = txn[t].form /\ txn'[t].todo = txn[t].todo /\ txn'[t].score = txn[t].score
      /\ txn'[t].conflict = txn[t].conflict /\ txn'[t].grading = txn[t].grading
      /\ txn'[t].found = txn[t].found
      /\ \/ <<txn[t].pc, txn'[t].pc>> \in {<<"total", "questions">>, <<"questions", "questions">>,
                                           <<"wait", "wait">>, <<"wait", "recompute">>}
         \/ txn[t].pc = "questions" /\ txn'[t].pc = (IF txn[t].op = "edit" THEN "recompute" ELSE "commit")
  <2>1. CASE Total(t)
    BY <2>1 DEF Total, At, Become, Moves, Inv, TxnInv, WellFormed, Fields
  <2>2. CASE MarkUsed(t) \/ LockReviewed(t)
    BY <2>2 DEF MarkUsed, LockReviewed, At, Moves, Inv
  <2>3. CASE UpdateInstance(t) \/ ReviewedLocked(t)
    BY <2>3 DEF UpdateInstance, ReviewedLocked, At, GoTo, Updated, Moves, Inv, TxnInv, WellFormed, Fields
  <2>4. QED
    BY <2>1, <2>2, <2>3
<1>2. Calm(t) /\ \A u \in Txns \ {t} : Untouched(u)
  <2>1. CASE Total(t) \/ ReviewedLocked(t)
    BY <1>1, <2>1, CalmRead DEF Total, ReviewedLocked
  <2>2. CASE MarkUsed(t) \/ LockReviewed(t)
    <3>1. PICK r \in Questions : LockRow(t, r)
      BY <2>2, RowSets DEF MarkUsed, Unmarked, Siblings, LockReviewed, At, Inv, TxnInv, WellFormed
    <3>2. r \in Rows \ {AQ}
      BY RowSets
    <3>3. QED
      BY <1>1, <3>1, <3>2, CalmLock
  <2>3. CASE UpdateInstance(t)
    <3>1. InstanceOf[txn[t].q] \in Instances /\ InstanceOf[txn[t].q] \in Rows
      BY <2>3, RowSets DEF UpdateInstance, At, Inv, TxnInv, WellFormed, HasQuestion
    <3>2. PICK new : \E a \in Instances : UpdateRow(t, a, new)
      BY <2>3, <3>1 DEF UpdateInstance
    <3>  PICK a \in Instances : UpdateRow(t, a, new)
      BY <3>2
    <3>3. a \in Rows /\ a \notin Questions /\ a # AQ
      BY RowSets
    <3>4. /\ row' = row
          /\ \A x \in Rows : lock'[x] = IF x = a THEN t ELSE lock[x]
          /\ \A x \in Rows : pending'[x] = IF x = a THEN new ELSE pending[x]
          /\ \A u \in Txns \ {t} : Untouched(u)
      BY <3>2, <3>3, RowUpdated DEF Inv
    <3>5. QED
      BY <1>1, <3>3, <3>4, RowSets DEF Calm
  <2>4. QED
    BY <2>1, <2>2, <2>3
<1>3. txn[t].op \in {"page", "upload", "edit", "auto"} /\ (txn[t].op = "auto" => txn[t].pc \in {"total", "questions"})
  BY <1>1 DEF GradingInv, EditInv, Staged
<1>4. Scores(t) => (Written(t)' <=> Written(t)) /\ GradingOf(t)' = GradingOf(t)
  <2>1. Scores(t) => txn[t].pc \notin {"wait"}
    BY DEF GradingInv, EditInv, Staged, Scores
  <2>2. QED
    BY <1>1, <2>1 DEF Written, GradingOf, Scores
<1>5. (Editing(t)' => Editing(t)) /\ ~Taking(t) /\ ~Taking(t)'
  BY <1>1 DEF Editing, Taking
<1>6. txn'[t].op = "auto" => txn'[t].score.auto \in AutoPoints
  BY <1>1, <1>3 DEF BookInv, Asked
<1>7. txn[t].op = "page" /\ txn[t].score.rubric =>
        "start" \in DOMAIN txn'[t].grading /\ txn'[t].grading.applied = txn[t].score.applied
  BY <1>1 DEF BookInv, Asked, GradingInv, EditInv, Staged
<1>8. BookInv(t)'
  BY <1>1, <1>2, <1>3, <1>4, <1>5, <1>6, <1>7, CalmWrites
<1>9. QED
  BY <1>1, <1>2, <1>8, OneWrites DEF Moves, SameTxn

\* The score of a question is written once, to the question as it is committed.
LEMMA WriteScoreWrites ==
  ASSUME Inv, GradingInv, \A u \in Txns : BookInv(u), NEW t \in Txns, WriteScore(t)
  PROVE  \A u \in Txns : BookInv(u)'
<1> DEFINE q   == txn[t].q
           k   == txn[t].submission
           old == Sees(t, q)
           g   == GradingOf(t)
           new == Scored(old, txn[t].score, k, g)
<1>1. /\ Moves(t) /\ txn[t].pc = "write"
      /\ txn'[t].op = txn[t].op /\ txn'[t].q = q /\ txn'[t].submission = k
      /\ txn'[t].form = txn[t].form /\ txn'[t].todo = txn[t].todo /\ txn'[t].score = txn[t].score
      /\ txn'[t].conflict = txn[t].conflict /\ txn'[t].grading = txn[t].grading
      /\ txn'[t].found = txn[t].found
      /\ IF txn[t].conflict
           THEN UNCHANGED rowVars /\ txn'[t].pc = (IF txn[t].op = "edit" THEN "recompute" ELSE "commit")
           ELSE UpdateRow(t, q, new) /\ txn'[t].pc = "total"
  BY DEF WriteScore, At, GoTo, Updated, Moves, Inv, TxnInv, WellFormed, Fields
<1>2. /\ q \in Questions /\ q \in Rows \ {AQ} /\ txn[t].op \in {"page", "upload", "edit"}
  BY <1>1, RowSets DEF Inv, TxnInv, WellFormed, HasQuestion, GradingInv, EditInv, Staged
<1>3. CASE txn[t].conflict
  <2>1. txn[t].op \in {"page", "upload"} /\ ~Written(t) /\ ~Written(t)'
    BY <1>1, <1>2, <1>3 DEF Written, GradingInv, EditInv, Recomputing
  <2>2. Calm(t) /\ \A u \in Txns : Untouched(u)
    BY <1>1, <1>3, CalmRead
  <2>3. txn[t].op = "page" /\ txn[t].score.rubric =>
          "start" \in DOMAIN txn'[t].grading /\ txn'[t].grading.applied = txn[t].score.applied
    BY <1>1 DEF BookInv, Asked
  <2>4. BookInv(t)'
    BY <1>1, <1>3, <2>1, <2>2, <2>3, CalmWrites
  <2>5. QED
    BY <1>1, <2>2, <2>4, OneWrites DEF Moves, SameTxn
<1>4. CASE ~txn[t].conflict
  <2>1. /\ QuestionRow(old) /\ (q \in Questions => QuestionRow(new))
    <3>1. QuestionRow(old)
      BY <1>2, SeenRow DEF Inv
    <3> HIDE DEF old, k, g
    <3>2. QED
      BY <3>1 DEF Scored, QuestionRow, QuestionFields
  <2>2. old = row[q] /\ lock[q] \in {t, NoTxn}
    <3>1. CASE txn[t].op = "edit"
      BY <1>1, <1>2, <1>4, <3>1 DEF BookInv, EditWrites, Rewritten, Rescored, Taking, TaggedBy,
         Sees, Holds, UpdateRow, Available
    <3>2. CASE txn[t].op # "edit"
      BY <1>1, <1>2, <1>4, <3>2 DEF BookInv, ScoreWrites, Scores, Written, Sees, Holds, UpdateRow, Available
    <3>3. QED
      BY <3>1, <3>2
  <2> HIDE DEF new
  <2>3. /\ row' = row /\ lock'[q] = t /\ pending'[q] = new
        /\ \A x \in Rows : x # q => lock'[x] = lock[x] /\ pending'[x] = pending[x]
        /\ \A u \in Txns \ {t} : Untouched(u)
    BY <1>1, <1>2, <1>4, <2>1, RowUpdated DEF Inv
  <2>4. Asked(t)'
    BY <1>1, <1>2, <1>4 DEF BookInv, Asked
  <2>5. AutoWrites(t)' /\ SaveWrites(t)'
    BY <1>1, <1>2 DEF AutoWrites, SaveWrites
  <2>6. GradingOf(t)' = g
    BY <1>1 DEF GradingOf
  <2>7. ScoreWrites(t)'
    <3> SUFFICES ASSUME Scores(t), NEW x \in Questions, lock'[x] = t
                 PROVE  pending'[x] = IF x = q THEN Scored(row[q], txn[t].score, k, g) ELSE row[x]
      BY <1>1, <1>4, <2>3, <2>6 DEF ScoreWrites, Scores, Written
    <3>1. CASE x = q
      BY <2>2, <2>3, <3>1 DEF new
    <3>2. CASE x # q
      BY <2>3, <3>2, RowSets DEF BookInv, ScoreWrites
    <3>3. QED
      BY <3>1, <3>2
  <2>8. EditWrites(t)'
    <3> SUFFICES ASSUME txn[t].op = "edit" PROVE EditWrites(t)'
      BY <1>1 DEF EditWrites
    <3> DEFINE found == txn[t].found
    <3>1. EditWrites(t) /\ Recomputing(t) /\ Editing(t)
      BY <1>1 DEF BookInv, GradingInv, EditInv, Editing
    <3>2. /\ q \in DOMAIN found \ txn[t].todo /\ k = found[q].submission
          /\ txn[t].score = ByItems(found[q].applied) /\ txn[t].score.rubric
          /\ txn[t].grading = RubricGrading(pending[AQ], txn[t].score.applied)
      BY <1>1, <3>1 DEF EditWrites, Recomputing
    <3>3. g = RubricGrading(pending[AQ], found[q].applied)
      BY <3>2 DEF GradingOf, ByItems, NoScore
    <3>4. pending'[AQ] = pending[AQ]
      BY <1>2, <2>3, RowSets
    <3>5. new = AtOnce!Regraded(q, found, pending[AQ])
      <4>1. new = Scored(row[q], ByItems(found[q].applied), found[q].submission,
                         RubricGrading(pending[AQ], found[q].applied))
        BY <2>2, <3>2, <3>3 DEF new
      <4> HIDE DEF q, found
      <4>2. QED
        BY <3>2, <4>1, SameRules DEF AtOnce!Regraded
    <3>6. \A x \in Questions : /\ ~TaggedBy(t, x) /\ ~TaggedBy(t, x)'
                               /\ Rescored(t, x)' <=> x = q \/ Rescored(t, x)
      BY <1>1, <1>4, <3>2 DEF TaggedBy, Rescored, Taking
    <3>7. ASSUME NEW x \in Questions, lock'[x] = t
          PROVE  pending'[x] = Rewritten(t, x)'
      <4>1. CASE x = q
        BY <1>1, <1>2, <2>3, <3>4, <3>5, <3>6, <4>1 DEF Rewritten, AtOnce!Regraded
      <4>2. CASE x # q
        <5>1. pending[x] = Rewritten(t, x)
          BY <1>1, <2>3, <3>1, <3>7, <4>2, RowSets DEF EditWrites
        <5>2. pending'[x] = pending[x] /\ row'[x] = row[x]
          BY <2>3, <4>2, RowSets
        <5>3. Rewritten(t, x)' = Rewritten(t, x)
          BY <1>1, <3>4, <3>6, <4>2, <5>2 DEF Rewritten, AtOnce!Regraded
        <5>4. QED
          BY <5>1, <5>2, <5>3
      <4>3. QED
        BY <4>1, <4>2
    <3>8. \A x \in Questions : Rescored(t, x)' \/ TaggedBy(t, x)' => lock'[x] = t
      BY <1>1, <1>2, <2>3, <3>1, <3>6, RowSets DEF EditWrites
    <3>9. QED
      BY <1>1, <1>4, <2>3, <3>1, <3>4, <3>7, <3>8 DEF EditWrites, Editing
  <2>9. QED
    BY <1>1, <2>3, <2>4, <2>5, <2>7, <2>8, OneWrites DEF BookInv, Moves, SameTxn
<1>5. QED
  BY <1>3, <1>4

\* What students do: automatic grading stores its points once, a submission is added once.
LEMMA StudentWrites ==
  ASSUME Inv, GradingInv, \A u \in Txns : BookInv(u), NEW t \in Txns,
         LockInstance(t) \/ ComputePoints(t) \/ StorePoints(t) \/ InsertSubmission(t)
  PROVE  \A u \in Txns : BookInv(u)'
<1>1. /\ txn[t].op \in {"auto", "save"} /\ txn[t].q \in Questions /\ txn[t].q \in Rows \ {AQ}
      /\ InstanceOf[txn[t].q] \in Rows /\ InstanceOf[txn[t].q] \notin Questions \cup {AQ}
  <2>1. txn[t].op \in {"auto", "save"} /\ txn[t].q \in Questions
    BY DEF LockInstance, ComputePoints, StorePoints, InsertSubmission, At, GradingInv, EditInv, Staged,
           Inv, TxnInv, WellFormed, HasQuestion
  <2>2. QED
    BY <2>1, RowSets
<1>2. CASE LockInstance(t)
  <2>1. /\ Moves(t)
        /\ txn'[t].op = txn[t].op /\ txn'[t].q = txn[t].q /\ txn'[t].submission = txn[t].submission
        /\ txn'[t].form = txn[t].form /\ txn'[t].todo = txn[t].todo /\ txn'[t].score = txn[t].score
        /\ txn'[t].found = txn[t].found
        /\ txn[t].pc = "instance" /\ txn'[t].pc = (IF txn[t].op = "auto" THEN "grade" ELSE "insert")
    BY <1>2 DEF LockInstance, At, GoTo, Moves, Inv, TxnInv, WellFormed, Fields
  <2>2. LockRow(t, InstanceOf[txn[t].q]) /\ InstanceOf[txn[t].q] \in Rows \ {AQ}
    BY <1>1, <1>2 DEF LockInstance
  <2>3. /\ Calm(t) /\ \A u \in Txns \ {t} : Untouched(u)
        /\ \A x \in Rows : lock'[x] = IF x = InstanceOf[txn[t].q] THEN t ELSE lock[x]
    BY <2>1, <2>2, CalmLock
  <2>4. \A q \in Questions : lock'[q] # t
    BY <1>1, <2>1, <2>3, RowSets DEF GradingInv, EditInv, Answering, HoldsNoQuestion
  <2>5. BookInv(t)'
    BY <1>1, <2>1, <2>3, <2>4, CalmWrites DEF Scores
  <2>6. QED
    BY <2>1, <2>3, <2>5, OneWrites DEF Moves, SameTxn
<1>3. CASE ComputePoints(t)
  <2>1. PICK auto \in AutoPoints :
          Become(t, [pc |-> "store", score |-> [NoScore EXCEPT !.auto = auto],
                     points |-> auto + Sees(t, txn[t].q).manual])
    BY <1>3 DEF ComputePoints
  <2>2. /\ Moves(t) /\ UNCHANGED rowVars
        /\ txn'[t].op = txn[t].op /\ txn'[t].q = txn[t].q /\ txn'[t].submission = txn[t].submission
        /\ txn'[t].form = txn[t].form /\ txn'[t].todo = txn[t].todo /\ txn'[t].found = txn[t].found
        /\ txn'[t].score = [NoScore EXCEPT !.auto = auto]
        /\ txn[t].pc = "grade" /\ txn'[t].pc = "store"
    BY <1>3, <2>1 DEF ComputePoints, At, Become, Moves, Inv, TxnInv, WellFormed, Fields
  <2>3. txn[t].op = "auto" /\ txn'[t].score.auto \in AutoPoints
    BY <2>2 DEF NoScore, GradingInv, EditInv, Staged
  <2>4. Calm(t) /\ \A u \in Txns : Untouched(u)
    BY <2>2, <2>3, CalmRead
  <2>5. BookInv(t)'
    BY <2>2, <2>3, <2>4, CalmWrites DEF Scores
  <2>6. QED
    BY <2>2, <2>4, <2>5, OneWrites DEF Moves, SameTxn
<1>4. CASE StorePoints(t)
  <2> DEFINE q   == txn[t].q
             old == Sees(t, q)
             new == [old EXCEPT !.auto = txn[t].score.auto, !.points = txn[t].points]
  <2>1. /\ UpdateRow(t, q, new) /\ Moves(t) /\ txn[t].pc = "store" /\ txn'[t].pc = "total"
        /\ txn'[t].op = txn[t].op /\ txn'[t].q = q /\ txn'[t].score = txn[t].score
    BY <1>4 DEF StorePoints, At, GoTo, Moves, Inv, TxnInv, WellFormed, Fields
  <2>2. txn[t].op = "auto" /\ lock[q] \in {NoTxn, t}
    BY <2>1 DEF GradingInv, EditInv, Staged, UpdateRow, Available
  <2>3. old = row[q]
    BY <1>1, <2>1, <2>2 DEF BookInv, AutoWrites, Sees, Holds
  <2>4. txn[t].points = txn[t].score.auto + old.manual
    BY <2>1 DEF Inv, TxnInv, AutoGrading
  <2>5. QuestionRow(old)
    BY <1>1, SeenRow DEF Inv
  <2>6. new = AutoGraded(row[q], txn[t].score.auto)
    BY <2>3, <2>4 DEF AutoGraded
  <2>7. QuestionRow(new)
    <3> HIDE DEF old
    <3>1. QED
      BY <2>4, <2>5 DEF QuestionRow, QuestionFields
  <2> HIDE DEF new
  <2>8. /\ row' = row /\ lock'[q] = t /\ pending'[q] = new
        /\ \A x \in Rows : x # q => lock'[x] = lock[x] /\ pending'[x] = pending[x]
        /\ \A u \in Txns \ {t} : Untouched(u)
    BY <1>1, <2>1, <2>7, RowUpdated DEF Inv
  <2>9. Asked(t)' /\ ScoreWrites(t)' /\ SaveWrites(t)' /\ EditWrites(t)'
    BY <2>1, <2>2 DEF BookInv, Asked, ScoreWrites, SaveWrites, EditWrites, Scores
  <2>10. AutoWrites(t)'
    BY <1>1, <2>1, <2>2, <2>6, <2>8, RowSets DEF BookInv, AutoWrites
  <2>11. QED
    BY <2>1, <2>8, <2>9, <2>10, OneWrites DEF BookInv, Moves, SameTxn
<1>5. CASE InsertSubmission(t)
  <2> DEFINE q   == txn[t].q
             old == Sees(t, q)
             new == Answered(old)
  <2>1. /\ UpdateRow(t, q, new) /\ Moves(t) /\ txn[t].pc = "insert" /\ txn'[t].pc = "commit"
        /\ txn'[t].op = txn[t].op /\ txn'[t].q = q
    BY <1>5 DEF InsertSubmission, At, GoTo, Moves, Inv, TxnInv, WellFormed, Fields
  <2>2. txn[t].op = "save" /\ \A x \in Questions : lock[x] # t
    BY <1>1, <2>1 DEF GradingInv, EditInv, Staged, Answering, HoldsNoQuestion
  <2>3. old = row[q]
    BY <1>1, <2>2 DEF Sees, Holds
  <2>4. QuestionRow(new)
    <3>1. QuestionRow(old)
      BY <1>1, SeenRow DEF Inv
    <3> HIDE DEF old
    <3>2. QED
      BY <3>1 DEF QuestionRow, QuestionFields, Answered
  <2> HIDE DEF new
  <2>5. /\ lock'[q] = t /\ pending'[q] = new /\ row' = row
        /\ \A x \in Rows : x # q => lock'[x] = lock[x] /\ pending'[x] = pending[x]
        /\ \A u \in Txns \ {t} : Untouched(u)
    BY <1>1, <2>1, <2>4, RowUpdated DEF Inv
  <2>6. Asked(t)' /\ ScoreWrites(t)' /\ AutoWrites(t)' /\ EditWrites(t)'
    BY <1>1, <2>1, <2>2 DEF Asked, ScoreWrites, AutoWrites, EditWrites, Scores
  <2>7. SaveWrites(t)'
    BY <1>1, <2>1, <2>2, <2>3, <2>5, RowSets DEF SaveWrites, new
  <2>8. QED
    BY <2>1, <2>5, <2>6, <2>7, OneWrites DEF BookInv, Moves, SameTxn
<1>6. QED
  BY <1>2, <1>3, <1>4, <1>5

\* The rubric is revised under its lock, before any question is locked.
LEMMA UpdateRubricWrites ==
  ASSUME Inv, GradingInv, \A u \in Txns : BookInv(u), NEW t \in Txns, UpdateRubric(t)
  PROVE  \A u \in Txns : BookInv(u)'
<1> DEFINE new == Revised(row[AQ], txn[t].form)
<1>1. /\ UpdateRow(t, AQ, new) /\ txn[t].pc = "rubric" /\ txn[t].op = "edit"
      /\ \A x \in Questions : lock[x] # t
  BY DEF UpdateRubric, At, GradingInv, EditInv, Staged, Recomputing, HoldsNoQuestion
<1>2. /\ txn'[t].pc = "review" /\ txn'[t].op = "edit" /\ txn'[t].form = txn[t].form
      /\ \A u \in Txns \ {t} : SameTxn(u)
  BY <1>1 DEF UpdateRubric, GoTo, Inv, TxnInv, WellFormed, Fields, SameTxn
<1> HIDE DEF new
<1>3. /\ row' = row /\ pending'[AQ] = new
      /\ \A x \in Questions : lock'[x] # t
      /\ \A u \in Txns \ {t} : Untouched(u)
  BY <1>1, RowSets, RowUpdated DEF Inv
<1>4. EditWrites(t)'
  BY <1>1, <1>2, <1>3 DEF EditWrites, TaggedBy, Editing, new
<1>5. Asked(t)' /\ ScoreWrites(t)' /\ AutoWrites(t)' /\ SaveWrites(t)'
  BY <1>1, <1>2 DEF BookInv, Asked, ScoreWrites, AutoWrites, SaveWrites, Scores
<1>6. QED
  BY <1>2, <1>3, <1>4, <1>5, OneWrites DEF BookInv

\* The edit goes on: it finds each question once, and scores it before it tags any.
LEMMA EditWritesOn ==
  ASSUME Inv, GradingInv, \A u \in Txns : BookInv(u), NEW t \in Txns,
         Review(t) \/ Recompute(t) \/ Recomputed(t)
  PROVE  \A u \in Txns : BookInv(u)'
<1>1. /\ txn[t].op = "edit" /\ UNCHANGED rowVars /\ EditWrites(t) /\ Recomputing(t)
      /\ txn[t].pc \in {"review", "recompute"}
      /\ \A u \in Txns : Untouched(u)
  <2>1. txn[t].op = "edit" /\ txn[t].pc \in {"review", "recompute"}
    BY DEF Review, Recompute, Recomputed, At, GradingInv, EditInv, Staged
  <2>2. UNCHANGED rowVars
    BY DEF Review, Recompute, Recomputed
  <2>3. QED
    BY <2>1, <2>2, RowsKept DEF Inv, BookInv, GradingInv, EditInv
<1>2. /\ Moves(t) /\ txn'[t].op = "edit" /\ txn'[t].form = txn[t].form
      /\ txn'[t].grading = txn[t].grading
      /\ \/ /\ txn[t].pc = "review" /\ txn'[t].pc = "wait"
            /\ txn'[t].todo = DOMAIN txn'[t].found
         \/ /\ txn[t].pc = "recompute" /\ txn'[t].pc = "select" /\ txn'[t].found = txn[t].found
            /\ txn'[t].q \in txn[t].todo /\ txn'[t].todo = txn[t].todo \ {txn'[t].q}
            /\ txn'[t].submission = txn[t].found[txn'[t].q].submission
            /\ txn'[t].score = ByItems(txn[t].found[txn'[t].q].applied)
         \/ /\ txn[t].pc = "recompute" /\ txn'[t].pc = "tag"
            /\ txn[t].form.tag /\ txn'[t].todo = Rubriced /\ Rubriced # {}
            /\ txn'[t].found = txn[t].found /\ txn[t].todo = {}
         \/ /\ txn[t].pc = "recompute" /\ txn'[t].pc = "commit"
            /\ txn'[t].found = txn[t].found /\ txn[t].todo = {} /\ txn'[t].todo = {}
            /\ ~(txn[t].form.tag /\ Rubriced # {})
  <2>1. CASE Review(t)
    <3>1. PICK last, changed :
            /\ Become(t, [pc |-> "wait", found |-> Restrict(last, changed), todo |-> changed])
            /\ txn[t].pc = "review"
      BY <2>1 DEF Review, At
    <3>2. /\ Moves(t) /\ txn'[t].pc = "wait" /\ txn'[t].todo = changed /\ txn'[t].form = txn[t].form
          /\ txn'[t].found = Restrict(last, changed)
          /\ txn'[t].op = txn[t].op /\ txn'[t].grading = txn[t].grading
      BY <3>1 DEF Become, Moves, Inv, TxnInv, WellFormed, Fields
    <3>3. QED
      BY <1>1, <3>1, <3>2 DEF Restrict
  <2>2. CASE Recompute(t)
    <3>1. PICK q \in txn[t].todo :
            Become(t, [pc |-> "select", q |-> q, submission |-> txn[t].found[q].submission,
                       score |-> ByItems(txn[t].found[q].applied), todo |-> txn[t].todo \ {q}])
      BY <2>2 DEF Recompute
    <3>2. txn[t].pc = "recompute"
      BY <2>2 DEF Recompute, At
    <3>3. /\ Moves(t) /\ txn'[t].pc = "select" /\ txn'[t].q = q /\ txn'[t].todo = txn[t].todo \ {q}
          /\ txn'[t].submission = txn[t].found[q].submission /\ txn'[t].found = txn[t].found
          /\ txn'[t].score = ByItems(txn[t].found[q].applied) /\ txn'[t].form = txn[t].form
          /\ txn'[t].op = txn[t].op /\ txn'[t].grading = txn[t].grading
      BY <3>1 DEF Become, Moves, Inv, TxnInv, WellFormed, Fields
    <3>4. QED
      BY <1>1, <3>2, <3>3
  <2>3. CASE Recomputed(t)
    <3>1. /\ txn[t].pc = "recompute" /\ txn[t].todo = {}
          /\ IF txn[t].form.tag /\ Rubriced # {}
               THEN Become(t, [pc |-> "tag", todo |-> Rubriced])
               ELSE Become(t, [pc |-> "commit"])
      BY <2>3 DEF Recomputed, At
    <3>2. QED
      BY <1>1, <3>1 DEF Become, Moves, Inv, TxnInv, WellFormed, Fields
  <2>4. QED
    BY <2>1, <2>2, <2>3
<1>3. \A x \in Questions : ~TaggedBy(t, x) /\ ~TaggedBy(t, x)'
  BY <1>1, <1>2 DEF TaggedBy
<1>4. \A x \in Questions : Rescored(t, x)' <=> txn[t].pc # "review" /\ Rescored(t, x)
  BY <1>1, <1>2 DEF Rescored, Taking
<1>5. ASSUME NEW x \in Questions, lock[x] = t
      PROVE  pending[x] = Rewritten(t, x)'
  <2>1. txn[t].pc = "recompute" /\ txn'[t].found = txn[t].found
    BY <1>1, <1>2, <1>5 DEF Recomputing, HoldsNoQuestion
  <2>2. pending[x] = Rewritten(t, x)
    BY <1>1, <1>5, <2>1 DEF EditWrites
  <2>3. QED
    BY <1>1, <1>3, <1>4, <2>1, <2>2 DEF Rewritten, AtOnce!Regraded, rowVars
<1>6. Editing(t)' => /\ txn'[t].q \in DOMAIN txn'[t].found \ txn'[t].todo
                     /\ txn'[t].submission = txn'[t].found[txn'[t].q].submission
                     /\ txn'[t].score = ByItems(txn'[t].found[txn'[t].q].applied)
  BY <1>1, <1>2 DEF Editing, Recomputing
<1>7. EditWrites(t)'
  BY <1>1, <1>2, <1>3, <1>4, <1>5, <1>6 DEF EditWrites, rowVars
<1>8. Asked(t)' /\ ScoreWrites(t)' /\ AutoWrites(t)' /\ SaveWrites(t)'
  BY <1>1, <1>2 DEF BookInv, Asked, ScoreWrites, AutoWrites, SaveWrites, Scores
<1>9. QED
  BY <1>1, <1>2, <1>7, <1>8, OneWrites DEF BookInv, Moves, SameTxn

\* Questions are tagged as the edit has left them.
LEMMA TagWrites ==
  ASSUME Inv, GradingInv, \A u \in Txns : BookInv(u), NEW t \in Txns, Tag(t)
  PROVE  \A u \in Txns : BookInv(u)'
<1>1. PICK q \in txn[t].todo :
        /\ UpdateRow(t, q, Tagged(Sees(t, q)))
        /\ Become(t, [pc |-> IF txn[t].todo = {q} THEN "commit" ELSE "tag", todo |-> txn[t].todo \ {q}])
        /\ txn[t].pc = "tag"
  BY DEF Tag, At
<1> DEFINE old == Sees(t, q)
           new == Tagged(old)
<1>2. /\ txn[t].op = "edit" /\ EditWrites(t) /\ txn[t].form.tag /\ txn[t].todo \subseteq Rubriced
      /\ q \in Rubriced /\ q \in Questions /\ q \in Rows \ {AQ}
  <2>1. txn[t].op = "edit" /\ EditWrites(t) /\ q \in Questions
    BY <1>1 DEF BookInv, GradingInv, EditInv, Staged, Inv, TxnInv, WellFormed
  <2>2. QED
    BY <1>1, <2>1, RowSets DEF EditWrites
<1>3. /\ Moves(t) /\ txn'[t].op = "edit" /\ txn'[t].form = txn[t].form
      /\ txn'[t].pc = (IF txn[t].todo = {q} THEN "commit" ELSE "tag")
      /\ txn'[t].todo = txn[t].todo \ {q} /\ txn'[t].found = txn[t].found
  BY <1>1, <1>2 DEF Become, Moves, Inv, TxnInv, WellFormed, Fields
<1>4. QuestionRow(new)
  <2>1. QuestionRow(old)
    BY <1>2, SeenRow DEF Inv
  <2> HIDE DEF old
  <2>2. QED
    BY <2>1 DEF QuestionRow, QuestionFields, Tagged
<1>5. old = Rewritten(t, q) /\ ~TaggedBy(t, q)
  <2>1. ~TaggedBy(t, q)
    BY <1>1 DEF TaggedBy
  <2>2. CASE lock[q] = t
    BY <1>1, <1>2, <2>1, <2>2 DEF EditWrites, Sees, Holds
  <2>3. CASE lock[q] # t
    BY <1>1, <1>2, <2>1, <2>3 DEF EditWrites, Rewritten, Sees, Holds
  <2>4. QED
    BY <2>1, <2>2, <2>3
<1>6. new = Tagged(old) /\ UpdateRow(t, q, new)
  BY <1>1
<1> HIDE DEF old, new
<1>7. /\ row' = row /\ lock'[q] = t /\ pending'[q] = new
      /\ \A x \in Rows : x # q => lock'[x] = lock[x] /\ pending'[x] = pending[x]
      /\ \A u \in Txns \ {t} : Untouched(u)
  BY <1>2, <1>4, <1>6, RowUpdated DEF Inv
<1>8. pending'[AQ] = pending[AQ]
  BY <1>2, <1>7, RowSets
<1>9. \A x \in Questions : /\ TaggedBy(t, x)' <=> x = q \/ TaggedBy(t, x)
                           /\ Rescored(t, x)' <=> Rescored(t, x)
  <2>1. txn'[t].pc = "commit" => txn'[t].todo = {}
    BY <1>3
  <2>2. QED
    BY <1>1, <1>2, <1>3, <2>1 DEF TaggedBy, Rescored, Taking
<1>10. ASSUME NEW x \in Questions, lock'[x] = t
       PROVE  pending'[x] = Rewritten(t, x)'
  <2>1. CASE x = q
    BY <1>2, <1>3, <1>5, <1>6, <1>7, <1>8, <1>9, <2>1 DEF Rewritten, AtOnce!Regraded
  <2>2. CASE x # q
    <3>1. pending'[x] = pending[x] /\ row' = row /\ lock[x] = t
      BY <1>7, <1>10, <2>2, RowSets
    <3>2. pending[x] = Rewritten(t, x)
      BY <1>1, <1>2, <3>1 DEF EditWrites
    <3>3. Rewritten(t, x)' = Rewritten(t, x)
      BY <1>3, <1>8, <1>9, <2>2, <3>1 DEF Rewritten, AtOnce!Regraded
    <3>4. QED
      BY <3>1, <3>2, <3>3
  <2>3. QED
    BY <2>1, <2>2
<1>11. EditWrites(t)'
  <2>1. \A x \in Questions : Rescored(t, x)' \/ TaggedBy(t, x)' => lock'[x] = t
    BY <1>1, <1>2, <1>7, <1>9, RowSets DEF EditWrites
  <2>2. QED
    BY <1>1, <1>2, <1>3, <1>7, <1>8, <1>10, <2>1 DEF EditWrites, Editing
<1>12. Asked(t)' /\ ScoreWrites(t)' /\ AutoWrites(t)' /\ SaveWrites(t)'
  BY <1>2, <1>3 DEF BookInv, Asked, ScoreWrites, AutoWrites, SaveWrites, Scores
<1>13. QED
  BY <1>3, <1>7, <1>11, <1>12, OneWrites DEF BookInv, Moves, SameTxn

\* A transaction that has ended has nothing more to commit.
LEMMA EndWrites ==
  ASSUME Inv, GradingInv, \A u \in Txns : BookInv(u), NEW t \in Txns, End(t),
         \A u \in Txns \ {t} : Untouched(u)
  PROVE  \A u \in Txns : BookInv(u)'
<1>1. /\ txn'[t].op = "none" /\ ~txn'[t].score.rubric /\ txn'[t].grading = NoGrading
      /\ \A u \in Txns \ {t} : SameTxn(u)
  BY DEF End, NewTxn, NoScore, SameTxn, Inv
<1>2. BookInv(t)'
  BY <1>1 DEF BookInv, Asked, ScoreWrites, AutoWrites, SaveWrites, EditWrites, Scores
<1>3. QED
  BY <1>1, <1>2, OneWrites

LEMMA InitWrites == Init => \A u \in Txns : BookInv(u)
<1> SUFFICES ASSUME Init, NEW u \in Txns PROVE BookInv(u)
  OBVIOUS
<1>1. txn[u].op = "none" /\ ~txn[u].score.rubric /\ txn[u].grading = NoGrading
  BY DEF Init, NewTxn, NoScore
<1>2. QED
  BY <1>1 DEF BookInv, Asked, ScoreWrites, AutoWrites, SaveWrites, EditWrites, Scores

\* Tables are functions of their rows, and assessment instances have nothing but points.
InstanceRows ==
  /\ row = [r \in Rows |-> row[r]]
  /\ \A a \in Instances : /\ row[a] = [points |-> row[a].points]
                          /\ pending[a] = [points |-> pending[a].points]

LEMMA InstanceRowsStay ==
  ASSUME Inv, InstanceRows, [Next]_vars
  PROVE  InstanceRows'
<1>1. ASSUME NEW t \in Txns, NEW r, NEW new, UpdateRow(t, r, new), r \notin Instances
      PROVE  InstanceRows'
  BY <1>1, RowSets DEF UpdateRow, InstanceRows, Inv, RowInv
<1>2. ASSUME UNCHANGED <<row, pending>>
      PROVE  InstanceRows'
  BY <1>2 DEF InstanceRows
<1>3. CASE UNCHANGED vars
  BY <1>2, <1>3 DEF vars, rowVars
<1>4. ASSUME NEW t \in Txns, CommitTxn(t)
      PROVE  InstanceRows'
  <2>1. row' = [x \in Rows |-> Sees(t, x)] /\ pending' = pending
    BY <1>4 DEF CommitTxn, Commit
  <2>2. QED
    BY <2>1, RowSets DEF InstanceRows, Sees
<1>5. ASSUME NEW q \in Questions, NEW required \in BOOLEAN, Reassign(q, required)
      PROVE  InstanceRows'
  <2>1. /\ row' = [row EXCEPT ![q].requiresManualGrading = required]
        /\ pending' = [pending EXCEPT ![q] = row'[q]]
        /\ DOMAIN row = Rows /\ DOMAIN pending = Rows
    BY <1>5 DEF Reassign, Inv, RowInv
  <2>2. \A a \in Instances : row'[a] = row[a] /\ pending'[a] = pending[a]
    BY <2>1, RowSets
  <2>3. row' = [x \in Rows |-> row'[x]]
    BY <2>1
  <2>4. QED
    BY <2>2, <2>3 DEF InstanceRows
<1>6. ASSUME NEW t \in Txns, Start(t)
      PROVE  InstanceRows'
  BY <1>2, <1>6 DEF Start, Open, Upload, Grade, Save, Submit, Edit, rowVars
<1>7. ASSUME NEW t \in Txns, Step(t)
      PROVE  InstanceRows'
  <2>1. CASE SelectSubmission(t) \/ SelectItems(t) \/ InsertGrading(t) \/ Total(t) \/ ComputePoints(t)
             \/ Review(t) \/ ReviewedLocked(t) \/ Recompute(t) \/ Recomputed(t)
    BY <1>2, <2>1 DEF SelectSubmission, SelectItems, InsertGrading, Total, ComputePoints, Review,
                      ReviewedLocked, Recompute, Recomputed, rowVars
  <2>2. CASE LockQuestion(t) \/ MarkUsed(t) \/ LockInstance(t) \/ LockReviewed(t)
    BY <1>2, <2>2 DEF LockQuestion, MarkUsed, LockInstance, LockReviewed, LockRow
  <2>3. CASE WriteScore(t) \/ StorePoints(t) \/ InsertSubmission(t)
    <3>1. txn[t].q \notin Instances
      BY <2>3, RowSets DEF WriteScore, StorePoints, InsertSubmission, At, Inv, TxnInv, WellFormed, HasQuestion
    <3>2. UNCHANGED <<row, pending>> \/ \E new : UpdateRow(t, txn[t].q, new)
      BY <2>3 DEF WriteScore, StorePoints, InsertSubmission, rowVars
    <3>3. QED
      BY <1>1, <1>2, <3>1, <3>2
  <2>4. CASE UpdateInstance(t)
    <3> DEFINE total == txn[t].total
    <3>1. PICK a \in Instances : UpdateRow(t, a, [points |-> total])
      BY <2>4, RowSets DEF UpdateInstance, At, Inv, TxnInv, WellFormed, HasQuestion
    <3>2. row' = row /\ \A x \in Rows : pending'[x] = IF x = a THEN [points |-> total] ELSE pending[x]
      BY <3>1 DEF UpdateRow, Inv, RowInv
    <3>3. QED
      BY <3>2, RowSets DEF InstanceRows
  <2>5. CASE UpdateRubric(t)
    BY <1>1, <2>5, RowSets DEF UpdateRubric
  <2>6. CASE Tag(t)
    <3>1. PICK q \in Questions : \E new : UpdateRow(t, q, new)
      BY <2>6 DEF Tag, At, Inv, TxnInv, WellFormed
    <3>2. QED
      BY <1>1, <3>1, RowSets
  <2>7. CASE Abort(t)
    <3>1. row' = row /\ pending' = [x \in Rows |-> IF Holds(t, x) THEN row[x] ELSE pending[x]]
      BY <2>7 DEF Abort, Rollback
    <3>2. QED
      BY <3>1, RowSets DEF InstanceRows
  <2>8. QED
    BY <1>7, <2>1, <2>2, <2>3, <2>4, <2>5, <2>6, <2>7 DEF Step
<1>8. QED
  BY <1>3, <1>4, <1>5, <1>6, <1>7 DEF Next

-----------------------------------------------------------------------------
(* Every commit is a step of the gradebook. *)

\* The rows that are left follow from the questions and the rubric.
LEMMA BecomesRows ==
  ASSUME Inv, Inv', InstanceRows', NEW rows, \A q \in Questions : row'[q] = rows[q]
  PROVE  AtOnce!Become(rows, row'[AQ])
<1>1. ASSUME NEW a \in Instances
      PROVE  row'[a] = [points |-> AtOnce!Points(rows, a)]
  <2>1. [q \in Questions |-> row'[q].points] = [q \in Questions |-> rows[q].points]
    OBVIOUS
  <2>2. row'[a].points = SumFunctionOnSet([q \in Questions |-> rows[q].points], QuestionsOf(a))
    BY <2>1 DEF Inv, RowInv, PointsIn
  <2>3. AtOnce!Points(rows, a) = row'[a].points
    BY <2>2, SumsAgree DEF AtOnce!Points, QuestionsOf
  <2>4. QED
    BY <2>3 DEF InstanceRows
<1>2. DOMAIN row = Rows /\ row' = [r \in Rows |-> row'[r]]
  BY DEF Inv, RowInv, InstanceRows
<1>3. \A r \in Rows : r \in Questions \/ r = AQ \/ r \in Instances
  BY ManualGradingAssumption
<1>4. QED
  BY <1>1, <1>2, <1>3, RowSets DEF AtOnce!Become

\* If they are the same nothing was changed,
LEMMA SameRows ==
  ASSUME Inv, Inv', InstanceRows, InstanceRows', row'[AQ] = row[AQ],
         \A q \in Questions : row'[q] = row[q]
  PROVE  row' = row
<1>1. ASSUME NEW a \in Instances
      PROVE  row'[a] = row[a]
  <2>1. PointsIn(row', a) = PointsIn(row, a)
    BY RowSets, SamePointsIn
  <2>2. row[a].points = PointsIn(row, a)
    BY DEF Inv, RowInv
  <2>3. row'[a].points = PointsIn(row', a)
    BY DEF Inv, RowInv, PointsIn
  <2>4. row[a] = [points |-> row[a].points] /\ row'[a] = [points |-> row'[a].points]
    BY DEF InstanceRows
  <2>5. QED
    BY <2>1, <2>2, <2>3, <2>4
<1>2. \A r \in Rows : r \in Questions \/ r = AQ \/ r \in Instances
  BY ManualGradingAssumption
<1>3. QED
  BY <1>1, <1>2 DEF InstanceRows

\* and if one question is not, it is what was changed.
LEMMA ChangesRow ==
  ASSUME Inv, Inv', InstanceRows', NEW q \in Questions, row'[AQ] = row[AQ],
         \A x \in Questions : x # q => row'[x] = row[x]
  PROVE  AtOnce!Change(q, row'[q])
<1>1. \A x \in Questions : row'[x] = [row EXCEPT ![q] = row'[q]][x]
  BY RowSets DEF Inv, RowInv
<1>2. QED
  BY <1>1, BecomesRows DEF AtOnce!Change

\* What a request has seen and found depends on nothing but its transaction.
LEMMA ViewsStay ==
  ASSUME NEW u \in Txns, SameTxn(u)
  PROVE  SeenBy(u)' = SeenBy(u) /\ FoundBy(u)' = FoundBy(u)
BY DEF SameTxn, SeenBy, FoundBy

\* A request sees something more,
LEMMA SeesMore ==
  ASSUME NEW t \in Txns, NEW view, row' = row, \A u \in Txns \ {t} : SameTxn(u),
         SeenBy(t)' = view, FoundBy(t)' = FoundBy(t)
  PROVE  AtOnce!See(t, view)
<1>1. \A u \in Txns \ {t} : SeenBy(u)' = SeenBy(u) /\ FoundBy(u)' = FoundBy(u)
  BY ViewsStay
<1>2. [u \in Txns |-> SeenBy(u)]' = [[u \in Txns |-> SeenBy(u)] EXCEPT ![t] = view]
  BY <1>1
<1>3. [u \in Txns |-> FoundBy(u)]' = [u \in Txns |-> FoundBy(u)]
  BY <1>1
<1>4. QED
  BY <1>2, <1>3 DEF AtOnce!See

\* or does what nobody else can tell.
LEMMA SeesAsBefore ==
  ASSUME NEW t \in Txns, row' = row, \A u \in Txns \ {t} : SameTxn(u),
         SeenBy(t)' = SeenBy(t), FoundBy(t)' = FoundBy(t)
  PROVE  [AtOnce!Next]_(AtOnce!vars)
<1>1. \A u \in Txns : SeenBy(u)' = SeenBy(u) /\ FoundBy(u)' = FoundBy(u)
  BY ViewsStay
<1>2. /\ [u \in Txns |-> SeenBy(u)]' = [u \in Txns |-> SeenBy(u)]
      /\ [u \in Txns |-> FoundBy(u)]' = [u \in Txns |-> FoundBy(u)]
  BY <1>1
<1>3. QED
  BY <1>2 DEF AtOnce!vars

\* A request that has ended has seen and found nothing.
LEMMA ViewsEnd ==
  ASSUME NEW t \in Txns, DOMAIN txn = Txns, End(t)
  PROVE  /\ [u \in Txns |-> SeenBy(u)]' = [[u \in Txns |-> SeenBy(u)] EXCEPT ![t] = AtOnce!Nothing]
         /\ [u \in Txns |-> FoundBy(u)]' = [[u \in Txns |-> FoundBy(u)] EXCEPT ![t] = AtOnce!NoEdit]
         /\ ~Scores(t) => [u \in Txns |-> SeenBy(u)]' = [u \in Txns |-> SeenBy(u)]
         /\ txn[t].op # "edit" => [u \in Txns |-> FoundBy(u)]' = [u \in Txns |-> FoundBy(u)]
<1>1. /\ txn'[t].op = "none" /\ \A u \in Txns \ {t} : SameTxn(u)
  BY DEF End, NewTxn, SameTxn
<1>2. SeenBy(t)' = AtOnce!Nothing /\ FoundBy(t)' = AtOnce!NoEdit
  BY <1>1, SameRules DEF SeenBy, FoundBy, AtOnce!Nothing, AtOnce!NoEdit
<1>3. \A u \in Txns \ {t} : SeenBy(u)' = SeenBy(u) /\ FoundBy(u)' = FoundBy(u)
  BY <1>1, ViewsStay
<1>4. ~Scores(t) => SeenBy(t) = AtOnce!Nothing
  BY SameRules DEF Scores, SeenBy, AtOnce!Nothing
<1>5. txn[t].op # "edit" => FoundBy(t) = AtOnce!NoEdit
  BY DEF FoundBy, AtOnce!NoEdit
<1>6. QED
  BY <1>2, <1>3, <1>4, <1>5

\* A score is committed: a grader scores the last submission that they saw, a
\* file the one it was uploaded for, or the question was modified and nothing is.
LEMMA ScoreIsStep ==
  ASSUME Inv, Inv', GradingInv, InstanceRows, InstanceRows', NEW t \in Txns, BookInv(t), CommitTxn(t),
         Scores(t)
  PROVE  [AtOnce!Next]_(AtOnce!vars)
<1> DEFINE q    == txn[t].q
           k    == txn[t].submission
           new  == Scored(row[q], txn[t].score, k, GradingOf(t))
           kept == q \in Rubriced /\ txn[t].score.manual = Null /\ txn[t].score.points = Null
<1>1. /\ txn[t].pc = "commit" /\ End(t) /\ DOMAIN txn = Txns
      /\ \A r \in Rows : row'[r] = IF lock[r] = t THEN pending[r] ELSE row[r]
      /\ Scoring(t) /\ PageLast(t) /\ Staged(t)
  BY Committed DEF Inv, GradingInv, EditInv
<1>2. /\ q \in Questions /\ lock[AQ] # t /\ lock[q] = t /\ k \in 1..Len(row[q].grading)
      /\ q # AQ
  BY <1>1, RowSets DEF Scoring, Before
<1>3. row'[AQ] = row[AQ]
  BY <1>1, <1>2, RowSets
<1>4. CASE txn[t].conflict
  <2>1. \A x \in Questions : row'[x] = row[x]
    BY <1>1, <1>4, RowSets DEF BookInv, ScoreWrites, Written
  <2>2. row' = row
    BY <1>3, <2>1, SameRows
  <2>3. QED
    BY <1>1, <2>2, ViewsEnd DEF AtOnce!Leave, AtOnce!Next
<1>5. CASE ~txn[t].conflict
  <2>1. row'[q] = new /\ \A x \in Questions : x # q => row'[x] = row[x]
    BY <1>1, <1>2, <1>5, RowSets DEF BookInv, ScoreWrites, Written
  <2>2. AtOnce!Change(q, new)
    BY <1>2, <1>3, <2>1, ChangesRow
  <2>3. [u \in Txns |-> FoundBy(u)]' = [u \in Txns |-> FoundBy(u)]
    BY <1>1, ViewsEnd DEF Scores
  <2> DEFINE view == SeenBy(t)
  <2>4. /\ view.q = q /\ view.submission = k
        /\ view.modified = (IF txn[t].op = "page" THEN txn[t].seen ELSE 0)
        /\ view.grading = (IF txn[t].op = "page" /\ ~txn[t].score.rubric THEN NoGrading ELSE txn[t].grading)
    BY <1>1 DEF Scores, SeenBy
  <2>5. txn[t].op = "page" => txn[t].score \in Grades /\ (txn[t].score.rubric <=> q \in Rubriced)
    BY <1>1 DEF BookInv, Asked
  <2>6. GradingOf(t) = IF txn[t].score.rubric \/ kept THEN view.grading ELSE NoGrading
    BY <2>4, <2>5 DEF GradingOf
  <2>7. txn[t].score.rubric => view.grading # NoGrading /\ view.grading.applied = txn[t].score.applied
    <3> SUFFICES ASSUME txn[t].score.rubric
                 PROVE  view.grading # NoGrading /\ view.grading.applied = txn[t].score.applied
      OBVIOUS
    <3>1. txn[t].op = "page"
      BY <1>1 DEF Scoring, Scores
    <3>2. /\ "start" \in DOMAIN txn[t].grading /\ txn[t].grading.applied = txn[t].score.applied
      BY <1>1, <3>1 DEF BookInv, Asked
    <3>3. "start" \notin DOMAIN NoGrading
      BY DEF NoGrading
    <3>4. QED
      BY <2>4, <3>1, <3>2, <3>3
  <2> HIDE DEF view, kept
  <2>8. AtOnce!Give(t, txn[t].score)
    <3>1. [u \in Txns |-> SeenBy(u)][t] = view
      BY DEF view
    <3>2. AtOnce!Change(q, Scored(row[q], txn[t].score, view.submission,
                                  IF txn[t].score.rubric \/ kept THEN view.grading ELSE NoGrading))
      BY <2>2, <2>4, <2>6
    <3>3. [u \in Txns |-> SeenBy(u)]' = [[u \in Txns |-> SeenBy(u)] EXCEPT ![t] = AtOnce!Nothing]
      BY <1>1, ViewsEnd
    <3> HIDE DEF new
    <3>4. QED
      BY <2>3, <2>4, <2>7, <3>1, <3>2, <3>3, SameRules DEF AtOnce!Give, kept
  <2>9. CASE txn[t].op = "page"
    <3>1. /\ txn[t].seen \in Nat \ {0} /\ row[q].modified = txn[t].seen
          /\ k = Len(row[q].grading)
      BY <1>1, <1>5, <2>9 DEF PageLast, Before
    <3>2. AtOnce!Grade(t)
      BY <2>4, <2>5, <2>8, <2>9, <3>1 DEF AtOnce!Grade, view
    <3>3. QED
      BY <3>2 DEF AtOnce!Next
  <2>10. CASE txn[t].op = "upload"
    <3>1. txn[t].score \in Uploads
      BY <2>10 DEF BookInv, Asked
    <3>2. view # AtOnce!Nothing
      BY <1>2, <2>4 DEF AtOnce!Nothing
    <3>3. AtOnce!Upload(t)
      BY <2>4, <2>8, <2>10, <3>1, <3>2 DEF AtOnce!Upload, view
    <3>4. QED
      BY <3>3 DEF AtOnce!Next
  <2>11. QED
    BY <2>9, <2>10 DEF Scores
<1>6. QED
  BY <1>4, <1>5

\* A result of automatic grading, or a submission, is committed.
LEMMA StudentIsStep ==
  ASSUME Inv, Inv', GradingInv, InstanceRows, InstanceRows', NEW t \in Txns, BookInv(t), CommitTxn(t),
         txn[t].op \in {"auto", "save"}
  PROVE  [AtOnce!Next]_(AtOnce!vars)
<1> DEFINE q == txn[t].q
<1>1. /\ txn[t].pc = "commit" /\ End(t) /\ DOMAIN txn = Txns
      /\ \A r \in Rows : row'[r] = IF lock[r] = t THEN pending[r] ELSE row[r]
      /\ q \in Questions /\ lock[AQ] # t
  BY Committed DEF Inv, GradingInv, EditInv, Answering, BookInv, Asked
<1>2. row'[AQ] = row[AQ]
  BY <1>1, RowSets
<1>3. \A x \in Questions : x # q => row'[x] = row[x]
  BY <1>1, RowSets DEF BookInv, AutoWrites, SaveWrites
<1>4. /\ [u \in Txns |-> SeenBy(u)]' = [u \in Txns |-> SeenBy(u)]
      /\ [u \in Txns |-> FoundBy(u)]' = [u \in Txns |-> FoundBy(u)]
  BY <1>1, ViewsEnd DEF Scores
<1>5. CASE lock[q] # t
  <2>1. \A x \in Questions : row'[x] = row[x]
    BY <1>1, <1>3, <1>5, RowSets
  <2>2. row' = row
    BY <1>2, <2>1, SameRows
  <2>3. QED
    BY <1>4, <2>2 DEF AtOnce!vars
<1>6. CASE lock[q] = t
  <2>1. AtOnce!Change(q, row'[q])
    BY <1>1, <1>2, <1>3, ChangesRow
  <2>2. CASE txn[t].op = "auto"
    <3>1. txn[t].score.auto \in AutoPoints /\ row'[q] = AutoGraded(row[q], txn[t].score.auto)
      BY <1>1, <1>6, <2>2, RowSets DEF BookInv, Asked, AutoWrites
    <3>2. AtOnce!AutoGrade(q)
      BY <1>4, <2>1, <3>1, SameRules DEF AtOnce!AutoGrade
    <3>3. QED
      BY <1>1, <3>2 DEF AtOnce!Next
  <2>3. CASE txn[t].op = "save"
    <3>1. row'[q] = Answered(row[q])
      BY <1>1, <1>6, <2>3, RowSets DEF BookInv, SaveWrites
    <3>2. AtOnce!Save(q)
      BY <1>4, <2>1, <3>1, SameRules DEF AtOnce!Save
    <3>3. QED
      BY <1>1, <3>2 DEF AtOnce!Next
  <2>4. QED
    BY <2>2, <2>3
<1>7. QED
  BY <1>5, <1>6

\* An edit is committed: with the rubric it left, and the gradings it found.
LEMMA EditIsStep ==
  ASSUME Inv, Inv', GradingInv, InstanceRows, InstanceRows', NEW t \in Txns, BookInv(t), CommitTxn(t),
         txn[t].op = "edit"
  PROVE  [AtOnce!Next]_(AtOnce!vars)
<1> DEFINE rubric == Revised(row[AQ], txn[t].form)
           found  == txn[t].found
<1>1. /\ txn[t].pc = "commit" /\ End(t) /\ DOMAIN txn = Txns /\ txn[t].todo = {}
      /\ \A r \in Rows : row'[r] = IF lock[r] = t THEN pending[r] ELSE row[r]
      /\ lock[AQ] = t
  BY Committed DEF Inv, GradingInv, EditInv, Recomputing
<1>2. txn[t].form \in Forms /\ EditWrites(t)
  BY DEF BookInv, Asked
<1>3. row'[AQ] = rubric /\ pending[AQ] = rubric
  BY <1>1, <1>2, RowSets DEF EditWrites
<1>4. ASSUME NEW q \in Questions
      PROVE  row'[q] = IF txn[t].form.tag /\ q \in Rubriced
                         THEN Tagged(AtOnce!Regraded(q, found, rubric))
                         ELSE AtOnce!Regraded(q, found, rubric)
  <2>1. /\ TaggedBy(t, q) <=> txn[t].form.tag /\ q \in Rubriced
        /\ Rescored(t, q) <=> q \in DOMAIN found
    BY <1>1 DEF TaggedBy, Rescored, Taking
  <2>2. row'[q] = Rewritten(t, q)
    <3>1. CASE lock[q] = t
      BY <1>1, <1>2, <3>1, RowSets DEF EditWrites
    <3>2. CASE lock[q] # t
      BY <1>1, <1>2, <3>2, RowSets DEF EditWrites, Rewritten
    <3>3. QED
      BY <3>1, <3>2
  <2>3. ~Rescored(t, q) => AtOnce!Regraded(q, found, rubric) = row[q]
    BY <2>1 DEF AtOnce!Regraded
  <2> HIDE DEF rubric, found
  <2>4. QED
    BY <1>3, <2>1, <2>2, <2>3 DEF Rewritten, found
<1>5. AtOnce!Become(row', rubric)
  BY <1>3, BecomesRows
<1>6. /\ [u \in Txns |-> SeenBy(u)]' = [u \in Txns |-> SeenBy(u)]
      /\ [u \in Txns |-> FoundBy(u)]' = [[u \in Txns |-> FoundBy(u)] EXCEPT ![t] = AtOnce!NoEdit]
  BY <1>1, ViewsEnd DEF Scores
<1>7. AtOnce!Revised(row[AQ], txn[t].form) = rubric /\ \A x : AtOnce!Tagged(x) = Tagged(x)
  BY SameRules
<1>8. /\ [u \in Txns |-> FoundBy(u)][t].form = txn[t].form
      /\ [u \in Txns |-> FoundBy(u)][t].found = found
  BY <1>1 DEF FoundBy
<1> HIDE DEF rubric, found
<1>9. AtOnce!Edit(t)
  BY <1>2, <1>4, <1>5, <1>6, <1>7, <1>8 DEF AtOnce!Edit
<1>10. QED
  BY <1>9 DEF AtOnce!Next

\* A request starts, and sees the question if it is to score one.
LEMMA StartIsStep ==
  ASSUME Inv, GradingInv, NEW t \in Txns, BookInv(t), Start(t)
  PROVE  [AtOnce!Next]_(AtOnce!vars)
<1>1. /\ row' = row /\ DOMAIN txn = Txns /\ DOMAIN txn[t] = Fields
      /\ \A u \in Txns \ {t} : SameTxn(u)
  BY DEF Start, Open, Upload, Grade, Save, Submit, Edit, Become, SameTxn, rowVars, Inv, TxnInv, WellFormed
<1>2. ASSUME txn[t].op = "none"
      PROVE  SeenBy(t) = AtOnce!Nothing
  BY <1>2, SameRules DEF SeenBy, AtOnce!Nothing
<1>3. ASSUME NEW q \in Questions, Open(t, q) \/ Upload(t, q)
      PROVE  AtOnce!Open(t, q)
  <2> DEFINE modified == IF Open(t, q) THEN row[q].modified ELSE 0
             view == [q |-> q, submission |-> Len(row[q].grading), modified |-> modified,
                      grading |-> NoGrading]
  <2>1. txn[t].op = "none" /\ ~txn[t].score.rubric /\ txn[t].grading = NoGrading
    BY <1>3 DEF Open, Upload, At, GradingInv, EditInv, Staged, BookInv, Asked
  <2>2. SeenBy(t)' = view /\ FoundBy(t)' = FoundBy(t)
    <3>1. CASE Open(t, q)
      <4>1. /\ txn'[t].op = "page" /\ txn'[t].pc = "opened" /\ txn'[t].q = q
            /\ txn'[t].seen = row[q].modified /\ txn'[t].submission = Len(row[q].grading)
            /\ txn'[t].score = txn[t].score
        BY <1>1, <3>1 DEF Open, Become, Fields
      <4>2. QED
        BY <2>1, <3>1, <4>1 DEF SeenBy, FoundBy
    <3>2. CASE ~Open(t, q)
      <4>1. /\ txn'[t].op = "upload" /\ txn'[t].q = q /\ txn'[t].submission = Len(row[q].grading)
            /\ txn'[t].grading = txn[t].grading
        BY <1>1, <1>3, <3>2 DEF Upload, Become, Fields
      <4>2. QED
        BY <2>1, <3>2, <4>1 DEF SeenBy, FoundBy
    <3>3. QED
      BY <3>1, <3>2
  <2>3. modified \in {0, row[q].modified}
    OBVIOUS
  <2> HIDE DEF modified
  <2>4. view = [q |-> q, submission |-> Len(row[q].grading), modified |-> modified,
                grading |-> AtOnce!NoGrading]
    BY SameRules
  <2>5. AtOnce!See(t, view)
    BY <1>1, <2>2, SeesMore
  <2>6. QED
    BY <1>2, <2>1, <2>3, <2>4, <2>5 DEF AtOnce!Open
<1>4. ASSUME NEW q \in Questions, Grade(t, q) \/ Save(t, q)
      PROVE  SeenBy(t)' = SeenBy(t) /\ FoundBy(t)' = FoundBy(t)
  <2>1. txn[t].op = "none" /\ txn'[t].op \in {"auto", "save"}
    BY <1>1, <1>4 DEF Grade, Save, Become, Fields, At, GradingInv, EditInv, Staged
  <2>2. QED
    BY <2>1 DEF SeenBy, FoundBy
<1>5. CASE Submit(t)
  <2>1. /\ txn[t].op = "page" /\ txn[t].pc = "opened" /\ ~txn[t].score.rubric
    BY <1>5 DEF Submit, At, GradingInv, EditInv, Staged, BookInv, Asked
  <2>2. /\ txn'[t].op = "page" /\ txn'[t].pc = "select" /\ txn'[t].q = txn[t].q
        /\ txn'[t].seen = txn[t].seen /\ txn'[t].submission = txn[t].submission
    BY <1>1, <1>5, <2>1 DEF Submit, Become, Fields
  <2>3. SeenBy(t)' = SeenBy(t) /\ FoundBy(t)' = FoundBy(t)
    BY <2>1, <2>2 DEF SeenBy, FoundBy
  <2>4. QED
    BY <1>1, <2>3, SeesAsBefore
<1>6. CASE Edit(t)
  <2>1. txn[t].op = "none" /\ txn'[t].op = "edit" /\ txn'[t].pc = "rubric"
    BY <1>1, <1>6 DEF Edit, Become, Fields, At, GradingInv, EditInv, Staged
  <2>2. SeenBy(t)' = SeenBy(t) /\ FoundBy(t)' = FoundBy(t)
    BY <2>1 DEF SeenBy, FoundBy
  <2>3. QED
    BY <1>1, <2>2, SeesAsBefore
<1>7. CASE \E q \in Questions : Open(t, q) \/ Upload(t, q)
  BY <1>3, <1>7 DEF AtOnce!Next
<1>8. CASE \E q \in Questions : Grade(t, q) \/ Save(t, q)
  BY <1>1, <1>4, <1>8, SeesAsBefore
<1>9. QED
  BY <1>5, <1>6, <1>7, <1>8 DEF Start

\* It reads what it scores: an upload the grading, a grader the rubric, twice.
LEMMA ReadIsStep ==
  ASSUME Inv, GradingInv, NEW t \in Txns, BookInv(t), row' = row,
         SelectSubmission(t) \/ LockQuestion(t) \/ SelectItems(t) \/ InsertGrading(t)
  PROVE  [AtOnce!Next]_(AtOnce!vars)
<1>1. /\ \A u \in Txns \ {t} : SameTxn(u)
      /\ txn'[t].op = txn[t].op /\ txn'[t].q = txn[t].q /\ txn'[t].submission = txn[t].submission
      /\ txn'[t].seen = txn[t].seen /\ txn'[t].score = txn[t].score
      /\ txn'[t].form = txn[t].form /\ txn'[t].found = txn[t].found
      /\ <<txn[t].pc, txn'[t].pc>> \in {<<"select", "lock">>, <<"lock", "items">>, <<"lock", "write">>,
                                        <<"items", "grading">>, <<"grading", "write">>}
      /\ LockQuestion(t) => txn'[t].grading = txn[t].grading /\ (txn'[t].pc = "items" <=> txn[t].score.rubric)
      /\ txn[t].q \in Questions /\ txn[t].q # AQ
  <2>1. DOMAIN txn = Txns /\ DOMAIN txn[t] = Fields
    BY DEF Inv, TxnInv, WellFormed
  <2>2. /\ \A u \in Txns \ {t} : SameTxn(u)
        /\ txn'[t].op = txn[t].op /\ txn'[t].q = txn[t].q /\ txn'[t].submission = txn[t].submission
        /\ txn'[t].seen = txn[t].seen /\ txn'[t].score = txn[t].score
        /\ txn'[t].form = txn[t].form /\ txn'[t].found = txn[t].found
        /\ <<txn[t].pc, txn'[t].pc>> \in {<<"select", "lock">>, <<"lock", "items">>, <<"lock", "write">>,
                                          <<"items", "grading">>, <<"grading", "write">>}
    BY <2>1 DEF SelectSubmission, LockQuestion, SelectItems, InsertGrading, At, Become, SameTxn, Fields
  <2>3. LockQuestion(t) => txn'[t].grading = txn[t].grading /\ (txn'[t].pc = "items" <=> txn[t].score.rubric)
    BY <2>1 DEF LockQuestion, Become, Fields
  <2>4. txn[t].q \in Questions /\ txn[t].q # AQ
    BY <2>2, RowSets DEF Inv, TxnInv, WellFormed, HasQuestion
  <2>5. QED
    BY <2>2, <2>3, <2>4
<1>2. FoundBy(t)' = FoundBy(t)
  BY <1>1 DEF FoundBy
<1>3. ASSUME SeenBy(t)' = SeenBy(t)
      PROVE  [AtOnce!Next]_(AtOnce!vars)
  BY <1>1, <1>2, <1>3, SeesAsBefore
<1>4. CASE ~Scores(t)
  BY <1>1, <1>3, <1>4 DEF Scores, SeenBy
<1>5. CASE txn[t].op = "upload"
  <2>1. Scoring(t) /\ Staged(t) /\ Scores(t)
    BY <1>5 DEF Scores, GradingInv, EditInv
  <2>2. CASE SelectSubmission(t)
    <3>1. lock[txn[t].q] # t
      BY <1>1, <2>1, <2>2 DEF Scoring, Before, HoldsNoQuestion, SelectSubmission, At
    <3>2. txn'[t].grading = row[txn[t].q].grading[txn[t].submission]
      <4>1. txn'[t].grading = Sees(t, txn[t].q).grading[txn[t].submission]
        BY <2>2 DEF SelectSubmission, Become, Inv, TxnInv, WellFormed, Fields
      <4>2. QED
        BY <3>1, <4>1 DEF Sees, Holds
    <3>3. /\ SeenBy(t) = [q |-> txn[t].q, submission |-> txn[t].submission, modified |-> 0,
                          grading |-> txn[t].grading]
          /\ SeenBy(t)' = [q |-> txn[t].q, submission |-> txn[t].submission, modified |-> 0,
                           grading |-> row[txn[t].q].grading[txn[t].submission]]
      BY <1>1, <1>5, <3>2 DEF SeenBy
    <3> DEFINE view == SeenBy(t)'
    <3>4. AtOnce!See(t, view)
      BY <1>1, <1>2, SeesMore
    <3>5. view = [SeenBy(t) EXCEPT !.grading = row[SeenBy(t).q].grading[SeenBy(t).submission]]
      BY <3>3
    <3>6. SeenBy(t) # AtOnce!Nothing /\ SeenBy(t).modified = 0
      BY <1>1, <3>3 DEF AtOnce!Nothing
    <3> HIDE DEF view
    <3>7. AtOnce!Find(t)
      BY <3>4, <3>5, <3>6 DEF AtOnce!Find
    <3>8. QED
      BY <3>7 DEF AtOnce!Next
  <2>3. CASE LockQuestion(t)
    BY <1>1, <1>3, <1>5, <2>3 DEF SeenBy
  <2>4. QED
    BY <1>5, <2>1, <2>2, <2>3 DEF SelectItems, InsertGrading, At, Staged
<1>6. CASE txn[t].op = "page" /\ ~txn[t].score.rubric
  BY <1>1, <1>3, <1>6 DEF SeenBy
<1>7. CASE txn[t].op = "page" /\ txn[t].score.rubric
  <2>1. /\ Scores(t) /\ Scoring(t) /\ PageLast(t) /\ txn[t].seen \in Nat \ {0}
        /\ Sees(t, AQ) = row[AQ] /\ txn[t].score.applied \subseteq Items
    BY <1>1, <1>7, SeenRubric DEF Scores, GradingInv, EditInv, PageLast, Scoring
  <2>2. CASE SelectSubmission(t) \/ LockQuestion(t)
    <3>1. txn[t].pc \in {"select", "lock"} /\ txn'[t].pc \in {"lock", "items"}
      BY <1>1, <1>7, <2>2 DEF SelectSubmission, LockQuestion, At
    <3>2. QED
      BY <1>1, <1>3, <1>7, <3>1 DEF SeenBy
  <2> DEFINE view == SeenBy(t)'
  <2>3. AtOnce!See(t, view)
    BY <1>1, <1>2, SeesMore
  <2>4. SeenBy(t).modified # 0
    BY <1>7, <2>1 DEF SeenBy
  <2>5. CASE SelectItems(t)
    <3> DEFINE applied == txn[t].score.applied
    <3>1. txn'[t].grading = RubricGrading(row[AQ], applied) /\ txn'[t].pc = "grading" /\ txn[t].pc = "items"
      BY <2>1, <2>5 DEF SelectItems, At, Become, Inv, TxnInv, WellFormed, Fields
    <3>2. /\ SeenBy(t) = [q |-> txn[t].q, submission |-> txn[t].submission, modified |-> txn[t].seen,
                          grading |-> NoGrading]
          /\ view = [q |-> txn[t].q, submission |-> txn[t].submission, modified |-> txn[t].seen,
                     grading |-> RubricGrading(row[AQ], applied)]
      BY <1>1, <1>7, <3>1 DEF SeenBy
    <3>3. view = [SeenBy(t) EXCEPT !.grading = RubricGrading(row[AQ], applied)]
      BY <3>2
    <3>4. SeenBy(t).grading = NoGrading
      BY <3>2
    <3> HIDE DEF view
    <3>5. AtOnce!Apply(t)
      BY <2>1, <2>3, <2>4, <3>3, <3>4, SameRules DEF AtOnce!Apply
    <3>6. QED
      BY <3>5 DEF AtOnce!Next
  <2>6. CASE InsertGrading(t)
    <3> DEFINE old == txn[t].grading
               new == [old EXCEPT !.start = row[AQ].start, !.item = row[AQ].item]
    <3>1. txn'[t].grading = new /\ txn'[t].pc = "write" /\ txn[t].pc = "grading"
      <4>1. Become(t, [pc |-> "write", grading |-> new]) /\ txn[t].pc = "grading"
        BY <2>1, <2>6 DEF InsertGrading, At
      <4>2. DOMAIN txn = Txns /\ DOMAIN txn[t] = Fields
        BY DEF Inv, TxnInv, WellFormed
      <4> HIDE DEF new
      <4>3. QED
        BY <4>1, <4>2 DEF Become, Fields
    <3> HIDE DEF new
    <3>2. /\ SeenBy(t) = [q |-> txn[t].q, submission |-> txn[t].submission, modified |-> txn[t].seen,
                          grading |-> old]
          /\ view = [q |-> txn[t].q, submission |-> txn[t].submission, modified |-> txn[t].seen,
                     grading |-> new]
      BY <1>1, <1>7, <3>1 DEF SeenBy
    <3>3. view = [SeenBy(t) EXCEPT !.grading = new]
      BY <3>2
    <3>4. "start" \in DOMAIN old /\ "start" \notin DOMAIN NoGrading
      BY <1>7, <3>1 DEF BookInv, Asked, NoGrading
    <3>5. SeenBy(t).grading = old /\ old # NoGrading
      BY <3>2, <3>4
    <3> HIDE DEF view, old
    <3>6. view = [SeenBy(t) EXCEPT !.grading = [@ EXCEPT !.start = row[AQ].start, !.item = row[AQ].item]]
      BY <3>3, <3>5 DEF new
    <3>7. AtOnce!Copy(t)
      BY <2>3, <2>4, <3>5, <3>6, SameRules DEF AtOnce!Copy
    <3>8. QED
      BY <3>7 DEF AtOnce!Next
  <2>7. QED
    BY <2>2, <2>5, <2>6
<1>8. QED
  BY <1>4, <1>5, <1>6, <1>7 DEF Scores

\* Gradings of which an item or the start changed are found; the others stand.
LEMMA UnchangedStands ==
  ASSUME NEW grading, NEW rubric, grading.applied \subseteq Items, ~Changed(grading, rubric)
  PROVE  AtOnce!Stands(grading, rubric)
<1>1. /\ grading.start = rubric.start
      /\ \A i \in grading.applied : i \notin rubric.deleted /\ rubric.item[i] = grading.item[i]
  BY DEF Changed
<1>2. grading.applied \ rubric.deleted = grading.applied
  BY <1>1
<1>3. SumFunctionOnSet(grading.item, grading.applied) = SumFunctionOnSet(rubric.item, grading.applied)
  <2> DEFINE f == grading.item
             g == rubric.item
             S == grading.applied
  <2>1. IsFiniteSet(S) /\ \A i \in S : f[i] = g[i]
    BY <1>1, SubsetsOfItems
  <2> HIDE DEF f, g, S
  <2>2. SumFunctionOnSet(f, S) = SumFunctionOnSet(g, S)
    BY <2>1, SameSum
  <2>3. QED
    BY <2>2 DEF f, g, S
<1>4. QED
  BY <1>1, <1>2, <1>3, SumsAgree DEF AtOnce!Stands

\* An edit, which holds the rubric, looks at the gradings.
LEMMA ReviewIsStep ==
  ASSUME Inv, GradingInv, NEW t \in Txns, BookInv(t), Review(t)
  PROVE  [AtOnce!Next]_(AtOnce!vars)
<1> DEFINE last    == LastGradings(row, Rubriced)
           changed == {q \in DOMAIN last : Changed(row[q].grading[last[q].submission], Sees(t, AQ))}
           rubric  == Revised(row[AQ], txn[t].form)
<1>1. /\ Become(t, [pc |-> "wait", found |-> Restrict(last, changed), todo |-> changed])
      /\ UNCHANGED rowVars /\ txn[t].pc = "review" /\ txn[t].op = "edit"
  BY DEF Review, At, GradingInv, EditInv, Staged
<1>2. /\ Recomputing(t) /\ txn[t].form \in Forms /\ lock[AQ] = t
      /\ Sees(t, AQ) = rubric
  <2>1. Recomputing(t) /\ txn[t].form \in Forms /\ EditWrites(t)
    BY <1>1 DEF GradingInv, EditInv, BookInv, Asked
  <2>2. QED
    BY <1>1, <2>1, SeenRubric DEF Recomputing, EditWrites
<1>3. ASSUME NEW h \in Txns
      PROVE  FoundBy(h) = AtOnce!NoEdit
  <2>1. txn[h].op = "edit" => IF txn[h].pc = "rubric" THEN lock[AQ] # h ELSE lock[AQ] = h
    BY DEF GradingInv, EditInv, Recomputing
  <2>2. txn[h].op # "edit" \/ txn[h].pc \in {"rubric", "review"}
    BY <1>1, <1>2, <2>1
  <2>3. QED
    BY <2>2 DEF FoundBy, AtOnce!NoEdit
<1>4. ASSUME NEW q \in DOMAIN last \ changed
      PROVE  AtOnce!Stands(row[q].grading[last[q].submission], rubric)
  <2>1. /\ q \in Rubriced /\ Graded(row[q]) # {} /\ last[q].submission = Max(Graded(row[q]))
        /\ GradingSeq(row[q].grading)
    BY ManualGradingAssumption DEF LastGradings, GradingInv, GradingRows
  <2>2. last[q].submission \in 1..Len(row[q].grading)
    <3> DEFINE x == row[q]
    <3>1. GradingSeq(x.grading) /\ Graded(x) # {}
      BY <2>1
    <3> HIDE DEF x
    <3>2. Max(Graded(x)) \in 1..Len(x.grading)
      BY <3>1, LastGraded
    <3>3. QED
      BY <2>1, <3>2 DEF x
  <2> DEFINE grading == row[q].grading[last[q].submission]
  <2>3. grading.applied \subseteq Items /\ ~Changed(grading, rubric)
    BY <1>2, <2>1, <2>2 DEF GradingSeq
  <2> HIDE DEF grading, rubric
  <2>4. AtOnce!Stands(grading, rubric)
    BY <2>3, UnchangedStands
  <2>5. QED
    BY <2>4 DEF grading
<1>5. changed \in SUBSET DOMAIN last
  OBVIOUS
<1>6. AtOnce!Revised(row[AQ], txn[t].form) = rubric /\ AtOnce!LastGradings(row, Rubriced) = last
  BY SameRules
<1> DEFINE found == Restrict(last, changed)
<1>7. found = AtOnce!Restrict(last, changed)
  BY DEF Restrict, AtOnce!Restrict
<1> HIDE DEF last, changed, rubric, found
<1>8. /\ row' = row /\ \A u \in Txns \ {t} : SameTxn(u)
      /\ txn'[t].op = "edit" /\ txn'[t].pc = "wait" /\ txn'[t].form = txn[t].form
      /\ txn'[t].found = found
  <2>1. Become(t, [pc |-> "wait", found |-> found, todo |-> changed])
    BY <1>1 DEF last, changed, found
  <2>2. QED
    BY <1>1, <2>1 DEF Become, SameTxn, rowVars, Inv, TxnInv, WellFormed, Fields
<1>9. FoundBy(t)' = [form |-> txn[t].form, found |-> found] /\ SeenBy(t)' = SeenBy(t)
  BY <1>1, <1>8 DEF FoundBy, SeenBy
<1>10. /\ [u \in Txns |-> FoundBy(u)]' =
            [[u \in Txns |-> FoundBy(u)] EXCEPT ![t] = [form |-> txn[t].form, found |-> found]]
       /\ [u \in Txns |-> SeenBy(u)]' = [u \in Txns |-> SeenBy(u)]
  BY <1>8, <1>9, ViewsStay
<1>11. AtOnce!Look(t)
  <2> DEFINE edits == [u \in Txns |-> FoundBy(u)]
  <2>1. \E form \in Forms, S \in SUBSET DOMAIN last :
          /\ \A q \in DOMAIN last \ S :
               AtOnce!Stands(row[q].grading[last[q].submission], AtOnce!Revised(row[AQ], form))
          /\ edits' = [edits EXCEPT ![t] = [form |-> form, found |-> AtOnce!Restrict(last, S)]]
    <3>1. /\ \A q \in DOMAIN last \ changed :
               AtOnce!Stands(row[q].grading[last[q].submission], AtOnce!Revised(row[AQ], txn[t].form))
          /\ edits' = [edits EXCEPT ![t] = [form |-> txn[t].form, found |-> AtOnce!Restrict(last, changed)]]
      BY <1>4, <1>6, <1>7, <1>10
    <3>2. QED
      BY <1>2, <1>5, <3>1
  <2>2. \A h \in Txns : edits[h] = AtOnce!NoEdit
    BY <1>3
  <2>3. QED
    BY <1>6, <1>8, <1>10, <2>1, <2>2 DEF AtOnce!Look
<1>12. QED
  BY <1>11 DEF AtOnce!Next

\* The other statements of a request nobody sees.
LEMMA QuietIsStep ==
  ASSUME Inv, GradingInv, NEW t \in Txns, row' = row,
         \/ WriteScore(t) \/ Total(t) \/ MarkUsed(t) \/ UpdateInstance(t) \/ LockInstance(t)
         \/ ComputePoints(t) \/ StorePoints(t) \/ InsertSubmission(t) \/ UpdateRubric(t)
         \/ LockReviewed(t) \/ ReviewedLocked(t) \/ Recompute(t) \/ Recomputed(t) \/ Tag(t)
  PROVE  [AtOnce!Next]_(AtOnce!vars)
<1> DEFINE Late == {"write", "total", "questions", "wait", "recompute", "tag", "commit"}
<1>1. DOMAIN txn = Txns /\ DOMAIN txn[t] = Fields /\ Staged(t)
  BY DEF Inv, TxnInv, WellFormed, GradingInv, EditInv
<1>2. CASE WriteScore(t) \/ Total(t) \/ MarkUsed(t) \/ UpdateInstance(t) \/ LockReviewed(t) \/ ReviewedLocked(t)
  <2>1. /\ \A u \in Txns \ {t} : SameTxn(u)
        /\ txn'[t].op = txn[t].op /\ txn'[t].q = txn[t].q /\ txn'[t].submission = txn[t].submission
        /\ txn'[t].seen = txn[t].seen /\ txn'[t].score = txn[t].score /\ txn'[t].form = txn[t].form
        /\ txn'[t].found = txn[t].found /\ txn'[t].grading = txn[t].grading
        /\ txn[t].pc \in Late /\ txn'[t].pc \in Late
    <3>1. CASE WriteScore(t) \/ UpdateInstance(t) \/ ReviewedLocked(t)
      BY <1>1, <3>1 DEF WriteScore, UpdateInstance, ReviewedLocked, At, GoTo, Updated, SameTxn, Fields
    <3>2. CASE MarkUsed(t) \/ LockReviewed(t)
      BY <3>2 DEF MarkUsed, LockReviewed, At, SameTxn
    <3>3. CASE Total(t)
      <4>1. PICK total : Become(t, [pc |-> "questions", total |-> total]) /\ txn[t].pc = "total"
        BY <3>3 DEF Total, At
      <4>2. QED
        BY <1>1, <4>1 DEF Become, SameTxn, Fields
    <3>4. QED
      BY <1>2, <3>1, <3>2, <3>3
  <2>2. SeenBy(t)' = SeenBy(t) /\ FoundBy(t)' = FoundBy(t)
    BY <2>1 DEF SeenBy, FoundBy
  <2>3. QED
    BY <2>1, <2>2, SeesAsBefore
<1>3. CASE LockInstance(t) \/ ComputePoints(t) \/ StorePoints(t) \/ InsertSubmission(t)
  <2>1. /\ txn[t].op \in {"auto", "save"} /\ txn'[t].op = txn[t].op
        /\ \A u \in Txns \ {t} : SameTxn(u)
    BY <1>1, <1>3 DEF LockInstance, ComputePoints, StorePoints, InsertSubmission, At, GoTo, Become,
                      SameTxn, Staged, Fields
  <2>2. SeenBy(t)' = SeenBy(t) /\ FoundBy(t)' = FoundBy(t)
    BY <2>1 DEF SeenBy, FoundBy
  <2>3. QED
    BY <2>1, <2>2, SeesAsBefore
<1>4. CASE UpdateRubric(t) \/ Recompute(t) \/ Recomputed(t) \/ Tag(t)
  <2>1. /\ txn[t].op = "edit" /\ txn'[t].op = "edit"
        /\ txn'[t].form = txn[t].form /\ txn'[t].found = txn[t].found
        /\ txn[t].pc \in {"rubric", "review"} <=> txn'[t].pc \in {"rubric", "review"}
        /\ \A u \in Txns \ {t} : SameTxn(u)
    <3>1. CASE UpdateRubric(t)
      BY <1>1, <3>1 DEF UpdateRubric, At, GoTo, SameTxn, Staged, Fields
    <3>2. CASE Recompute(t)
      BY <1>1, <3>2 DEF Recompute, At, Become, SameTxn, Staged, Fields
    <3>3. CASE Recomputed(t)
      BY <1>1, <3>3 DEF Recomputed, At, Become, SameTxn, Staged, Fields
    <3>4. CASE Tag(t)
      BY <1>1, <3>4 DEF Tag, At, Become, SameTxn, Staged, Fields
    <3>5. QED
      BY <1>4, <3>1, <3>2, <3>3, <3>4
  <2>2. SeenBy(t)' = SeenBy(t) /\ FoundBy(t)' = FoundBy(t)
    BY <2>1 DEF SeenBy, FoundBy
  <2>3. QED
    BY <2>1, <2>2, SeesAsBefore
<1>5. QED
  BY <1>2, <1>3, <1>4

\* What a request does before it commits leaves the rows alone.
LEMMA RequestIsStep ==
  ASSUME Inv, GradingInv, NEW t \in Txns, BookInv(t), Start(t) \/ Step(t)
  PROVE  [AtOnce!Next]_(AtOnce!vars)
<1>1. row' = row /\ DOMAIN txn = Txns
  BY CommittedBy DEF Inv
<1>2. CASE Start(t)
  BY <1>2, StartIsStep
<1>3. CASE Abort(t)
  BY <1>1, <1>3, ViewsEnd DEF Abort, AtOnce!Leave, AtOnce!Next
<1>4. CASE SelectSubmission(t) \/ LockQuestion(t) \/ SelectItems(t) \/ InsertGrading(t) \/ Review(t)
  BY <1>1, <1>4, ReadIsStep, ReviewIsStep
<1>5. CASE Step(t) /\ ~Abort(t) /\ ~(SelectSubmission(t) \/ LockQuestion(t) \/ SelectItems(t)
                                     \/ InsertGrading(t) \/ Review(t))
  BY <1>1, <1>5, QuietIsStep DEF Step
<1>6. QED
  BY <1>2, <1>3, <1>4, <1>5

\* A tag of a grader changes nothing else.
LEMMA ReassignIsStep ==
  ASSUME Inv, Inv', InstanceRows', NEW q \in Questions, NEW required \in BOOLEAN, Reassign(q, required)
  PROVE  [AtOnce!Next]_(AtOnce!vars)
<1>1. row' = [row EXCEPT ![q] = [row[q] EXCEPT !.requiresManualGrading = required]] /\ DOMAIN row = Rows
  BY DEF Reassign, Inv, RowInv
<1>2. /\ row'[q] = [row[q] EXCEPT !.requiresManualGrading = required] /\ row'[AQ] = row[AQ]
      /\ \A x \in Questions : x # q => row'[x] = row[x]
  BY <1>1, RowSets
<1>3. AtOnce!Change(q, row'[q])
  BY <1>2, ChangesRow
<1>4. /\ [u \in Txns |-> SeenBy(u)]' = [u \in Txns |-> SeenBy(u)]
      /\ [u \in Txns |-> FoundBy(u)]' = [u \in Txns |-> FoundBy(u)]
  BY ViewsStay DEF Reassign, SameTxn
<1>5. AtOnce!Reassign(q, required)
  BY <1>2, <1>3, <1>4 DEF AtOnce!Reassign
<1>6. QED
  BY <1>5 DEF AtOnce!Next

LEMMA NextIsStep ==
  ASSUME Inv, Inv', GradingInv, InstanceRows, InstanceRows', \A u \in Txns : BookInv(u), [Next]_vars
  PROVE  [AtOnce!Next]_(AtOnce!vars)
<1>1. ASSUME NEW t \in Txns, CommitTxn(t)
      PROVE  [AtOnce!Next]_(AtOnce!vars)
  <2>1. Scores(t) \/ txn[t].op \in {"auto", "save", "edit"}
    BY <1>1 DEF CommitTxn, At, GradingInv, EditInv, Staged, Scores
  <2>2. QED
    BY <1>1, <2>1, ScoreIsStep, StudentIsStep, EditIsStep
<1>2. CASE UNCHANGED vars
  <2>1. row' = row /\ \A u \in Txns : SameTxn(u)
    BY <1>2 DEF vars, rowVars, SameTxn
  <2>2. /\ [u \in Txns |-> SeenBy(u)]' = [u \in Txns |-> SeenBy(u)]
        /\ [u \in Txns |-> FoundBy(u)]' = [u \in Txns |-> FoundBy(u)]
    BY <2>1, ViewsStay
  <2>3. QED
    BY <2>1, <2>2 DEF AtOnce!vars
<1>3. QED
  BY <1>1, <1>2, RequestIsStep, ReassignIsStep DEF Next

LEMMA InitIsInit ==
  ASSUME Init
  PROVE  AtOnce!Init /\ InstanceRows
<1>1. /\ pending = row /\ txn = [t \in Txns |-> NewTxn]
      /\ row = [r \in Rows |-> IF r \in Questions THEN NewQuestion
                               ELSE IF r = AQ THEN FirstRubric ELSE [points |-> 0]]
  BY DEF Init, RowsInit
<1>2. /\ [u \in Txns |-> SeenBy(u)] = [u \in Txns |-> AtOnce!Nothing]
      /\ [u \in Txns |-> FoundBy(u)] = [u \in Txns |-> AtOnce!NoEdit]
  BY <1>1, SameRules DEF NewTxn, SeenBy, FoundBy, AtOnce!Nothing, AtOnce!NoEdit
<1>3. Rows = Questions \cup {InstanceOf[q] : q \in Questions} \cup {AQ}
  BY ManualGradingAssumption DEF Instances
<1>4. AtOnce!Init
  BY <1>1, <1>2, <1>3, SameRules DEF AtOnce!Init
<1>5. InstanceRows
  <2>1. \A a \in Instances : row[a] = [points |-> 0]
    BY <1>1, RowSets
  <2>2. row = [r \in Rows |-> row[r]]
    BY <1>1
  <2>3. QED
    BY <1>1, <2>1, <2>2 DEF InstanceRows
<1>6. QED
  BY <1>4, <1>5

LEMMA NextWrites ==
  ASSUME Inv, GradingInv, \A u \in Txns : BookInv(u), [Next]_vars
  PROVE  \A u \in Txns : BookInv(u)'
<1>1. ASSUME NEW t \in Txns, CommitTxn(t)
      PROVE  \A u \in Txns : BookInv(u)'
  BY <1>1, Committed, EndWrites
<1>2. ASSUME NEW t \in Txns, Step(t)
      PROVE  \A u \in Txns : BookInv(u)'
  <2>1. CASE SelectSubmission(t) \/ LockQuestion(t) \/ SelectItems(t) \/ InsertGrading(t) \/ WriteScore(t)
    BY <2>1, ScoreReadsOn, WriteScoreWrites
  <2>2. CASE Total(t) \/ MarkUsed(t) \/ UpdateInstance(t) \/ LockReviewed(t) \/ ReviewedLocked(t)
    BY <2>2, TotalWrites
  <2>3. CASE LockInstance(t) \/ ComputePoints(t) \/ StorePoints(t) \/ InsertSubmission(t)
    BY <2>3, StudentWrites
  <2>4. CASE UpdateRubric(t) \/ Review(t) \/ Recompute(t) \/ Recomputed(t) \/ Tag(t)
    BY <2>4, UpdateRubricWrites, EditWritesOn, TagWrites
  <2>5. CASE Abort(t)
    <3>1. End(t) /\ \A u \in Txns \ {t} : Untouched(u)
      BY <2>5, RowsRolledBack DEF Abort, Inv
    <3>2. QED
      BY <3>1, EndWrites
  <2>6. QED
    BY <1>2, <2>1, <2>2, <2>3, <2>4, <2>5 DEF Step
<1>3. ASSUME NEW q \in Questions, NEW required \in BOOLEAN, Reassign(q, required)
      PROVE  \A u \in Txns : BookInv(u)'
  <2>1. \A u \in Txns : SameTxn(u) /\ Untouched(u)
    BY <1>3, RowReassigned DEF Reassign, SameTxn, Inv
  <2>2. QED
    BY <2>1, OthersWriteOn
<1>4. CASE UNCHANGED vars
  <2>1. \A u \in Txns : SameTxn(u) /\ Untouched(u)
    BY <1>4 DEF vars, rowVars, SameTxn, Untouched
  <2>2. QED
    BY <2>1, OthersWriteOn
<1>5. QED
  BY <1>1, <1>2, <1>3, <1>4, StartWrites DEF Next

LEMMA BookInvariance == Spec => [](Inv /\ GradingInv /\ InstanceRows /\ \A u \in Txns : BookInv(u))
<1> DEFINE I == InstanceRows /\ \A u \in Txns : BookInv(u)
<1>1. Init => I
  BY InitWrites, InitIsInit
<1>2. Inv /\ GradingInv /\ I /\ [Next]_vars => I'
  BY NextWrites, InstanceRowsStay
<1> HIDE DEF I
<1>3. Spec => []I
  BY <1>1, <1>2, Invariance, GradingInvariance, PTL DEF Spec
<1>4. I => InstanceRows /\ \A u \in Txns : BookInv(u)
  BY DEF I
<1>5. QED
  BY <1>3, <1>4, Invariance, GradingInvariance, PTL

\* The requests implement Gradebook: for any questions, rubric, graders, uploads and
\* edits, whatever statements of theirs come between one another and whichever of
\* them are rolled back, each looks at committed tables at the times Gradebook names
\* and then writes what follows from that in one step, or nothing: a score to the
\* question it is for, unless it was modified since its page was opened; an edit to
\* the gradings it found, as the rubric has them that it commits, and to no others.
THEOREM RequestsRefineGradebook == Spec => ImplementsGradebook
<1> DEFINE I == Inv /\ GradingInv /\ InstanceRows /\ \A u \in Txns : BookInv(u)
<1>1. Init => AtOnce!Init
  BY InitIsInit
<1>2. I /\ I' /\ [Next]_vars => [AtOnce!Next]_(AtOnce!vars)
  BY NextIsStep
<1>3. Spec => []I
  BY BookInvariance
<1> HIDE DEF I
<1>4. QED
  BY <1>1, <1>2, <1>3, PTL DEF Spec, ImplementsGradebook, AtOnce!Spec

-----------------------------------------------------------------------------
(* Somebody goes on. *)

\* If everybody waits, some of them wait for each other and for nobody else: the
\* smallest set that holds whomever its members wait for.
LEMMA CircleExists ==
  ASSUME NEW W \in SUBSET Txns, W # {}, NEW wanted,
         \A t \in W : Blockers(t, wanted[t]) # {} /\ Blockers(t, wanted[t]) \subseteq W
  PROVE  \E S \in SUBSET W : S # {} /\ Deadlock(S, wanted)
<1> DEFINE For(t)    == Blockers(t, wanted[t])
           Closed(S) == S # {} /\ \A t \in S : For(t) \subseteq S
           Sets      == {S \in SUBSET W : Closed(S)}
<1>1. W \in Sets /\ Sets \subseteq SUBSET W
  OBVIOUS
<1>2. IsFiniteSet(W)
  BY FS_Subset, ManualGradingAssumption
<1>3. PICK S \in Sets : \A U \in SUBSET S : U # S => U \notin Sets
  <2> HIDE DEF Sets
  <2>1. QED
    BY <1>1, <1>2, SmallestSubset
<1> DEFINE U == UNION {For(t) : t \in S}
<1>4. U \subseteq S /\ U \subseteq W
  OBVIOUS
<1>5. Closed(U)
  <2>1. PICK t \in S : t \in W
    OBVIOUS
  <2>2. For(t) # {} /\ For(t) \subseteq U
    BY <2>1
  <2>3. \A u \in U : For(u) \subseteq U
    BY <1>4
  <2>4. QED
    BY <2>2, <2>3
<1>6. U = S
  BY <1>3, <1>4, <1>5
<1>7. QED
  BY <1>3, <1>6 DEF Deadlock

\* Rows are held by transactions that are on their way.
LEMMA HoldersAreActive ==
  ASSUME Inv, NEW t \in Txns
  PROVE  \A u \in Blockers(t, Wanted(t)) : u \in Txns /\ Active(u)
<1>1. Wanted(t) \subseteq Rows
  BY RowSets DEF Inv, TxnInv, WellFormed, HasQuestion, Wanted, Unmarked, Siblings
<1>2. \A r \in Rows : lock[r] \in Txns => Active(lock[r])
  BY DEF Inv, TxnInv, WellFormed, Active
<1>3. \A r \in Rows : ~Available(t, r) => lock[r] \in Txns
  BY DEF Inv, RowInv, Available
<1> DEFINE wanted == Wanted(t)
<1> HIDE DEF wanted
<1>4. wanted \subseteq Rows
  BY <1>1 DEF wanted
<1>5. \A u \in Blockers(t, wanted) : u \in Txns /\ Active(u)
  BY <1>2, <1>3, <1>4 DEF Blockers
<1>6. QED
  BY <1>5 DEF wanted

\* Graders, uploads, edits, students and automatic grading lock rows in different
\* orders, but whoever waits for whom, one of the requests goes on: somebody waits
\* for nobody, or there is a circle, and one in it is rolled back.
THEOREM RequestsDoNotBlock == Spec => []SomeoneProceeds
<1>1. ASSUME Inv, \A u \in Txns : BookInv(u) /\ EditInv(u)
      PROVE  SomeoneProceeds
  <2> DEFINE W == {t \in Txns : Active(t)}
  <2> SUFFICES ASSUME W # {}, \A t \in W : ~Ready(t)
               PROVE  \E t \in W : Victim(t)
    BY DEF SomeoneProceeds
  <2>1. \A t \in W : At(t, "tag") => Wanted(t) # {}
    BY <1>1 DEF At, EditInv, Staged, BookInv, EditWrites, Wanted
  <2>2. \A t \in W : Blockers(t, Wanted(t)) # {}
    BY <2>1 DEF Ready
  <2>3. \A t \in W : Blockers(t, Wanted(t)) \subseteq W
    BY <1>1, HoldersAreActive
  <2>4. W \in SUBSET Txns
    OBVIOUS
  <2> HIDE DEF W
  <2> DEFINE w == [u \in Txns |-> Wanted(u)]
  <2>5. \A t \in W : w[t] = Wanted(t)
    BY <2>4
  <2>6. \A t \in W : Blockers(t, w[t]) # {} /\ Blockers(t, w[t]) \subseteq W
    BY <2>2, <2>3, <2>5
  <2>7. PICK S \in SUBSET W : S # {} /\ Deadlock(S, w)
    <3> HIDE DEF w
    <3>1. QED
      BY <2>4, <2>6, CircleExists
  <2>8. PICK t \in S : t \in W
    BY <2>7
  <2>9. Victim(t)
    BY <2>4, <2>7, <2>8 DEF Victim
  <2>10. QED
    BY <2>8, <2>9
<1>2. Inv /\ GradingInv /\ InstanceRows /\ (\A u \in Txns : BookInv(u)) => SomeoneProceeds
  BY <1>1 DEF GradingInv
<1>3. QED
  BY <1>2, BookInvariance, PTL

===============================================================================

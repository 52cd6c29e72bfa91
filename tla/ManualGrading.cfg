SPECIFICATION Spec
CONSTANTS
  Txns = {t1, t2, t3}
  Rows <- AllRows
  NoTxn = NoTxn
  Questions = {q1, q2}
  InstanceOf <- OneInstance
  Rubriced = {q1}
  AQ = AQ
  Items = {i1}
  FirstRubric <- StartRubric
  MaxPoints = 4
  MaxManual = 3
  Grades <- TheGrades
  Uploads <- TheUploads
  Forms <- TheForms
  AutoPoints = {1}
  Null = Null
  MaxSubmissions = 2
  q1 = q1
  q2 = q2
  a1 = a1
  i1 = i1
  t1 = t1
  t2 = t2
  t3 = t3
SYMMETRY TxnSymmetry
INVARIANTS
  PointsAddUp
  SomeoneProceeds
PROPERTIES
  ImplementsGradebook
CHECK_DEADLOCK FALSE

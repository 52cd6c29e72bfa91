--------------------------- MODULE MCCourseUpdates --------------------------
(* A pull and an edit, on two servers.                                       *)
EXTENDS CourseUpdates

OwnServer == [u \in Callers |-> IF u \in Edits THEN "s1" ELSE "s2"]
AllFirst  == [f \in Files |-> CHOOSE v \in Contents : v # Absent]
=============================================================================

---------------------------- MODULE MCAssessment ----------------------------
(* Small classes: one or two students, a few overlapping requests. *)
EXTENDS Assessment, TLC

CONSTANTS s1, s2, c1, c2, t1, t2, a1, a2, a3, q1, q2

OneStudent == {s1}
TwoStudents == {s1, s2}
OneClient == {c1}
TwoClients == {c1, c2}
OneTeacher == {t1}
TwoTeachers == {t1, t2}
OneAttempt == {a1}
TwoAttempts == {a1, a2}
ThreeAttempts == {a1, a2, a3}
OneQuestion == {q1}
TwoQuestions == {q1, q2}

Symmetry == Permutations(Clients) \cup Permutations(Teachers)
            \cup Permutations(Attempts)
=============================================================================

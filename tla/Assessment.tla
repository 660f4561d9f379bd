----------------------------- MODULE Assessment -----------------------------
(***************************************************************************)
(* One exercise or one exam (internal/assessment/service.go): attempts,    *)
(* answers, submission and grading, against PostgreSQL at READ COMMITTED.  *)
(*                                                                         *)
(* A request is one call of a service method.  A student may have several  *)
(* under way (a second tab, a retry, an autosave still travelling when     *)
(* Submit is pressed), and so may the teacher.  A transaction is split     *)
(* where another one can commit in between: after its locking SELECT, and  *)
(* between what it reads and what it writes.  A statement that waits for a *)
(* row lock is a disabled action.                                          *)
(*                                                                         *)
(* Each objective question is worth one point; of the answers stored for   *)
(* an attempt only the set of correct ones matters.  An instance is either *)
(* of kind "exercise" or "exam": the two pairs of methods have the same    *)
(* control but for the limits the definitions name.                        *)
(***************************************************************************)
EXTENDS Integers, FiniteSets, Sequences

CONSTANTS
    Kind,         \* "exercise" or "exam"
    Students,
    Clients,      \* requests of students that may overlap
    Teachers,     \* requests of the teacher that may overlap
    Attempts,     \* identifiers of attempts
    Questions,    \* objective questions
    Manual,       \* there are questions the teacher scores
    Limit,        \* attempt_limit
    Opens, Closes, Duration, \* opens_at, closes_at, duration_minutes
    Grace,        \* the tolerance of 15 seconds
    Horizon,      \* bound: the clock stops there
    MaxScore,     \* max_score_scaled
    ManualScores, \* scores the teacher may give
    MaxRevisions, \* bound: no regrading after so many revisions
    NoScore       \* NULL

ASSUME AssessmentAssumption ==
    /\ Kind \in {"exercise", "exam"}
    /\ IsFiniteSet(Attempts) /\ IsFiniteSet(Questions)
    /\ Manual \in BOOLEAN
    /\ Limit \in Nat \ {0}
    /\ Opens \in Nat /\ Closes \in Nat /\ Duration \in Nat /\ Grace \in Nat
    /\ Horizon \in Nat /\ MaxScore \in Nat /\ MaxRevisions \in Nat
    /\ ManualScores \subseteq Nat
    /\ NoScore \notin Nat

VARIABLES
    now,      \* the clock of the server and of the database
    offered,  \* the exercise is "published", the exam "open"
    attempt,  \* [Attempts -> NoAttempt or its row]
    correct,  \* [Attempts -> objective questions with a correct stored answer]
    request,  \* [Clients -> where the call is and what it has read]
    grade,    \* [Attempts -> NoGrade or its row]
    revisions,\* [Attempts -> rows of grade_revisions]
    grading   \* [Teachers -> where the call is and what it has read]

student == <<attempt, correct, request>>
teacher == <<grade, revisions, grading>>
vars == <<now, offered, student, teacher>>

NoAttempt == [state |-> "none"]
NoGrade == [status |-> "none"]
Idle == [at |-> "idle"]

Row(s, e) == [state |-> "in_progress", student |-> s, expires |-> e,
              objective |-> NoScore, final |-> NoScore]

\* What a call holds between its steps.  "read" is history: the column a grading
\* found, NoScore before the attempt was handed in.
Locked(s, e) == [at |-> "locked", student |-> s, expires |-> e]
Counted(s, e, n) == [at |-> "counted", student |-> s, expires |-> e, count |-> n]
Saving(a, q, right) == [at |-> "saving", attempt |-> a, question |-> q, right |-> right]
Submitting(a, n, late) == [at |-> "submitting", attempt |-> a, score |-> n, expired |-> late]
Looked(a, m, publish, reason, prev) ==
    [at |-> "looked", attempt |-> a, score |-> m, publish |-> publish,
     reason |-> reason, previous |-> prev]
Scored(r, o) ==
    [at |-> "scored", attempt |-> r.attempt, score |-> r.score, publish |-> r.publish,
     reason |-> r.reason, previous |-> r.previous, objective |-> o, final |-> o + r.score,
     read |-> attempt[r.attempt].objective]

Init ==
    /\ now = 0
    /\ offered = FALSE
    /\ attempt = [a \in Attempts |-> NoAttempt]
    /\ correct = [a \in Attempts |-> {}]
    /\ request = [c \in Clients |-> Idle]
    /\ grade = [a \in Attempts |-> NoGrade]
    /\ revisions = [a \in Attempts |-> <<>>]
    /\ grading = [t \in Teachers |-> Idle]

Tick ==
    /\ now < Horizon
    /\ now' = now + 1
    /\ UNCHANGED <<offered, student, teacher>>

-----------------------------------------------------------------------------
(* StartExercise, StartExam *)

\* Mutant: the SELECT has no FOR UPDATE.
RowNeverLocked == FALSE

\* FOR UPDATE: the row of the exercise or exam is locked until the end of the
\* transaction that starts an attempt.
RowLocked == \E c \in Clients : request[c].at \in {"locked", "counted"}

\* Only exams expire.
Expiry == IF Kind = "exam" /\ now + Duration < Closes THEN now + Duration ELSE Closes

AttemptsOf(s) == {a \in Attempts : attempt[a] # NoAttempt /\ attempt[a].student = s}

\* The locking SELECT, then the check of the status and of the window.
StartLock(c, s) ==
    /\ request[c] = Idle
    /\ ~RowLocked
    /\ offered
    /\ Opens <= now /\ now <= Closes
    /\ request' = [request EXCEPT ![c] = Locked(s, Expiry)]
    /\ UNCHANGED <<now, offered, attempt, correct, teacher>>

\* The count of the attempts, or the refusal.
StartCount(c) ==
    /\ request[c].at = "locked"
    /\ LET s == request[c].student
           n == Cardinality(AttemptsOf(s))
       IN request' = [request EXCEPT ![c] = IF n < Limit
                                            THEN Counted(s, @.expires, n) ELSE Idle]
    /\ UNCHANGED <<now, offered, attempt, correct, teacher>>

\* INSERT and COMMIT.
StartCommit(c, a) ==
    /\ request[c].at = "counted"
    /\ attempt[a] = NoAttempt
    /\ attempt' = [attempt EXCEPT ![a] = Row(request[c].student, request[c].expires)]
    /\ request' = [request EXCEPT ![c] = Idle]
    /\ UNCHANGED <<now, offered, correct, teacher>>

-----------------------------------------------------------------------------
(* SaveExerciseAnswer, SaveExamAnswer *)

Late(a) == Kind = "exam" /\ now > attempt[a].expires + Grace

\* Mutant: answers are taken whatever the state of the attempt.
SaveReadAny(c, a, q, right) ==
    /\ request[c] = Idle
    /\ attempt[a] # NoAttempt
    /\ ~Late(a)
    /\ request' = [request EXCEPT ![c] = Saving(a, q, right)]
    /\ UNCHANGED <<now, offered, attempt, correct, teacher>>

\* The statement takes its snapshot: INSERT ... SELECT ... WHERE the attempt
\* is in progress.  It locks no row that a submission would wait for.
SaveRead(c, a, q, right) ==
    /\ request[c] = Idle
    /\ attempt[a].state = "in_progress"
    /\ ~Late(a)
    /\ request' = [request EXCEPT ![c] = Saving(a, q, right)]
    /\ UNCHANGED <<now, offered, attempt, correct, teacher>>

\* The row is inserted, or updated on conflict, and committed.
SaveCommit(c) ==
    /\ request[c].at = "saving"
    /\ LET r == request[c] IN
       correct' = [correct EXCEPT ![r.attempt] =
                      IF r.right THEN @ \cup {r.question} ELSE @ \ {r.question}]
    /\ request' = [request EXCEPT ![c] = Idle]
    /\ UNCHANGED <<now, offered, attempt, teacher>>

-----------------------------------------------------------------------------
(* SubmitExercise, SubmitExam *)

\* BEGIN and the SELECT that scores the stored answers.
SubmitRead(c, a) ==
    /\ request[c] = Idle
    /\ attempt[a].state = "in_progress"
    /\ request' = [request EXCEPT ![c] =
                      Submitting(a, Cardinality(correct[a]), Late(a))]
    /\ UNCHANGED <<now, offered, attempt, correct, teacher>>

\* The UPDATE, by id alone, and COMMIT.
SubmitCommit(c) ==
    /\ request[c].at = "submitting"
    /\ LET r == request[c] IN
       attempt' = [attempt EXCEPT
           ![r.attempt].state = IF r.expired THEN "expired"
                                ELSE IF Manual THEN "awaiting_review" ELSE "graded",
           ![r.attempt].objective = r.score,
           ![r.attempt].final = IF Manual THEN NoScore ELSE r.score]
    /\ request' = [request EXCEPT ![c] = Idle]
    /\ UNCHANGED <<now, offered, correct, teacher>>

\* Any error, or the end of the request's context: the transaction rolls back.
RequestAbort(c) ==
    /\ request[c] # Idle
    /\ request' = [request EXCEPT ![c] = Idle]
    /\ UNCHANGED <<now, offered, attempt, correct, teacher>>

-----------------------------------------------------------------------------
(* records.Service.Transition: any status to any other *)

Transition ==
    /\ ~RowLocked
    /\ offered' = ~offered
    /\ UNCHANGED <<now, student, teacher>>

-----------------------------------------------------------------------------
(* grade *)

\* Mutant: the lookup of the grade has no FOR UPDATE.
GradeNeverLocked(t, a) == FALSE

\* FOR UPDATE: another call has found the grade's row and holds it.
GradeLocked(t, a) ==
    \E u \in Teachers \ {t} :
        /\ grading[u].at \in {"looked", "scored"}
        /\ grading[u].attempt = a
        /\ grading[u].previous # NoScore

\* The lookup of the previous grade, and the refusals before it and after it.
GradeRead(t, a, m, publish, reason) ==
    /\ grading[t] = Idle
    /\ attempt[a] # NoAttempt
    /\ Kind = "exercise" => m <= MaxScore
    /\ ~GradeLocked(t, a)
    /\ grade[a].status = "published" => reason
    /\ Len(revisions[a]) < MaxRevisions
    /\ grading' = [grading EXCEPT ![t] = Looked(a, m, publish, reason,
                      IF grade[a] = NoGrade THEN NoScore ELSE grade[a].score)]
    /\ UNCHANGED <<now, offered, student, grade, revisions>>

\* COALESCE(objective_score_scaled, 0); the exercise's score stands alone.
Objective(a) ==
    IF Kind = "exam" /\ attempt[a].objective # NoScore THEN attempt[a].objective ELSE 0

\* Mutant: nothing keeps the sum of an exam's components within the maximum.
GradeScoreUnlimited(t) ==
    /\ grading[t].at = "looked"
    /\ LET r == grading[t] IN
       grading' = [grading EXCEPT ![t] = Scored(r, Objective(r.attempt))]
    /\ UNCHANGED <<now, offered, student, grade, revisions>>

\* The SELECT of the objective score, and the check of the sum.
GradeScore(t) ==
    /\ grading[t].at = "looked"
    /\ LET r == grading[t]
           o == Objective(r.attempt)
       IN /\ o + r.score <= MaxScore
          /\ grading' = [grading EXCEPT ![t] = Scored(r, o)]
    /\ UNCHANGED <<now, offered, student, grade, revisions>>

\* Mutant: the update leaves the objective component out of the final score.
GradeRowManual(r) ==
    [status |-> IF r.publish THEN "published" ELSE "draft",
     objective |-> r.objective,
     manual |-> r.score,
     score |-> IF grade[r.attempt] = NoGrade THEN r.final ELSE r.score,
     read |-> IF grade[r.attempt] = NoGrade THEN r.read ELSE grade[r.attempt].read]

\* The row that is inserted, or, on conflict, updated: the UPDATE leaves the
\* objective component as it is.  "read" is history, as in Scored: what the call
\* that inserted the row had found.
GradeRow(r) ==
    [status |-> IF r.publish THEN "published" ELSE "draft",
     objective |-> IF grade[r.attempt] = NoGrade THEN r.objective
                   ELSE grade[r.attempt].objective,
     manual |-> r.score,
     score |-> r.final,
     read |-> IF grade[r.attempt] = NoGrade THEN r.read ELSE grade[r.attempt].read]

Revision(r) == [previous |-> r.previous, new |-> r.final]
Revised(r) == r.previous # NoScore /\ r.previous # r.final

\* The upsert, which waits for a row that is held, and the revision: the table
\* takes none without a reason.
Upsert(t, revised, revision) ==
    LET r == grading[t] IN
    /\ r.at = "scored"
    /\ ~GradeLocked(t, r.attempt)
    /\ revised => r.reason
    /\ grade' = [grade EXCEPT ![r.attempt] = GradeRow(r)]
    /\ revisions' = [revisions EXCEPT ![r.attempt] =
                        IF revised THEN Append(@, revision) ELSE @]
    /\ grading' = [grading EXCEPT ![t] = Idle]
    /\ UNCHANGED <<now, offered, student>>

\* Mutant: the revision of an exam is recorded with the manual score alone.
GradeCommitManual(t) ==
    Upsert(t, Revised(grading[t]),
           [previous |-> grading[t].previous, new |-> grading[t].score])

\* Mutant: a call that takes the publication back records no revision.
GradeCommitUnpublishing(t) ==
    Upsert(t, Revised(grading[t]) /\ grading[t].publish, Revision(grading[t]))

\* The upsert, the revision when the score that was looked up changes, COMMIT.
GradeCommit(t) == Upsert(t, Revised(grading[t]), Revision(grading[t]))

\* Any error or refusal: the transaction rolls back.
GradeAbort(t) ==
    /\ grading[t] # Idle
    /\ grading' = [grading EXCEPT ![t] = Idle]
    /\ UNCHANGED <<now, offered, student, grade, revisions>>

-----------------------------------------------------------------------------
Request(c) ==
    \/ \E s \in Students : StartLock(c, s)
    \/ StartCount(c)
    \/ \E a \in Attempts : StartCommit(c, a)
    \/ \E a \in Attempts, q \in Questions, right \in BOOLEAN : SaveRead(c, a, q, right)
    \/ SaveCommit(c)
    \/ \E a \in Attempts : SubmitRead(c, a)
    \/ SubmitCommit(c)
    \/ RequestAbort(c)

Grading(t) ==
    \/ \E a \in Attempts, m \in ManualScores, publish, reason \in BOOLEAN :
          GradeRead(t, a, m, publish, reason)
    \/ GradeScore(t)
    \/ GradeCommit(t)
    \/ GradeAbort(t)

Next ==
    \/ Tick
    \/ Transition
    \/ \E c \in Clients : Request(c)
    \/ \E t \in Teachers : Grading(t)

Spec == Init /\ [][Next]_vars

-----------------------------------------------------------------------------
Scores == 0..Cardinality(Questions)

Rows ==
    [state : {"in_progress", "graded", "awaiting_review", "expired"},
     student : Students, expires : 0..Closes,
     objective : Scores \cup {NoScore}, final : Scores \cup {NoScore}]

Requests ==
    {Idle}
    \cup [at : {"locked"}, student : Students, expires : 0..Closes]
    \cup [at : {"counted"}, student : Students, expires : 0..Closes, count : 0..(Limit - 1)]
    \cup [at : {"saving"}, attempt : Attempts, question : Questions, right : BOOLEAN]
    \cup [at : {"submitting"}, attempt : Attempts, score : Scores, expired : BOOLEAN]

Grades ==
    [status : {"draft", "published"}, objective : Scores,
     manual : ManualScores, score : 0..MaxScore, read : Scores \cup {NoScore}]

Gradings ==
    {Idle}
    \cup [at : {"looked"}, attempt : Attempts, score : ManualScores,
          publish : BOOLEAN, reason : BOOLEAN, previous : (0..MaxScore) \cup {NoScore}]
    \cup [at : {"scored"}, attempt : Attempts, score : ManualScores,
          publish : BOOLEAN, reason : BOOLEAN, previous : (0..MaxScore) \cup {NoScore},
          objective : Scores, final : 0..MaxScore, read : Scores \cup {NoScore}]

\* The types of the variables: no attempt outlives the closing time, no grade
\* exceeds the maximum.
TypeOK ==
    /\ now \in 0..Horizon
    /\ offered \in BOOLEAN
    /\ attempt \in [Attempts -> {NoAttempt} \cup Rows]
    /\ correct \in [Attempts -> SUBSET Questions]
    /\ request \in [Clients -> Requests]
    /\ grade \in [Attempts -> {NoGrade} \cup Grades]
    /\ revisions \in [Attempts -> Seq([previous : 0..MaxScore, new : 0..MaxScore])]
    /\ grading \in [Teachers -> Gradings]

\* docs/exercises.md, docs/exams.md: the attempt limit is enforced, however
\* many requests to start overlap.
WithinLimit == \A s \in Students : Cardinality(AttemptsOf(s)) <= Limit

\* An attempt never starts once the exercise or exam was withdrawn, although
\* its status was checked two statements earlier.
StartedWhileOffered ==
    [][\A a \in Attempts : attempt[a] = NoAttempt /\ attempt'[a] # NoAttempt
                           => offered /\ offered']_vars

Submitted(a) == attempt[a].state \in {"graded", "awaiting_review", "expired"}

\* The attempts of a student whose requests do not overlap are sheets: they
\* are scored by the answers stored and final once handed in.
Sheet ==
    [a \in Attempts |->
        [phase |-> IF attempt[a] = NoAttempt THEN "unused"
                   ELSE IF Submitted(a) THEN "handed_in" ELSE "active",
         correct |-> correct[a],
         score |-> IF attempt[a] = NoAttempt THEN NoScore ELSE attempt[a].objective]]

Abstract == INSTANCE AttemptSheet WITH sheet <- Sheet, Points <- Cardinality
ImplementsSheet == Abstract!Spec

\* README: "Grades are never silently overwritten after publication."
NeverSilentlyOverwritten ==
    [][\A a \in Attempts :
          grade[a].status = "published" /\ grade'[a].score # grade[a].score
          => revisions'[a] = Append(revisions[a],
                 [previous |-> grade[a].score, new |-> grade'[a].score])]_vars

\* The revisions of a grade lead, without a gap, to its current score.
RevisionChain ==
    \A a \in Attempts : LET r == revisions[a] IN
        /\ \A k \in 1..(Len(r) - 1) : r[k].new = r[k + 1].previous
        /\ r # <<>> => grade[a] # NoGrade /\ r[Len(r)].new = grade[a].score

\* A score changes without its revision only by a call that found no grade,
\* before the first one was committed: grades that were found are serialised.
SilentOnlyWhenFirst ==
    [][\A a \in Attempts :
          \/ grade[a] = NoGrade
          \/ grade'[a].score = grade[a].score
          \/ Len(revisions'[a]) > Len(revisions[a])
             /\ revisions'[a][Len(revisions'[a])].previous = grade[a].score
          \/ \E t \in Teachers : /\ grading[t].at = "scored" /\ grading[t].attempt = a
                                 /\ grading[t].previous = NoScore
                                 /\ grading'[t] = Idle]_vars

\* docs/grading.md: attempts "keep objective, manual and final components".
\* The final score of a grade is the sum of its components, with one exception:
\* the call that inserted the row found an attempt that was not yet handed in.
\* Its objective component is then the 0 of that time for good, while a final
\* score that was given later counts the one the attempt was handed in with.
ComponentsAddUp ==
    \A a \in Attempts : grade[a] # NoGrade =>
        LET g == grade[a] IN
        \/ g.score = g.objective + g.manual
        \/ g.read = NoScore /\ g.score = Objective(a) + g.manual
=============================================================================

-------------------------- MODULE AssessmentProofs --------------------------
(***************************************************************************)
(* Theorems about Assessment, for every number of students, requests,      *)
(* attempts and questions, every window, limit and maximum.                *)
(***************************************************************************)
EXTENDS Assessment, FiniteSetTheorems, TLAPS

-----------------------------------------------------------------------------
(* What a typed state says of the calls that are under way.                 *)

\* What each kind of request holds.
LEMMA RequestShape ==
  ASSUME TypeOK, NEW c \in Clients
  PROVE  /\ request[c].at = "locked" =>
              /\ request[c].student \in Students
              /\ request[c].expires \in 0..Closes
         /\ request[c].at = "counted" =>
              /\ request[c].student \in Students
              /\ request[c].expires \in 0..Closes
         /\ request[c].at = "saving" =>
              /\ request[c].attempt \in Attempts
              /\ request[c].question \in Questions
              /\ request[c].right \in BOOLEAN
         /\ request[c].at = "submitting" =>
              /\ request[c].attempt \in Attempts
              /\ request[c].score \in Scores
              /\ request[c].expired \in BOOLEAN
         /\ request[c] = Idle => request[c].at = "idle"
  BY DEF TypeOK, Requests, Idle

\* What a call of the teacher holds after its lookup.
LEMMA GradingShape ==
  ASSUME TypeOK, NEW t \in Teachers, grading[t].at \in {"looked", "scored"}
  PROVE  /\ grading[t].attempt \in Attempts
         /\ grading[t].score \in ManualScores
         /\ grading[t].publish \in BOOLEAN
         /\ grading[t].reason \in BOOLEAN
         /\ grading[t].previous \in (0..MaxScore) \cup {NoScore}
         /\ grading[t].at = "scored" => /\ grading[t].objective \in Scores
                                        /\ grading[t].final \in 0..MaxScore
                                        /\ grading[t].read \in Scores \cup {NoScore}
  BY DEF TypeOK, Gradings, Idle

\* The score of the stored answers is a score.
LEMMA ScoreType ==
  ASSUME TypeOK, NEW a \in Attempts
  PROVE  Cardinality(correct[a]) \in Scores
<1>1. IsFiniteSet(Questions) /\ correct[a] \in SUBSET Questions
  BY AssessmentAssumption DEF TypeOK
<1>2. /\ IsFiniteSet(correct[a])
      /\ Cardinality(correct[a]) <= Cardinality(Questions)
  BY <1>1, FS_Subset
<1>3. Cardinality(correct[a]) \in Nat /\ Cardinality(Questions) \in Nat
  BY <1>1, <1>2, FS_CardinalityType
<1> QED
  BY <1>2, <1>3 DEF Scores

\* The attempts of a student can be counted.
LEMMA CountType ==
  ASSUME NEW s
  PROVE  IsFiniteSet(AttemptsOf(s)) /\ Cardinality(AttemptsOf(s)) \in Nat
<1>1. AttemptsOf(s) \in SUBSET Attempts
  BY DEF AttemptsOf
<1> QED
  BY <1>1, AssessmentAssumption, FS_Subset, FS_CardinalityType

\* The expiry of an attempt does not exceed the closing time.
LEMMA ExpiryType ==
  ASSUME TypeOK
  PROVE  Expiry \in 0..Closes
  BY AssessmentAssumption DEF TypeOK, Expiry

\* The objective component is a score.
LEMMA ObjectiveType ==
  ASSUME TypeOK, NEW a \in Attempts, attempt[a] # NoAttempt
  PROVE  Objective(a) \in Scores
<1>1. attempt[a] \in Rows
  BY DEF TypeOK
<1>2. Cardinality(Questions) \in Nat
  BY AssessmentAssumption, FS_CardinalityType
<1> QED
  BY <1>1, <1>2 DEF Objective, Rows, Scores

-----------------------------------------------------------------------------
(* Type correctness.  A call writes the attempt it has read: attempts are   *)
(* never removed.                                                           *)
CallsLive ==
    /\ \A c \in Clients : request[c].at \in {"saving", "submitting"}
                          => attempt[request[c].attempt] # NoAttempt
    /\ \A t \in Teachers : grading[t].at \in {"looked", "scored"}
                           => attempt[grading[t].attempt] # NoAttempt

TypeInv == TypeOK /\ CallsLive

\* Only StartCommit and SubmitCommit touch attempts.
LEMMA AttemptsUnchanged ==
  ASSUME [Next]_vars,
         \A c \in Clients : ~SubmitCommit(c)
                            /\ \A a \in Attempts : ~StartCommit(c, a)
  PROVE  attempt' = attempt
<1>1. CASE Tick \/ Transition \/ UNCHANGED vars
  BY <1>1 DEF Tick, Transition, vars, student
<1>2. ASSUME NEW c \in Clients, Request(c) PROVE attempt' = attempt
  BY <1>2 DEF Request, StartLock, StartCount, SaveRead, SaveCommit, SubmitRead, RequestAbort
<1>3. ASSUME NEW t \in Teachers, Grading(t) PROVE attempt' = attempt
  BY <1>3 DEF Grading, GradeRead, GradeScore, GradeCommit, Upsert, GradeAbort, student
<1> QED
  BY <1>1, <1>2, <1>3 DEF Next

LEMMA TypeStep == TypeInv /\ [Next]_vars => TypeOK'
<1> SUFFICES ASSUME TypeInv, [Next]_vars PROVE TypeOK'
  OBVIOUS
<1> USE AssessmentAssumption
<1>0. TypeOK /\ CallsLive
  BY DEF TypeInv
<1>1. CASE Tick
  <2>1. now' \in 0..Horizon
    BY <1>0, <1>1 DEF Tick, TypeOK
  <2> QED
    BY <1>0, <1>1, <2>1 DEF Tick, TypeOK, student, teacher
<1>2. CASE Transition
  <2>1. offered' \in BOOLEAN
    BY <1>2 DEF Transition
  <2> QED
    BY <1>0, <1>2, <2>1 DEF Transition, TypeOK, student, teacher
<1>3. ASSUME NEW c \in Clients, NEW s \in Students, StartLock(c, s) PROVE TypeOK'
  <2>1. Locked(s, Expiry) \in Requests
    BY <1>0, ExpiryType DEF Locked, Requests
  <2> QED
    BY <1>0, <1>3, <2>1 DEF StartLock, TypeOK, teacher
<1>4. ASSUME NEW c \in Clients, StartCount(c) PROVE TypeOK'
  <2> DEFINE s == request[c].student
             n == Cardinality(AttemptsOf(s))
  <2>1. n \in Nat
    BY CountType
  <2>2. n < Limit => n \in 0..(Limit - 1)
    BY <2>1
  <2>3. s \in Students /\ request[c].expires \in 0..Closes
    BY <1>0, <1>4, RequestShape DEF StartCount
  <2>4. n < Limit => Counted(s, request[c].expires, n) \in Requests
    BY <2>2, <2>3 DEF Counted, Requests
  <2>5. Idle \in Requests
    BY DEF Requests
  <2>6. request' = [request EXCEPT ![c] =
                      IF n < Limit THEN Counted(s, request[c].expires, n) ELSE Idle]
    BY <1>4 DEF StartCount
  <2> HIDE DEF n, s
  <2>7. request' \in [Clients -> Requests]
    BY <1>0, <2>4, <2>5, <2>6 DEF TypeOK
  <2> QED
    BY <1>0, <1>4, <2>7 DEF StartCount, TypeOK, teacher
<1>5. ASSUME NEW c \in Clients, NEW a \in Attempts, StartCommit(c, a) PROVE TypeOK'
  <2>1. Row(request[c].student, request[c].expires) \in Rows
    BY <1>0, <1>5, RequestShape DEF StartCommit, Row, Rows
  <2>2. Idle \in Requests
    BY DEF Requests
  <2> QED
    BY <1>0, <1>5, <2>1, <2>2 DEF StartCommit, TypeOK, teacher
<1>6. ASSUME NEW c \in Clients, NEW a \in Attempts, NEW q \in Questions,
             NEW right \in BOOLEAN, SaveRead(c, a, q, right)
      PROVE  TypeOK'
  <2>1. Saving(a, q, right) \in Requests
    BY DEF Saving, Requests
  <2> QED
    BY <1>0, <1>6, <2>1 DEF SaveRead, TypeOK, teacher
<1>7. ASSUME NEW c \in Clients, SaveCommit(c) PROVE TypeOK'
  <2>1. Idle \in Requests
    BY DEF Requests
  <2>2. request[c].attempt \in Attempts /\ request[c].question \in Questions
    BY <1>0, <1>7, RequestShape DEF SaveCommit
  <2> QED
    BY <1>0, <1>7, <2>1, <2>2 DEF SaveCommit, TypeOK, teacher
<1>8. ASSUME NEW c \in Clients, NEW a \in Attempts, SubmitRead(c, a) PROVE TypeOK'
  <2>1. Late(a) \in BOOLEAN
    BY DEF Late
  <2>2. Submitting(a, Cardinality(correct[a]), Late(a)) \in Requests
    BY <1>0, <2>1, ScoreType DEF Submitting, Requests
  <2> QED
    BY <1>0, <1>8, <2>2 DEF SubmitRead, TypeOK, teacher
<1>9. ASSUME NEW c \in Clients, SubmitCommit(c) PROVE TypeOK'
  <2> DEFINE b == request[c].attempt
  <2>1. Idle \in Requests
    BY DEF Requests
  <2>2. b \in Attempts /\ attempt[b] \in Rows /\ request[c].score \in Scores
    BY <1>0, <1>9, RequestShape DEF SubmitCommit, CallsLive, TypeOK
  <2>3. attempt' = [attempt EXCEPT ![b] = attempt'[b]] /\ attempt'[b] \in Rows
    BY <1>0, <1>9, <2>2 DEF SubmitCommit, TypeOK, Rows
  <2>4. attempt' \in [Attempts -> {NoAttempt} \cup Rows]
    BY <1>0, <2>2, <2>3 DEF TypeOK
  <2> QED
    BY <1>0, <1>9, <2>1, <2>4 DEF SubmitCommit, TypeOK, teacher
<1>10. ASSUME NEW c \in Clients, RequestAbort(c) PROVE TypeOK'
  <2>1. Idle \in Requests
    BY DEF Requests
  <2> QED
    BY <1>0, <1>10, <2>1 DEF RequestAbort, TypeOK, teacher
<1>11. ASSUME NEW t \in Teachers, NEW a \in Attempts, NEW m \in ManualScores,
              NEW publish \in BOOLEAN, NEW reason \in BOOLEAN,
              GradeRead(t, a, m, publish, reason)
       PROVE  TypeOK'
  <2> DEFINE prev == IF grade[a] = NoGrade THEN NoScore ELSE grade[a].score
  <2>1. prev \in (0..MaxScore) \cup {NoScore}
    BY <1>0 DEF TypeOK, Grades
  <2>2. Looked(a, m, publish, reason, prev) \in Gradings
    BY <2>1 DEF Looked, Gradings
  <2> QED
    BY <1>0, <1>11, <2>2 DEF GradeRead, TypeOK, student
<1>12. ASSUME NEW t \in Teachers, GradeScore(t) PROVE TypeOK'
  <2> DEFINE r == grading[t]
             o == Objective(r.attempt)
  <2>1. /\ r.attempt \in Attempts /\ attempt[r.attempt] # NoAttempt
        /\ r.score \in ManualScores /\ r.publish \in BOOLEAN /\ r.reason \in BOOLEAN
        /\ r.previous \in (0..MaxScore) \cup {NoScore}
    BY <1>0, <1>12, GradingShape DEF GradeScore, CallsLive
  <2>2. o \in Scores /\ Cardinality(Questions) \in Nat
    BY <1>0, <2>1, ObjectiveType, AssessmentAssumption, FS_CardinalityType
  <2>3. o + r.score \in 0..MaxScore
    <3>1. o + r.score <= MaxScore
      BY <1>12 DEF GradeScore
    <3>2. r.score \in Nat
      <4>1. ManualScores \subseteq Nat
        BY AssessmentAssumption
      <4> QED
        BY <2>1, <4>1
    <3>3. o \in Nat
      BY <2>2 DEF Scores
    <3>4. MaxScore \in Nat
      BY AssessmentAssumption
    <3> HIDE DEF o, r
    <3> QED
      BY <3>1, <3>2, <3>3, <3>4
  <2>4. Scored(r, o) \in Gradings
    <3>1. attempt[r.attempt].objective \in Scores \cup {NoScore}
      BY <1>0, <2>1 DEF TypeOK, Rows
    <3> QED
      BY <2>1, <2>2, <2>3, <3>1 DEF Scored, Gradings
  <2>5. grading' = [grading EXCEPT ![t] = Scored(r, o)]
    BY <1>12 DEF GradeScore
  <2>6. UNCHANGED <<now, offered, attempt, correct, request, grade, revisions>>
    BY <1>12 DEF GradeScore, student
  <2> QED
    BY <1>0, <2>4, <2>5, <2>6 DEF TypeOK
<1>13. ASSUME NEW t \in Teachers, GradeCommit(t) PROVE TypeOK'
  <2> DEFINE r == grading[t]
             a == grading[t].attempt
             R == [previous : 0..MaxScore, new : 0..MaxScore]
  <2>1. /\ a \in Attempts
        /\ r.score \in ManualScores /\ r.publish \in BOOLEAN
        /\ r.previous \in (0..MaxScore) \cup {NoScore}
        /\ r.objective \in Scores /\ r.final \in 0..MaxScore
        /\ r.read \in Scores \cup {NoScore}
    BY <1>0, <1>13, GradingShape DEF GradeCommit, Upsert
  <2>2. GradeRow(r) \in Grades
    <3>1. (IF r.publish THEN "published" ELSE "draft") \in {"draft", "published"}
      OBVIOUS
    <3>2. (IF grade[a] = NoGrade THEN r.objective ELSE grade[a].objective) \in Scores
      BY <1>0, <2>1 DEF TypeOK, Grades
    <3>3. (IF grade[a] = NoGrade THEN r.read ELSE grade[a].read) \in Scores \cup {NoScore}
      BY <1>0, <2>1 DEF TypeOK, Grades
    <3> QED
      BY <2>1, <3>1, <3>2, <3>3 DEF GradeRow, Grades
  <2>3. Revised(r) => Revision(r) \in R
    BY <2>1 DEF Revised, Revision
  <2>4. /\ grade' = [grade EXCEPT ![a] = GradeRow(r)]
        /\ revisions' = [revisions EXCEPT ![a] =
                            IF Revised(r) THEN Append(@, Revision(r)) ELSE @]
        /\ grading' = [grading EXCEPT ![t] = Idle]
        /\ UNCHANGED <<now, offered, attempt, correct, request>>
    BY <1>13 DEF GradeCommit, Upsert, student
  <2>5. revisions' \in [Attempts -> Seq(R)]
    <3>1. revisions \in [Attempts -> Seq(R)] /\ revisions[a] \in Seq(R)
      BY <1>0, <2>1 DEF TypeOK
    <3>2. CASE Revised(r)
      <4>1. revisions' = [revisions EXCEPT ![a] = Append(@, Revision(r))]
        BY <2>4, <3>2
      <4>2. Append(revisions[a], Revision(r)) \in Seq(R)
        BY <2>3, <3>1, <3>2
      <4> QED
        BY <3>1, <4>1, <4>2
    <3>3. CASE ~Revised(r)
      BY <2>4, <3>1, <3>3
    <3> QED
      BY <3>2, <3>3
  <2>6. Idle \in Gradings
    BY DEF Gradings
  <2> QED
    BY <1>0, <2>1, <2>2, <2>4, <2>5, <2>6 DEF TypeOK
<1>14. ASSUME NEW t \in Teachers, GradeAbort(t) PROVE TypeOK'
  <2>1. Idle \in Gradings
    BY DEF Gradings
  <2> QED
    BY <1>0, <1>14, <2>1 DEF GradeAbort, TypeOK, student
<1>15. CASE UNCHANGED vars
  BY <1>0, <1>15 DEF vars, TypeOK, student, teacher
<1> QED
  BY <1>1, <1>2, <1>3, <1>4, <1>5, <1>6, <1>7, <1>8, <1>9, <1>10, <1>11, <1>12,
     <1>13, <1>14, <1>15 DEF Next, Request, Grading

\* How a request moves: only its own steps move it.
LEMMA RequestMoves ==
  ASSUME TypeOK, [Next]_vars, NEW d \in Clients
  PROVE  \/ request'[d] = request[d]
         \/ request'[d] = Idle
         \/ StartCount(d)
         \/ \E s \in Students : StartLock(d, s) /\ request'[d] = Locked(s, Expiry)
         \/ \E a \in Attempts, q \in Questions, right \in BOOLEAN :
               SaveRead(d, a, q, right) /\ request'[d] = Saving(a, q, right)
         \/ \E a \in Attempts :
               /\ SubmitRead(d, a)
               /\ request'[d] = Submitting(a, Cardinality(correct[a]), Late(a))
<1> USE DEF TypeOK
<1>1. ASSUME NEW c \in Clients, NEW s \in Students, StartLock(c, s)
      PROVE  \/ request'[d] = request[d]
             \/ c = d /\ request'[d] = Locked(s, Expiry)
  BY <1>1 DEF StartLock
<1>2. ASSUME NEW c \in Clients, StartCount(c)
      PROVE  request'[d] = request[d] \/ c = d
  BY <1>2 DEF StartCount
<1>3. ASSUME NEW c \in Clients, NEW a \in Attempts, NEW q \in Questions,
             NEW right \in BOOLEAN, SaveRead(c, a, q, right)
      PROVE  \/ request'[d] = request[d]
             \/ c = d /\ request'[d] = Saving(a, q, right)
  BY <1>3 DEF SaveRead
<1>4. ASSUME NEW c \in Clients, NEW a \in Attempts, SubmitRead(c, a)
      PROVE  \/ request'[d] = request[d]
             \/ c = d /\ request'[d] = Submitting(a, Cardinality(correct[a]), Late(a))
  BY <1>4 DEF SubmitRead
<1>5. ASSUME NEW c \in Clients,
             \/ \E a \in Attempts : StartCommit(c, a)
             \/ SaveCommit(c) \/ SubmitCommit(c) \/ RequestAbort(c)
      PROVE  request'[d] = request[d] \/ request'[d] = Idle
  BY <1>5 DEF StartCommit, SaveCommit, SubmitCommit, RequestAbort
<1>6. ASSUME Tick \/ Transition \/ UNCHANGED vars \/ \E t \in Teachers : Grading(t)
      PROVE  request' = request
  BY <1>6 DEF Tick, Transition, vars, student, teacher, Grading, GradeRead,
     GradeScore, GradeCommit, Upsert, GradeAbort
<1> QED
  BY <1>1, <1>2, <1>3, <1>4, <1>5, <1>6 DEF Next, Request

\* How a call of the teacher moves.
LEMMA GradingMoves ==
  ASSUME TypeOK, [Next]_vars, NEW u \in Teachers
  PROVE  \/ grading'[u] = grading[u]
         \/ grading'[u] = Idle
         \/ /\ GradeScore(u)
            /\ grading'[u] = Scored(grading[u], Objective(grading[u].attempt))
         \/ \E a \in Attempts, m \in ManualScores, publish, reason \in BOOLEAN :
               /\ GradeRead(u, a, m, publish, reason)
               /\ grading'[u] = Looked(a, m, publish, reason,
                        IF grade[a] = NoGrade THEN NoScore ELSE grade[a].score)
<1> USE DEF TypeOK
<1>1. ASSUME NEW t \in Teachers, NEW a \in Attempts, NEW m \in ManualScores,
             NEW publish \in BOOLEAN, NEW reason \in BOOLEAN,
             GradeRead(t, a, m, publish, reason)
      PROVE  \/ grading'[u] = grading[u]
             \/ /\ t = u
                /\ grading'[u] = Looked(a, m, publish, reason,
                        IF grade[a] = NoGrade THEN NoScore ELSE grade[a].score)
  BY <1>1 DEF GradeRead
<1>2. ASSUME NEW t \in Teachers, GradeCommit(t) \/ GradeAbort(t)
      PROVE  grading'[u] = grading[u] \/ grading'[u] = Idle
  BY <1>2 DEF GradeCommit, Upsert, GradeAbort
<1>3. ASSUME Tick \/ Transition \/ UNCHANGED vars \/ \E c \in Clients : Request(c)
      PROVE  grading' = grading
  BY <1>3 DEF Tick, Transition, vars, student, teacher, Request, StartLock,
     StartCount, StartCommit, SaveRead, SaveCommit, SubmitRead, SubmitCommit,
     RequestAbort
<1>4. ASSUME NEW t \in Teachers, GradeScore(t)
      PROVE  \/ grading'[u] = grading[u]
             \/ /\ t = u
                /\ grading'[u] = Scored(grading[u], Objective(grading[u].attempt))
  BY <1>4 DEF GradeScore
<1> QED
  BY <1>1, <1>2, <1>3, <1>4 DEF Next, Grading

\* Rows of attempts stay, and a call that is under way stays on its row.
LEMMA CallsLiveStep == TypeInv /\ [Next]_vars => CallsLive'
<1> SUFFICES ASSUME TypeInv, [Next]_vars PROVE CallsLive'
  OBVIOUS
<1>1. TypeOK /\ CallsLive
  BY DEF TypeInv
<1>2. \A a \in Attempts : attempt[a] # NoAttempt => attempt'[a] # NoAttempt
  <2>1. ASSUME NEW c \in Clients, NEW b \in Attempts, StartCommit(c, b),
               NEW a \in Attempts, attempt[a] # NoAttempt
        PROVE  attempt'[a] # NoAttempt
    BY <1>1, <2>1 DEF StartCommit, TypeOK
  <2>2. ASSUME NEW c \in Clients, SubmitCommit(c), NEW a \in Attempts, attempt[a] # NoAttempt
        PROVE  attempt'[a] # NoAttempt
    <3>1. request[c].attempt \in Attempts /\ attempt[a] \in Rows
      BY <1>1, <2>2, RequestShape DEF SubmitCommit, TypeOK
    <3> QED
      BY <1>1, <2>2, <3>1 DEF SubmitCommit, TypeOK, Rows, NoAttempt
  <2> QED
    BY <2>1, <2>2, AttemptsUnchanged
<1>3. ASSUME NEW c \in Clients, request'[c].at \in {"saving", "submitting"}
      PROVE  \/ request'[c] = request[c]
             \/ request'[c].attempt \in Attempts /\ attempt[request'[c].attempt] # NoAttempt
  <2>1. CASE request'[c] = Idle
    BY <1>3, <2>1 DEF Idle
  <2>2. CASE StartCount(c)
    <3>1. request'[c] = Idle \/ request'[c].at = "counted"
      BY <1>1, <2>2 DEF StartCount, TypeOK, Counted
    <3> QED
      BY <1>3, <3>1 DEF Idle
  <2>3. ASSUME NEW s, request'[c] = Locked(s, Expiry) PROVE FALSE
    BY <1>3, <2>3 DEF Locked
  <2>4. ASSUME NEW a \in Attempts, NEW q, NEW right, SaveRead(c, a, q, right),
               request'[c] = Saving(a, q, right)
        PROVE  request'[c].attempt = a /\ attempt[a] # NoAttempt
    BY <2>4 DEF SaveRead, Saving, NoAttempt
  <2>5. ASSUME NEW a \in Attempts, SubmitRead(c, a),
               request'[c] = Submitting(a, Cardinality(correct[a]), Late(a))
        PROVE  request'[c].attempt = a /\ attempt[a] # NoAttempt
    BY <2>5 DEF SubmitRead, Submitting, NoAttempt
  <2> QED
    BY <1>1, <2>1, <2>2, <2>3, <2>4, <2>5, RequestMoves
<1>4. ASSUME NEW t \in Teachers, grading'[t].at \in {"looked", "scored"}
      PROVE  \/ grading'[t] = grading[t]
             \/ grading'[t].attempt \in Attempts /\ attempt[grading'[t].attempt] # NoAttempt
  <2>1. CASE grading'[t] = Idle
    BY <1>4, <2>1 DEF Idle
  <2>2. ASSUME NEW a \in Attempts, NEW m, NEW publish, NEW reason, NEW prev,
               GradeRead(t, a, m, publish, reason),
               grading'[t] = Looked(a, m, publish, reason, prev)
        PROVE  grading'[t].attempt = a /\ attempt[a] # NoAttempt
    BY <2>2 DEF GradeRead, Looked
  <2>3. ASSUME GradeScore(t),
               grading'[t] = Scored(grading[t], Objective(grading[t].attempt))
        PROVE  grading'[t].attempt \in Attempts /\ attempt[grading'[t].attempt] # NoAttempt
    BY <1>1, <2>3, GradingShape DEF GradeScore, Scored, CallsLive
  <2> QED
    BY <1>1, <2>1, <2>2, <2>3, GradingMoves
<1>5. /\ \A c \in Clients : request[c].at \in {"saving", "submitting"}
                              => request[c].attempt \in Attempts
      /\ \A t \in Teachers : grading[t].at \in {"looked", "scored"}
                             => grading[t].attempt \in Attempts
  BY <1>1, RequestShape, GradingShape
<1> QED
  BY <1>1, <1>2, <1>3, <1>4, <1>5 DEF CallsLive

LEMMA TypeInvariant == Spec => []TypeInv
<1>1. Init => TypeInv
  <2> SUFFICES ASSUME Init PROVE TypeInv
    OBVIOUS
  <2>1. Idle \in Requests /\ Idle \in Gradings /\ Idle.at = "idle"
    BY DEF Requests, Gradings, Idle
  <2>2. now \in 0..Horizon /\ offered \in BOOLEAN
    <3>1. Horizon \in Nat
      BY AssessmentAssumption
    <3>2. now = 0 /\ offered = FALSE
      BY DEF Init
    <3>3. now \in 0..Horizon
      BY <3>1, <3>2
    <3> QED
      BY <3>2, <3>3
  <2>3. <<>> \in Seq([previous : 0..MaxScore, new : 0..MaxScore])
    OBVIOUS
  <2>4. TypeOK
    BY <2>1, <2>2, <2>3 DEF Init, TypeOK
  <2>5. CallsLive
    BY <2>1 DEF Init, CallsLive
  <2> QED
    BY <2>4, <2>5 DEF TypeInv
<1>2. TypeInv /\ [Next]_vars => TypeInv'
  BY TypeStep, CallsLiveStep DEF TypeInv
<1> QED
  BY <1>1, <1>2, PTL DEF Spec

(* Every reachable state is well typed; no attempt outlives the closing     *)
(* time and no grade exceeds the maximum.                                   *)
THEOREM TypeCorrect == Spec => []TypeOK
<1>1. TypeInv => TypeOK
  BY DEF TypeInv
<1> QED
  BY <1>1, TypeInvariant, PTL

-----------------------------------------------------------------------------
(* The row lock of the exercise or exam: one transaction at a time counts   *)
(* and inserts, and the status it checked stays until it has committed.     *)
Starting(c) == request[c].at \in {"locked", "counted"}

LockInv ==
    /\ \A c, d \in Clients : Starting(c) /\ Starting(d) => c = d
    /\ \A c \in Clients : Starting(c) => offered
    /\ \A c \in Clients : request[c].at = "counted"
                          => Cardinality(AttemptsOf(request[c].student)) < Limit
    /\ WithinLimit

\* Apart from StartCommit no step changes what a student's attempts are.
LEMMA AttemptsOfUnchanged ==
  ASSUME TypeInv, [Next]_vars,
         \A c \in Clients, a \in Attempts : ~StartCommit(c, a), NEW s
  PROVE  AttemptsOf(s)' = AttemptsOf(s)
<1>1. TypeOK /\ CallsLive
  BY DEF TypeInv
<1>2. ASSUME NEW c \in Clients, SubmitCommit(c) PROVE AttemptsOf(s)' = AttemptsOf(s)
  <2> DEFINE b == request[c].attempt
  <2>1. b \in Attempts /\ attempt[b] \in Rows
    BY <1>1, <1>2, RequestShape DEF SubmitCommit, CallsLive, TypeOK
  <2>2. /\ \A a \in Attempts : a # b => attempt'[a] = attempt[a]
        /\ attempt'[b].student = attempt[b].student
        /\ attempt'[b].state # "none"
    BY <1>1, <1>2, <2>1 DEF SubmitCommit, TypeOK, Rows
  <2>3. attempt[b] # NoAttempt /\ attempt'[b] # NoAttempt
    BY <2>1, <2>2 DEF Rows, NoAttempt
  <2> HIDE DEF b
  <2> QED
    BY <2>1, <2>2, <2>3 DEF AttemptsOf
<1>3. CASE attempt' = attempt
  BY <1>3 DEF AttemptsOf
<1> QED
  BY <1>2, <1>3, AttemptsUnchanged

\* A started attempt is one more attempt of its student only.
LEMMA AttemptsOfStart ==
  ASSUME TypeInv, NEW c \in Clients, NEW a \in Attempts, StartCommit(c, a), NEW s
  PROVE  Cardinality(AttemptsOf(s)') = IF s = request[c].student
                                       THEN Cardinality(AttemptsOf(s)) + 1
                                       ELSE Cardinality(AttemptsOf(s))
<1>1. TypeOK
  BY DEF TypeInv
<1>2. AttemptsOf(s)' = IF s = request[c].student THEN AttemptsOf(s) \cup {a} ELSE AttemptsOf(s)
  BY <1>1 DEF StartCommit, AttemptsOf, TypeOK, Row, NoAttempt
<1>3. a \notin AttemptsOf(s) /\ IsFiniteSet(AttemptsOf(s))
  BY CountType DEF StartCommit, AttemptsOf
<1> QED
  BY <1>2, <1>3, FS_AddElement

LEMMA LockStep == TypeInv /\ LockInv /\ [Next]_vars => LockInv'
<1> SUFFICES ASSUME TypeInv, LockInv, [Next]_vars PROVE LockInv'
  OBVIOUS
<1> USE AssessmentAssumption
<1>0. TypeOK /\ CallsLive
  BY DEF TypeInv
<1>1. ASSUME NEW c \in Clients, NEW a \in Attempts, StartCommit(c, a) PROVE LockInv'
  <2>1. /\ request[c].at = "counted"
        /\ request' = [request EXCEPT ![c] = Idle]
        /\ offered' = offered
    BY <1>1 DEF StartCommit
  <2>2. \A d \in Clients : ~Starting(d)'
    BY <1>0, <2>1 DEF LockInv, Starting, Idle, TypeOK
  <2>3. ASSUME NEW s \in Students PROVE Cardinality(AttemptsOf(s)') <= Limit
    <3>1. Cardinality(AttemptsOf(s)) \in Nat /\ Cardinality(AttemptsOf(s)) <= Limit
      BY CountType DEF LockInv, WithinLimit
    <3>2. s = request[c].student => Cardinality(AttemptsOf(s)) < Limit
      BY <2>1 DEF LockInv
    <3> QED
      BY <1>1, <3>1, <3>2, AttemptsOfStart
  <2> QED
    BY <2>2, <2>3 DEF LockInv, Starting, WithinLimit
<1>2. ASSUME \A c \in Clients, a \in Attempts : ~StartCommit(c, a) PROVE LockInv'
  <2>1. \A s : AttemptsOf(s)' = AttemptsOf(s)
    BY <1>2, AttemptsOfUnchanged
  <2>2. WithinLimit'
    BY <2>1 DEF LockInv, WithinLimit
  <2>3. ASSUME NEW c \in Clients, NEW s \in Students, StartLock(c, s) PROVE LockInv'
    <3>1. /\ \A d \in Clients : ~Starting(d)
          /\ offered' /\ request' = [request EXCEPT ![c] = Locked(s, Expiry)]
      BY <2>3 DEF StartLock, RowLocked, Starting
    <3>2. \A d \in Clients : Starting(d)' => d = c /\ request'[d].at = "locked"
      BY <1>0, <3>1 DEF Starting, Locked, TypeOK
    <3> QED
      BY <2>2, <3>1, <3>2 DEF LockInv, Starting
  <2>4. ASSUME NEW c \in Clients, StartCount(c) PROVE LockInv'
    <3> DEFINE s == request[c].student
    <3>1. CASE Cardinality(AttemptsOf(s)) < Limit
      <4>1. /\ request' = [request EXCEPT ![c] = Counted(s, request[c].expires,
                                                      Cardinality(AttemptsOf(s)))]
            /\ request[c].at = "locked" /\ offered' = offered
        BY <2>4, <3>1 DEF StartCount
      <4>2. \A d \in Clients : d # c => request'[d] = request[d]
        BY <1>0, <4>1 DEF TypeOK
      <4>3. request'[c].at = "counted" /\ request'[c].student = s
        BY <1>0, <4>1 DEF TypeOK, Counted
      <4>4. \A d \in Clients : Starting(d)' <=> Starting(d)
        BY <4>1, <4>2, <4>3 DEF Starting
      <4>5. \A d \in Clients : request'[d].at = "counted" => d = c
        BY <4>1, <4>4 DEF LockInv, Starting
      <4>6. \A t : Cardinality(AttemptsOf(t)') = Cardinality(AttemptsOf(t))
        BY <2>1
      <4>7. \A d \in Clients : request'[d].at = "counted"
               => Cardinality(AttemptsOf(request'[d].student)) < Limit
        BY <3>1, <4>3, <4>5
      <4>8. \A d \in Clients : request'[d].at = "counted"
               => Cardinality(AttemptsOf(request[d].student)') < Limit
        BY <4>3, <4>5, <4>6, <4>7
      <4> QED
        BY <2>2, <4>1, <4>4, <4>8 DEF LockInv
    <3>2. CASE ~(Cardinality(AttemptsOf(s)) < Limit)
      <4>1. request' = [request EXCEPT ![c] = Idle] /\ offered' = offered
        BY <2>4, <3>2 DEF StartCount
      <4>2. \A d \in Clients : request'[d] = request[d] \/ request'[d].at = "idle"
        BY <1>0, <4>1 DEF TypeOK, Idle
      <4> QED
        BY <2>1, <2>2, <4>1, <4>2 DEF LockInv, Starting
    <3> QED
      BY <3>1, <3>2
  <2>5. ASSUME \A c \in Clients : ~StartCount(c) /\ \A s \in Students : ~StartLock(c, s)
        PROVE  LockInv'
    <3>1. ASSUME NEW d \in Clients
          PROVE  \/ request'[d] = request[d]
                 \/ request'[d].at \in {"idle", "saving", "submitting"}
      <4>1. \A a, q, right : Saving(a, q, right).at = "saving"
        BY DEF Saving
      <4>2. \A a, n, late : Submitting(a, n, late).at = "submitting"
        BY DEF Submitting
      <4>3. Idle.at = "idle"
        BY DEF Idle
      <4> QED
        BY <1>0, <2>5, <4>1, <4>2, <4>3, RequestMoves
    <3>2. (\A d \in Clients : ~Starting(d)) \/ offered' = offered
      BY <1>2, <2>5 DEF Next, Request, Grading, vars, Tick, Transition, SaveRead,
         SaveCommit, SubmitRead, SubmitCommit, RequestAbort, GradeRead, GradeScore,
         GradeCommit, Upsert, GradeAbort, RowLocked, Starting
    <3> QED
      BY <2>1, <2>2, <3>1, <3>2 DEF LockInv, Starting
  <2> QED
    BY <2>3, <2>4, <2>5
<1> QED
  BY <1>1, <1>2

LEMMA LockInvariant == Spec => []LockInv
<1>1. Init => LockInv
  <2> SUFFICES ASSUME Init PROVE LockInv
    OBVIOUS
  <2>1. \A s : AttemptsOf(s) = {}
    BY DEF Init, AttemptsOf
  <2>2. WithinLimit
    BY <2>1, FS_EmptySet, AssessmentAssumption DEF WithinLimit
  <2> QED
    BY <2>2 DEF Init, LockInv, Starting, Idle
<1>2. TypeInv /\ LockInv /\ [Next]_vars => LockInv'
  BY LockStep
<1> QED
  BY <1>1, <1>2, TypeInvariant, PTL DEF Spec

(* No overlap of requests gives a student more attempts than the limit.     *)
THEOREM AttemptLimit == Spec => []WithinLimit
<1>1. LockInv => WithinLimit
  BY DEF LockInv
<1> QED
  BY <1>1, LockInvariant, PTL

(* An attempt is inserted only while the exercise or exam is offered.       *)
THEOREM OfferedWhenStarted == Spec => StartedWhileOffered
<1>1. TypeInv /\ LockInv /\ [Next]_vars =>
         [\A a \in Attempts : attempt[a] = NoAttempt /\ attempt'[a] # NoAttempt
                               => offered /\ offered']_vars
  <2> SUFFICES ASSUME TypeInv, LockInv, [Next]_vars, NEW a \in Attempts,
                      attempt[a] = NoAttempt, attempt'[a] # NoAttempt
               PROVE  offered /\ offered'
    OBVIOUS
  <2>1. CASE \E c \in Clients, b \in Attempts : StartCommit(c, b)
    BY <2>1 DEF StartCommit, LockInv, Starting
  <2>2. ASSUME NEW c \in Clients, SubmitCommit(c) PROVE FALSE
    <3>1. request[c].attempt \in Attempts /\ attempt[request[c].attempt] # NoAttempt
      BY <2>2, RequestShape DEF SubmitCommit, TypeInv, CallsLive
    <3> QED
      BY <2>2, <3>1 DEF SubmitCommit, TypeInv, TypeOK
  <2> QED
    BY <2>1, <2>2, AttemptsUnchanged
<1> QED
  BY <1>1, TypeInvariant, LockInvariant, PTL DEF Spec, StartedWhileOffered

-----------------------------------------------------------------------------
(* One request at a time: what a call has read is still so when it writes.  *)
SerialInv ==
    /\ \A c \in Clients :
          request[c].at \in {"saving", "submitting"}
          => attempt[request[c].attempt].state = "in_progress"
    /\ \A c \in Clients :
          request[c].at = "submitting"
          => request[c].score = Cardinality(correct[request[c].attempt])
    /\ \A a \in Attempts : attempt[a].state = "in_progress" => attempt[a].objective = NoScore

\* The requests of Clients do not overlap.
OneRequest == \A c, d \in Clients : c = d

\* Only SaveCommit touches the answers.
LEMMA AnswersUnchanged ==
  ASSUME [Next]_vars, \A c \in Clients : ~SaveCommit(c)
  PROVE  correct' = correct
  BY DEF Next, Request, Grading, vars, student, teacher, Tick, Transition,
     StartLock, StartCount, StartCommit, SaveRead, SubmitRead, SubmitCommit,
     RequestAbort, GradeRead, GradeScore, GradeCommit, Upsert, GradeAbort

LEMMA SerialStep ==
  ASSUME OneRequest, TypeInv, SerialInv, [Next]_vars
  PROVE  SerialInv'
<1>0. TypeOK /\ CallsLive
  BY DEF TypeInv
<1>1. ASSUME NEW c \in Clients, NEW a \in Attempts, StartCommit(c, a) PROVE SerialInv'
  <2>1. \A d \in Clients : request'[d].at = "idle"
    BY <1>0, <1>1 DEF StartCommit, TypeOK, OneRequest, Idle
  <2>2. \A b \in Attempts : attempt'[b] = attempt[b] \/ attempt'[b].objective = NoScore
    BY <1>0, <1>1 DEF StartCommit, TypeOK, Row
  <2> QED
    BY <2>1, <2>2 DEF SerialInv
<1>2. ASSUME NEW c \in Clients, SubmitCommit(c) PROVE SerialInv'
  <2>1. \A d \in Clients : request'[d].at = "idle"
    BY <1>0, <1>2 DEF SubmitCommit, TypeOK, OneRequest, Idle
  <2>2. request[c].attempt \in Attempts /\ attempt[request[c].attempt] \in Rows
    BY <1>0, <1>2, RequestShape DEF SubmitCommit, CallsLive, TypeOK
  <2>3. \A b \in Attempts : attempt'[b] = attempt[b] \/ attempt'[b].state # "in_progress"
    BY <1>0, <1>2, <2>2 DEF SubmitCommit, TypeOK, Rows
  <2> QED
    BY <2>1, <2>3 DEF SerialInv
<1>3. ASSUME NEW c \in Clients, SaveCommit(c) PROVE SerialInv'
  <2>1. \A d \in Clients : request'[d].at = "idle"
    BY <1>0, <1>3 DEF SaveCommit, TypeOK, OneRequest, Idle
  <2>2. attempt' = attempt
    BY <1>3 DEF SaveCommit
  <2> QED
    BY <2>1, <2>2 DEF SerialInv
<1>4. ASSUME attempt' = attempt, correct' = correct PROVE SerialInv'
  <2>1. ASSUME NEW d \in Clients, request'[d].at \in {"saving", "submitting"}
        PROVE  /\ attempt[request'[d].attempt].state = "in_progress"
               /\ request'[d].at = "submitting"
                  => request'[d].score = Cardinality(correct[request'[d].attempt])
    <3>1. CASE request'[d] = request[d]
      BY <2>1, <3>1 DEF SerialInv
    <3>2. CASE request'[d] = Idle
      BY <2>1, <3>2 DEF Idle
    <3>3. CASE StartCount(d)
      <4>1. request'[d] = Idle \/ request'[d].at = "counted"
        BY <1>0, <3>3 DEF StartCount, TypeOK, Counted
      <4> QED
        BY <2>1, <4>1 DEF Idle
    <3>4. ASSUME NEW s, request'[d] = Locked(s, Expiry) PROVE FALSE
      BY <2>1, <3>4 DEF Locked
    <3>5. ASSUME NEW a \in Attempts, NEW q, NEW right, SaveRead(d, a, q, right),
                 request'[d] = Saving(a, q, right)
          PROVE  /\ request'[d].attempt = a /\ request'[d].at = "saving"
                 /\ attempt[a].state = "in_progress"
      BY <3>5 DEF SaveRead, Saving
    <3>6. ASSUME NEW a \in Attempts, SubmitRead(d, a),
                 request'[d] = Submitting(a, Cardinality(correct[a]), Late(a))
          PROVE  /\ request'[d].attempt = a /\ request'[d].score = Cardinality(correct[a])
                 /\ attempt[a].state = "in_progress"
      BY <3>6 DEF SubmitRead, Submitting
    <3> QED
      BY <1>0, <3>1, <3>2, <3>3, <3>4, <3>5, <3>6, RequestMoves
  <2> QED
    BY <1>4, <2>1 DEF SerialInv
<1> QED
  BY <1>1, <1>2, <1>3, <1>4, AttemptsUnchanged, AnswersUnchanged

\* One sheet changes.
LEMMA OneSheet ==
  ASSUME NEW a \in Attempts, NEW sheet, Sheet'[a] = sheet,
         \A b \in Attempts : b # a => Sheet'[b] = Sheet[b]
  PROVE  Sheet' = [Sheet EXCEPT ![a] = sheet]
<1> DEFINE updated == [Sheet EXCEPT ![a] = sheet]
<1>1. DOMAIN Sheet = Attempts /\ DOMAIN Sheet' = Attempts
  BY DEF Sheet
<1>2. Sheet' = [b \in Attempts |-> Sheet'[b]]
  BY DEF Sheet
<1>3. updated = [b \in Attempts |-> updated[b]]
  BY <1>1
<1>4. \A b \in Attempts : updated[b] = Sheet'[b]
  BY <1>1
<1> HIDE DEF updated
<1>5. updated = Sheet'
  BY <1>2, <1>3, <1>4
<1> QED
  BY <1>5 DEF updated

\* The steps of the sheets.
LEMMA SheetStep ==
  ASSUME OneRequest, TypeInv, SerialInv, [Next]_vars
  PROVE  [Abstract!Next]_Sheet
<1>0. TypeOK /\ CallsLive
  BY DEF TypeInv
<1>1. ASSUME NEW c \in Clients, NEW a \in Attempts, StartCommit(c, a)
      PROVE  Abstract!Start(a)
  <2>1. /\ attempt[a] = NoAttempt /\ correct' = correct
        /\ attempt'[a].state = "in_progress" /\ attempt'[a].objective = NoScore
        /\ attempt'[a] # NoAttempt
        /\ \A b \in Attempts : b # a => attempt'[b] = attempt[b]
    BY <1>0, <1>1 DEF StartCommit, TypeOK, Row, NoAttempt
  <2>2. /\ Sheet[a] = [phase |-> "unused", correct |-> correct[a], score |-> NoScore]
        /\ Sheet'[a] = [phase |-> "active", correct |-> correct[a], score |-> NoScore]
    BY <2>1 DEF Sheet, Submitted
  <2>3. \A b \in Attempts : b # a => Sheet'[b] = Sheet[b]
    BY <2>1 DEF Sheet, Submitted
  <2>4. Sheet' = [Sheet EXCEPT ![a] = [Sheet[a] EXCEPT !.phase = "active"]]
    <3>1. Sheet'[a] = [Sheet[a] EXCEPT !.phase = "active"]
      BY <2>2
    <3> QED
      BY <2>3, <3>1, OneSheet, Zenon
  <2> QED
    BY <2>2, <2>4 DEF Abstract!Start
<1>2. ASSUME NEW c \in Clients, SubmitCommit(c)
      PROVE  \E a \in Attempts : Abstract!HandIn(a)
  <2> DEFINE a == request[c].attempt
  <2>1. a \in Attempts /\ attempt[a] \in Rows
    BY <1>0, <1>2, RequestShape DEF SubmitCommit, CallsLive, TypeOK
  <2>2. /\ attempt[a].state = "in_progress" /\ attempt[a].objective = NoScore
        /\ request[c].score = Cardinality(correct[a])
    BY <1>2, <2>1 DEF SubmitCommit, SerialInv
  <2>3. /\ correct' = correct
        /\ attempt'[a].state \in {"graded", "awaiting_review", "expired"}
        /\ attempt'[a].objective = Cardinality(correct[a])
        /\ \A b \in Attempts : b # a => attempt'[b] = attempt[b]
    BY <1>0, <1>2, <2>1, <2>2 DEF SubmitCommit, TypeOK, Rows
  <2>4. attempt[a] # NoAttempt /\ attempt'[a] # NoAttempt
    BY <2>2, <2>3 DEF NoAttempt
  <2> HIDE DEF a
  <2>5. /\ Sheet[a] = [phase |-> "active", correct |-> correct[a], score |-> NoScore]
        /\ Sheet'[a] = [phase |-> "handed_in", correct |-> correct[a],
                         score |-> Cardinality(correct[a])]
    BY <2>1, <2>2, <2>3, <2>4 DEF Sheet, Submitted
  <2>6. \A b \in Attempts : b # a => Sheet'[b] = Sheet[b]
    BY <2>1, <2>3 DEF Sheet, Submitted
  <2>7. Sheet' = [Sheet EXCEPT ![a].phase = "handed_in",
                               ![a].score = Cardinality(Sheet[a].correct)]
    <3> DEFINE n == Cardinality(correct[a])
               closed == [phase |-> "handed_in", correct |-> correct[a], score |-> NoScore]
    <3>1. [Sheet[a] EXCEPT !.phase = "handed_in"] = closed
      BY <2>5
    <3>2. [closed EXCEPT !.score = n] = Sheet'[a] /\ Sheet[a].correct = correct[a]
      BY <2>5
    <3> HIDE DEF closed
    <3>3. Sheet'[a] = [Sheet[a] EXCEPT !.phase = "handed_in",
                                       !.score = Cardinality(Sheet[a].correct)]
      BY <3>1, <3>2
    <3>4. Sheet' = [Sheet EXCEPT ![a] = [Sheet[a] EXCEPT
                      !.phase = "handed_in", !.score = Cardinality(Sheet[a].correct)]]
      BY <2>1, <2>6, <3>3, OneSheet, Zenon
    <3> QED
      BY <3>4
  <2>8. Abstract!HandIn(a)
    BY <2>5, <2>7 DEF Abstract!HandIn
  <2> QED
    BY <2>1, <2>8
<1>3. ASSUME NEW c \in Clients, SaveCommit(c)
      PROVE  \E a \in Attempts, q \in Questions : Abstract!Answer(a, q)
  <2> DEFINE a == request[c].attempt
             q == request[c].question
  <2>1. a \in Attempts /\ q \in Questions
    BY <1>0, <1>3, RequestShape DEF SaveCommit
  <2>2. attempt[a].state = "in_progress"
    BY <1>3, <2>1 DEF SaveCommit, SerialInv
  <2>3. /\ attempt' = attempt
        /\ correct'[a] = correct[a] \cup {q} \/ correct'[a] = correct[a] \ {q}
        /\ \A b \in Attempts : b # a => correct'[b] = correct[b]
    BY <1>0, <1>3, <2>1 DEF SaveCommit, TypeOK
  <2> HIDE DEF a, q
  <2>4. Sheet[a].phase = "active"
    BY <2>1, <2>2 DEF Sheet, Submitted, NoAttempt
  <2>5. Sheet' = [Sheet EXCEPT ![a].correct = correct'[a]]
    BY <2>1, <2>3 DEF Sheet, Submitted
  <2>6. Sheet[a].correct = correct[a]
    BY <2>1 DEF Sheet
  <2>7. Abstract!Answer(a, q)
    BY <2>1, <2>3, <2>4, <2>5, <2>6 DEF Abstract!Answer
  <2> QED
    BY <2>1, <2>7
<1>4. CASE attempt' = attempt /\ correct' = correct
  <2>1. Sheet' = Sheet
    BY <1>4 DEF Sheet, Submitted
  <2> QED
    BY <2>1
<1> QED
  BY <1>1, <1>2, <1>3, <1>4, AttemptsUnchanged, AnswersUnchanged DEF Abstract!Next

(* The attempts of a student whose requests do not overlap are sheets:      *)
(* scored by the answers stored on them, and final once handed in.          *)
THEOREM SheetRefinement ==
  ASSUME OneRequest
  PROVE  Spec => ImplementsSheet
<1>1. Init => SerialInv
  BY DEF Init, SerialInv, Idle, NoAttempt
<1>2. TypeInv /\ SerialInv /\ [Next]_vars => SerialInv'
  BY SerialStep
<1>3. Init => Abstract!Init
  BY DEF Init, Abstract!Init, Abstract!Unused, Sheet
<1>4. TypeInv /\ SerialInv /\ [Next]_vars => [Abstract!Next]_Sheet
  BY SheetStep
<1> QED
  BY <1>1, <1>2, <1>3, <1>4, TypeInvariant, PTL DEF Spec, ImplementsSheet, Abstract!Spec

-----------------------------------------------------------------------------
(* The row lock of a grade: a call that found a grade holds it, so what it  *)
(* looked up is still the score when it commits.                            *)
GradeInv ==
    \A t \in Teachers :
        grading[t].at \in {"looked", "scored"} /\ grading[t].previous # NoScore
        => /\ grade[grading[t].attempt] # NoGrade
           /\ grade[grading[t].attempt].score = grading[t].previous

\* Only GradeCommit touches grades and revisions.
LEMMA GradesUnchanged ==
  ASSUME [Next]_vars, \A t \in Teachers : ~GradeCommit(t)
  PROVE  grade' = grade /\ revisions' = revisions
  BY DEF Next, Request, Grading, vars, student, teacher, Tick, Transition,
     StartLock, StartCount, StartCommit, SaveRead, SaveCommit, SubmitRead,
     SubmitCommit, RequestAbort, GradeRead, GradeScore, GradeAbort

\* What a committed grade is.
LEMMA CommittedGrade ==
  ASSUME TypeInv, NEW t \in Teachers, GradeCommit(t)
  PROVE  LET r == grading[t]
             a == grading[t].attempt
         IN /\ a \in Attempts
            /\ grade'[a] # NoGrade /\ grade'[a].score = r.final
            /\ Revised(r) => revisions'[a] = Append(revisions[a], Revision(r))
            /\ \A b \in Attempts : b # a => grade'[b] = grade[b]
            /\ ~GradeLocked(t, a)
            /\ grading'[t] = Idle
<1> DEFINE r == grading[t]
           a == grading[t].attempt
<1>1. TypeOK /\ a \in Attempts
  BY GradingShape DEF TypeInv, GradeCommit, Upsert
<1>2. grade' = [grade EXCEPT ![a] = GradeRow(r)]
  BY DEF GradeCommit, Upsert
<1>3. GradeRow(r) # NoGrade /\ GradeRow(r).score = r.final
  BY DEF GradeRow, NoGrade
<1>4. grade'[a] # NoGrade /\ grade'[a].score = r.final
      /\ \A b \in Attempts : b # a => grade'[b] = grade[b]
  BY <1>1, <1>2, <1>3 DEF TypeOK
<1>5. Revised(r) => revisions'[a] = Append(revisions[a], Revision(r))
  BY <1>1 DEF GradeCommit, Upsert, TypeOK
<1>6. ~GradeLocked(t, a) /\ grading'[t] = Idle
  BY <1>1 DEF GradeCommit, Upsert, TypeOK
<1> QED
  BY <1>1, <1>4, <1>5, <1>6

LEMMA GradeInvariant == Spec => []GradeInv
<1>1. Init => GradeInv
  BY DEF Init, GradeInv, Idle
<1>2. TypeInv /\ GradeInv /\ [Next]_vars => GradeInv'
  <2> SUFFICES ASSUME TypeInv, GradeInv, [Next]_vars,
                      NEW u \in Teachers, grading'[u].at \in {"looked", "scored"},
                      grading'[u].previous # NoScore
               PROVE  /\ grade'[grading'[u].attempt] # NoGrade
                      /\ grade'[grading'[u].attempt].score = grading'[u].previous
    BY DEF GradeInv
  <2>1. TypeOK
    BY DEF TypeInv
  <2>2. CASE grading'[u] = grading[u]
    <3>1. /\ grade[grading[u].attempt] # NoGrade
          /\ grade[grading[u].attempt].score = grading[u].previous
      BY <2>2 DEF GradeInv
    <3>2. grading[u].attempt \in Attempts /\ grading[u].at \in {"looked", "scored"}
      BY <2>1, <2>2, GradingShape
    <3>3. ASSUME NEW t \in Teachers, GradeCommit(t)
          PROVE  grading[u].attempt # grading[t].attempt
      <4>1. ~GradeLocked(t, grading[t].attempt) /\ grading'[t] = Idle
        BY <3>3, CommittedGrade
      <4>2. t # u
        BY <2>2, <3>2, <4>1 DEF Idle
      <4> QED
        BY <2>2, <3>2, <4>1, <4>2 DEF GradeLocked
    <3>4. ASSUME NEW t \in Teachers, GradeCommit(t)
          PROVE  grade'[grading[u].attempt] = grade[grading[u].attempt]
      BY <3>2, <3>3, <3>4, CommittedGrade
    <3> QED
      BY <2>2, <3>1, <3>4, GradesUnchanged
  <2>3. CASE grading'[u] = Idle
    BY <2>3 DEF Idle
  <2>4. ASSUME NEW a \in Attempts, NEW m, NEW publish, NEW reason,
               GradeRead(u, a, m, publish, reason),
               grading'[u] = Looked(a, m, publish, reason,
                        IF grade[a] = NoGrade THEN NoScore ELSE grade[a].score)
        PROVE  /\ grading'[u].attempt = a /\ grade' = grade
               /\ grade[a] # NoGrade /\ grading'[u].previous = grade[a].score
    BY <2>4 DEF GradeRead, Looked
  <2>5. ASSUME GradeScore(u),
               grading'[u] = Scored(grading[u], Objective(grading[u].attempt))
        PROVE  /\ grade'[grading'[u].attempt] # NoGrade
               /\ grade'[grading'[u].attempt].score = grading'[u].previous
    BY <2>5 DEF GradeScore, Scored, GradeInv
  <2> QED
    BY <2>1, <2>2, <2>3, <2>4, <2>5, GradingMoves
<1> QED
  BY <1>1, <1>2, TypeInvariant, PTL DEF Spec

(* However many calls of the teacher overlap, a score changes without its   *)
(* revision only by a call that looked before the first grade was there.    *)
THEOREM SilentOnlyFirst == Spec => SilentOnlyWhenFirst
<1>1. TypeInv /\ GradeInv /\ [Next]_vars =>
      [\A a \in Attempts :
          \/ grade[a] = NoGrade
          \/ grade'[a].score = grade[a].score
          \/ Len(revisions'[a]) > Len(revisions[a])
             /\ revisions'[a][Len(revisions'[a])].previous = grade[a].score
          \/ \E t \in Teachers : /\ grading[t].at = "scored" /\ grading[t].attempt = a
                                 /\ grading[t].previous = NoScore
                                 /\ grading'[t] = Idle]_vars
  <2> SUFFICES ASSUME TypeInv, GradeInv, [Next]_vars, NEW a \in Attempts,
                      grade[a] # NoGrade, grade'[a].score # grade[a].score
               PROVE  \/ Len(revisions'[a]) > Len(revisions[a])
                         /\ revisions'[a][Len(revisions'[a])].previous = grade[a].score
                      \/ \E t \in Teachers :
                             /\ grading[t].at = "scored" /\ grading[t].attempt = a
                             /\ grading[t].previous = NoScore
                             /\ grading'[t] = Idle
    OBVIOUS
  <2>1. PICK t \in Teachers : GradeCommit(t)
    BY GradesUnchanged
  <2>2. grading[t].attempt = a /\ grading[t].at = "scored" /\ grading'[t] = Idle
    BY <2>1, CommittedGrade DEF GradeCommit, Upsert
  <2>3. CASE grading[t].previous = NoScore
    BY <2>2, <2>3
  <2>4. CASE grading[t].previous # NoScore
    <3> DEFINE r == Revision(grading[t])
    <3>1. grading[t].previous = grade[a].score
      BY <2>2, <2>4 DEF GradeInv
    <3>2. revisions'[a] = Append(revisions[a], r)
      BY <2>1, <2>2, <2>4, <3>1, CommittedGrade DEF Revised
    <3>3. revisions[a] \in Seq([previous : 0..MaxScore, new : 0..MaxScore])
      BY DEF TypeInv, TypeOK
    <3>4. /\ Len(revisions'[a]) = Len(revisions[a]) + 1 /\ Len(revisions[a]) \in Nat
          /\ revisions'[a][Len(revisions[a]) + 1] = r
      BY <3>2, <3>3
    <3>5. r.previous = grade[a].score
      BY <3>1 DEF Revision
    <3> HIDE DEF r
    <3> QED
      BY <3>4, <3>5
  <2> QED
    BY <2>3, <2>4
<1> QED
  BY <1>1, TypeInvariant, GradeInvariant, PTL DEF Spec, SilentOnlyWhenFirst

-----------------------------------------------------------------------------
(* One call of the teacher at a time: who found no grade is the first.      *)
OneTeacher == \A t, u \in Teachers : t = u

FirstInv ==
    \A t \in Teachers :
        grading[t].at \in {"looked", "scored"} /\ grading[t].previous = NoScore
        => grade[grading[t].attempt] = NoGrade

\* A call that is under way has seen every commit of a grade.
LEMMA SoleTeacher ==
  ASSUME OneTeacher, TypeInv, [Next]_vars,
         NEW u \in Teachers, grading'[u].at \in {"looked", "scored"}
  PROVE  grade' = grade /\ revisions' = revisions
<1> SUFFICES ASSUME NEW t \in Teachers, GradeCommit(t) PROVE FALSE
  BY GradesUnchanged
<1>1. grading'[t] = Idle /\ t = u
  BY CommittedGrade DEF OneTeacher
<1> QED
  BY <1>1 DEF Idle

LEMMA FirstStep ==
  ASSUME OneTeacher, TypeInv, FirstInv, [Next]_vars
  PROVE  FirstInv'
<1> SUFFICES ASSUME NEW u \in Teachers, grading'[u].at \in {"looked", "scored"},
                    grading'[u].previous = NoScore
             PROVE  grade'[grading'[u].attempt] = NoGrade
  BY DEF FirstInv
<1>1. TypeOK /\ grade' = grade
  BY SoleTeacher DEF TypeInv
<1>2. CASE grading'[u] = grading[u]
  BY <1>1, <1>2 DEF FirstInv
<1>3. CASE grading'[u] = Idle
  BY <1>3 DEF Idle
<1>4. ASSUME GradeScore(u),
             grading'[u] = Scored(grading[u], Objective(grading[u].attempt))
      PROVE  grade'[grading'[u].attempt] = NoGrade
  BY <1>1, <1>4 DEF GradeScore, Scored, FirstInv
<1>5. ASSUME NEW a \in Attempts, NEW m, NEW publish, NEW reason,
             grading'[u] = Looked(a, m, publish, reason,
                      IF grade[a] = NoGrade THEN NoScore ELSE grade[a].score)
      PROVE  grade'[grading'[u].attempt] = NoGrade
  <2>1. /\ grading'[u].attempt = a
        /\ grading'[u].previous = IF grade[a] = NoGrade THEN NoScore ELSE grade[a].score
    BY <1>5 DEF Looked
  <2>2. grade[a] # NoGrade => grade[a].score # NoScore
    BY <1>1, AssessmentAssumption DEF TypeOK, Grades
  <2> QED
    BY <1>1, <2>1, <2>2
<1> QED
  BY <1>1, <1>2, <1>3, <1>4, <1>5, GradingMoves

\* The links of a chain of revisions.
Linked(r) == \A k \in 1..(Len(r) - 1) : r[k].new = r[k + 1].previous

\* A chain grows by a revision that starts where it ends.
LEMMA ChainGrows ==
  ASSUME NEW S, NEW r \in Seq(S), NEW x \in S, Linked(r),
         r # <<>> => r[Len(r)].new = x.previous
  PROVE  /\ Linked(Append(r, x))
         /\ Append(r, x) # <<>>
         /\ Append(r, x)[Len(Append(r, x))] = x
<1> DEFINE n == Len(r)
           s == Append(r, x)
<1>1. /\ n \in Nat /\ Len(s) = n + 1
      /\ \A k \in 1..n : s[k] = r[k]
      /\ s[n + 1] = x
      /\ s # <<>>
  <2>1. n \in Nat /\ Len(s) = n + 1 /\ s[n + 1] = x
    OBVIOUS
  <2>2. \A k \in 1..n : s[k] = r[k]
    OBVIOUS
  <2>3. s # <<>>
    BY <2>1
  <2> QED
    BY <2>1, <2>2, <2>3
<1>2. n # 0 => r # <<>>
  OBVIOUS
<1>3. \A k \in 1..(n - 1) : r[k].new = r[k + 1].previous
  BY DEF Linked
<1> HIDE DEF n, s
<1>4. ASSUME NEW k \in 1..(Len(s) - 1) PROVE s[k].new = s[k + 1].previous
  <2>1. CASE k = n
    BY <1>1, <1>2, <2>1 DEF n
  <2>2. CASE k # n
    <3>1. k \in 1..(n - 1) /\ k \in 1..n /\ k + 1 \in 1..n
      BY <1>1, <2>2
    <3> QED
      BY <1>1, <1>3, <3>1
  <2> QED
    BY <2>1, <2>2
<1> QED
  BY <1>1, <1>4 DEF Linked, s

\* As long as the calls of the teacher do not overlap, the revisions of every
\* grade lead from its first score to the current one without a gap.
THEOREM RevisionsChain ==
  ASSUME OneTeacher
  PROVE  Spec => []RevisionChain
<1>1. Init => FirstInv /\ RevisionChain
  BY DEF Init, FirstInv, RevisionChain, Idle
<1>2. TypeInv /\ FirstInv /\ [Next]_vars => FirstInv'
  BY FirstStep
<1>3. TypeInv /\ GradeInv /\ FirstInv /\ RevisionChain /\ [Next]_vars => RevisionChain'
  <2> SUFFICES ASSUME TypeInv, GradeInv, FirstInv, RevisionChain, [Next]_vars,
                      NEW a \in Attempts
               PROVE  /\ Linked(revisions[a])'
                      /\ revisions'[a] # <<>> =>
                            /\ grade'[a] # NoGrade
                            /\ revisions'[a][Len(revisions'[a])].new = grade'[a].score
    BY DEF RevisionChain, Linked
  <2> DEFINE S == [previous : 0..MaxScore, new : 0..MaxScore]
             r == revisions[a]
  <2>1. /\ Linked(r) /\ r \in Seq(S)
        /\ r # <<>> => grade[a] # NoGrade /\ r[Len(r)].new = grade[a].score
    BY DEF RevisionChain, Linked, TypeInv, TypeOK
  <2>2. CASE revisions'[a] = r /\ grade'[a] = grade[a]
    BY <2>1, <2>2 DEF Linked
  <2>3. ASSUME NEW t \in Teachers, GradeCommit(t), grading[t].attempt = a
        PROVE  /\ Linked(revisions[a])'
               /\ revisions'[a] # <<>> =>
                     /\ grade'[a] # NoGrade
                     /\ revisions'[a][Len(revisions'[a])].new = grade'[a].score
    <3> DEFINE x == Revision(grading[t])
    <3>1. /\ grade'[a] # NoGrade /\ grade'[a].score = grading[t].final
          /\ Revised(grading[t]) => revisions'[a] = Append(r, x)
          /\ ~Revised(grading[t]) => revisions'[a] = r
          /\ grading[t].at = "scored"
      BY <2>3, CommittedGrade DEF GradeCommit, Upsert, TypeInv, TypeOK
    <3>2. CASE Revised(grading[t])
      <4>1. x.previous = grade[a].score /\ x.new = grading[t].final
        BY <2>3, <3>1, <3>2 DEF Revised, Revision, GradeInv
      <4>2. x \in S
        BY <2>3, <3>1, <3>2, GradingShape DEF Revised, Revision, TypeInv
      <4>3. /\ Linked(Append(r, x)) /\ Append(r, x) # <<>>
            /\ Append(r, x)[Len(Append(r, x))] = x
        <5> HIDE DEF x, S, r
        <5> QED
          BY <2>1, <4>1, <4>2, ChainGrows
      <4>4. Linked(revisions[a])'
        BY <3>1, <3>2, <4>3 DEF Linked
      <4> HIDE DEF x, S, r
      <4> QED
        BY <3>1, <3>2, <4>1, <4>3, <4>4
    <3>3. CASE ~Revised(grading[t])
      <4>1. grading[t].previous = NoScore => r = <<>>
        BY <2>1, <2>3, <3>1 DEF FirstInv
      <4>2. grading[t].previous # NoScore => grading[t].final = grade[a].score
        BY <2>3, <3>1, <3>3 DEF Revised, GradeInv
      <4>3. Linked(revisions[a])'
        BY <2>1, <3>1, <3>3 DEF Linked
      <4> QED
        BY <2>1, <3>1, <3>3, <4>1, <4>2, <4>3
    <3> QED
      BY <3>2, <3>3
  <2>4. ASSUME NEW t \in Teachers, GradeCommit(t), grading[t].attempt # a
        PROVE  revisions'[a] = r /\ grade'[a] = grade[a]
    <3>1. grade'[a] = grade[a]
      BY <2>4, CommittedGrade
    <3>2. revisions'[a] = r
      BY <2>4 DEF GradeCommit, Upsert, TypeInv, TypeOK
    <3> QED
      BY <3>1, <3>2
  <2> HIDE DEF r
  <2> QED
    BY <2>2, <2>3, <2>4, GradesUnchanged DEF r
<1> QED
  BY <1>1, <1>2, <1>3, TypeInvariant, GradeInvariant, PTL DEF Spec

\* README: "Grades are never silently overwritten after publication." holds as
\* long as the calls of the teacher do not overlap: who found no grade is then
\* the first, and every other change of the score is recorded.
THEOREM NoSilentOverwrite ==
  ASSUME OneTeacher
  PROVE  Spec => NeverSilentlyOverwritten
<1>1. Init => FirstInv
  BY DEF Init, FirstInv, Idle
<1>2. TypeInv /\ FirstInv /\ [Next]_vars => FirstInv'
  BY FirstStep
<1>3. TypeInv /\ GradeInv /\ FirstInv /\ [Next]_vars =>
      [\A a \in Attempts :
          grade[a].status = "published" /\ grade'[a].score # grade[a].score
          => revisions'[a] = Append(revisions[a],
                 [previous |-> grade[a].score, new |-> grade'[a].score])]_vars
  <2> SUFFICES ASSUME TypeInv, GradeInv, FirstInv, [Next]_vars, NEW a \in Attempts,
                      grade[a].status = "published", grade'[a].score # grade[a].score
               PROVE  revisions'[a] = Append(revisions[a],
                          [previous |-> grade[a].score, new |-> grade'[a].score])
    OBVIOUS
  <2>1. PICK t \in Teachers : GradeCommit(t)
    BY GradesUnchanged
  <2>2. /\ grading[t].attempt = a /\ grading[t].at = "scored"
        /\ grade'[a].score = grading[t].final
    BY <2>1, CommittedGrade DEF GradeCommit, Upsert
  <2>3. grading[t].previous # NoScore
    BY <2>2 DEF FirstInv, NoGrade
  <2>4. grading[t].previous = grade[a].score
    BY <2>2, <2>3 DEF GradeInv
  <2>5. Revised(grading[t])
    BY <2>2, <2>3, <2>4 DEF Revised
  <2> QED
    BY <2>1, <2>2, <2>4, <2>5, CommittedGrade DEF Revision
<1> QED
  BY <1>1, <1>2, <1>3, TypeInvariant, GradeInvariant, PTL
     DEF Spec, NeverSilentlyOverwritten

-----------------------------------------------------------------------------
(* The components of a grade.  A call that reads the objective score of an   *)
(* attempt that was handed in reads the one it has for good; before that it  *)
(* reads 0.  The row keeps the component of the call that inserted it.       *)
ComponentsInv ==
    /\ \A a \in Attempts : grade[a] # NoGrade =>
          LET g == grade[a] IN
          /\ attempt[a] # NoAttempt
          /\ g.read # NoScore => /\ attempt[a].objective # NoScore
                                 /\ g.objective = Objective(a)
                                 /\ g.score = g.objective + g.manual
          /\ g.read = NoScore => /\ g.objective = 0
                                 /\ \/ g.score = g.manual
                                    \/ g.score = Objective(a) + g.manual
    /\ \A t \in Teachers : grading[t].at = "scored" =>
          LET r == grading[t]
              g == grade[grading[t].attempt]
          IN /\ r.final = r.objective + r.score
             /\ r.read # NoScore => /\ attempt[r.attempt].objective # NoScore
                                    /\ r.objective = Objective(r.attempt)
             /\ r.read = NoScore => r.objective = 0
             /\ g # NoGrade /\ g.read # NoScore => r.objective = Objective(r.attempt)

\* Where the requests of the students do not overlap, an attempt is scored once.
LEMMA ObjectiveStays ==
  ASSUME OneRequest, TypeInv, SerialInv, [Next]_vars,
         NEW a \in Attempts, attempt[a] # NoAttempt
  PROVE  /\ attempt'[a] # NoAttempt
         /\ attempt[a].objective # NoScore => /\ attempt'[a].objective # NoScore
                                              /\ Objective(a)' = Objective(a)
         /\ Objective(a) # 0 => Objective(a)' = Objective(a)
<1>1. CASE attempt'[a] = attempt[a]
  BY <1>1 DEF Objective
<1>2. ASSUME NEW c \in Clients, NEW b \in Attempts, StartCommit(c, b)
      PROVE  attempt'[a] = attempt[a]
  BY <1>2 DEF StartCommit, TypeInv, TypeOK
<1>3. ASSUME NEW c \in Clients, SubmitCommit(c), request[c].attempt # a
      PROVE  attempt'[a] = attempt[a]
  BY <1>3 DEF SubmitCommit, TypeInv, TypeOK
<1>4. ASSUME NEW c \in Clients, SubmitCommit(c), request[c].attempt = a
      PROVE  /\ attempt'[a] # NoAttempt
             /\ attempt[a].objective = NoScore /\ Objective(a) = 0
  <2>1. attempt[a].state = "in_progress" /\ attempt[a].objective = NoScore
    BY <1>4 DEF SubmitCommit, SerialInv
  <2>2. attempt[a] \in Rows
    BY DEF TypeInv, TypeOK
  <2>3. attempt'[a].state \in {"graded", "awaiting_review", "expired"}
    BY <1>4, <2>2 DEF SubmitCommit, TypeInv, TypeOK, Rows
  <2> QED
    BY <2>1, <2>3 DEF Objective, NoAttempt
<1> QED
  BY <1>1, <1>2, <1>3, <1>4, AttemptsUnchanged

\* What GradeCommit makes of the components.
LEMMA CommittedComponents ==
  ASSUME TypeInv, NEW t \in Teachers, GradeCommit(t)
  PROVE  LET r == grading[t]
             a == grading[t].attempt
         IN /\ r.at = "scored"
            /\ grade'[a].manual = r.score
            /\ grade[a] = NoGrade => /\ grade'[a].objective = r.objective
                                     /\ grade'[a].read = r.read
            /\ grade[a] # NoGrade => /\ grade'[a].objective = grade[a].objective
                                     /\ grade'[a].read = grade[a].read
<1>1. grading[t].attempt \in Attempts /\ TypeOK
  BY GradingShape DEF TypeInv, GradeCommit, Upsert
<1>2. grade'[grading[t].attempt] = GradeRow(grading[t]) /\ grading[t].at = "scored"
  BY <1>1 DEF GradeCommit, Upsert, TypeOK
<1> QED
  BY <1>2 DEF GradeRow

\* The numbers that are added.
LEMMA ComponentsType ==
  ASSUME TypeOK, NEW t \in Teachers, grading[t].at = "scored"
  PROVE  /\ grading[t].score \in Nat
         /\ grading[t].objective \in Nat
<1>1. grading[t].score \in ManualScores /\ grading[t].objective \in Scores
  BY GradingShape
<1>2. ManualScores \subseteq Nat /\ Cardinality(Questions) \in Nat
  BY AssessmentAssumption, FS_CardinalityType
<1>3. grading[t].score \in Nat
  BY <1>1, <1>2
<1>4. grading[t].objective \in Nat
  BY <1>1, <1>2 DEF Scores
<1> QED
  BY <1>3, <1>4

LEMMA ComponentsStep ==
  ASSUME OneRequest, OneTeacher, TypeInv, SerialInv, ComponentsInv, [Next]_vars
  PROVE  ComponentsInv'
<1>0. TypeOK /\ CallsLive /\ TypeOK'
  BY TypeStep DEF TypeInv
<1>1. ASSUME NEW t \in Teachers, GradeCommit(t) PROVE ComponentsInv'
  <2> DEFINE r == grading[t]
             a == grading[t].attempt
  <2>1. /\ a \in Attempts /\ r.at = "scored"
        /\ grade'[a] # NoGrade /\ grade'[a].score = r.final /\ grade'[a].manual = r.score
        /\ grade[a] = NoGrade => grade'[a].objective = r.objective /\ grade'[a].read = r.read
        /\ grade[a] # NoGrade => /\ grade'[a].objective = grade[a].objective
                                 /\ grade'[a].read = grade[a].read
        /\ \A b \in Attempts : b # a => grade'[b] = grade[b]
    <3>1. r.at = "scored"
      BY <1>1, CommittedComponents
    <3>2. /\ a \in Attempts
          /\ grade'[a] # NoGrade /\ grade'[a].score = r.final
          /\ \A b \in Attempts : b # a => grade'[b] = grade[b]
      BY <1>1, CommittedGrade
    <3>3. /\ grade'[a].manual = r.score
          /\ grade[a] = NoGrade => /\ grade'[a].objective = r.objective
                                   /\ grade'[a].read = r.read
          /\ grade[a] # NoGrade => /\ grade'[a].objective = grade[a].objective
                                   /\ grade'[a].read = grade[a].read
      BY <1>1, CommittedComponents
    <3> HIDE DEF r, a
    <3> QED
      BY <3>1, <3>2, <3>3
  <2>2. /\ r.final = r.objective + r.score
        /\ r.score \in Nat /\ r.objective \in Nat
        /\ r.read # NoScore => attempt[a].objective # NoScore /\ r.objective = Objective(a)
        /\ r.read = NoScore => r.objective = 0
        /\ grade[a] # NoGrade /\ grade[a].read # NoScore => r.objective = Objective(a)
        /\ grade[a] # NoGrade =>
              /\ grade[a].read # NoScore => /\ attempt[a].objective # NoScore
                                            /\ grade[a].objective = Objective(a)
              /\ grade[a].read = NoScore => grade[a].objective = 0
        /\ attempt[a] # NoAttempt
    <3>1. r.score \in Nat /\ r.objective \in Nat
      BY <1>0, <2>1, ComponentsType
    <3> QED
      BY <1>0, <2>1, <3>1 DEF ComponentsInv, CallsLive
  <2>3. \A u \in Teachers : grading'[u].at # "scored"
    BY <1>1, CommittedGrade DEF OneTeacher, Idle
  <2>4. attempt' = attempt /\ \A b \in Attempts : Objective(b)' = Objective(b)
    BY <1>1 DEF GradeCommit, Upsert, student, Objective
  <2> HIDE DEF r, a
  <2>5. grade'[a].read # NoScore => /\ attempt'[a].objective # NoScore
                                    /\ grade'[a].objective = Objective(a)
                                    /\ grade'[a].score = grade'[a].objective + grade'[a].manual
    BY <2>1, <2>2, <2>4
  <2>6. grade'[a].read = NoScore =>
          /\ grade'[a].objective = 0
          /\ \/ grade'[a].score = grade'[a].manual
             \/ grade'[a].score = Objective(a) + grade'[a].manual
    BY <2>1, <2>2
  <2>7. \A b \in Attempts : grade'[b] # NoGrade =>
          /\ attempt'[b] # NoAttempt
          /\ grade'[b].read # NoScore =>
                /\ attempt'[b].objective # NoScore
                /\ grade'[b].objective = Objective(b)'
                /\ grade'[b].score = grade'[b].objective + grade'[b].manual
          /\ grade'[b].read = NoScore =>
                /\ grade'[b].objective = 0
                /\ \/ grade'[b].score = grade'[b].manual
                   \/ grade'[b].score = Objective(b)' + grade'[b].manual
    <3> SUFFICES ASSUME NEW b \in Attempts, grade'[b] # NoGrade
                 PROVE  /\ attempt'[b] # NoAttempt
                        /\ grade'[b].read # NoScore =>
                              /\ attempt'[b].objective # NoScore
                              /\ grade'[b].objective = Objective(b)'
                              /\ grade'[b].score = grade'[b].objective + grade'[b].manual
                        /\ grade'[b].read = NoScore =>
                              /\ grade'[b].objective = 0
                              /\ \/ grade'[b].score = grade'[b].manual
                                 \/ grade'[b].score = Objective(b)' + grade'[b].manual
      OBVIOUS
    <3>1. CASE b = a
      BY <2>2, <2>4, <2>5, <2>6, <3>1
    <3>2. CASE b # a
      BY <2>1, <2>4, <3>2 DEF ComponentsInv
    <3> QED
      BY <3>1, <3>2
  <2> QED
    BY <2>3, <2>7 DEF ComponentsInv
<1>2. CASE \A t \in Teachers : ~GradeCommit(t)
  <2>1. grade' = grade
    BY <1>2, GradesUnchanged
  <2>2. ASSUME NEW a \in Attempts, grade[a] # NoGrade
        PROVE  /\ attempt'[a] # NoAttempt
               /\ grade[a].read # NoScore =>
                     /\ attempt'[a].objective # NoScore
                     /\ grade[a].objective = Objective(a)'
                     /\ grade[a].score = grade[a].objective + grade[a].manual
               /\ grade[a].read = NoScore =>
                     /\ grade[a].objective = 0
                     /\ \/ grade[a].score = grade[a].manual
                        \/ grade[a].score = Objective(a)' + grade[a].manual
    <3>1. /\ attempt[a] # NoAttempt
          /\ grade[a].read # NoScore => /\ attempt[a].objective # NoScore
                                        /\ grade[a].objective = Objective(a)
                                        /\ grade[a].score = grade[a].objective + grade[a].manual
          /\ grade[a].read = NoScore => /\ grade[a].objective = 0
                                        /\ \/ grade[a].score = grade[a].manual
                                           \/ grade[a].score = Objective(a) + grade[a].manual
      BY <2>2 DEF ComponentsInv
    <3>2. /\ attempt'[a] # NoAttempt
          /\ attempt[a].objective # NoScore => /\ attempt'[a].objective # NoScore
                                               /\ Objective(a)' = Objective(a)
          /\ Objective(a) # 0 => Objective(a)' = Objective(a)
      BY <3>1, ObjectiveStays
    <3>3. grade[a].manual \in Nat
      <4>1. grade[a].manual \in ManualScores
        BY <1>0, <2>2 DEF TypeOK, Grades
      <4> QED
        BY <4>1, AssessmentAssumption
    <3> QED
      BY <3>1, <3>2, <3>3
  <2>3. ASSUME NEW u \in Teachers, NEW b \in Attempts,
               grading'[u].at = "scored", grading'[u].attempt = b
        PROVE  /\ grading'[u].final = grading'[u].objective + grading'[u].score
               /\ grading'[u].read # NoScore =>
                     /\ attempt'[b].objective # NoScore
                     /\ grading'[u].objective = Objective(b)'
               /\ grading'[u].read = NoScore => grading'[u].objective = 0
               /\ grade[b] # NoGrade /\ grade[b].read # NoScore
                  => grading'[u].objective = Objective(b)'
    <3>1. CASE grading'[u] = grading[u]
      <4>1. attempt[b] # NoAttempt
        BY <1>0, <2>3, <3>1 DEF CallsLive
      <4>2. attempt[b].objective # NoScore => /\ attempt'[b].objective # NoScore
                                              /\ Objective(b)' = Objective(b)
        BY <4>1, ObjectiveStays
      <4>3. /\ grading[u].final = grading[u].objective + grading[u].score
            /\ grading[u].read # NoScore => /\ attempt[b].objective # NoScore
                                            /\ grading[u].objective = Objective(b)
            /\ grading[u].read = NoScore => grading[u].objective = 0
            /\ grade[b] # NoGrade /\ grade[b].read # NoScore
               => grading[u].objective = Objective(b) /\ attempt[b].objective # NoScore
        BY <2>3, <3>1 DEF ComponentsInv
      <4> QED
        BY <3>1, <4>2, <4>3
    <3>2. CASE grading'[u] = Idle
      BY <2>3, <3>2 DEF Idle
    <3>3. CASE /\ GradeScore(u)
               /\ grading'[u] = Scored(grading[u], Objective(grading[u].attempt))
      <4>1. /\ grading'[u].final = grading'[u].objective + grading'[u].score
            /\ b = grading[u].attempt
            /\ grading'[u].objective = Objective(grading[u].attempt)
            /\ grading'[u].read = attempt[b].objective
        BY <2>3, <3>3 DEF Scored
      <4>2. attempt' = attempt
        BY <3>3 DEF GradeScore, student
      <4>3. grading'[u].objective = Objective(b)
        BY <4>1
      <4>4. Objective(b)' = Objective(b)
        BY <4>2 DEF Objective
      <4>5. attempt[b].objective = NoScore => Objective(b) = 0
        BY DEF Objective
      <4> QED
        BY <4>1, <4>2, <4>3, <4>4, <4>5
    <3>4. ASSUME NEW d \in Attempts, NEW m, NEW publish, NEW reason,
                 grading'[u] = Looked(d, m, publish, reason,
                          IF grade[d] = NoGrade THEN NoScore ELSE grade[d].score)
          PROVE  FALSE
      BY <2>3, <3>4 DEF Looked
    <3> QED
      BY <1>0, <3>1, <3>2, <3>3, <3>4, GradingMoves
  <2>4. \A u \in Teachers : grading'[u].at = "scored" => grading'[u].attempt \in Attempts
    BY <1>0 DEF TypeOK, Gradings, Idle
  <2> QED
    BY <2>1, <2>2, <2>3, <2>4 DEF ComponentsInv, Objective
<1> QED
  BY <1>1, <1>2

\* As long as neither the requests about an attempt nor the calls of the teacher
\* overlap, the score of every grade is the sum of its components, the one of an
\* exercise included, but for an exam's grade whose row was inserted before the
\* attempt was handed in: its score may count the objective score of the attempt
\* instead of its component.
THEOREM ComponentsSum ==
  ASSUME OneRequest, OneTeacher
  PROVE  Spec => []ComponentsAddUp
<1>1. Init => SerialInv /\ ComponentsInv
  BY DEF Init, SerialInv, ComponentsInv, Idle, NoAttempt
<1>2. TypeInv /\ SerialInv /\ [Next]_vars => SerialInv'
  BY SerialStep
<1>3. TypeInv /\ SerialInv /\ ComponentsInv /\ [Next]_vars => ComponentsInv'
  BY ComponentsStep
<1>4. TypeInv /\ ComponentsInv => ComponentsAddUp
  <2> SUFFICES ASSUME TypeInv, ComponentsInv, NEW a \in Attempts, grade[a] # NoGrade
               PROVE  \/ grade[a].score = grade[a].objective + grade[a].manual
                      \/ /\ grade[a].read = NoScore
                         /\ grade[a].score = Objective(a) + grade[a].manual
    BY DEF ComponentsAddUp
  <2>1. grade[a].manual \in Nat
    <3>1. grade[a].manual \in ManualScores
      BY DEF TypeInv, TypeOK, Grades
    <3> QED
      BY <3>1, AssessmentAssumption
  <2> QED
    BY <2>1 DEF ComponentsInv
<1> QED
  BY <1>1, <1>2, <1>3, <1>4, TypeInvariant, PTL DEF Spec
=============================================================================

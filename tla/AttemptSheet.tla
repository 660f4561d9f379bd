---------------------------- MODULE AttemptSheet ----------------------------
(***************************************************************************)
(* What a student may rely on: an attempt is a sheet of answers that can be *)
(* changed while it is active; handing it in scores the answers on it, and *)
(* nothing changes a sheet that was handed in (docs/exams.md,              *)
(* docs/exercises.md).                                                     *)
(***************************************************************************)
CONSTANTS
    Attempts,
    Questions,  \* the objective questions
    Points(_),  \* the score of a set of correct answers
    NoScore

VARIABLE sheet

Unused == [phase |-> "unused", correct |-> {}, score |-> NoScore]

Init == sheet = [a \in Attempts |-> Unused]

Start(a) ==
    /\ sheet[a].phase = "unused"
    /\ sheet' = [sheet EXCEPT ![a].phase = "active"]

\* An answer to q is saved: a right one or a wrong one.
Answer(a, q) ==
    /\ sheet[a].phase = "active"
    /\ \/ sheet' = [sheet EXCEPT ![a].correct = @ \cup {q}]
       \/ sheet' = [sheet EXCEPT ![a].correct = @ \ {q}]

HandIn(a) ==
    /\ sheet[a].phase = "active"
    /\ sheet' = [sheet EXCEPT ![a].phase = "handed_in",
                              ![a].score = Points(sheet[a].correct)]

Next == \E a \in Attempts :
            Start(a) \/ HandIn(a) \/ \E q \in Questions : Answer(a, q)

Spec == Init /\ [][Next]_sheet
=============================================================================

---------------------------- MODULE MCOperations ----------------------------
(***************************************************************************)
(* Accounts, the support desk and a live class share no state: each        *)
(* behaviour explores one of them, "focus", so that the states of the      *)
(* three add up and do not multiply.  Their constants share model values,  *)
(* which keeps the symmetries few.                                         *)
(***************************************************************************)
EXTENDS Accounts, SupportTicket, LiveClass, TLC
CONSTANTS u1, u2, c1, c2, c3, t1, t2, k1, k2, k3, p1, p2

TwoUsers == {u1, u2}
TwoCallers == {c1, c2}
ThreeCallers == {c1, c2, c3}
TwoTokens == {t1, t2}
ThreeIds == {k1, k2, k3}
TwoPasswords == {p1, p2}

\* Of the symmetries, those that are worth their permutations.
Symmetry == Permutations(TwoUsers) \cup Permutations(TwoCallers) \cup Permutations(ThreeIds)

VARIABLE focus

MCInit ==
    /\ Init
    /\ DeskInit
    /\ LiveInit
    /\ focus \in {"accounts", "desk", "live"}

MCNext ==
    /\ UNCHANGED focus
    /\ \/ focus = "accounts" /\ Next /\ UNCHANGED <<deskVars, liveVars>>
       \/ focus = "desk" /\ DeskNext /\ UNCHANGED <<vars, liveVars>>
       \/ focus = "live" /\ LiveNext /\ UNCHANGED <<vars, deskVars>>

MCSpec == MCInit /\ [][MCNext]_<<vars, deskVars, liveVars, focus>>

\* The values of the three components are those their tables and maps allow.
MCTypeOK == TypeOK /\ DeskTypeOK /\ LiveTypeOK
=============================================================================

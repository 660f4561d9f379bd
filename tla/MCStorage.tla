------------------------------ MODULE MCStorage ------------------------------
(***************************************************************************)
(* Two families of behaviours: in "objects" nothing is snapshot, uploads   *)
(* have any size and content and the medium loses tails, under any         *)
(* sequence of configurations; in "snapshots" production stores ordinary   *)
(* uploads while snapshots are taken.                                      *)
(***************************************************************************)
EXTENDS StorageBackup, TLC
CONSTANTS o1, o2

TwoObjects == {o1, o2}
Symmetry == Permutations(Objects)

\* Production; a migration of older plaintext; a workstation; a refused one.
Production == [production |-> TRUE, key |-> "key", scanner |-> TRUE, legacy |-> FALSE]
Migration == [production |-> FALSE, key |-> "key", scanner |-> TRUE, legacy |-> TRUE]
Workstation == [production |-> FALSE, key |-> "none", scanner |-> FALSE, legacy |-> FALSE]
Careless == [production |-> TRUE, key |-> "none", scanner |-> FALSE, legacy |-> FALSE]
Environments == {Production, Migration, Workstation, Careless}

VARIABLE focus

Ordinary ==
    /\ config.production
    /\ \A o \in Objects :
          /\ upload[o].at = "quarantined" => upload[o].size = 1 /\ upload[o].clean
          /\ Stored(o) => files[o].end = "whole"

MCInit ==
    /\ BackupInit
    /\ focus \in {"objects", "snapshots"}
    /\ focus = "snapshots" => config = Production

MCNext ==
    /\ BackupNext
    /\ UNCHANGED focus
    /\ focus = "objects" => runs' = 0 /\ now' = 0
    /\ focus = "snapshots" => Ordinary'

MCSpec == MCInit /\ [][MCNext]_<<allVars, focus>>
=============================================================================

-------------------------- MODULE MCRegulatoryScan --------------------------
(* Small instances of RegulatoryScan for TLC.                              *)
EXTENDS RegulatoryScan, TLC

CONSTANTS s1, s2, s3, s4, d1, d2, nca, saso, A, B, none

OneSource == [d \in Documents |-> nca]
FirstListsAll == [s \in Scans |-> IF s = s1 THEN Documents ELSE {d1}]
OwnText == [c \in Contents |-> c]

Symmetry == Permutations({A, B})

(* A user who starts a scan only when the one before has ended, as the     *)
(* dashboard's button does (static/app.js:199).                            *)
Patient ==
    /\ ScanNext
    /\ \A s \in Scans : scans[s] = "absent" /\ scans'[s] # "absent" =>
            \A t \in Scans : pc[t] = "idle"

PatientSpec == ScanInit /\ [][Patient]_scanVars
=============================================================================

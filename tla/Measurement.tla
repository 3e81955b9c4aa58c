------------------------------ MODULE Measurement ------------------------------
(***************************************************************************)
(* What the benchmark promises its user, with neither board nor wire: a    *)
(* run on a file of test vectors takes one measurement per vector, in the  *)
(* order of the file, each the measurement of that vector, and writes them *)
(* out after the last.  A run may be broken off at any point, and the next *)
(* starts from nothing.                                                    *)
(***************************************************************************)
EXTENDS Naturals, Sequences

CONSTANT Wanted   \* for each vector file, the rows a complete run yields

VARIABLES
  phase,    \* "off", "measuring", "saving", "saved" or "failed"
  want,     \* the rows of the file this run is on
  got,      \* the rows measured so far
  saved     \* the rows in the output file

mvars == <<phase, want, got, saved>>

Init ==
  phase = "off" /\ want \in Wanted /\ got = <<>> /\ saved = <<>>

Begin ==
  /\ phase \in {"off", "saved", "failed"}
  /\ phase' = "measuring" /\ want' \in Wanted /\ got' = <<>>
  /\ UNCHANGED saved

(* The measurement of the next vector; the last one opens the output file. *)
Measure ==
  /\ phase = "measuring"
  /\ got' = Append(got, want[Len(got) + 1])
  /\ IF Len(got') = Len(want) THEN phase' = "saving" /\ saved' = <<>>
                              ELSE UNCHANGED <<phase, saved>>
  /\ UNCHANGED want

Save ==
  /\ phase = "saving"
  /\ saved' = Append(saved, want[Len(saved) + 1])
  /\ phase' = IF Len(saved') = Len(want) THEN "saved" ELSE "saving"
  /\ UNCHANGED <<want, got>>

BreakOff ==
  /\ phase \in {"measuring", "saving"} /\ phase' = "failed"
  /\ UNCHANGED <<want, got, saved>>

Next == Begin \/ Measure \/ Save \/ BreakOff

Spec == Init /\ [][Next]_mvars /\ WF_mvars(Measure \/ Save)
=============================================================================

--------------------------- MODULE WorkPlanOutcome ---------------------------
(***************************************************************************)
(* What a work plan promises to the one who reads its events               *)
(* (broker/orchestrator.go): gates pass one after the other, and the plan  *)
(* ends once, with success exactly when every gate has passed.             *)
(***************************************************************************)
EXTENDS Naturals

CONSTANTS Execs, NumStages

VARIABLES passed,  \* gates the reader has seen pass
          verdict  \* what the reader concludes when the events end

wpVars == <<passed, verdict>>

Init ==
  /\ passed = [e \in Execs |-> 0]
  /\ verdict = [e \in Execs |-> "none"]

PassGate(e) ==
  /\ verdict[e] = "none"
  /\ passed[e] < NumStages
  /\ passed' = [passed EXCEPT ![e] = @ + 1]
  /\ UNCHANGED verdict

Conclude(e) ==
  /\ verdict[e] = "none"
  /\ verdict' = [verdict EXCEPT ![e] = IF passed[e] = NumStages
                                       THEN "success" ELSE "failure"]
  /\ UNCHANGED passed

Next == \E e \in Execs : PassGate(e) \/ Conclude(e)

Spec == Init /\ [][Next]_wpVars
=============================================================================

------------------------------ MODULE MCAIRuns ------------------------------
(* Small instances of AIRuns for TLC.                                      *)
EXTENDS AIRuns, TLC

CONSTANTS p1, p2, p3, k1, k2, k3

\* Patents whose inputs differ; only ProviderAnswers tells keys apart.
DistinctKey == p1 :> k1 @@ p2 :> k2 @@ p3 :> k3
TwoKey      == p1 :> k1 @@ p2 :> k2

\* Two runs meet each other, or one run meets trouble: faults, failed calls and
\* unusable answers come only while some run has not been created.  What is cut
\* off is never a fair step: launches and workers can always go on with a good
\* answer.
Calm ==
  /\ faults = 0
  /\ \A r \in Runs : failures[r] = 0
  /\ \A k \in Keys : cache[k] # None => cache[k].usable
TroubleOrCompany == Calm \/ \E r \in Runs : runs[r].status = "absent"

LiveNext == Next /\ TroubleOrCompany'
LiveSpec == Init /\ [][LiveNext]_vars /\ Fairness

WorkerSymmetry == Permutations(Workers)
=============================================================================

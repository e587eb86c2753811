---------------------------- MODULE MCLiveEdits ----------------------------
(* Two elements of one page, for TLC.                                      *)
EXTENDS LiveEdits

CONSTANTS e1, e2, p1

OnePage == [e \in Entries |-> p1]

Second(e) ==
  \/ 2 \in {buffer[e], source[e], committed[e]}
  \/ \E p \in Pages : applies[p].want[e] = 2

\* One element may be saved twice, or there may be faults: neither a save nor
\* a fault is a fair step, so that nothing fair is cut off.
SavedAgain == \E e \in Entries : buffer'[e] = 2 /\ buffer[e] # 2
Budget ==
  /\ SavedAgain => buffer'[e2] # 2 /\ spent.faults = 0
  /\ spent'.faults > spent.faults => \A e \in Entries : ~Second(e)

OneSpec == Init /\ [][Next /\ Budget]_vars /\ Fairness
=============================================================================

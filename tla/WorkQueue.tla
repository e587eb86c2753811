----------------------------- MODULE WorkQueue -----------------------------
(***************************************************************************)
(* What the live helper promises about the requests it has taken: each one *)
(* is held until it is finished, is in at most one pair of hands at a      *)
(* time, and when the helper fails, the last request filed for each id     *)
(* comes back unless it was finished.                                      *)
(***************************************************************************)
CONSTANT Jobs  \* the requests: records with an id

VARIABLES
  todo,   \* requests held
  lent,   \* those a worker has in hand
  filed,  \* what survives a failure: at most one request per id
  open    \* the queue is being served

vars == <<todo, lent, filed, open>>

Init == todo = {} /\ lent = {} /\ filed = {} /\ open = TRUE

Others(id) == {f \in filed : f.id # id}

\* A waiting worker is handed a free request by the step that frees one.
MayLend(jobs, hands) ==
  \/ lent' = hands
  \/ \E e \in jobs \ hands : lent' = hands \cup {e}

Submit(e) ==
  /\ open
  /\ todo' = todo \cup {e} /\ MayLend(todo', lent)
  /\ filed' = Others(e.id) \cup {e}
  /\ UNCHANGED open

Lend ==
  /\ open
  /\ MayLend(todo, lent)
  /\ UNCHANGED <<todo, filed, open>>

\* A request in hand is taken back.
Return(e) ==
  /\ open /\ e \in lent
  /\ MayLend(todo, lent \ {e})
  /\ UNCHANGED <<todo, filed, open>>

\* An answer names an id: one request for it is finished, if there is one,
\* and nothing remains on file for it.
Finish(id) ==
  /\ open
  /\ IF \E e \in todo : e.id = id
     THEN \E e \in todo : /\ e.id = id
                          /\ todo' = todo \ {e} /\ lent' = lent \ {e}
     ELSE UNCHANGED <<todo, lent>>
  /\ filed' = Others(id)
  /\ UNCHANGED open

Fail == open /\ open' = FALSE /\ todo' = {} /\ lent' = {} /\ UNCHANGED filed

FinishOffline(id) ==
  ~open /\ filed' = Others(id) /\ UNCHANGED <<todo, lent, open>>

Recover == ~open /\ open' = TRUE /\ todo' = filed /\ UNCHANGED <<lent, filed>>

Next == \/ \E e \in Jobs : Submit(e) \/ Return(e)
        \/ \E e \in Jobs : Finish(e.id) \/ FinishOffline(e.id)
        \/ Lend \/ Fail \/ Recover

Spec == Init /\ [][Next]_vars
=============================================================================

-------------------------- MODULE MCTurnsAndAlerts --------------------------
(***************************************************************************)
(* What a user is served, for TLC: the turns of the chat, and the alerts.  *)
(* They share no state, so a behaviour is about one of them and the other  *)
(* stays as it began.  Both are checked with the fairness of their modules. *)
(***************************************************************************)
EXTENDS ChatTurns, Alerts

VARIABLE area

servedVars == <<turnVars, vars, area>>

\* The limits, scaled down: what matters is that they differ.
TierLimit == [t \in Limited |-> IF t = "free" THEN 1 ELSE 2]

Only(a) == area = a /\ UNCHANGED area

ServedInit ==
  /\ area \in {"chat", "alerts"}
  /\ TurnInit
  /\ area # "chat" => tier = "free"
  /\ Init
  /\ area # "alerts" => hooked = {}

TurnsMove == Only("chat") /\ TurnNext /\ UNCHANGED vars
AlertsMove == Only("alerts") /\ Next /\ UNCHANGED turnVars

ServedNext == TurnsMove \/ AlertsMove

\* The fair steps of FairTurnSpec and of the FairSpec of Alerts.
ChatStep(c) == area = "chat" /\ (Charge(c) \/ Turn(c))
AlertStep(d) == area = "alerts" /\ DeliverStep(d)

ServedSpec ==
  /\ ServedInit
  /\ [][ServedNext]_servedVars
  /\ \A c \in Conns : WF_turnVars(ChatStep(c))
  /\ \A d \in Deliverers : WF_vars(AlertStep(d))

\* The declared types of both.
ServedTypeOK == TurnTypeOK /\ TypeOK
=============================================================================

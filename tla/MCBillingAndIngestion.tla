------------------------ MODULE MCBillingAndIngestion ------------------------
(***************************************************************************)
(* The two records the backend keeps by outside events, for TLC: the       *)
(* user's tier by the webhooks of Stripe, the coverage of the patents by   *)
(* the nightly runs.  They share no state: a behaviour is about one of     *)
(* them, and the other stays as it began.                                  *)
(***************************************************************************)
EXTENDS Billing, DailyIngestion, TLC

VARIABLE area

keptVars == <<vars, ingestVars, area>>

Only(a) == area = a /\ UNCHANGED area

KeptInit == area \in {"billing", "ingestion"} /\ Init /\ IngestInit

BillingMoves == Only("billing") /\ Next /\ UNCHANGED ingestVars
IngestionMoves == Only("ingestion") /\ IngestNext /\ UNCHANGED vars

KeptNext == BillingMoves \/ IngestionMoves

KeptSpec == KeptInit /\ [][KeptNext]_keptVars

Symmetries == Permutations(Subs) \cup Permutations(Handlers) \cup Permutations(Workers)

\* The histories about which SyncedWhenSettled or CustomersAreServed, and
\* OneRunUnlessExpired or NoGap, say something: others are not explored further.
Telling ==
  /\ \/ "overlap" \notin incidents /\ "lost" \notin incidents
     \/ /\ "override" \notin incidents
        /\ Cardinality({s \in Subs : life[s] # "none"}) <= 1
  /\ ~(expired /\ outage)

\* The declared types of both.
KeptTypeOK == TypeOK /\ IngestTypeOK
=============================================================================

------------------------------ MODULE LiveDesign ------------------------------
(***************************************************************************)
(* What the live tab's global bar reads from the live server by itself:    *)
(* the project's design system, shown in a panel (DESIGN.md and its        *)
(* sidecar design.json), and whether an agent is polling.                  *)
(*                                                                         *)
(* A fetch of the panel is a pair of requests which the server answers one *)
(* by one from the files of that moment; the status is fetched again and   *)
(* again, and an answer may overtake another.  Contents are version        *)
(* numbers, 0 for a file that is not there.                                *)
(***************************************************************************)
EXTENDS Integers, FiniteSets

CONSTANTS
    MaxWrites,      \* times either file is written
    MaxFailures,    \* fetches that fail
    MaxPolls        \* status requests under way at once

ASSUME DesignAssumption ==
    MaxWrites \in Nat /\ MaxFailures \in Nat /\ MaxPolls \in Nat

VARIABLES
    disk,       \* DESIGN.md, design.json, and which of them is newer
    design,     \* designState
    pair,       \* the pair of answers being fetched
    agent,      \* whether the agent polls, and what the bar shows of it
    polls,      \* status requests under way
    past        \* what happened, for the properties and the bounds

designVars == <<disk, design, pair, agent, polls, past>>

\* /design-system.json and /design-system/raw, from the files as they are.
JsonAnswer ==
    [present |-> disk.md # 0 \/ disk.json # 0, md |-> disk.md,
     json |-> IF disk.broken THEN 0 ELSE disk.json,
     stale |-> disk.md # 0 /\ disk.json # 0 /\ disk.mdIsNewer,
     error |-> disk.json # 0 /\ disk.broken]
RawAnswer == disk.md

\* The pair before its answers, and no pair at all.
Due == [out |-> TRUE, jsonIn |-> FALSE, rawIn |-> FALSE, raw |-> 0,
        json |-> [present |-> FALSE, md |-> 0, json |-> 0,
                  stale |-> FALSE, error |-> FALSE]]
NoPair == [Due EXCEPT !.out = FALSE]

Unread == [present |-> "unknown", md |-> 0, json |-> 0, raw |-> 0,
           stale |-> FALSE, error |-> FALSE]

DesignInit ==
    /\ disk = [md |-> 0, json |-> 0, broken |-> FALSE, mdIsNewer |-> FALSE]
    /\ design = [open |-> FALSE, tab |-> "visual", loading |-> FALSE,
                 data |-> Unread, applying |-> FALSE]
    /\ pair = NoPair
    /\ agent = [polling |-> FALSE, connected |-> FALSE, tip |-> FALSE,
                watched |-> TRUE]
    /\ polls = {}
    /\ past = [writes |-> 0, failures |-> 0, asked |-> 0, answered |-> 0,
               changed |-> FALSE, overtaken |-> FALSE, turned |-> FALSE,
               failed |-> FALSE]

-----------------------------------------------------------------------------
(* The files, which the agent writes.                                      *)

WriteMd ==
    /\ past.writes < MaxWrites
    /\ \E late \in BOOLEAN :      \* newer by more than a second
          disk' = [disk EXCEPT !.md = @ + 1, !.mdIsNewer = @ \/ late]
    /\ past' = [past EXCEPT !.writes = @ + 1, !.changed = TRUE]
    /\ UNCHANGED <<design, pair, agent, polls>>

WriteJson ==
    /\ past.writes < MaxWrites
    /\ \E broken \in BOOLEAN :
          disk' = [disk EXCEPT !.json = @ + 1, !.broken = broken,
                               !.mdIsNewer = FALSE]
    /\ past' = [past EXCEPT !.writes = @ + 1, !.changed = TRUE]
    /\ UNCHANGED <<design, pair, agent, polls>>

-----------------------------------------------------------------------------
(* The panel.                                                              *)

\* fetchDesignSystem, up to its two requests.
Fetches(d) ==
    /\ design' = [d EXCEPT !.loading = TRUE, !.data.error = FALSE]
    /\ pair' = Due
    /\ past' = [past EXCEPT !.changed = FALSE, !.failed = FALSE]

\* toggleDesignPanel: fetched only while it is unknown what is there.
ToggleDesignPanel ==
    /\ ~design.applying
    /\ LET d == [design EXCEPT !.open = ~@] IN
       IF d.open /\ d.data.present = "unknown" /\ ~d.loading THEN Fetches(d)
       ELSE design' = d /\ UNCHANGED <<pair, past>>
    /\ UNCHANGED <<disk, agent, polls>>

\* A tab of the panel: Raw fetches again as long as there is no text.
PickTab(tab) ==
    /\ design.open /\ design.tab # tab
    /\ LET d == [design EXCEPT !.tab = tab] IN
       IF tab = "raw" /\ d.data.raw = 0 /\ ~d.loading THEN Fetches(d)
       ELSE design' = d /\ UNCHANGED <<pair, past>>
    /\ UNCHANGED <<disk, agent, polls>>

ServeJson ==
    /\ pair.out /\ ~pair.jsonIn
    /\ pair' = [pair EXCEPT !.jsonIn = TRUE, !.json = JsonAnswer]
    /\ UNCHANGED <<disk, design, agent, polls, past>>

ServeRaw ==
    /\ pair.out /\ ~pair.rawIn
    /\ pair' = [pair EXCEPT !.rawIn = TRUE, !.raw = RawAnswer]
    /\ UNCHANGED <<disk, design, agent, polls, past>>

\* Both are there; a missing or broken part does not keep the rest away.
Fetched ==
    /\ pair.jsonIn /\ pair.rawIn
    /\ LET j == pair.json IN
       design' = [design EXCEPT
         !.loading = FALSE,
         !.data = [present |-> IF j.present THEN "yes" ELSE "no",
                   md |-> j.md, json |-> j.json, stale |-> j.stale,
                   raw |-> IF j.present THEN pair.raw ELSE 0,
                   error |-> j.error]]
    /\ pair' = NoPair
    /\ UNCHANGED <<disk, agent, polls, past>>

\* The skeleton left on when the reading fails.
FetchFailsStillLoading ==
    /\ pair.out /\ past.failures < MaxFailures
    /\ design' = [design EXCEPT !.data.error = TRUE]
    /\ pair' = NoPair
    /\ past' = [past EXCEPT !.failures = @ + 1, !.failed = TRUE]
    /\ UNCHANGED <<disk, agent, polls>>

\* The server is gone: what was known before stays known.
FetchFails ==
    /\ pair.out /\ past.failures < MaxFailures
    /\ design' = [design EXCEPT !.loading = FALSE, !.data.error = TRUE]
    /\ pair' = NoPair
    /\ past' = [past EXCEPT !.failures = @ + 1, !.failed = TRUE]
    /\ UNCHANGED <<disk, agent, polls>>

\* A copy-edit Apply locks the toggle, not the panel's own tabs.
LockPanel ==
    /\ design' = [design EXCEPT !.applying = ~@]
    /\ UNCHANGED <<disk, pair, agent, polls, past>>

-----------------------------------------------------------------------------
(* The agent's mark in the bar.                                            *)

\* The interval asks whether or not an earlier answer is still out.
Poll ==
    /\ agent.watched /\ Cardinality(polls) < MaxPolls
    /\ polls' = polls \cup {[no |-> past.asked + 1, says |-> "due"]}
    /\ past' = [past EXCEPT !.asked = @ + 1, !.turned = FALSE]
    /\ past.asked < 2 * MaxPolls
    /\ UNCHANGED <<disk, design, pair, agent>>

PollServed(p) ==
    /\ p.says = "due"
    /\ polls' = (polls \ {p})
         \cup {[p EXCEPT !.says = IF agent.polling THEN "yes" ELSE "no"]}
    /\ UNCHANGED <<disk, design, pair, agent, past>>

\* syncAgentPollingUi: an answer that comes late is believed like any other.
PollAnswered(p) ==
    /\ p.says # "due"
    /\ polls' = polls \ {p}
    /\ agent' = [agent EXCEPT !.connected = p.says = "yes",
                              !.tip = @ /\ p.says = "no"]
    /\ past' = [past EXCEPT !.answered = IF p.no > @ THEN p.no ELSE @,
                            !.overtaken = p.no < past.answered]
    /\ UNCHANGED <<disk, design, pair>>

PollFails(p) ==
    /\ polls' = polls \ {p}
    /\ UNCHANGED <<disk, design, pair, agent, past>>

AgentComesOrGoes ==
    /\ agent' = [agent EXCEPT !.polling = ~@]
    /\ past' = [past EXCEPT !.turned = TRUE]
    /\ UNCHANGED <<disk, design, pair, polls>>

ShowTip ==
    /\ agent.watched /\ ~agent.connected
    /\ agent' = [agent EXCEPT !.tip = TRUE]
    /\ UNCHANGED <<disk, design, pair, polls, past>>
HideTip ==
    /\ agent.tip
    /\ agent' = [agent EXCEPT !.tip = FALSE]
    /\ UNCHANGED <<disk, design, pair, polls, past>>

\* Live mode is left.
StopPolling ==
    /\ agent.watched
    /\ agent' = [agent EXCEPT !.watched = FALSE, !.tip = FALSE]
    /\ UNCHANGED <<disk, design, pair, polls, past>>

-----------------------------------------------------------------------------
Reading ==
    \/ WriteMd \/ WriteJson \/ ToggleDesignPanel
    \/ (\E tab \in {"visual", "raw"} : PickTab(tab))
    \/ ServeJson \/ ServeRaw \/ Fetched \/ FetchFails \/ LockPanel
Watching ==
    \/ Poll \/ (\E p \in polls : PollServed(p))
    \/ (\E p \in polls : PollAnswered(p)) \/ (\E p \in polls : PollFails(p))
    \/ AgentComesOrGoes \/ ShowTip \/ HideTip \/ StopPolling

DesignNext == Reading \/ Watching

-----------------------------------------------------------------------------
\* renderDesignBody, which runs after every change of designState.
View ==
    IF design.loading THEN "loading"
    ELSE IF design.data.error THEN "error"
    ELSE IF design.data.present = "no" THEN "empty"
    ELSE design.tab

\* The type of the panel and of the agent's mark.
DesignTypeOK ==
    /\ disk.md \in 0..MaxWrites /\ disk.json \in 0..MaxWrites
    /\ design.data.present \in {"unknown", "yes", "no"}
    /\ design.data.raw \in 0..MaxWrites
    /\ design.loading = pair.out
    /\ Cardinality(polls) <= MaxPolls

\* Unless a file was written since the panel began to read, what it shows is
\* what the files say: the raw text and the tokens are of one version, the
\* stale hint is right, an absent design is called absent, and a reading that
\* fails never shows as an empty design.
PanelMatchesTheFiles ==
    ~past.changed /\ ~past.failed /\ View \in {"visual", "raw", "empty"}
      /\ design.data.present # "unknown" =>
         /\ design.data.md = disk.md /\ design.data.raw = disk.md
         /\ ~disk.broken => design.data.json = disk.json
         /\ design.data.stale = JsonAnswer.stale
         /\ (View = "empty") = (disk.md = 0 /\ disk.json = 0)

\* The bar's mark is what the server last said of the agent, unless an older
\* answer came after a newer one; its hint that no agent polls never shows
\* beside a connected mark.
MarkFollowsTheAgent ==
    /\ agent.tip => ~agent.connected /\ agent.watched
    /\ ~past.turned /\ ~past.overtaken /\ polls = {} /\ past.asked > 0
       /\ past.answered = past.asked => agent.connected = agent.polling
=============================================================================

---------------------------- MODULE LiveSessions ----------------------------
(***************************************************************************)
(* The live variant mode: a browser tab asks for variants of an element    *)
(* and accepts or discards them, a helper server queues the requests and   *)
(* journals them, and one agent polls, edits the source and replies.       *)
(*                                                                         *)
(* A request is leased to the poll that receives it and leaves the queue   *)
(* when a reply names its id.  The journal of a session is represented by  *)
(* the snapshot its replay gives.  The tab's POSTs are separate fetches    *)
(* that may be handled in any order; the event stream is one connection.   *)
(* A restarted helper has a new token: the tab is cut off until it is      *)
(* loaded again.                                                           *)
(***************************************************************************)
EXTENDS Naturals, Sequences, FiniteSets

CONSTANTS
  Sessions,       \* ids the tab may give to variant sessions
  Steers,         \* ids it may give to steer requests
  None,
  MaxFaults,      \* bound on crashes of the helper, interruptions of the
                  \* agent and closings of the tab together
  MaxRevision,    \* bound on checkpoints
  MaxDecisions    \* bound on accepts and discards

ASSUME IdsAssumption ==
  /\ Sessions \cap Steers = {}
  /\ None \notin Sessions \cup Steers
  /\ None \notin {"generate", "accept", "discard", "steer"}
  /\ IsFiniteSet(Sessions \cup Steers)
ASSUME BoundsAssumption ==
  {MaxFaults, MaxRevision, MaxDecisions} \subseteq Nat

VARIABLES
  tab,        \* the page's script
  handled,    \* localStorage: the session last decided
  posts,      \* POST /events in flight
  answers,    \* responses to accept and discard in flight
  sse,        \* messages on the event stream
  up,         \* the helper: "up", "crashed" or "stopped"
  queue,      \* pendingEvents
  leases,     \* those of them out on a lease
  exitTimer,  \* the helper waits 8 s for a tab to come back
  snap,       \* what each journal replays to
  source,     \* the markup of each session's element
  agent,      \* the agent: its poll, or the event in its hands
  used,       \* ids given out
  spent,      \* faults and decisions so far
  decision,   \* history: the last accept or discard the helper confirmed
  refused,    \* history: sessions whose decision was answered without effect
  clobbered,  \* history: sessions whose journaled decision the reply to
              \* another event erased
  forgotten   \* history: those among them when the helper ended, and those
              \* whose queued decision such a reply acknowledged

wireVars  == <<posts, answers, sse>>
queueVars == <<queue, leases>>
diskVars  == <<snap, source>>
pastVars  == <<decision, refused, clobbered, forgotten>>
vars == <<tab, handled, wireVars, up, queueVars, exitTimer, diskVars, agent,
          used, spent, pastVars>>
-----------------------------------------------------------------------------
Ids == Sessions \cup Steers

Decisions == {"accept", "discard"}

\* The phase a session enters with each request and each reply.
RequestPhase == [generate |-> "generate_requested",
                 accept   |-> "accept_requested",
                 discard  |-> "discard_requested",
                 steer    |-> "steer_requested"]
ReplyPhase == [done      |-> "variants_ready",  unhandled  |-> "variants_ready",
               carbonize |-> "carbonize_required", complete |-> "completed",
               discarded |-> "discarded",       steer_done |-> "steer_done",
               error     |-> "agent_error"]

Terminal == {"completed", "discarded"}

TabStates == {"picking", "generating", "cycling", "saving", "confirmed"}
Markup == {"original", "scaffold", "variants", "carbonize", "accepted"}
Wrapped == {s \in Sessions : source[s] \in {"scaffold", "variants"}}

\* applyEvent: a request fills the one pending slot, any reply empties it.
Requested(sn, type) == [sn EXCEPT !.phase = RequestPhase[type],
                                  !.pending = type]
\* Mutant: a reply leaves the slot full.
RepliedKeepsPending(sn, reply) == [sn EXCEPT !.phase = ReplyPhase[reply]]
Replied(sn, reply) == [sn EXCEPT !.phase = ReplyPhase[reply],
                                 !.pending = None]
Checkpointed(sn, m) ==
  IF m.revision >= sn.revision
  THEN [sn EXCEPT !.phase = m.phase, !.revision = m.revision]
  ELSE sn

BaseSnapshot == [phase |-> "new", pending |-> None, revision |-> 0]

Post(type, id) == [type |-> type, id |-> id, phase |-> None, revision |-> 0]
Answer(type, id, ok) == [type |-> type, id |-> id, ok |-> ok]
Event(type, id) == [type |-> type, id |-> id]
Events == [type : DOMAIN RequestPhase, id : Ids]
Exit == Event("exit", None)

Hands(st, e, reply) == [st |-> st, type |-> e.type, id |-> e.id,
                        reply |-> reply]
Idle   == Hands("idle", Event(None, None), None)
Parked == Hands("parked", Event(None, None), None)

NewTab == [open |-> TRUE, linked |-> TRUE, state |-> "picking",
           current |-> None, arrived |-> FALSE, accepted |-> None,
           revision |-> 0, steering |-> None]

Init ==
  /\ tab = NewTab /\ handled = None
  /\ posts = {} /\ answers = {} /\ sse = <<>>
  /\ up = "up" /\ queue = <<>> /\ leases = {} /\ exitTimer = FALSE
  /\ snap = [i \in Ids |-> BaseSnapshot]
  /\ source = [s \in Sessions |-> "original"]
  /\ agent = Idle
  /\ used = {}
  /\ spent = [faults |-> 0, decisions |-> 0]
  /\ decision = [s \in Sessions |-> None]
  /\ refused = {} /\ clobbered = {} /\ forgotten = {}
-----------------------------------------------------------------------------
(* The queue of the helper.                                                *)

Queued(q) == {q[i] : i \in DOMAIN q}
DropAt(s, i) == SubSeq(s, 1, i - 1) \o SubSeq(s, i + 1, Len(s))
Least(S) == CHOOSE i \in S : \A j \in S : i <= j

\* findAvailablePendingEvent: the first event that is not out on a lease.
Free(q, l) == {i \in DOMAIN q : q[i] \notin l}

\* leaseEvent: an event with an id stays queued, exit leaves on delivery.
Deliver(q, l) ==
  LET i == Least(Free(q, l))
  IN /\ agent' = Hands("working", q[i], None)
     /\ IF q[i] = Exit
        THEN queue' = DropAt(q, i) /\ leases' = l
        ELSE queue' = q /\ leases' = l \cup {q[i]}

\* flushPendingPolls, once the queue is q and the leases are l.
Flush(q, l) ==
  IF agent = Parked /\ Free(q, l) # {}
  THEN Deliver(q, l)
  ELSE queue' = q /\ leases' = l /\ UNCHANGED agent

Enqueue(e) ==
  IF e # Exit /\ e \in Queued(queue)
  THEN UNCHANGED <<queueVars, agent>>
  ELSE Flush(Append(queue, e), leases)

\* acknowledgePendingEvent: the first event with the id, whatever its type.
Named(id) == {i \in DOMAIN queue : queue[i].id = id}
\* Mutant: every event with the id goes.
AcknowledgeAll(id) ==
  /\ queue' = SelectSeq(queue, LAMBDA e : e.id # id)
  /\ leases' = {e \in leases : e.id # id}
\* Mutant: the lease outlives the event.
AcknowledgeKeepingLease(id) ==
  IF Named(id) = {}
  THEN UNCHANGED queueVars
  ELSE queue' = DropAt(queue, Least(Named(id))) /\ UNCHANGED leases
Acknowledge(id) ==
  IF Named(id) = {}
  THEN UNCHANGED queueVars
  ELSE LET i == Least(Named(id))
       IN queue' = DropAt(queue, i) /\ leases' = leases \ {queue[i]}
-----------------------------------------------------------------------------
(* The tab.                                                                *)

tabOnly == <<handled, up, queueVars, exitTimer, diskVars, agent, spent,
             pastVars>>

\* A fetch of the page.  Without the helper, or with the token of an earlier
\* one, it fails; the page looks at the response to all but two.
Unwatched == {"generate", "checkpoint"}
Fetch(m) ==
  IF tab.linked
  THEN posts' = posts \cup {m} /\ UNCHANGED answers
  ELSE /\ answers' = IF m.type \in Unwatched THEN answers
                     ELSE answers \cup {Answer(m.type, m.id, FALSE)}
       /\ UNCHANGED posts

\* The request leaves once the screenshot is taken or has failed.
Go(s) ==
  /\ tab.open /\ tab.state = "picking" /\ s \notin used
  /\ tab' = [tab EXCEPT !.state = "generating", !.current = s,
                        !.arrived = FALSE, !.accepted = None]
  /\ Fetch(Post("generate", s))
  /\ used' = used \cup {s}
  /\ UNCHANGED <<sse, tabOnly>>

\* Hot reloading mounts the variants and the observer of the page sees them.
VariantsMount ==
  /\ tab.open /\ tab.current # None /\ ~tab.arrived
  /\ source[tab.current] = "variants"
  /\ tab' = [tab EXCEPT !.arrived = TRUE, !.state = "cycling"]
  /\ UNCHANGED <<wireVars, used, tabOnly>>

\* The timer that mounting, cycling and turning knobs start; the checkpoint
\* carries the state of the moment it fires.
SendCheckpoint ==
  /\ tab.open /\ tab.current # None /\ tab.revision < MaxRevision
  /\ tab' = [tab EXCEPT !.revision = @ + 1]
  /\ Fetch([type |-> "checkpoint", id |-> tab.current, phase |-> tab.state,
            revision |-> tab.revision + 1])
  /\ UNCHANGED <<sse, used, tabOnly>>

\* The POST of a decision.
Decide(type) ==
  /\ tab.open /\ tab.state = "cycling" /\ tab.current # None
  /\ spent.decisions < MaxDecisions
  /\ spent' = [spent EXCEPT !.decisions = @ + 1]
  /\ Fetch(Post(type, tab.current))
  /\ UNCHANGED <<sse, used, handled, up, queueVars, exitTimer,
                 diskVars, agent, pastVars>>

Accept ==
  /\ Decide("accept")
  /\ tab.arrived
  /\ tab' = [tab EXCEPT !.accepted = tab.current, !.state = "saving"]

Discard == Decide("discard") /\ UNCHANGED tab

Steer(t) ==
  /\ tab.open /\ tab.steering = None /\ t \notin used
  /\ tab' = [tab EXCEPT !.steering = t]
  /\ Fetch(Post("steer", t))
  /\ used' = used \cup {t}
  /\ UNCHANGED <<sse, tabOnly>>

SteerTimeout ==
  /\ tab.open /\ tab.steering # None
  /\ tab' = [tab EXCEPT !.steering = None]
  /\ UNCHANGED <<wireVars, used, tabOnly>>

\* The response to an accept or a discard; cleanup() forgets the session.
HearAnswer(a) ==
  /\ tab.open /\ a \in answers
  /\ answers' = answers \ {a}
  /\ handled' = IF a.ok /\ tab.current # None THEN tab.current ELSE handled
  /\ tab' = CASE a.ok /\ a.type = "discard" ->
                   [tab EXCEPT !.current = None, !.state = "picking"]
              [] ~a.ok /\ a.type = "accept" ->
                   [tab EXCEPT !.accepted = None, !.state = "cycling"]
              [] a.type = "steer" /\ tab.steering = a.id ->
                   [tab EXCEPT !.steering = None]
              [] OTHER -> tab
  /\ UNCHANGED <<posts, sse, up, queueVars, exitTimer, diskVars, agent, used,
                 spent, pastVars>>

\* What a reply does to the page that hears it.
Heard(t, m) ==
  CASE m.reply = "done" /\ t.arrived /\ t.state = "generating" ->
         [t EXCEPT !.state = "cycling"]
    [] m.reply = "done" /\ ~t.arrived /\ t.state = "generating"
         /\ m.id = t.current /\ source[m.id] = "variants" ->
         [t EXCEPT !.state = "cycling", !.arrived = TRUE]
    [] m.reply = "complete" /\ m.id = t.accepted ->
         IF t.current \in {None, m.id}
         THEN [t EXCEPT !.state = "confirmed"]
         ELSE [t EXCEPT !.accepted = None]
    [] m.reply = "error" /\ m.id = t.accepted ->
         [t EXCEPT !.accepted = None, !.state = "cycling"]
    [] m.reply = "error" /\ m.id # t.accepted /\ m.id # t.steering ->
         [t EXCEPT !.state = "picking"]
    [] m.reply \in {"error", "steer_done"} /\ m.id = t.steering ->
         [t EXCEPT !.steering = None]
    [] OTHER -> t

HearReply ==
  /\ tab.linked /\ sse # <<>>
  /\ tab' = Heard(tab, Head(sse))
  /\ sse' = Tail(sse)
  /\ UNCHANGED <<posts, answers, used, tabOnly>>

\* cleanupAcceptedSession, after the bar has shown the confirmation.
Finish ==
  /\ tab.open /\ tab.state = "confirmed"
  /\ tab' = [tab EXCEPT !.state = "picking", !.current = None,
                        !.accepted = None]
  /\ UNCHANGED <<wireVars, used, tabOnly>>

\* The page goes away with what it was waiting for.
CloseTab ==
  /\ tab.open /\ spent.faults < MaxFaults
  /\ tab' = [NewTab EXCEPT !.open = FALSE, !.linked = FALSE,
                           !.revision = tab.revision]
  /\ answers' = {} /\ sse' = <<>>
  /\ exitTimer' = (exitTimer \/ tab.linked)
  /\ spent' = [spent EXCEPT !.faults = @ + 1]
  /\ UNCHANGED <<handled, posts, up, queueVars, diskVars, agent, used,
                 pastVars>>

\* The state a page enters when it finds the wrapper of session s.
Resumed(t, s) ==
  LET all == source[s] = "variants"
  IN [t EXCEPT !.current = s, !.arrived = all,
               !.state = IF all THEN "cycling" ELSE "generating"]

\* The page loads the helper's script again and resumes the first wrapper it
\* finds, unless that session is the one last decided.
OpenTab ==
  /\ ~tab.open /\ up = "up"
  /\ LET page == [NewTab EXCEPT !.revision = tab.revision]
     IN IF Wrapped = {}
        THEN tab' = page /\ handled' = None
        ELSE /\ \E s \in Wrapped :
                  tab' = IF s = handled THEN page ELSE Resumed(page, s)
             /\ UNCHANGED handled
  /\ exitTimer' = FALSE
  /\ UNCHANGED <<wireVars, up, queueVars, diskVars, agent, used, spent,
                 pastVars>>
-----------------------------------------------------------------------------
(* The helper.                                                             *)

\* POST /events: journal, queue, respond.
HandlePost(m) ==
  /\ m \in posts /\ up = "up"
  /\ posts' = posts \ {m}
  /\ snap' = [snap EXCEPT ![m.id] = IF m.type = "checkpoint"
                                    THEN Checkpointed(@, m)
                                    ELSE Requested(@, m.type)]
  /\ IF m.type = "checkpoint"
     THEN UNCHANGED <<queueVars, agent>>
     ELSE Enqueue(Event(m.type, m.id))
  /\ IF m.type \in Decisions
     THEN /\ answers' = IF tab.linked
                        THEN answers \cup {Answer(m.type, m.id, TRUE)}
                        ELSE answers
          /\ decision' = [decision EXCEPT ![m.id] = m.type]
          /\ refused' = refused \ {m.id}
          /\ clobbered' = clobbered \ {m.id}
          /\ forgotten' = forgotten \ {m.id}
     ELSE UNCHANGED <<answers, pastVars>>
  /\ UNCHANGED <<tab, handled, sse, up, exitTimer, source, used, spent>>

\* 30 s after its delivery an event that was not acknowledged is free again.
LeaseExpires(e) ==
  /\ up = "up" /\ e \in leases
  /\ Flush(queue, leases \ {e})
  /\ UNCHANGED <<tab, handled, wireVars, up, exitTimer, diskVars, used, spent,
                 pastVars>>

ExitTimerFires ==
  /\ up = "up" /\ exitTimer /\ ~tab.linked
  /\ exitTimer' = FALSE
  /\ Enqueue(Exit)
  /\ UNCHANGED <<tab, handled, wireVars, up, diskVars, used, spent, pastVars>>

\* The process ends: queue, leases and connections go with it.
Down(how) ==
  /\ up' = how
  /\ queue' = <<>> /\ leases' = {} /\ exitTimer' = FALSE
  /\ posts' = {} /\ sse' = <<>>
  /\ LET unheard == answers \cup {m \in posts : m.type \notin Unwatched}
     IN answers' = IF tab.open
                   THEN {Answer(m.type, m.id, FALSE) : m \in unheard}
                   ELSE {}
  /\ tab' = [tab EXCEPT !.linked = FALSE]
  /\ forgotten' = forgotten \cup clobbered
  /\ UNCHANGED <<handled, diskVars, used, decision, refused, clobbered>>

Crash ==
  /\ up = "up" /\ spent.faults < MaxFaults
  /\ Down("crashed")
  /\ agent' = IF agent = Parked THEN Idle ELSE agent
  /\ spent' = [spent EXCEPT !.faults = @ + 1]

\* The helper starts and queues what the journals say is pending.
Pending == {i \in Ids : snap[i].pending # None /\ snap[i].phase \notin Terminal}
\* Mutant: the queue starts empty.
StartEmpty ==
  /\ up # "up"
  /\ up' = "up" /\ queue' = <<>>
  /\ UNCHANGED <<tab, handled, wireVars, leases, exitTimer, diskVars, agent,
                 used, spent, pastVars>>
Start ==
  /\ up # "up"
  /\ up' = "up"
  /\ \E order \in [1..Cardinality(Pending) -> Pending] :
       /\ Queued(order) = Pending
       /\ queue' = [k \in DOMAIN order |->
                      Event(snap[order[k]].pending, order[k])]
  /\ UNCHANGED <<tab, handled, wireVars, leases, exitTimer, diskVars, agent,
                 used, spent, pastVars>>
-----------------------------------------------------------------------------
(* The agent.                                                              *)

agentOnly == <<tab, handled, wireVars, exitTimer, used, pastVars>>

\* GET /poll: the first free event, or a parked poll.
Poll ==
  /\ agent = Idle /\ up = "up"
  /\ IF Free(queue, leases) # {}
     THEN Deliver(queue, leases)
     ELSE agent' = Parked /\ UNCHANGED queueVars
  /\ UNCHANGED <<agentOnly, up, diskVars, spent>>

Work(type, markups, markup, reply) ==
  /\ agent.st = "working" /\ agent.type = type
  /\ source[agent.id] \in markups
  /\ source' = [source EXCEPT ![agent.id] = markup]
  /\ agent' = IF reply = None THEN agent
              ELSE [agent EXCEPT !.st = "reply", !.reply = reply]
  /\ UNCHANGED <<agentOnly, up, queueVars, snap, spent>>

\* live-wrap.mjs
Wrap == Work("generate", Markup \ {"scaffold", "variants"}, "scaffold", None)
WriteVariants == Work("generate", {"scaffold", "variants"}, "variants", "done")
\* live-accept.mjs, run by the poll before it prints the event
AcceptPlain == Work("accept", {"variants"}, "accepted", "complete")
AcceptCarbonize == Work("accept", {"variants"}, "carbonize", "carbonize")
AcceptMissing ==
  \E m \in Markup \ {"variants"} : Work("accept", {m}, m, "unhandled")
DiscardWrapped == Work("discard", {"scaffold", "variants"}, "original",
                       "discarded")
DiscardMissing ==
  \E m \in Markup \ {"scaffold", "variants"} : Work("discard", {m}, m, "error")
\* The agent or the script gives up.
GiveUp ==
  \E type \in {"generate", "accept", "discard"} :
    agent.type = type /\ \E m \in Markup : Work(type, {m}, m, "error")
AnswerSteer ==
  /\ agent.st = "working" /\ agent.type = "steer"
  /\ \E reply \in {"steer_done", "error"} :
       agent' = [agent EXCEPT !.st = "reply", !.reply = reply]
  /\ UNCHANGED <<agentOnly, up, queueVars, diskVars, spent>>

\* POST /poll
Reply ==
  /\ agent.st = "reply" /\ up = "up"
  /\ LET id == agent.id
         recorded == Named(id) # {} \/ snap[id].phase \notin Terminal
     IN /\ Acknowledge(id)
        /\ snap' = IF recorded
                   THEN [snap EXCEPT ![id] = Replied(@, agent.reply)]
                   ELSE snap
        /\ sse' = IF tab.linked
                  THEN Append(sse, [reply |-> agent.reply, id |-> id])
                  ELSE sse
        /\ refused' = IF agent.type \in Decisions
                         /\ agent.reply \in {"unhandled", "error"}
                      THEN refused \cup {id} ELSE refused
        /\ clobbered' = IF recorded /\ snap[id].pending \in Decisions
                           /\ snap[id].pending # agent.type
                        THEN clobbered \cup {id} ELSE clobbered
        /\ forgotten' = IF /\ Named(id) # {}
                           /\ queue[Least(Named(id))].type \in Decisions
                           /\ queue[Least(Named(id))].type # agent.type
                        THEN forgotten \cup {id} ELSE forgotten
        /\ agent' = IF agent.reply = "carbonize"
                    THEN [agent EXCEPT !.st = "cleanup"] ELSE Idle
  /\ UNCHANGED <<tab, handled, posts, answers, up, exitTimer, source, used,
                 spent, decision>>

\* The agent folds the accepted variant into the stylesheets.
CleanUp ==
  /\ agent.st = "cleanup"
  /\ source' = [source EXCEPT ![agent.id] = "accepted"]
  /\ agent' = [agent EXCEPT !.st = "reply", !.reply = "complete"]
  /\ UNCHANGED <<agentOnly, up, queueVars, snap, spent>>

\* live-complete.mjs without a helper writes the journal itself.
CompleteOffline ==
  /\ agent.st = "reply" /\ agent.reply \in {"complete", "discarded"}
  /\ up # "up"
  /\ snap' = [snap EXCEPT ![agent.id] = Replied(@, agent.reply)]
  /\ agent' = Idle
  /\ UNCHANGED <<agentOnly, up, queueVars, source, spent>>

\* On exit the agent stops the helper.
StopHelper ==
  /\ agent.st = "working" /\ agent.type = "exit"
  /\ IF up = "up"
     THEN Down("stopped")
     ELSE UNCHANGED <<agentOnly, up, queueVars, diskVars>>
  /\ agent' = Idle
  /\ UNCHANGED spent

\* The chat is interrupted: poll, script or edit ends where it is.
Interrupt ==
  /\ agent # Idle /\ spent.faults < MaxFaults
  /\ agent' = Idle
  /\ spent' = [spent EXCEPT !.faults = @ + 1]
  /\ UNCHANGED <<agentOnly, up, queueVars, diskVars>>
-----------------------------------------------------------------------------
Tab == \/ \E s \in Sessions : Go(s)
       \/ \E t \in Steers : Steer(t)
       \/ VariantsMount \/ SendCheckpoint \/ Accept
       \/ Discard \/ SteerTimeout \/ HearReply \/ Finish \/ CloseTab \/ OpenTab
       \/ \E a \in answers : HearAnswer(a)

Helper == \/ \E m \in posts : HandlePost(m)
          \/ \E e \in leases : LeaseExpires(e)
          \/ ExitTimerFires \/ Crash \/ Start

Edit ==
  /\ agent.st \in {"working", "cleanup"}
  /\ \/ Wrap \/ WriteVariants \/ AcceptPlain \/ AcceptCarbonize
     \/ AcceptMissing \/ DiscardWrapped \/ DiscardMissing \/ GiveUp
     \/ AnswerSteer \/ CleanUp

Agent == Poll \/ Edit \/ Reply \/ CompleteOffline \/ StopHelper \/ Interrupt

Next == Tab \/ Helper \/ Agent

Spec == Init /\ [][Next]_vars

\* The agent keeps polling and finishes what it holds, leases run out, and a
\* helper that crashed is started again.
Fairness == /\ WF_vars(Poll) /\ WF_vars(Edit) /\ WF_vars(Reply)
            /\ WF_vars(StopHelper)
            /\ \A e \in Events : WF_vars(LeaseExpires(e))
            /\ WF_vars(up = "crashed" /\ Start)
FairSpec == Spec /\ Fairness
-----------------------------------------------------------------------------
(* Properties.                                                             *)

Snapshots ==
  [phase : {"new"} \cup {RequestPhase[t] : t \in DOMAIN RequestPhase}
             \cup {ReplyPhase[r] : r \in DOMAIN ReplyPhase} \cup TabStates,
   pending : DOMAIN RequestPhase \cup {None},
   revision : 0..MaxRevision]

Tabs ==
  [open : BOOLEAN, linked : BOOLEAN, state : TabStates,
   current : Sessions \cup {None}, arrived : BOOLEAN,
   accepted : Sessions \cup {None}, revision : 0..MaxRevision,
   steering : Steers \cup {None}]
Posts ==
  [type : DOMAIN RequestPhase \cup {"checkpoint"}, id : Ids,
   phase : TabStates \cup {None}, revision : 0..MaxRevision]
Answers == [type : Decisions \cup {"steer"}, id : Ids, ok : BOOLEAN]
Replies == [reply : DOMAIN ReplyPhase, id : Ids]
Agents ==
  [st : {"idle", "parked", "working", "reply", "cleanup"},
   type : DOMAIN RequestPhase \cup {"exit", None},
   id : Ids \cup {None}, reply : DOMAIN ReplyPhase \cup {None}]

\* The types of the variables; what is out on a lease is in the queue.
TypeOK ==
  /\ tab \in Tabs /\ handled \in Sessions \cup {None}
  /\ posts \subseteq Posts /\ answers \subseteq Answers /\ sse \in Seq(Replies)
  /\ up \in {"up", "crashed", "stopped"}
  /\ queue \in Seq(Events \cup {Exit}) /\ leases \subseteq Events
  /\ leases \subseteq Queued(queue)
  /\ exitTimer \in BOOLEAN
  /\ snap \in [Ids -> Snapshots] /\ source \in [Sessions -> Markup]
  /\ agent \in Agents
  /\ used \subseteq Ids
  /\ spent \in [faults : 0..MaxFaults, decisions : 0..MaxDecisions]
  /\ decision \in [Sessions -> Decisions \cup {None}]
  /\ {refused, clobbered, forgotten} \subseteq SUBSET Sessions

\* The decision on session s was confirmed to the user, is not carried out
\* and was not refused.
Owed(s) == decision[s] # None /\ source[s] = "variants" /\ s \notin refused

Kept(s) == IF up = "up" THEN Event(decision[s], s) \in Queued(queue)
           ELSE snap[s].pending = decision[s]

\* An accept or discard the helper has confirmed stays queued, and in the
\* journal while there is no helper, until it is carried out or refused:
\* through expired leases, interrupted agents, replies to other events of the
\* session, and restarts.  The one exception is the agent's late
\* reply to an earlier request of the session: it empties the journal's one
\* pending slot, and after a restart it acknowledges the decision itself.
DecisionNotLost == \A s \in Sessions : Owed(s) => Kept(s) \/ s \in forgotten

\* The tab confirms a session only once its source holds the accepted variant.
ConfirmedIsSaved ==
  \A s \in Sessions :
    tab.state # "confirmed" /\ tab'.state = "confirmed"
      /\ tab.accepted = s => source[s] = "accepted"

\* Both ends of a decision: the helper does not lose what it confirmed, and
\* the tab does not confirm what the source does not have.
DecisionsAreKept ==
  DecisionNotLost /\ [][DecisionNotLost' /\ ConfirmedIsSaved]_vars

\* The queue, its leases and the journals implement WorkQueue.  An exit
\* message is not a request: it has no id and leaves on delivery.
Helps == INSTANCE WorkQueue WITH
          Jobs  <- Events,
          todo  <- Queued(queue) \ {Exit},
          lent  <- leases,
          filed <- {Event(snap[i].pending, i) :
                      i \in {j \in Ids : snap[j].pending # None}},
          open  <- up = "up"

\* A request the helper has taken is held until an answer finishes it, goes
\* to one poll at a time, and the last one journaled for an id comes back
\* when the helper is started again.
KeepsItsWork == Helps!Spec

\* Once the helper has journaled a request for variants, they are written or
\* an error is reported, whatever crashes and interruptions come between,
\* unless the user ends live mode.
RequestedVariantsArrive ==
  \A s \in Sessions :
    snap[s].pending = "generate"
      ~> \/ source[s] \notin {"original", "scaffold"}
         \/ snap[s].phase = "agent_error" \/ up = "stopped"
=============================================================================

------------------------- MODULE LiveSessionsProofs -------------------------
(* Theorems about LiveSessions, for any finite sets of session and steer   *)
(* ids and any bounds on faults, checkpoints and decisions.                *)
EXTENDS LiveSessions, FiniteSetTheorems, SequenceTheorems,
        WellFoundedInduction, TLAPS

\* What the tab can ask for: decisions and variants of a session, and steer
\* requests under ids of their own.
Requests == {e \in Events : e.id \in IF e.type = "steer" THEN Steers
                                                          ELSE Sessions}

\* Every POST on its way is a request or a checkpoint of the tab's state.
PostsAreRequests ==
  \A m \in posts : IF m.type = "checkpoint"
                   THEN m.phase \in TabStates
                   ELSE Event(m.type, m.id) \in Requests

\* The queue holds requests and exit messages, each request once, and is
\* empty while there is no helper.
Once(q) == \A i, j \in DOMAIN q : q[i] = q[j] /\ q[i] # Exit => i = j
\* A request for variants comes before whatever else is queued for its session.
InOrder(q) ==
  \A i, j \in DOMAIN q : i < j /\ q[j].type = "generate" => q[i].id # q[j].id
QueueIsSound ==
  /\ Queued(queue) \subseteq Requests \cup {Exit}
  /\ Once(queue)
  /\ up # "up" => queue = <<>>

\* What a journal has pending is a request, and its session is not over: so a
\* restart queues every full slot.
JournalsAreSound ==
  \A i \in Ids : snap[i].pending # None
                   => /\ Event(snap[i].pending, i) \in Requests
                      /\ snap[i].phase \notin Terminal

\* The agent has in its hands what the helper gave it, and replies to it.
HandsAreSound ==
  /\ agent.st = "working" => Event(agent.type, agent.id) \in Requests \cup {Exit}
  /\ agent.st = "reply" => /\ Event(agent.type, agent.id) \in Requests
                           /\ agent.reply \in DOMAIN ReplyPhase
  /\ agent.st = "cleanup" => Event(agent.type, agent.id) \in Requests

IInv == /\ TypeOK /\ PostsAreRequests /\ QueueIsSound
        /\ JournalsAreSound /\ HandsAreSound
-----------------------------------------------------------------------------
(* Sequences and their least positions.                                    *)

LEMMA LeastIsMember ==
  ASSUME NEW S \in SUBSET Nat, S # {}
  PROVE  Least(S) \in S /\ \A j \in S : Least(S) <= j
<1> DEFINE R == OpToRel(<, Nat)
<1>1. PICK i \in S : \A j \in S : ~ (<<j, i>> \in R)
  BY NatLessThanWellFounded, WFMin
<1>2. \A j \in S : ~ (j < i)
  BY <1>1 DEF OpToRel
<1>3. \E k \in S : \A j \in S : k <= j
  BY <1>2
<1> QED BY <1>3 DEF Least

LEMMA DropAtProperties ==
  ASSUME NEW S, NEW q \in Seq(S), NEW i \in 1..Len(q)
  PROVE  /\ DropAt(q, i) \in Seq(S)
         /\ Len(DropAt(q, i)) = Len(q) - 1
         /\ \A j \in 1..(Len(q) - 1) :
              DropAt(q, i)[j] = IF j < i THEN q[j] ELSE q[j + 1]
<1> DEFINE a == SubSeq(q, 1, i - 1)  b == SubSeq(q, i + 1, Len(q))
<1>1. /\ a \in Seq(S) /\ Len(a) = i - 1
      /\ \A j \in 1..(i - 1) : a[j] = q[j]
  BY SubSeqProperties, ElementOfSeq
<1>2. /\ b \in Seq(S) /\ Len(b) = Len(q) - i
      /\ \A j \in 1..(Len(q) - i) : b[j] = q[j + i]
  BY SubSeqProperties, ElementOfSeq
<1>3. DropAt(q, i) = a \o b
  BY DEF DropAt
<1> HIDE DEF a, b
<1>4. /\ a \o b \in Seq(S)
      /\ Len(a \o b) = Len(a) + Len(b)
      /\ \A j \in 1..(Len(a) + Len(b)) :
           (a \o b)[j] = IF j <= Len(a) THEN a[j] ELSE b[j - Len(a)]
  BY <1>1, <1>2, ConcatProperties
<1>5. Len(a) + Len(b) = Len(q) - 1
  BY <1>1, <1>2
<1>6. ASSUME NEW j \in 1..(Len(q) - 1)
      PROVE  (a \o b)[j] = IF j < i THEN q[j] ELSE q[j + 1]
  <2>1. CASE j < i
    BY <1>1, <1>4, <1>5, <2>1
  <2>2. CASE ~ (j < i)
    <3>1. j - (i - 1) \in 1..(Len(q) - i) /\ (j - (i - 1)) + i = j + 1
      BY <2>2
    <3>2. b[j - (i - 1)] = q[j + 1]
      BY <1>2, <3>1
    <3> QED BY <1>1, <1>4, <1>5, <2>2, <3>2
  <2> QED BY <2>1, <2>2
<1> QED BY <1>3, <1>4, <1>5, <1>6

\* Dropping a position of a queue loses what is there and nothing else.
LEMMA DropAtQueued ==
  ASSUME NEW S, NEW q \in Seq(S), NEW i \in 1..Len(q)
  PROVE  /\ Queued(DropAt(q, i)) \subseteq Queued(q)
         /\ Queued(q) \ {q[i]} \subseteq Queued(DropAt(q, i))
         /\ Once(q) => Once(DropAt(q, i))
         /\ Once(q) /\ q[i] # Exit => q[i] \notin Queued(DropAt(q, i))
         /\ InOrder(q) => InOrder(DropAt(q, i))
<1> DEFINE d == DropAt(q, i)
<1>0. /\ d \in Seq(S) /\ Len(d) = Len(q) - 1
      /\ \A j \in 1..(Len(q) - 1) : d[j] = IF j < i THEN q[j] ELSE q[j + 1]
  BY DropAtProperties
<1> HIDE DEF d
<1>1. /\ DOMAIN q = 1..Len(q) /\ DOMAIN d = 1..(Len(q) - 1)
      /\ Len(q) \in Nat
      /\ \A j \in 1..(Len(q) - 1) : d[j] = IF j < i THEN q[j] ELSE q[j + 1]
  BY <1>0, LenProperties
<1> USE DEF Queued
<1>2. Queued(d) \subseteq Queued(q)
  <2> SUFFICES ASSUME NEW j \in 1..(Len(q) - 1) PROVE d[j] \in Queued(q)
    BY <1>1
  <2> QED BY <1>1
<1>3. Queued(q) \ {q[i]} \subseteq Queued(d)
  <2> SUFFICES ASSUME NEW j \in 1..Len(q), q[j] # q[i] PROVE q[j] \in Queued(d)
    BY <1>1
  <2>1. CASE j < i
    BY <1>1, <2>1
  <2>2. CASE j > i
    <3>1. j - 1 \in 1..(Len(q) - 1) /\ ~ (j - 1 < i) /\ (j - 1) + 1 = j
      BY <2>2
    <3>2. d[j - 1] = q[j]
      BY <1>1, <3>1
    <3> QED BY <1>1, <3>1, <3>2
  <2> QED BY <2>1, <2>2
<1>4. ASSUME Once(q) PROVE Once(d)
  <2> SUFFICES ASSUME NEW j \in 1..(Len(q) - 1), NEW k \in 1..(Len(q) - 1),
                      d[j] = d[k], d[j] # Exit
               PROVE  j = k
    BY <1>1 DEF Once
  <2> DEFINE p(n) == IF n < i THEN n ELSE n + 1
  <2>1. /\ p(j) \in DOMAIN q /\ p(k) \in DOMAIN q
        /\ d[j] = q[p(j)] /\ d[k] = q[p(k)]
    BY <1>1
  <2>2. p(j) = p(k)
    <3> HIDE DEF p
    <3> QED BY <1>4, <2>1 DEF Once
  <2> QED BY <2>2
<1>5. ASSUME Once(q), q[i] # Exit PROVE q[i] \notin Queued(d)
  <2> SUFFICES ASSUME NEW j \in 1..(Len(q) - 1), d[j] = q[i] PROVE FALSE
    BY <1>1
  <2>1. CASE j < i
    BY <1>1, <1>5, <2>1 DEF Once
  <2>2. CASE ~ (j < i)
    <3>1. j + 1 \in DOMAIN q /\ q[j + 1] = q[i] /\ j + 1 # i
      BY <1>1, <2>2
    <3> QED BY <1>1, <1>5, <3>1 DEF Once
  <2> QED BY <2>1, <2>2
<1>6. ASSUME InOrder(q) PROVE InOrder(d)
  <2> SUFFICES ASSUME NEW j \in 1..(Len(q) - 1), NEW k \in 1..(Len(q) - 1),
                      j < k, d[k].type = "generate"
               PROVE  d[j].id # d[k].id
    BY <1>1 DEF InOrder
  <2> DEFINE p(n) == IF n < i THEN n ELSE n + 1
  <2>1. /\ p(j) \in DOMAIN q /\ p(k) \in DOMAIN q /\ p(j) < p(k)
        /\ d[j] = q[p(j)] /\ d[k] = q[p(k)]
    BY <1>1
  <2> HIDE DEF p
  <2> QED BY <1>6, <2>1 DEF InOrder
<1> QED BY <1>2, <1>3, <1>4, <1>5, <1>6 DEF d

LEMMA AppendQueued ==
  ASSUME NEW S, NEW q \in Seq(S), NEW e \in S
  PROVE  /\ Append(q, e) \in Seq(S)
         /\ Queued(Append(q, e)) = Queued(q) \cup {e}
         /\ Once(q) /\ (e = Exit \/ e \notin Queued(q)) => Once(Append(q, e))
         /\ InOrder(q) /\ (e.type = "generate" => \A f \in Queued(q) : f.id # e.id)
              => InOrder(Append(q, e))
<1> DEFINE a == Append(q, e)
<1>1. /\ a \in Seq(S) /\ DOMAIN a = 1..(Len(q) + 1)
      /\ DOMAIN q = 1..Len(q) /\ Len(q) \in Nat
      /\ \A j \in 1..(Len(q) + 1) : a[j] = IF j <= Len(q) THEN q[j] ELSE e
  OBVIOUS
<1> HIDE DEF a
<1>2. Queued(a) = Queued(q) \cup {e}
  BY <1>1 DEF Queued
<1>3. Once(q) /\ (e = Exit \/ e \notin Queued(q)) => Once(a)
  BY <1>1 DEF Once, Queued
<1>4. InOrder(q) /\ (e.type = "generate" => \A f \in Queued(q) : f.id # e.id)
        => InOrder(a)
  BY <1>1 DEF InOrder, Queued
<1> QED BY <1>1, <1>2, <1>3, <1>4 DEF a
-----------------------------------------------------------------------------
(* The queue of the helper.                                                *)

LEMMA ExitIsNoRequest == Exit \notin Events /\ Exit \notin Requests
  BY IdsAssumption DEF Exit, Event, Events, Requests, Ids

\* A step lends at most one more of the requests q holds, beyond l.
Lends(q, l) ==
  \/ leases' = l
  \/ \E e \in (Queued(q) \ {Exit}) \ l : leases' = l \cup {e}

LEMMA Delivered ==
  ASSUME NEW q \in Seq(Events \cup {Exit}), NEW l \in SUBSET Events,
         Once(q), l \subseteq Queued(q), Queued(q) \subseteq Requests \cup {Exit},
         Free(q, l) # {}, Deliver(q, l)
  PROVE  /\ queue' \in Seq(Events \cup {Exit})
         /\ Queued(queue') \ {Exit} = Queued(q) \ {Exit}
         /\ Queued(queue') \subseteq Queued(q)
         /\ Once(queue')
         /\ leases' \subseteq Events /\ leases' \subseteq Queued(queue')
         /\ InOrder(q) => InOrder(queue')
         /\ Lends(q, l)
         /\ \E e \in Queued(q) : agent' = Hands("working", e, None)
<1> DEFINE i == Least(Free(q, l))
<1>1. i \in 1..Len(q) /\ q[i] \notin l
  <2>1. Free(q, l) \in SUBSET Nat
    BY DEF Free
  <2>2. i \in Free(q, l)
    BY <2>1, LeastIsMember
  <2> QED BY <2>2 DEF Free
<1>2. q[i] \in Queued(q)
  BY <1>1 DEF Queued
<1>3. /\ agent' = Hands("working", q[i], None)
      /\ IF q[i] = Exit
         THEN queue' = DropAt(q, i) /\ leases' = l
         ELSE queue' = q /\ leases' = l \cup {q[i]}
  BY DEF Deliver
<1> HIDE DEF i
<1>4. CASE q[i] = Exit
  <2>1. /\ queue' \in Seq(Events \cup {Exit})
        /\ Queued(queue') \subseteq Queued(q)
        /\ Queued(q) \ {q[i]} \subseteq Queued(queue')
        /\ Once(queue')
        /\ InOrder(q) => InOrder(queue')
    BY <1>1, <1>3, <1>4, DropAtProperties, DropAtQueued
  <2> QED BY <1>2, <1>3, <1>4, <2>1, ExitIsNoRequest DEF Lends
<1>5. CASE q[i] # Exit
  BY <1>1, <1>2, <1>3, <1>5, ExitIsNoRequest DEF Lends, Requests
<1> QED BY <1>4, <1>5

LEMMA Flushed ==
  ASSUME NEW q \in Seq(Events \cup {Exit}), NEW l \in SUBSET Events,
         Once(q), l \subseteq Queued(q), Queued(q) \subseteq Requests \cup {Exit},
         Flush(q, l)
  PROVE  /\ queue' \in Seq(Events \cup {Exit})
         /\ Queued(queue') \ {Exit} = Queued(q) \ {Exit}
         /\ Queued(queue') \subseteq Queued(q)
         /\ Once(queue')
         /\ leases' \subseteq Events /\ leases' \subseteq Queued(queue')
         /\ InOrder(q) => InOrder(queue')
         /\ Lends(q, l)
         /\ \/ UNCHANGED agent
            \/ \E e \in Queued(q) : agent' = Hands("working", e, None)
<1>1. CASE agent = Parked /\ Free(q, l) # {}
  <2>1. Deliver(q, l)
    BY <1>1 DEF Flush
  <2> QED BY <1>1, <2>1, Delivered
<1>2. CASE ~ (agent = Parked /\ Free(q, l) # {})
  BY <1>2 DEF Flush, Lends
<1> QED BY <1>1, <1>2

LEMMA Enqueued ==
  ASSUME IInv, NEW e \in Requests \cup {Exit}, Enqueue(e)
  PROVE  /\ queue' \in Seq(Events \cup {Exit})
         /\ Queued(queue') \ {Exit} = (Queued(queue) \cup {e}) \ {Exit}
         /\ Queued(queue') \subseteq Requests \cup {Exit}
         /\ Once(queue')
         /\ leases' \subseteq Events /\ leases' \subseteq Queued(queue')
         /\ \/ leases' = leases
            \/ \E f \in ((Queued(queue) \cup {e}) \ {Exit}) \ leases :
                 leases' = leases \cup {f}
         /\ \/ UNCHANGED agent
            \/ \E f \in Queued(queue) \cup {e} : agent' = Hands("working", f, None)
         /\ InOrder(queue)
              /\ (e.type = "generate" => \A f \in Queued(queue) : f.id # e.id)
              => InOrder(queue')
<1>1. /\ queue \in Seq(Events \cup {Exit}) /\ leases \in SUBSET Events
      /\ leases \subseteq Queued(queue) /\ Once(queue)
      /\ Queued(queue) \subseteq Requests \cup {Exit}
  BY DEF IInv, TypeOK, QueueIsSound
<1>2. CASE e # Exit /\ e \in Queued(queue)
  BY <1>1, <1>2 DEF Enqueue, queueVars
<1>3. CASE ~ (e # Exit /\ e \in Queued(queue))
  <2> DEFINE a == Append(queue, e)
  <2>1. Flush(a, leases)
    BY <1>3 DEF Enqueue
  <2>2. e \in Events \cup {Exit}
    BY DEF Requests
  <2>3. /\ a \in Seq(Events \cup {Exit}) /\ Once(a)
        /\ Queued(a) = Queued(queue) \cup {e}
        /\ InOrder(queue)
             /\ (e.type = "generate" => \A f \in Queued(queue) : f.id # e.id)
             => InOrder(a)
    BY <1>1, <1>3, <2>2, AppendQueued
  <2> HIDE DEF a
  <2>4. /\ leases \subseteq Queued(a) /\ Queued(a) \subseteq Requests \cup {Exit}
    BY <1>1, <2>3
  <2>5. /\ queue' \in Seq(Events \cup {Exit})
        /\ Queued(queue') \ {Exit} = Queued(a) \ {Exit}
        /\ Queued(queue') \subseteq Queued(a)
        /\ Once(queue')
        /\ leases' \subseteq Events /\ leases' \subseteq Queued(queue')
        /\ Lends(a, leases)
        /\ InOrder(a) => InOrder(queue')
        /\ \/ UNCHANGED agent
           \/ \E f \in Queued(a) : agent' = Hands("working", f, None)
    BY <1>1, <2>1, <2>3, <2>4, Flushed
  <2> QED BY <2>3, <2>4, <2>5 DEF Lends
<1> QED BY <1>2, <1>3

LEMMA Acknowledged ==
  ASSUME IInv, NEW id \in Ids, Acknowledge(id)
  PROVE  /\ queue' \in Seq(Events \cup {Exit})
         /\ Queued(queue') \subseteq Queued(queue)
         /\ Once(queue')
         /\ leases' \subseteq Events /\ leases' \subseteq Queued(queue')
         /\ IF Named(id) = {}
            THEN /\ \A e \in Queued(queue) : e.id # id
                 /\ UNCHANGED queueVars
            ELSE \E e \in Queued(queue) \ {Exit} :
                   /\ e.id = id /\ e = queue[Least(Named(id))]
                   /\ Queued(queue') = Queued(queue) \ {e}
                   /\ leases' = leases \ {e}
         /\ InOrder(queue) =>
              /\ InOrder(queue')
              /\ Event("generate", id) \notin Queued(queue')
<1>1. /\ queue \in Seq(Events \cup {Exit}) /\ leases \in SUBSET Events
      /\ leases \subseteq Queued(queue) /\ Once(queue)
  BY DEF IInv, TypeOK, QueueIsSound
<1>2. CASE Named(id) = {}
  BY <1>1, <1>2 DEF Acknowledge, queueVars, Named, Queued, Event
<1>3. CASE Named(id) # {}
  <2> DEFINE i == Least(Named(id))
  <2>1. /\ i \in 1..Len(queue) /\ queue[i].id = id
        /\ \A j \in 1..Len(queue) : queue[j].id = id => i <= j
    <3>1. Named(id) \in SUBSET Nat
      BY <1>1 DEF Named
    <3>2. i \in Named(id) /\ \A j \in Named(id) : i <= j
      BY <1>3, <3>1, LeastIsMember
    <3> QED BY <1>1, <3>2 DEF Named
  <2>2. queue' = DropAt(queue, i) /\ leases' = leases \ {queue[i]}
    BY <1>3 DEF Acknowledge
  <2> HIDE DEF i
  <2>3. queue[i] # Exit /\ queue[i] \in Queued(queue)
    BY <1>1, <2>1, IdsAssumption DEF Exit, Event, Ids, Queued
  <2>4. /\ queue' \in Seq(Events \cup {Exit}) /\ Once(queue')
        /\ Queued(queue') \subseteq Queued(queue)
        /\ Queued(queue) \ {queue[i]} \subseteq Queued(queue')
        /\ queue[i] \notin Queued(queue')
        /\ InOrder(queue) => InOrder(queue')
    BY <1>1, <2>1, <2>2, <2>3, DropAtProperties, DropAtQueued
  <2>5. Queued(queue') = Queued(queue) \ {queue[i]}
    BY <2>4
  <2>6. leases' \subseteq Events /\ leases' \subseteq Queued(queue')
    BY <1>1, <2>2, <2>5
  <2>7. InOrder(queue) => Event("generate", id) \notin Queued(queue')
    <3> SUFFICES ASSUME InOrder(queue), Event("generate", id) \in Queued(queue')
                 PROVE  FALSE
      OBVIOUS
    <3>1. Event("generate", id) \in Queued(queue) \ {queue[i]}
      BY <2>5
    <3>2. PICK j \in 1..Len(queue) : /\ queue[j] = Event("generate", id)
                                     /\ queue[j] # queue[i]
      BY <1>1, <3>1 DEF Queued
    <3>3. i < j /\ queue[j].type = "generate" /\ queue[i].id = queue[j].id
      BY <2>1, <3>2 DEF Event
    <3> QED BY <1>1, <2>1, <3>3 DEF InOrder
  <2> QED BY <1>3, <2>1, <2>2, <2>3, <2>4, <2>5, <2>6, <2>7 DEF i
<1> QED BY <1>2, <1>3
-----------------------------------------------------------------------------
(* The invariant.                                                          *)

LEMMA RequestTypes ==
  DOMAIN RequestPhase = {"generate", "accept", "discard", "steer"}
  BY DEF RequestPhase

LEMMA IInvInit == Init => IInv
<1> SUFFICES ASSUME Init PROVE IInv
  OBVIOUS
<1>1. tab \in Tabs
  BY BoundsAssumption DEF Init, NewTab, Tabs, TabStates
<1>2. snap \in [Ids -> Snapshots]
  BY BoundsAssumption DEF Init, BaseSnapshot, Snapshots
<1>3. agent \in Agents
  BY DEF Init, Idle, Hands, Event, Agents
<1>4. spent \in [faults : 0..MaxFaults, decisions : 0..MaxDecisions]
  BY BoundsAssumption DEF Init
<1>5. TypeOK
  <2>1. sse \in Seq(Replies) /\ queue \in Seq(Events \cup {Exit})
    BY EmptySeq DEF Init
  <2>2. source \in [Sessions -> Markup]
    BY DEF Init, Markup
  <2>3. /\ decision \in [Sessions -> Decisions \cup {None}]
        /\ {refused, clobbered, forgotten} \subseteq SUBSET Sessions
    BY DEF Init
  <2> QED BY <1>1, <1>2, <1>3, <1>4, <2>1, <2>2, <2>3 DEF Init, TypeOK
<1>6. PostsAreRequests /\ QueueIsSound
  BY DEF Init, PostsAreRequests, QueueIsSound, Queued, Once
<1>7. JournalsAreSound /\ HandsAreSound
  BY DEF Init, JournalsAreSound, HandsAreSound, BaseSnapshot, Idle, Hands
<1> QED BY <1>5, <1>6, <1>7 DEF IInv

\* A fetch of the tab either goes out or fails at once.
LEMMA Fetched ==
  ASSUME IInv, NEW m, Fetch(m),
         m \in Posts,
         IF m.type = "checkpoint" THEN m.phase \in TabStates
                                  ELSE Event(m.type, m.id) \in Requests
  PROVE  /\ posts' \subseteq Posts /\ answers' \subseteq Answers
         /\ PostsAreRequests'
<1> USE DEF IInv, TypeOK
<1>1. CASE tab.linked
  BY <1>1 DEF Fetch, PostsAreRequests
<1>2. CASE ~tab.linked
  <2>1. m.type \notin Unwatched => m.type \in Decisions \cup {"steer"}
    BY RequestTypes DEF Posts, Unwatched, Decisions
  <2>2. m.type \notin Unwatched => Answer(m.type, m.id, FALSE) \in Answers
    BY <2>1 DEF Answer, Answers, Posts
  <2> QED BY <1>2, <2>2 DEF Fetch, PostsAreRequests
<1> QED BY <1>1, <1>2

LEMMA PostIsTyped ==
  ASSUME NEW type \in DOMAIN RequestPhase, NEW id \in Ids,
         id \in IF type = "steer" THEN Steers ELSE Sessions
  PROVE  /\ Post(type, id) \in Posts
         /\ Post(type, id).type = type /\ type # "checkpoint"
         /\ Event(Post(type, id).type, Post(type, id).id) \in Requests
  BY BoundsAssumption DEF Posts, Post, Event, Events, Requests, RequestPhase, Ids

\* What the actions of the tab leave alone stays sound.
LEMMA TabSoundness ==
  ASSUME IInv, UNCHANGED <<up, queueVars, diskVars, agent>>
  PROVE  QueueIsSound' /\ JournalsAreSound' /\ HandsAreSound'
  BY DEF IInv, QueueIsSound, JournalsAreSound, HandsAreSound, queueVars,
         diskVars, Queued, Once

\* Every action of the tab preserves the invariant.
LEMMA TabPreserves == IInv /\ Tab => IInv'
<1> SUFFICES ASSUME IInv, Tab PROVE IInv'
  OBVIOUS
<1> USE DEF tabOnly, wireVars, queueVars, diskVars, pastVars
<1> DEFINE Posted == posts' \subseteq Posts
           Answered == answers' \subseteq Answers
<1>1. ASSUME NEW s \in Sessions, Go(s) PROVE IInv'
  <2>1. Posted /\ Answered /\ PostsAreRequests'
    BY <1>1, Fetched, PostIsTyped DEF Go, Ids, RequestPhase
  <2>2. tab' \in Tabs /\ used' \subseteq Ids
    BY <1>1 DEF Go, IInv, TypeOK, Tabs, TabStates, Ids
  <2>3. TypeOK'
    BY <1>1, <2>1, <2>2 DEF Go, IInv, TypeOK, Queued
  <2> QED BY <1>1, <2>1, <2>3, TabSoundness DEF Go, IInv
<1>2. ASSUME NEW t \in Steers, Steer(t) PROVE IInv'
  <2>1. Posted /\ Answered /\ PostsAreRequests'
    BY <1>2, Fetched, PostIsTyped DEF Steer, Ids, RequestPhase
  <2>2. tab' \in Tabs /\ used' \subseteq Ids
    BY <1>2 DEF Steer, IInv, TypeOK, Tabs, Ids
  <2>3. TypeOK'
    BY <1>2, <2>1, <2>2 DEF Steer, IInv, TypeOK, Queued
  <2> QED BY <1>2, <2>1, <2>3, TabSoundness DEF Steer, IInv
<1>3. CASE VariantsMount
  <2>1. tab' \in Tabs
    BY <1>3 DEF VariantsMount, Tabs, IInv, TypeOK, TabStates
  <2>2. TypeOK'
    BY <1>3, <2>1 DEF VariantsMount, IInv, TypeOK, Queued
  <2> QED BY <1>3, <2>2, TabSoundness
          DEF VariantsMount, IInv, PostsAreRequests
<1>4. CASE SendCheckpoint
  <2> DEFINE m == [type |-> "checkpoint", id |-> tab.current,
                   phase |-> tab.state, revision |-> tab.revision + 1]
  <2>1. /\ m \in Posts
        /\ m.type = "checkpoint" /\ m.phase \in TabStates
        /\ tab.revision + 1 \in 0..MaxRevision
    BY <1>4, BoundsAssumption DEF SendCheckpoint, IInv, TypeOK, Tabs, Posts, Ids
  <2>2. Fetch(m)
    BY <1>4 DEF SendCheckpoint
  <2> HIDE DEF m
  <2>3. Posted /\ Answered /\ PostsAreRequests'
    BY <2>1, <2>2, Fetched
  <2>4. tab' \in Tabs
    BY <1>4, <2>1 DEF SendCheckpoint, IInv, TypeOK, Tabs
  <2>5. TypeOK'
    BY <1>4, <2>3, <2>4 DEF SendCheckpoint, IInv, TypeOK, Queued
  <2> QED BY <1>4, <2>3, <2>5, TabSoundness DEF SendCheckpoint, IInv
<1>5. ASSUME NEW type \in Decisions, Decide(type)
      PROVE  /\ Posted /\ Answered /\ PostsAreRequests'
             /\ tab.current \in Sessions
             /\ spent' \in [faults : 0..MaxFaults, decisions : 0..MaxDecisions]
             /\ UNCHANGED <<sse, used, handled, up, queueVars, exitTimer,
                            diskVars, agent, pastVars>>
  <2>1. tab.current \in Sessions
    BY <1>5 DEF Decide, IInv, TypeOK, Tabs
  <2>2. Posted /\ Answered /\ PostsAreRequests'
    BY <1>5, <2>1, Fetched, PostIsTyped DEF Decide, Ids, RequestPhase, Decisions
  <2>3. spent' \in [faults : 0..MaxFaults, decisions : 0..MaxDecisions]
    BY <1>5, BoundsAssumption DEF Decide, IInv, TypeOK
  <2> QED BY <1>5, <2>1, <2>2, <2>3 DEF Decide
<1>6. CASE Accept
  <2>1. /\ Posted /\ Answered /\ PostsAreRequests'
        /\ tab.current \in Sessions
        /\ spent' \in [faults : 0..MaxFaults, decisions : 0..MaxDecisions]
        /\ UNCHANGED <<sse, used, handled, up, queueVars, exitTimer,
                       diskVars, agent, pastVars>>
    BY <1>5, <1>6 DEF Accept, Decisions
  <2>2. tab' \in Tabs
    BY <1>6, <2>1 DEF Accept, IInv, TypeOK, Tabs, TabStates
  <2>3. TypeOK'
    BY <2>1, <2>2 DEF IInv, TypeOK, Queued
  <2> QED BY <2>1, <2>3, TabSoundness DEF IInv
<1>7. CASE Discard
  <2>1. /\ Posted /\ Answered /\ PostsAreRequests'
        /\ spent' \in [faults : 0..MaxFaults, decisions : 0..MaxDecisions]
        /\ UNCHANGED <<sse, used, handled, up, queueVars, exitTimer,
                       diskVars, agent, pastVars>>
    BY <1>5, <1>7 DEF Discard, Decisions
  <2>2. TypeOK'
    BY <1>7, <2>1 DEF Discard, IInv, TypeOK, Queued
  <2> QED BY <2>1, <2>2, TabSoundness DEF IInv
<1>8. CASE SteerTimeout
  <2>1. tab' \in Tabs
    BY <1>8 DEF SteerTimeout, Tabs, IInv, TypeOK, TabStates
  <2>2. TypeOK'
    BY <1>8, <2>1 DEF SteerTimeout, IInv, TypeOK, Queued
  <2> QED BY <1>8, <2>2, TabSoundness
          DEF SteerTimeout, IInv, PostsAreRequests
<1>9. CASE HearReply
  <2>1. /\ Head(sse) \in Replies
        /\ Tail(sse) \in Seq(Replies)
    BY <1>9, HeadTailProperties DEF HearReply, IInv, TypeOK
  <2>2. tab' \in Tabs
    BY <1>9, <2>1 DEF HearReply, Heard, IInv, TypeOK, Tabs, Answers, Replies, TabStates
  <2>3. TypeOK'
    BY <1>9, <2>1, <2>2 DEF HearReply, IInv, TypeOK, Queued
  <2> QED BY <1>9, <2>3, TabSoundness DEF HearReply, IInv, PostsAreRequests
<1>10. CASE Finish
  <2>1. tab' \in Tabs
    BY <1>10 DEF Finish, Tabs, IInv, TypeOK, TabStates
  <2>2. TypeOK'
    BY <1>10, <2>1 DEF Finish, IInv, TypeOK, Queued
  <2> QED BY <1>10, <2>2, TabSoundness DEF Finish, IInv, PostsAreRequests
<1>11. CASE CloseTab
  <2>1. tab' \in Tabs
    BY <1>11, BoundsAssumption DEF CloseTab, NewTab, Tabs, IInv, TypeOK, TabStates
  <2>2. TypeOK'
    BY <1>11, <2>1, BoundsAssumption DEF CloseTab, IInv, TypeOK, Queued
  <2> QED BY <1>11, <2>2, TabSoundness DEF CloseTab, IInv, PostsAreRequests
<1>12. CASE OpenTab
  <2>1. tab' \in Tabs
    <3> DEFINE page == [NewTab EXCEPT !.revision = tab.revision]
    <3>1. page \in Tabs
      BY DEF NewTab, IInv, TypeOK, Tabs, TabStates
    <3>2. \A s \in Sessions : Resumed(page, s) \in Tabs
      <4> HIDE DEF page
      <4> QED BY <3>1 DEF Resumed, Tabs, TabStates
    <3>3. tab' = page \/ \E s \in Sessions : tab' = Resumed(page, s)
      BY <1>12 DEF OpenTab, Wrapped
    <3> QED BY <3>1, <3>2, <3>3
  <2>2. handled' \in Sessions \cup {None}
    BY <1>12 DEF OpenTab, IInv, TypeOK
  <2>3. TypeOK'
    BY <1>12, <2>1, <2>2 DEF OpenTab, IInv, TypeOK, Queued
  <2> QED BY <1>12, <2>3, TabSoundness DEF OpenTab, IInv, PostsAreRequests
<1>13. ASSUME NEW a \in answers, HearAnswer(a) PROVE IInv'
  <2>1. tab' \in Tabs
    BY <1>13 DEF HearAnswer, IInv, TypeOK, Tabs, Answers, Replies, TabStates
  <2>2. TypeOK'
    <3>1. handled' \in Sessions \cup {None}
      BY <1>13 DEF HearAnswer, IInv, TypeOK, Tabs
    <3> QED BY <1>13, <2>1, <3>1 DEF HearAnswer, IInv, TypeOK, Queued
  <2> QED BY <1>13, <2>2, TabSoundness DEF HearAnswer, IInv, PostsAreRequests
<1> QED BY <1>1, <1>2, <1>3, <1>4, <1>6, <1>7, <1>8, <1>9, <1>10, <1>11,
           <1>12, <1>13 DEF Tab
-----------------------------------------------------------------------------
(* The helper's actions preserve the invariant.                            *)

\* An event given to the agent leaves its hands sound.
LEMMA HandedOver ==
  ASSUME IInv, UNCHANGED agent \/ \E e \in Requests \cup {Exit} :
                                    agent' = Hands("working", e, None)
  PROVE  agent' \in Agents /\ HandsAreSound'
<1>1. CASE UNCHANGED agent
  BY <1>1 DEF IInv, TypeOK, HandsAreSound
<1>2. ASSUME NEW e \in Requests \cup {Exit}, agent' = Hands("working", e, None)
      PROVE  agent' \in Agents /\ HandsAreSound'
  <2>1. /\ e = Event(e.type, e.id)
        /\ e.type \in DOMAIN RequestPhase \cup {"exit"} /\ e.id \in Ids \cup {None}
    BY DEF Requests, Events, Event, Exit
  <2>2. /\ agent' \in Agents /\ agent'.st = "working"
        /\ agent'.type = e.type /\ agent'.id = e.id
    BY <1>2, <2>1 DEF Hands, Agents
  <2> QED BY <2>1, <2>2 DEF HandsAreSound
<1> QED BY <1>1, <1>2

LEMMA HandlePostPreserves ==
  ASSUME IInv, NEW m \in posts, HandlePost(m)
  PROVE  IInv'
<1>1. m \in Posts
  BY DEF IInv, TypeOK
<1>2. CASE m.type = "checkpoint"
  <2>1. m.phase \in TabStates /\ m.phase \notin Terminal
    BY <1>2 DEF IInv, PostsAreRequests, TabStates, Terminal
  <2>2. /\ UNCHANGED <<queue, leases, agent, answers, decision, refused,
                       clobbered, forgotten>>
        /\ snap' = [snap EXCEPT ![m.id] = Checkpointed(@, m)]
        /\ posts' = posts \ {m}
    BY <1>2 DEF HandlePost, queueVars, pastVars, Decisions
  <2>3. snap' \in [Ids -> Snapshots] /\ JournalsAreSound'
    <3>1. /\ m.id \in Ids
          /\ snap[m.id] \in Snapshots
      BY <1>1 DEF Posts, IInv, TypeOK
    <3>2. /\ Checkpointed(snap[m.id], m) \in Snapshots
          /\ Checkpointed(snap[m.id], m).pending = snap[m.id].pending
          /\ Checkpointed(snap[m.id], m).phase \in {snap[m.id].phase, m.phase}
      BY <1>1, <2>1, <3>1 DEF Checkpointed, Snapshots, Posts
    <3> QED BY <2>1, <2>2, <3>1, <3>2 DEF IInv, TypeOK, JournalsAreSound
  <2>4. PostsAreRequests' /\ QueueIsSound' /\ HandsAreSound'
    BY <2>2 DEF HandlePost, IInv, PostsAreRequests, QueueIsSound, HandsAreSound,
                Queued, Once
  <2>5. TypeOK'
    BY <2>2, <2>3 DEF HandlePost, IInv, TypeOK, Queued
  <2> QED BY <2>3, <2>4, <2>5 DEF IInv
<1>3. CASE m.type # "checkpoint"
  <2> DEFINE e == Event(m.type, m.id)
  <2>1. e \in Requests /\ m.type \in DOMAIN RequestPhase
    BY <1>1, <1>3 DEF IInv, PostsAreRequests, Posts
  <2>2. /\ Enqueue(e)
        /\ snap' = [snap EXCEPT ![m.id] = Requested(@, m.type)]
        /\ posts' = posts \ {m} /\ up = "up" /\ up' = up
    BY <1>3 DEF HandlePost
  <2>3. /\ queue' \in Seq(Events \cup {Exit})
        /\ Queued(queue') \subseteq Requests \cup {Exit}
        /\ Once(queue')
        /\ leases' \subseteq Events /\ leases' \subseteq Queued(queue')
        /\ \/ UNCHANGED agent
           \/ \E f \in Requests \cup {Exit} : agent' = Hands("working", f, None)
    <3> HIDE DEF e
    <3> QED BY <2>1, <2>2, Enqueued
  <2>4. agent' \in Agents /\ HandsAreSound'
    BY <2>3, HandedOver
  <2>5. snap' \in [Ids -> Snapshots] /\ JournalsAreSound'
    <3>1. /\ m.id \in Ids
          /\ snap[m.id] \in Snapshots
      BY <1>1 DEF Posts, IInv, TypeOK
    <3>2. /\ RequestPhase[m.type] \in {RequestPhase[t] : t \in DOMAIN RequestPhase}
          /\ RequestPhase[m.type] \notin Terminal
      BY <2>1 DEF RequestPhase, Terminal
    <3>3. /\ Requested(snap[m.id], m.type) \in Snapshots
          /\ Requested(snap[m.id], m.type).pending = m.type
          /\ Requested(snap[m.id], m.type).phase \notin Terminal
      BY <2>1, <3>1, <3>2 DEF Requested, Snapshots
    <3> QED BY <2>1, <2>2, <3>1, <3>3 DEF IInv, TypeOK, JournalsAreSound
  <2>6. PostsAreRequests' /\ QueueIsSound'
    BY <2>2, <2>3 DEF IInv, PostsAreRequests, QueueIsSound
  <2>7. /\ answers' \subseteq Answers
        /\ decision' \in [Sessions -> Decisions \cup {None}]
        /\ {refused', clobbered', forgotten'} \subseteq SUBSET Sessions
    <3>1. CASE m.type \in Decisions
      <4>1. Answer(m.type, m.id, TRUE) \in Answers
        BY <1>1, <3>1 DEF Posts, Answer, Answers
      <4>2. /\ answers' \subseteq answers \cup {Answer(m.type, m.id, TRUE)}
            /\ decision' = [decision EXCEPT ![m.id] = m.type]
            /\ refused' \subseteq refused /\ clobbered' \subseteq clobbered
            /\ forgotten' \subseteq forgotten
        BY <3>1 DEF HandlePost
      <4>3. decision' \in [Sessions -> Decisions \cup {None}]
        BY <3>1, <4>2 DEF IInv, TypeOK
      <4> QED BY <4>1, <4>2, <4>3 DEF IInv, TypeOK
    <3>2. CASE m.type \notin Decisions
      BY <3>2 DEF HandlePost, IInv, TypeOK, pastVars
    <3> QED BY <3>1, <3>2
  <2>8. TypeOK'
    BY <2>2, <2>3, <2>4, <2>5, <2>7 DEF HandlePost, IInv, TypeOK
  <2> QED BY <2>4, <2>5, <2>6, <2>8 DEF IInv
<1> QED BY <1>2, <1>3

\* The part of the invariant that no step on the queue and the agent touches.
LEMMA QueueStepPreserves ==
  ASSUME IInv, up = "up",
         UNCHANGED <<tab, handled, posts, answers, sse, up, snap, source, used,
                     spent, decision, refused, clobbered, forgotten>>,
         exitTimer' \in BOOLEAN,
         /\ queue' \in Seq(Events \cup {Exit})
         /\ Queued(queue') \subseteq Requests \cup {Exit}
         /\ Once(queue')
         /\ leases' \subseteq Events /\ leases' \subseteq Queued(queue')
         /\ \/ UNCHANGED agent
            \/ \E f \in Requests \cup {Exit} : agent' = Hands("working", f, None)
  PROVE  IInv'
<1>1. agent' \in Agents /\ HandsAreSound'
  BY HandedOver
<1>2. TypeOK'
  BY <1>1 DEF IInv, TypeOK
<1>3. PostsAreRequests' /\ QueueIsSound' /\ JournalsAreSound'
  BY DEF IInv, PostsAreRequests, QueueIsSound, JournalsAreSound
<1> QED BY <1>1, <1>2, <1>3 DEF IInv

LEMMA LeaseExpiresPreserves ==
  ASSUME IInv, NEW e \in leases, LeaseExpires(e)
  PROVE  IInv'
<1>1. /\ queue \in Seq(Events \cup {Exit}) /\ leases \ {e} \in SUBSET Events
      /\ leases \ {e} \subseteq Queued(queue) /\ Once(queue)
      /\ Queued(queue) \subseteq Requests \cup {Exit}
  BY DEF IInv, TypeOK, QueueIsSound
<1>2. /\ Flush(queue, leases \ {e}) /\ up = "up"
      /\ UNCHANGED <<tab, handled, posts, answers, sse, up, exitTimer, snap,
                     source, used, spent, decision, refused, clobbered, forgotten>>
  BY DEF LeaseExpires, wireVars, diskVars, pastVars
<1>3. /\ queue' \in Seq(Events \cup {Exit})
      /\ Queued(queue') \subseteq Queued(queue)
      /\ Once(queue')
      /\ leases' \subseteq Events /\ leases' \subseteq Queued(queue')
      /\ \/ UNCHANGED agent
         \/ \E f \in Requests \cup {Exit} : agent' = Hands("working", f, None)
  BY <1>1, <1>2, Flushed
<1>4. exitTimer' \in BOOLEAN
  BY <1>2 DEF IInv, TypeOK
<1> QED BY <1>1, <1>2, <1>3, <1>4, QueueStepPreserves

LEMMA ExitTimerPreserves == ASSUME IInv, ExitTimerFires PROVE IInv'
<1>1. /\ Enqueue(Exit) /\ up = "up" /\ exitTimer' = FALSE
      /\ UNCHANGED <<tab, handled, posts, answers, sse, up, snap, source, used,
                     spent, decision, refused, clobbered, forgotten>>
  BY DEF ExitTimerFires, wireVars, diskVars, pastVars
<1>2. /\ queue' \in Seq(Events \cup {Exit})
      /\ Queued(queue') \subseteq Requests \cup {Exit}
      /\ Once(queue')
      /\ leases' \subseteq Events /\ leases' \subseteq Queued(queue')
      /\ \/ UNCHANGED agent
         \/ \E f \in Requests \cup {Exit} : agent' = Hands("working", f, None)
  BY <1>1, Enqueued
<1> QED BY <1>1, <1>2, QueueStepPreserves

\* The end of the helper's process leaves all but the agent's hands sound.
LEMMA DownPreserves ==
  ASSUME IInv, NEW how \in {"crashed", "stopped"}, Down(how),
         agent' \in Agents, HandsAreSound',
         spent' \in [faults : 0..MaxFaults, decisions : 0..MaxDecisions]
  PROVE  IInv'
<1>1. answers' \subseteq Answers
  <2>1. \A m \in answers \cup {m \in posts : m.type \notin Unwatched} :
          Answer(m.type, m.id, FALSE) \in Answers
    BY RequestTypes
       DEF IInv, TypeOK, Posts, Answers, Answer, Unwatched, Decisions
  <2> QED BY <2>1 DEF Down
<1>2. tab' \in Tabs
  BY DEF Down, IInv, TypeOK, Tabs
<1>3. /\ sse' \in Seq(Replies) /\ queue' \in Seq(Events \cup {Exit})
      /\ Queued(queue') = {} /\ Once(queue')
  BY EmptySeq DEF Down, Queued, Once
<1>4. forgotten' \in SUBSET Sessions
  BY DEF Down, IInv, TypeOK
<1>5. TypeOK'
  BY <1>1, <1>2, <1>3, <1>4 DEF Down, IInv, TypeOK, diskVars
<1>6. PostsAreRequests' /\ QueueIsSound' /\ JournalsAreSound'
  BY <1>3 DEF Down, IInv, PostsAreRequests, QueueIsSound, JournalsAreSound,
              diskVars
<1> QED BY <1>5, <1>6 DEF IInv

LEMMA CrashPreserves == ASSUME IInv, Crash PROVE IInv'
<1>1. agent' \in Agents /\ HandsAreSound'
  BY DEF Crash, IInv, TypeOK, HandsAreSound, Idle, Hands, Event, Agents
<1>2. spent' \in [faults : 0..MaxFaults, decisions : 0..MaxDecisions]
  BY BoundsAssumption DEF Crash, IInv, TypeOK
<1> QED BY <1>1, <1>2, DownPreserves DEF Crash

\* The restarted helper queues each full slot once.
LEMMA Restarted ==
  ASSUME IInv, Start
  PROVE  /\ queue' \in Seq(Events \cup {Exit})
         /\ Queued(queue') = {Event(snap[i].pending, i) :
                                i \in {j \in Ids : snap[j].pending # None}}
         /\ Queued(queue') \subseteq Requests
         /\ Once(queue')
<1> DEFINE n == Cardinality(Pending)
<1>1. Pending = {j \in Ids : snap[j].pending # None}
  BY DEF Pending, IInv, JournalsAreSound
<1>2. IsFiniteSet(Pending) /\ n \in Nat
  BY <1>1, IdsAssumption, FS_Subset, FS_CardinalityType DEF Ids
<1>3. PICK order \in [1..n -> Pending] :
        /\ Queued(order) = Pending
        /\ queue' = [k \in 1..n |-> Event(snap[order[k]].pending, order[k])]
  BY DEF Start
<1>4. \A i, j \in 1..n : order[i] = order[j] => i = j
  <2>1. order \in Surjection(1..n, Pending)
    BY <1>3 DEF Surjection, Queued
  <2>2. IsFiniteSet(1..n) /\ Cardinality(1..n) = n
    BY <1>2, FS_Interval
  <2>3. order \in Injection(1..n, Pending)
    BY <2>1, <2>2, FS_SurjSameCardinalityImpliesInj
  <2> QED BY <2>3 DEF Injection, IsInjective
<1> HIDE DEF n
<1>5. \A i \in Pending : Event(snap[i].pending, i) \in Requests
  BY <1>1 DEF IInv, JournalsAreSound
<1>6. queue' \in Seq(Events \cup {Exit}) /\ DOMAIN queue' = 1..n
  BY <1>2, <1>3, <1>5 DEF Requests
<1>7. Queued(queue') = {Event(snap[i].pending, i) : i \in Pending}
  BY <1>3 DEF Queued
<1>8. Once(queue')
  BY <1>3, <1>4 DEF Once, Event
<1> QED BY <1>1, <1>5, <1>6, <1>7, <1>8

LEMMA StartPreserves == ASSUME IInv, Start PROVE IInv'
<1>1. /\ queue' \in Seq(Events \cup {Exit})
      /\ Queued(queue') \subseteq Requests /\ Once(queue')
  BY Restarted
<1>2. leases = {}
  BY DEF Start, IInv, TypeOK, QueueIsSound, Queued
<1>3. TypeOK'
  BY <1>1, <1>2 DEF Start, IInv, TypeOK, wireVars, diskVars, pastVars
<1>4. PostsAreRequests' /\ QueueIsSound' /\ JournalsAreSound' /\ HandsAreSound'
  BY <1>1 DEF Start, IInv, PostsAreRequests, QueueIsSound, JournalsAreSound,
              HandsAreSound, wireVars, diskVars
<1> QED BY <1>3, <1>4 DEF IInv

LEMMA HelperPreserves == IInv /\ Helper => IInv'
  BY HandlePostPreserves, LeaseExpiresPreserves, ExitTimerPreserves,
     CrashPreserves, StartPreserves
  DEF Helper
-----------------------------------------------------------------------------
(* The agent's actions preserve the invariant.                             *)

LEMMA PollPreserves == ASSUME IInv, Poll PROVE IInv'
<1>1. /\ UNCHANGED <<tab, handled, posts, answers, sse, up, exitTimer, snap,
                     source, used, spent, decision, refused, clobbered, forgotten>>
      /\ up = "up"
  BY DEF Poll, agentOnly, wireVars, diskVars, pastVars
<1>2. CASE Free(queue, leases) # {}
  <2>1. /\ queue \in Seq(Events \cup {Exit}) /\ leases \in SUBSET Events
        /\ leases \subseteq Queued(queue) /\ Once(queue)
        /\ Queued(queue) \subseteq Requests \cup {Exit}
    BY DEF IInv, TypeOK, QueueIsSound
  <2>2. Deliver(queue, leases)
    BY <1>2 DEF Poll
  <2>3. /\ queue' \in Seq(Events \cup {Exit})
        /\ Queued(queue') \subseteq Queued(queue)
        /\ Once(queue')
        /\ leases' \subseteq Events /\ leases' \subseteq Queued(queue')
        /\ \E f \in Requests \cup {Exit} : agent' = Hands("working", f, None)
    BY <1>2, <2>1, <2>2, Delivered
  <2>4. exitTimer' \in BOOLEAN
    BY <1>1 DEF IInv, TypeOK
  <2> QED BY <1>1, <2>1, <2>3, <2>4, QueueStepPreserves
<1>3. CASE Free(queue, leases) = {}
  <2>1. agent' = Parked /\ UNCHANGED <<queue, leases>>
    BY <1>3 DEF Poll, queueVars
  <2>2. agent' \in Agents /\ HandsAreSound'
    BY <2>1 DEF Parked, Hands, Event, Agents, HandsAreSound
  <2>3. TypeOK'
    BY <1>1, <2>1, <2>2 DEF IInv, TypeOK, Queued
  <2>4. PostsAreRequests' /\ QueueIsSound' /\ JournalsAreSound'
    BY <1>1, <2>1 DEF IInv, PostsAreRequests, QueueIsSound, JournalsAreSound,
                      Queued, Once
  <2> QED BY <2>2, <2>3, <2>4 DEF IInv
<1> QED BY <1>2, <1>3

\* A step of the agent on its own: it edits, or drops what it holds.
LEMMA HandsStepPreserves ==
  ASSUME IInv,
         UNCHANGED <<tab, handled, posts, answers, sse, up, queue, leases,
                     exitTimer, snap, used, decision, refused, clobbered,
                     forgotten>>,
         source' \in [Sessions -> Markup],
         spent' \in [faults : 0..MaxFaults, decisions : 0..MaxDecisions],
         agent' \in Agents, HandsAreSound'
  PROVE  IInv'
<1>1. TypeOK'
  BY DEF IInv, TypeOK, Queued
<1>2. PostsAreRequests' /\ QueueIsSound' /\ JournalsAreSound'
  BY DEF IInv, PostsAreRequests, QueueIsSound, JournalsAreSound, Queued, Once
<1> QED BY <1>1, <1>2 DEF IInv

LEMMA WorkPreserves ==
  ASSUME IInv, NEW type \in DOMAIN RequestPhase, NEW markups,
         NEW markup \in Markup, NEW reply \in DOMAIN ReplyPhase \cup {None},
         Work(type, markups, markup, reply)
  PROVE  IInv'
<1>1. Event(agent.type, agent.id) \in Requests
  BY RequestTypes DEF Work, IInv, HandsAreSound, Exit, Event
<1>2. agent' \in Agents /\ HandsAreSound'
  <2>1. CASE reply = None
    BY <2>1 DEF Work, IInv, TypeOK, HandsAreSound
  <2>2. CASE reply # None
    BY <1>1, <2>2 DEF Work, IInv, TypeOK, HandsAreSound, Agents
  <2> QED BY <2>1, <2>2
<1>3. source' \in [Sessions -> Markup]
  BY DEF Work, IInv, TypeOK
<1>4. /\ UNCHANGED <<tab, handled, posts, answers, sse, up, queue, leases,
                     exitTimer, snap, used, decision, refused, clobbered,
                     forgotten, spent>>
  BY DEF Work, agentOnly, wireVars, queueVars, pastVars
<1> QED BY <1>2, <1>3, <1>4, HandsStepPreserves DEF IInv, TypeOK

LEMMA EditPreserves == ASSUME IInv, Edit PROVE IInv'
<1> USE DEF Markup, RequestPhase, ReplyPhase
<1>1. CASE Wrap
  BY <1>1, WorkPreserves DEF Wrap
<1>2. CASE WriteVariants
  BY <1>2, WorkPreserves DEF WriteVariants
<1>3. CASE AcceptPlain
  BY <1>3, WorkPreserves DEF AcceptPlain
<1>4. CASE AcceptCarbonize
  BY <1>4, WorkPreserves DEF AcceptCarbonize
<1>5. CASE AcceptMissing
  BY <1>5, WorkPreserves DEF AcceptMissing
<1>6. CASE DiscardWrapped
  BY <1>6, WorkPreserves DEF DiscardWrapped
<1>7. CASE DiscardMissing
  BY <1>7, WorkPreserves DEF DiscardMissing
<1>8. CASE GiveUp
  BY <1>8, WorkPreserves DEF GiveUp
<1>9. CASE AnswerSteer
  <2>1. Event(agent.type, agent.id) \in Requests
    BY <1>9 DEF AnswerSteer, IInv, HandsAreSound, Exit, Event
  <2>2. agent' \in Agents /\ HandsAreSound'
    BY <1>9, <2>1 DEF AnswerSteer, IInv, TypeOK, HandsAreSound, Agents
  <2>3. UNCHANGED <<tab, handled, posts, answers, sse, up, queue, leases,
                    exitTimer, snap, source, used, decision, refused, clobbered,
                    forgotten, spent>>
    BY <1>9 DEF AnswerSteer, agentOnly, wireVars, queueVars, diskVars, pastVars
  <2>4. source \in [Sessions -> {"original", "scaffold", "variants",
                                 "carbonize", "accepted"}]
        /\ spent \in [faults : 0..MaxFaults, decisions : 0..MaxDecisions]
    BY DEF IInv, TypeOK
  <2> QED BY <2>2, <2>3, <2>4, HandsStepPreserves
<1>10. CASE CleanUp
  <2>1. Event(agent.type, agent.id) \in Requests
    BY <1>10 DEF CleanUp, IInv, HandsAreSound
  <2>2. agent' \in Agents /\ HandsAreSound'
    BY <1>10, <2>1 DEF CleanUp, IInv, TypeOK, HandsAreSound, Agents
  <2>3. UNCHANGED <<tab, handled, posts, answers, sse, up, queue, leases,
                    exitTimer, snap, used, decision, refused, clobbered,
                    forgotten, spent>>
    BY <1>10 DEF CleanUp, agentOnly, wireVars, queueVars, pastVars
  <2>4. source' \in [Sessions -> {"original", "scaffold", "variants",
                                  "carbonize", "accepted"}]
        /\ spent \in [faults : 0..MaxFaults, decisions : 0..MaxDecisions]
    BY <1>10 DEF CleanUp, IInv, TypeOK
  <2> QED BY <2>2, <2>3, <2>4, HandsStepPreserves
<1> QED BY <1>1, <1>2, <1>3, <1>4, <1>5, <1>6, <1>7, <1>8, <1>9, <1>10 DEF Edit

\* A reply empties the slot of its id, and the slot says nothing else then.
LEMMA Journaled ==
  ASSUME IInv, NEW id \in Ids, NEW reply \in DOMAIN ReplyPhase,
         \/ snap' = [snap EXCEPT ![id] = Replied(@, reply)]
         \/ UNCHANGED snap
  PROVE  snap' \in [Ids -> Snapshots] /\ JournalsAreSound'
<1>1. CASE UNCHANGED snap
  BY <1>1 DEF IInv, TypeOK, JournalsAreSound
<1>2. CASE snap' = [snap EXCEPT ![id] = Replied(@, reply)]
  <2>1. /\ Replied(snap[id], reply) \in Snapshots
        /\ Replied(snap[id], reply).pending = None
    BY DEF IInv, TypeOK, Replied, Snapshots
  <2> QED BY <1>2, <2>1 DEF IInv, TypeOK, JournalsAreSound
<1> QED BY <1>1, <1>2

LEMMA ReplyPreserves == ASSUME IInv, Reply PROVE IInv'
<1> DEFINE id == agent.id
           rec == Named(id) # {} \/ snap[id].phase \notin Terminal
<1>1. /\ Event(agent.type, id) \in Requests /\ id \in Ids
      /\ agent.type \in DOMAIN RequestPhase
      /\ agent.reply \in DOMAIN ReplyPhase
  BY DEF Reply, IInv, HandsAreSound, Requests, Events, Event
<1>2. /\ Acknowledge(id) /\ up = "up"
      /\ snap' = IF rec THEN [snap EXCEPT ![id] = Replied(@, agent.reply)]
                 ELSE snap
      /\ UNCHANGED <<tab, handled, posts, answers, up, exitTimer, source, used,
                     spent, decision>>
  BY DEF Reply
<1>3. /\ queue' \in Seq(Events \cup {Exit})
      /\ Queued(queue') \subseteq Queued(queue)
      /\ Once(queue')
      /\ leases' \subseteq Events /\ leases' \subseteq Queued(queue')
  BY <1>1, <1>2, Acknowledged
<1>4. snap' \in [Ids -> Snapshots] /\ JournalsAreSound'
  BY <1>1, <1>2, Journaled
<1>5. sse' \in Seq(Replies)
  <2>1. [reply |-> agent.reply, id |-> id] \in Replies
    BY <1>1 DEF Replies
  <2> QED BY <2>1 DEF Reply, IInv, TypeOK
<1>6. /\ refused' \subseteq Sessions /\ clobbered' \subseteq Sessions
      /\ forgotten' \subseteq Sessions
  <2>1. refused' \subseteq Sessions
    <3>1. agent.type \in Decisions => id \in Sessions
      BY <1>1 DEF Requests, Event, Decisions
    <3> QED BY <3>1 DEF Reply, IInv, TypeOK
  <2>2. clobbered' \subseteq Sessions
    <3>1. snap[id].pending \in Decisions => id \in Sessions
      BY <1>1, IdsAssumption
         DEF IInv, JournalsAreSound, Requests, Event, Decisions
    <3> QED BY <3>1 DEF Reply, IInv, TypeOK
  <2>3. forgotten' \subseteq Sessions
    <3>1. Named(id) # {} /\ queue[Least(Named(id))].type \in Decisions
            => id \in Sessions
      <4> SUFFICES ASSUME Named(id) # {},
                          queue[Least(Named(id))].type \in Decisions
                   PROVE  id \in Sessions
        OBVIOUS
      <4>1. Named(id) \in SUBSET Nat
        BY DEF Named, IInv, TypeOK
      <4>2. Least(Named(id)) \in Named(id)
        BY <4>1, LeastIsMember
      <4>3. PICK e \in Queued(queue) : e.id = id /\ e.type \in Decisions
        BY <4>2 DEF Named, Queued
      <4>4. e \in Requests
        BY <4>3 DEF IInv, QueueIsSound, Exit, Event, Decisions
      <4> QED BY <4>3, <4>4 DEF Requests, Decisions
    <3> QED BY <3>1 DEF Reply, IInv, TypeOK
  <2> QED BY <2>1, <2>2, <2>3
<1>7. agent' \in Agents /\ HandsAreSound'
  <2>1. CASE agent.reply = "carbonize"
    BY <1>1, <2>1 DEF Reply, IInv, TypeOK, Agents, HandsAreSound
  <2>2. CASE agent.reply # "carbonize"
    BY <2>2 DEF Reply, Idle, Hands, Event, Agents, HandsAreSound
  <2> QED BY <2>1, <2>2
<1>8. TypeOK'
  BY <1>2, <1>3, <1>4, <1>5, <1>6, <1>7 DEF IInv, TypeOK
<1>9. PostsAreRequests' /\ QueueIsSound'
  BY <1>2, <1>3 DEF IInv, PostsAreRequests, QueueIsSound
<1> QED BY <1>4, <1>7, <1>8, <1>9 DEF IInv

LEMMA CompleteOfflinePreserves == ASSUME IInv, CompleteOffline PROVE IInv'
<1>1. agent.id \in Ids /\ agent.reply \in DOMAIN ReplyPhase
  BY DEF CompleteOffline, IInv, HandsAreSound, Requests, Events, Event
<1>2. snap' \in [Ids -> Snapshots] /\ JournalsAreSound'
  BY <1>1, Journaled DEF CompleteOffline
<1>3. agent' \in Agents /\ HandsAreSound'
  BY DEF CompleteOffline, Idle, Hands, Event, Agents, HandsAreSound
<1>4. TypeOK'
  BY <1>2, <1>3
     DEF CompleteOffline, IInv, TypeOK, Queued, agentOnly, wireVars, queueVars,
         pastVars
<1>5. PostsAreRequests' /\ QueueIsSound'
  BY DEF CompleteOffline, IInv, PostsAreRequests, QueueIsSound, Queued, Once,
         agentOnly, wireVars, queueVars
<1> QED BY <1>2, <1>3, <1>4, <1>5 DEF IInv

LEMMA StopHelperPreserves == ASSUME IInv, StopHelper PROVE IInv'
<1>1. agent' \in Agents /\ HandsAreSound'
  BY DEF StopHelper, Idle, Hands, Event, Agents, HandsAreSound
<1>2. spent' \in [faults : 0..MaxFaults, decisions : 0..MaxDecisions]
  BY DEF StopHelper, IInv, TypeOK
<1>3. CASE up = "up"
  BY <1>1, <1>2, <1>3, DownPreserves DEF StopHelper
<1>4. CASE up # "up"
  BY <1>1, <1>2, <1>4, HandsStepPreserves
     DEF StopHelper, IInv, TypeOK, agentOnly, wireVars, queueVars, diskVars,
         pastVars
<1> QED BY <1>3, <1>4

LEMMA InterruptPreserves == ASSUME IInv, Interrupt PROVE IInv'
<1>1. agent' \in Agents /\ HandsAreSound'
  BY DEF Interrupt, Idle, Hands, Event, Agents, HandsAreSound
<1>2. spent' \in [faults : 0..MaxFaults, decisions : 0..MaxDecisions]
  BY BoundsAssumption DEF Interrupt, IInv, TypeOK
<1> QED BY <1>1, <1>2, HandsStepPreserves
        DEF Interrupt, IInv, TypeOK, agentOnly, wireVars, queueVars, diskVars,
            pastVars

LEMMA AgentPreserves == IInv /\ Agent => IInv'
  BY PollPreserves, EditPreserves, ReplyPreserves, CompleteOfflinePreserves,
     StopHelperPreserves, InterruptPreserves
  DEF Agent

LEMMA StutterPreserves == IInv /\ UNCHANGED vars => IInv'
  BY DEF IInv, TypeOK, PostsAreRequests, QueueIsSound, JournalsAreSound,
         HandsAreSound, Queued, Once, vars, wireVars, queueVars, diskVars,
         pastVars

LEMMA IInvNext == IInv /\ [Next]_vars => IInv'
  BY TabPreserves, HelperPreserves, AgentPreserves, StutterPreserves DEF Next

\* Every variable keeps its type, and what is out on a lease is in the queue.
THEOREM TypeCorrect == Spec => []TypeOK
<1>1. IInv => TypeOK
  BY DEF IInv
<1> QED BY <1>1, IInvInit, IInvNext, PTL DEF Spec
-----------------------------------------------------------------------------
(* The helper implements the work queue.                                   *)

\* What stands for the work queue's todo and filed.
Todo == Queued(queue) \ {Exit}
Filed == {Event(snap[i].pending, i) : i \in {j \in Ids : snap[j].pending # None}}
FiledBeside(id) == {f \in Filed : f.id # id}

\* A journal whose slot is filled, emptied or left alone.
LEMMA SlotFilled ==
  ASSUME IInv, NEW id \in Ids, NEW sn, sn.pending # None,
         snap' = [snap EXCEPT ![id] = sn]
  PROVE  Filed' = FiledBeside(id) \cup {Event(sn.pending, id)}
<1>1. /\ \A i \in Ids : snap'[i] = IF i = id THEN sn ELSE snap[i]
      /\ Ids' = Ids
  BY DEF IInv, TypeOK
<1>2. \A i : Event(snap[i].pending, i).id = i
  BY DEF Event
<1> QED BY <1>1, <1>2 DEF Filed, FiledBeside

LEMMA SlotEmptied ==
  ASSUME IInv, NEW id \in Ids, NEW sn, sn.pending = None,
         snap' = [snap EXCEPT ![id] = sn]
  PROVE  Filed' = FiledBeside(id)
<1>1. \A i \in Ids : snap'[i] = IF i = id THEN sn ELSE snap[i]
  BY DEF IInv, TypeOK
<1>2. \A i : Event(snap[i].pending, i).id = i
  BY DEF Event
<1> QED BY <1>1, <1>2 DEF Filed, FiledBeside

LEMMA SlotIsEmpty ==
  ASSUME IInv, NEW id \in Ids, snap[id].pending = None
  PROVE  Filed = FiledBeside(id)
  BY DEF Filed, FiledBeside, Event

LEMMA SlotKept ==
  ASSUME IInv, NEW id \in Ids, NEW sn, sn.pending = snap[id].pending,
         snap' = [snap EXCEPT ![id] = sn]
  PROVE  Filed' = Filed
<1>1. \A i \in Ids : snap'[i].pending = snap[i].pending
  BY DEF IInv, TypeOK
<1> QED BY <1>1 DEF Filed

\* A step that touches neither the queue nor the journals is a stutter.
LEMMA Stutters ==
  ASSUME UNCHANGED <<queue, leases, up, snap>>
  PROVE  UNCHANGED Helps!vars
  BY DEF Helps!vars, Queued

LEMMA TabStutters == ASSUME Tab PROVE UNCHANGED <<queue, leases, up, snap>>
<1>1. ASSUME NEW s \in Sessions, Go(s) PROVE UNCHANGED <<queue, leases, up, snap>>
  BY <1>1 DEF Go, tabOnly, queueVars, diskVars
<1>2. ASSUME NEW t \in Steers, Steer(t) PROVE UNCHANGED <<queue, leases, up, snap>>
  BY <1>2 DEF Steer, tabOnly, queueVars, diskVars
<1>3. ASSUME NEW a \in answers, HearAnswer(a)
      PROVE  UNCHANGED <<queue, leases, up, snap>>
  BY <1>3 DEF HearAnswer, queueVars, diskVars
<1>4. CASE \/ VariantsMount \/ SendCheckpoint \/ SteerTimeout \/ HearReply \/ Finish
  BY <1>4 DEF VariantsMount, SendCheckpoint, SteerTimeout, HearReply, Finish,
              tabOnly, queueVars, diskVars
<1>5. CASE Accept \/ Discard
  BY <1>5 DEF Accept, Discard, Decide, queueVars, diskVars
<1>6. CASE CloseTab \/ OpenTab
  BY <1>6 DEF CloseTab, OpenTab, queueVars, diskVars
<1> QED BY <1>1, <1>2, <1>3, <1>4, <1>5, <1>6 DEF Tab

\* A request is journaled and queued before it is answered.
LEMMA HandlePostSubmits ==
  ASSUME IInv, NEW m \in posts, HandlePost(m)
  PROVE  [Helps!Next]_(Helps!vars)
<1>1. m.id \in Ids /\ up = "up" /\ UNCHANGED up
  BY DEF HandlePost, IInv, TypeOK, Posts
<1>2. CASE m.type = "checkpoint"
  <2>1. /\ snap' = [snap EXCEPT ![m.id] = Checkpointed(snap[m.id], m)]
        /\ UNCHANGED <<queue, leases>>
    BY <1>2 DEF HandlePost, queueVars
  <2>2. Checkpointed(snap[m.id], m).pending = snap[m.id].pending
    BY <1>1 DEF Checkpointed, IInv, TypeOK, Snapshots
  <2>3. Filed' = Filed
    BY <1>1, <2>1, <2>2, SlotKept
  <2> QED BY <1>1, <2>1, <2>3 DEF Helps!vars, Filed, Queued
<1>3. CASE m.type # "checkpoint"
  <2> DEFINE e == Event(m.type, m.id)  sn == Requested(snap[m.id], m.type)
  <2>1. /\ e \in Requests /\ e \in Events /\ e # Exit /\ e.id = m.id
        /\ m.type # None
    BY <1>3, ExitIsNoRequest, IdsAssumption, RequestTypes
       DEF IInv, PostsAreRequests, Requests, Event, Events
  <2>2. /\ Enqueue(e)
        /\ snap' = [snap EXCEPT ![m.id] = sn]
    BY <1>3 DEF HandlePost
  <2>3. sn.pending = m.type
    BY <1>1 DEF Requested, IInv, TypeOK, Snapshots
  <2>4. Filed' = FiledBeside(m.id) \cup {e}
    BY <1>1, <2>1, <2>2, <2>3, SlotFilled
  <2> HIDE DEF e, sn
  <2>5. /\ Queued(queue') \ {Exit} = (Queued(queue) \cup {e}) \ {Exit}
        /\ \/ leases' = leases
           \/ \E f \in ((Queued(queue) \cup {e}) \ {Exit}) \ leases :
                leases' = leases \cup {f}
    BY <2>1, <2>2, Enqueued
  <2>6. Todo' = Todo \cup {e}
    BY <2>1, <2>5 DEF Todo, Queued
  <2>7. \/ leases' = leases
        \/ \E f \in Todo' \ leases : leases' = leases \cup {f}
    BY <2>1, <2>5, <2>6 DEF Todo
  <2>8. Helps!Submit(e)
    BY <1>1, <2>1, <2>4, <2>6, <2>7
       DEF Helps!Submit, Helps!MayLend, Helps!Others, Todo, Filed, FiledBeside
  <2> QED BY <2>1, <2>8 DEF Helps!Next
<1> QED BY <1>2, <1>3

\* What is lent out of q and l, whose requests are those held.
LEMMA LendingIsMayLend ==
  ASSUME NEW q, NEW l, Queued(q) \ {Exit} = Todo, Lends(q, l)
  PROVE  Helps!MayLend(Todo, l)
  BY DEF Lends, Helps!MayLend

LEMMA LeaseExpiresReturns ==
  ASSUME IInv, NEW e \in leases, LeaseExpires(e)
  PROVE  [Helps!Next]_(Helps!vars)
<1>1. /\ up = "up" /\ UNCHANGED <<up, snap>> /\ Flush(queue, leases \ {e})
  BY DEF LeaseExpires, diskVars
<1>2. /\ queue \in Seq(Events \cup {Exit}) /\ leases \ {e} \in SUBSET Events
      /\ leases \ {e} \subseteq Queued(queue) /\ Once(queue)
      /\ Queued(queue) \subseteq Requests \cup {Exit} /\ e \in Events
  BY DEF IInv, TypeOK, QueueIsSound
<1>3. /\ Queued(queue') \ {Exit} = Queued(queue) \ {Exit}
      /\ Lends(queue, leases \ {e})
  BY <1>1, <1>2, Flushed
<1>4. Helps!MayLend(Todo, leases \ {e})
  BY <1>3, LendingIsMayLend DEF Todo
<1>5. Todo' = Todo /\ Filed' = Filed
  BY <1>1, <1>3 DEF Todo, Filed, Queued
<1>6. Helps!Return(e)
  BY <1>1, <1>4, <1>5 DEF Helps!Return, Todo, Filed
<1> QED BY <1>2, <1>6 DEF Helps!Next

LEMMA ExitTimerLends ==
  ASSUME IInv, ExitTimerFires
  PROVE  [Helps!Next]_(Helps!vars)
<1>1. up = "up" /\ UNCHANGED <<up, snap>> /\ Enqueue(Exit)
  BY DEF ExitTimerFires, diskVars
<1>2. /\ Queued(queue') \ {Exit} = (Queued(queue) \cup {Exit}) \ {Exit}
      /\ \/ leases' = leases
         \/ \E f \in ((Queued(queue) \cup {Exit}) \ {Exit}) \ leases :
              leases' = leases \cup {f}
  BY <1>1, Enqueued
<1>3. Todo' = Todo /\ Filed' = Filed
  BY <1>1, <1>2 DEF Todo, Filed, Queued
<1>4. Helps!MayLend(Todo, leases)
  BY <1>2 DEF Todo, Helps!MayLend
<1>5. Helps!Lend
  BY <1>1, <1>3, <1>4 DEF Helps!Lend, Todo, Filed
<1> QED BY <1>5 DEF Helps!Next

LEMMA DownFails ==
  ASSUME IInv, NEW how, how # "up", up = "up", Down(how)
  PROVE  [Helps!Next]_(Helps!vars)
<1>1. /\ up' # "up" /\ queue' = <<>> /\ leases' = {} /\ UNCHANGED snap
  BY DEF Down, diskVars
<1>2. Todo' = {} /\ Filed' = Filed
  BY <1>1 DEF Todo, Filed, Queued
<1>3. Helps!Fail
  BY <1>1, <1>2 DEF Helps!Fail, Todo, Filed
<1> QED BY <1>3 DEF Helps!Next

LEMMA StartRecovers ==
  ASSUME IInv, Start
  PROVE  [Helps!Next]_(Helps!vars)
<1>1. up # "up" /\ up' = "up" /\ UNCHANGED <<leases, snap>>
  BY DEF Start, diskVars
<1>2. Todo' = Filed /\ Filed' = Filed
  BY <1>1, Restarted, ExitIsNoRequest DEF Todo, Filed, Queued
<1>3. Helps!Recover
  BY <1>1, <1>2 DEF Helps!Recover, Todo, Filed
<1> QED BY <1>3 DEF Helps!Next

LEMMA PollLends ==
  ASSUME IInv, Poll
  PROVE  [Helps!Next]_(Helps!vars)
<1>1. up = "up" /\ UNCHANGED <<up, snap>>
  BY DEF Poll, diskVars
<1>2. CASE Free(queue, leases) # {}
  <2>1. /\ queue \in Seq(Events \cup {Exit}) /\ leases \in SUBSET Events
        /\ leases \subseteq Queued(queue) /\ Once(queue)
        /\ Queued(queue) \subseteq Requests \cup {Exit}
    BY DEF IInv, TypeOK, QueueIsSound
  <2>2. Deliver(queue, leases)
    BY <1>2 DEF Poll
  <2>3. /\ Queued(queue') \ {Exit} = Queued(queue) \ {Exit}
        /\ Lends(queue, leases)
    BY <1>2, <2>1, <2>2, Delivered
  <2>4. Helps!MayLend(Todo, leases)
    BY <2>3, LendingIsMayLend DEF Todo
  <2>5. Todo' = Todo /\ Filed' = Filed
    BY <1>1, <2>3 DEF Todo, Filed, Queued
  <2>6. Helps!Lend
    BY <1>1, <2>4, <2>5 DEF Helps!Lend, Todo, Filed
  <2> QED BY <2>6 DEF Helps!Next
<1>3. CASE Free(queue, leases) = {}
  BY <1>1, <1>3, Stutters DEF Poll, queueVars
<1> QED BY <1>2, <1>3

\* A reply that is not recorded finds the slot of its id empty: the session is
\* over, and so nothing was on file for it.
LEMMA ReplyFinishes ==
  ASSUME IInv, Reply
  PROVE  [Helps!Next]_(Helps!vars)
<1> DEFINE id == agent.id
           e == Event(agent.type, id)
           rec == Named(id) # {} \/ snap[id].phase \notin Terminal
<1>1. e \in Events /\ e.id = id /\ id \in Ids
  BY DEF Reply, IInv, HandsAreSound, Requests, Events, Event
<1>2. /\ Acknowledge(id) /\ up = "up" /\ UNCHANGED up
      /\ snap' = IF rec THEN [snap EXCEPT ![id] = Replied(snap[id], agent.reply)]
                 ELSE snap
  BY DEF Reply
<1> HIDE DEF e, id
<1>3. Filed' = FiledBeside(id)
  <2>1. CASE rec
    <3>1. Replied(snap[id], agent.reply).pending = None
      BY <1>1 DEF Replied, IInv, TypeOK, Snapshots
    <3> QED BY <1>1, <1>2, <2>1, <3>1, SlotEmptied
  <2>2. CASE ~rec
    <3>1. snap[id].pending = None /\ snap' = snap
      BY <1>1, <1>2, <2>2 DEF IInv, JournalsAreSound
    <3> QED BY <1>1, <3>1, SlotIsEmpty DEF Filed, FiledBeside
  <2> QED BY <2>1, <2>2
<1>4. IF \E f \in Todo : f.id = id
      THEN \E f \in Todo : /\ f.id = id
                           /\ Todo' = Todo \ {f} /\ leases' = leases \ {f}
      ELSE Todo' = Todo /\ leases' = leases
  <2>1. CASE Named(id) = {}
    <3>1. /\ \A f \in Queued(queue) : f.id # id
          /\ UNCHANGED queueVars
      BY <1>1, <1>2, <2>1, Acknowledged
    <3> QED BY <3>1 DEF Todo, queueVars, Queued
  <2>2. CASE Named(id) # {}
    <3>1. PICK f \in Queued(queue) \ {Exit} :
            /\ f.id = id
            /\ Queued(queue') = Queued(queue) \ {f}
            /\ leases' = leases \ {f}
      BY <1>1, <1>2, <2>2, Acknowledged
    <3>2. Todo' = Todo \ {f}
      <4>1. Todo' = Queued(queue') \ {Exit}
        BY DEF Todo, Queued, Exit, Event
      <4> QED BY <3>1, <4>1 DEF Todo
    <3> QED BY <3>1, <3>2 DEF Todo
  <2> QED BY <2>1, <2>2
<1>5. Helps!Finish(e.id)
  BY <1>1, <1>2, <1>3, <1>4 DEF Helps!Finish, Helps!Others, Todo, Filed, FiledBeside
<1>6. \E f \in Events : Helps!Finish(f.id)
  BY <1>1, <1>5 DEF Helps!Finish, Helps!Others
<1> QED BY <1>6 DEF Helps!Next

LEMMA CompleteOfflineFinishes ==
  ASSUME IInv, CompleteOffline
  PROVE  [Helps!Next]_(Helps!vars)
<1> DEFINE id == agent.id  e == Event(agent.type, id)
<1>1. e \in Events /\ e.id = id /\ id \in Ids
  BY DEF CompleteOffline, IInv, HandsAreSound, Requests, Events, Event
<1>2. /\ up # "up" /\ UNCHANGED <<queue, leases, up>>
      /\ snap' = [snap EXCEPT ![id] = Replied(snap[id], agent.reply)]
  BY DEF CompleteOffline, queueVars
<1> HIDE DEF e, id
<1>3. Replied(snap[id], agent.reply).pending = None
  BY <1>1 DEF Replied, IInv, TypeOK, Snapshots
<1>4. Filed' = FiledBeside(id) /\ Todo' = Todo
  BY <1>1, <1>2, <1>3, SlotEmptied DEF Todo, Queued
<1>5. Helps!FinishOffline(e.id)
  BY <1>1, <1>2, <1>4 DEF Helps!FinishOffline, Helps!Others, Todo, Filed, FiledBeside
<1>6. \E f \in Events : Helps!FinishOffline(f.id)
  BY <1>1, <1>5 DEF Helps!FinishOffline, Helps!Others
<1> QED BY <1>6 DEF Helps!Next

LEMMA HelperImplements ==
  IInv /\ Helper => [Helps!Next]_(Helps!vars)
<1> SUFFICES ASSUME IInv, Helper PROVE [Helps!Next]_(Helps!vars)
  OBVIOUS
<1>1. CASE \E m \in posts : HandlePost(m)
  BY <1>1, HandlePostSubmits
<1>2. CASE \E e \in leases : LeaseExpires(e)
  BY <1>2, LeaseExpiresReturns
<1>3. CASE ExitTimerFires
  BY <1>3, ExitTimerLends
<1>4. CASE Crash
  BY <1>4, DownFails DEF Crash
<1>5. CASE Start
  BY <1>5, StartRecovers
<1> QED BY <1>1, <1>2, <1>3, <1>4, <1>5 DEF Helper

LEMMA AgentImplements ==
  IInv /\ Agent => [Helps!Next]_(Helps!vars)
<1> SUFFICES ASSUME IInv, Agent PROVE [Helps!Next]_(Helps!vars)
  OBVIOUS
<1>1. CASE Poll
  BY <1>1, PollLends
<1>2. CASE Edit
  <2>1. UNCHANGED <<queue, leases, up, snap>>
    BY <1>2 DEF Edit, Wrap, WriteVariants, AcceptPlain, AcceptCarbonize,
                AcceptMissing, DiscardWrapped, DiscardMissing, GiveUp,
                AnswerSteer, CleanUp, Work, queueVars, diskVars
  <2> QED BY <2>1, Stutters
<1>3. CASE Reply
  BY <1>3, ReplyFinishes
<1>4. CASE CompleteOffline
  BY <1>4, CompleteOfflineFinishes
<1>5. CASE StopHelper
  <2>1. CASE up = "up"
    BY <1>5, <2>1, DownFails DEF StopHelper
  <2>2. CASE up # "up"
    BY <1>5, <2>2, Stutters DEF StopHelper, queueVars, diskVars
  <2> QED BY <2>1, <2>2
<1>6. CASE Interrupt
  BY <1>6, Stutters DEF Interrupt, queueVars, diskVars
<1> QED BY <1>1, <1>2, <1>3, <1>4, <1>5, <1>6 DEF Agent

\* The helper's queue, leases and journals implement the abstract work queue:
\* a request it has taken is held until an answer names its id, is lent to one
\* poll at a time, and when the helper starts again the last one journaled for
\* each id, and not answered, is queued.
THEOREM HelperKeepsItsWork == Spec => KeepsItsWork
<1>1. Init => Helps!Init
  <2> SUFFICES ASSUME Init PROVE Helps!Init
    OBVIOUS
  <2>1. Todo = {} /\ Filed = {} /\ leases = {} /\ up = "up"
    BY DEF Init, Todo, Filed, Queued, BaseSnapshot
  <2> QED BY <2>1 DEF Helps!Init, Todo, Filed
<1>2. IInv /\ [Next]_vars => [Helps!Next]_(Helps!vars)
  <2> SUFFICES ASSUME IInv, [Next]_vars PROVE [Helps!Next]_(Helps!vars)
    OBVIOUS
  <2>1. CASE Tab
    BY <2>1, TabStutters, Stutters
  <2>2. CASE Helper
    BY <2>2, HelperImplements
  <2>3. CASE Agent
    BY <2>3, AgentImplements
  <2>4. CASE UNCHANGED vars
    BY <2>4, Stutters DEF vars, queueVars, diskVars
  <2> QED BY <2>1, <2>2, <2>3, <2>4 DEF Next
<1> QED BY <1>1, <1>2, IInvInit, IInvNext, PTL DEF Spec, KeepsItsWork, Helps!Spec
-----------------------------------------------------------------------------
(* A decision is not lost.  What carries it: nothing of a session happens  *)
(* before the helper has its request for variants, which stays first in    *)
(* the queue, so the first reply that carries a decision out also ends the *)
(* last chance that the variants are written again.                        *)

\* The helper has not taken the request for variants that begins s: the tab
\* has not made it, or its POST is under way.
Unheard(s) == s \notin used \/ Post("generate", s) \in posts

\* Until then nothing is known of s, and the tab cannot decide it.
Untouched(s) ==
  /\ decision[s] = None /\ source[s] = "original" /\ snap[s].pending = None
  /\ agent.id # s /\ \A e \in Queued(queue) : e.id # s
  /\ \A m \in posts : m.id = s => m.type \in Unwatched
  /\ tab.accepted # s
  /\ tab.current = s => tab.linked /\ ~tab.arrived /\ tab.state # "cycling"
RequestComesFirst == \A s \in Sessions : Unheard(s) => Untouched(s)

\* What the tab has asked for has an id of its own; what failed, failed with
\* the connection; the session that is accepted is the one on the page.
TabIsSound ==
  /\ \A m \in posts : /\ m.id \in used
                      /\ m.type # "checkpoint" => m = Post(m.type, m.id)
  /\ tab.current # None => tab.current \in used
  /\ tab.accepted # None => tab.current \in {None, tab.accepted}
  /\ ~tab.open => ~tab.linked /\ answers = {}
  /\ tab.linked => \A a \in answers : a.ok

\* A session is decided after the helper has its request for variants.
SlotsAreSound ==
  /\ InOrder(queue)
  /\ \A s \in Sessions : snap[s].pending = "generate" => decision[s] = None

\* What the agent is about to reply is true of the source.
RepliesAreTrue ==
  /\ agent.st = "reply" =>
       /\ agent.type \in Decisions
            => agent.reply \in {"unhandled", "error"} \/ source[agent.id] # "variants"
       /\ agent.reply = "complete"
            => agent.type = "accept" /\ source[agent.id] = "accepted"
       /\ agent.reply = "discarded" => agent.type = "discard"
       /\ agent.reply = "carbonize" => agent.type = "accept"
  /\ agent.st = "cleanup" => agent.type = "accept" /\ source[agent.id] # "variants"

\* The agent writes variants of s, or will.
Wraps(s) ==
  \/ agent.st \in {"working", "reply"} /\ agent.type = "generate" /\ agent.id = s
  \/ Event("generate", s) \in Queued(queue)

\* An accept reported complete stays carried out; a helper that is down
\* reports nothing.
Saved(s) == s \in Sessions /\ source[s] = "accepted" /\ ~Wraps(s)
ReportsAreTrue ==
  /\ \A m \in Queued(sse) : m.reply = "complete" => Saved(m.id)
  /\ up # "up" => Queued(sse) = {}

\* A decision with the variants in the source, or about to be there again, is
\* queued, and in the journal's slot unless a reply has emptied that.
Standing(s) == /\ decision[s] # None /\ s \notin refused
               /\ source[s] = "variants" \/ Wraps(s)
DecisionsStand ==
  \A s \in Sessions : Standing(s) =>
    /\ Kept(s) \/ s \in forgotten
    /\ snap[s].pending = decision[s] \/ s \in clobbered \cup forgotten

DInv == /\ RequestComesFirst /\ TabIsSound /\ SlotsAreSound /\ RepliesAreTrue
        /\ ReportsAreTrue /\ DecisionsStand

LEMMA DInvInit == Init => DInv
<1> SUFFICES ASSUME Init PROVE DInv
  OBVIOUS
<1>1. Queued(queue) = {} /\ Queued(sse) = {}
  BY DEF Init, Queued
<1>2. RequestComesFirst
  BY <1>1, IdsAssumption
     DEF Init, RequestComesFirst, Untouched, NewTab, BaseSnapshot, Idle, Hands,
         Event, Ids
<1>3. TabIsSound /\ RepliesAreTrue
  BY DEF Init, TabIsSound, RepliesAreTrue, NewTab, Idle, Hands
<1>4. SlotsAreSound /\ ReportsAreTrue /\ DecisionsStand
  BY <1>1 DEF Init, SlotsAreSound, InOrder, ReportsAreTrue, DecisionsStand, Standing
<1> QED BY <1>2, <1>3, <1>4 DEF DInv

\* What the actions of the tab leave alone.
TabLeaves == <<up, queue, leases, snap, source, agent, pastVars>>

LEMMA TabStep ==
  ASSUME DInv, UNCHANGED TabLeaves, Queued(sse') \subseteq Queued(sse),
         TabIsSound',
         \A s \in Sessions : Unheard(s)' =>
           /\ Unheard(s)
           /\ \A m \in posts' \ posts : m.id = s => m.type \in Unwatched
           /\ tab'.accepted # s
           /\ tab'.current = s => tab'.linked /\ ~tab'.arrived /\ tab'.state # "cycling"
  PROVE  DInv'
<1> USE DEF TabLeaves, pastVars
<1>1. Queued(queue') = Queued(queue)
  OBVIOUS
<1>2. RequestComesFirst'
  <2> SUFFICES ASSUME NEW s \in Sessions, Unheard(s)' PROVE Untouched(s)'
    BY DEF RequestComesFirst
  <2>1. Untouched(s)
    BY DEF DInv, RequestComesFirst
  <2> QED BY <1>1, <2>1 DEF Untouched
<1>3. SlotsAreSound' /\ RepliesAreTrue'
  BY DEF DInv, SlotsAreSound, InOrder, RepliesAreTrue
<1>4. \A s : Wraps(s)' = Wraps(s)
  BY <1>1 DEF Wraps
<1>5. ReportsAreTrue'
  BY <1>4 DEF DInv, ReportsAreTrue, Saved
<1>6. DecisionsStand'
  BY <1>1, <1>4 DEF DInv, DecisionsStand, Standing, Kept
<1> QED BY <1>2, <1>3, <1>5, <1>6 DEF DInv

\* What a fetch of the tab adds to the posts and the answers.
LEMMA FetchAdds ==
  ASSUME NEW m, Fetch(m)
  PROVE  /\ tab.linked => posts' = posts \cup {m} /\ answers' = answers
         /\ ~tab.linked => posts' = posts
         /\ \A a \in answers' \ answers : ~tab.linked
  BY DEF Fetch

LEMMA DecideStands ==
  ASSUME IInv, DInv, NEW type \in Decisions, Decide(type),
         tab' = tab \/ tab' = [tab EXCEPT !.accepted = tab.current, !.state = "saving"]
  PROVE  DInv'
<1>0. tab \in Tabs
  BY DEF IInv, TypeOK
<1>1. /\ UNCHANGED TabLeaves /\ UNCHANGED <<sse, used>>
      /\ tab.open /\ tab.state = "cycling" /\ tab.current # None
      /\ Fetch(Post(type, tab.current))
  BY DEF Decide, TabLeaves, queueVars, diskVars
<1>2. /\ posts' \subseteq posts \cup {Post(type, tab.current)}
      /\ tab.linked => answers' = answers
  BY <1>1, FetchAdds
<1>3. /\ tab'.open = tab.open /\ tab'.linked = tab.linked
      /\ tab'.current = tab.current /\ tab'.arrived = tab.arrived
      /\ tab'.accepted \in {tab.accepted, tab.current}
  BY <1>0 DEF Tabs
<1>4. TabIsSound'
  BY <1>1, <1>2, <1>3 DEF DInv, TabIsSound, Post
<1>5. ASSUME NEW s \in Sessions, Unheard(s)'
      PROVE  /\ Unheard(s)
             /\ \A m \in posts' \ posts : m.id = s => m.type \in Unwatched
             /\ tab'.accepted # s
             /\ tab'.current = s
                  => tab'.linked /\ ~tab'.arrived /\ tab'.state # "cycling"
  <2>1. Unheard(s)
    BY <1>1, <1>2, <1>5 DEF Unheard, Post, Decisions
  <2>2. tab.current # s /\ tab.accepted # s
    BY <1>1, <2>1 DEF DInv, RequestComesFirst, Untouched
  <2> QED BY <1>2, <1>3, <2>1, <2>2 DEF Post
<1> QED BY <1>1, <1>4, <1>5, TabStep DEF Queued

LEMMA GoStands ==
  ASSUME IInv, DInv, NEW s \in Sessions, Go(s)
  PROVE  DInv'
<1>0. tab \in Tabs
  BY DEF IInv, TypeOK
<1>1. /\ UNCHANGED TabLeaves /\ UNCHANGED sse
      /\ tab.open /\ s \notin used /\ used' = used \cup {s}
      /\ tab' = [tab EXCEPT !.state = "generating", !.current = s,
                            !.arrived = FALSE, !.accepted = None]
      /\ Fetch(Post("generate", s))
  BY DEF Go, tabOnly, TabLeaves, queueVars, diskVars
<1>2. posts' \subseteq posts \cup {Post("generate", s)}
  BY <1>1, FetchAdds
<1>3. TabIsSound'
  BY <1>0, <1>1, <1>2, FetchAdds DEF DInv, TabIsSound, Tabs, Post
<1>4. ASSUME NEW r \in Sessions, Unheard(r)'
      PROVE  /\ Unheard(r)
             /\ \A m \in posts' \ posts : m.id = r => m.type \in Unwatched
             /\ tab'.accepted # r
             /\ tab'.current = r
                  => tab'.linked /\ ~tab'.arrived /\ tab'.state # "cycling"
  <2>1. Unheard(r)
    BY <1>1, <1>2, <1>4 DEF Unheard, Post
  <2>2. r = s => tab.linked
    BY <1>1, <1>4, FetchAdds DEF Unheard, DInv, TabIsSound, Post
  <2>3. tab'.accepted # r
    BY <1>0, <1>1, IdsAssumption DEF Tabs, Ids
  <2> QED BY <1>0, <1>1, <1>2, <2>1, <2>2, <2>3 DEF Tabs, Post, Unwatched
<1> QED BY <1>1, <1>3, <1>4, TabStep DEF Queued

LEMMA SteerStands ==
  ASSUME IInv, DInv, NEW t \in Steers, Steer(t)
  PROVE  DInv'
<1>0. tab \in Tabs
  BY DEF IInv, TypeOK
<1>1. /\ UNCHANGED TabLeaves /\ UNCHANGED sse
      /\ tab.open /\ used' = used \cup {t}
      /\ tab' = [tab EXCEPT !.steering = t]
      /\ Fetch(Post("steer", t))
  BY DEF Steer, tabOnly, TabLeaves, queueVars, diskVars
<1>2. posts' \subseteq posts \cup {Post("steer", t)}
  BY <1>1, FetchAdds
<1>3. TabIsSound'
  BY <1>0, <1>1, <1>2, FetchAdds DEF DInv, TabIsSound, Tabs, Post
<1>4. ASSUME NEW s \in Sessions, Unheard(s)'
      PROVE  /\ Unheard(s)
             /\ \A m \in posts' \ posts : m.id = s => m.type \in Unwatched
             /\ tab'.accepted # s
             /\ tab'.current = s
                  => tab'.linked /\ ~tab'.arrived /\ tab'.state # "cycling"
  <2>1. Unheard(s) /\ t # s
    BY <1>1, <1>2, <1>4, IdsAssumption DEF Unheard, Post
  <2>2. Untouched(s)
    BY <2>1 DEF DInv, RequestComesFirst
  <2> QED BY <1>0, <1>1, <1>2, <2>1, <2>2 DEF Untouched, Tabs, Post
<1> QED BY <1>1, <1>3, <1>4, TabStep DEF Queued

\* An action of the tab that sends nothing and goes to no other session.
LEMMA TabOnlyStands ==
  ASSUME IInv, DInv, UNCHANGED TabLeaves, Queued(sse') \subseteq Queued(sse),
         UNCHANGED used, posts' = posts, answers' \subseteq answers,
         tab'.open = tab.open, tab'.linked = tab.linked,
         tab'.current \in {None, tab.current},
         tab'.accepted \in {None, tab.accepted},
         tab'.accepted # None => tab'.current \in {None, tab'.accepted},
         tab'.current # None /\ tab'.arrived /\ ~tab.arrived
           => source[tab.current] # "original",
         tab'.current # None /\ tab'.state = "cycling" /\ tab.state # "cycling"
           => source[tab.current] # "original" \/ ~tab.linked \/ tab.arrived
              \/ tab.current = tab.accepted
  PROVE  DInv'
<1>1. TabIsSound'
  BY DEF DInv, TabIsSound
<1>2. ASSUME NEW s \in Sessions, Unheard(s)'
      PROVE  /\ Unheard(s)
             /\ \A m \in posts' \ posts : m.id = s => m.type \in Unwatched
             /\ tab'.accepted # s
             /\ tab'.current = s
                  => tab'.linked /\ ~tab'.arrived /\ tab'.state # "cycling"
  <2>1. Unheard(s)
    BY <1>2 DEF Unheard
  <2>2. Untouched(s) /\ s # None
    BY <2>1, IdsAssumption DEF DInv, RequestComesFirst, Ids
  <2>3. tab \in Tabs
    BY DEF IInv, TypeOK
  <2> QED BY <2>1, <2>2, <2>3 DEF Untouched, Tabs
<1> QED BY <1>1, <1>2, TabStep

LEMMA HearingStands ==
  ASSUME IInv, DInv, HearReply \/ \E a \in answers : HearAnswer(a)
  PROVE  DInv'
<1>0. tab \in Tabs /\ TabIsSound
  BY DEF IInv, TypeOK, DInv
<1>1. CASE HearReply
  <2>1. /\ Head(sse) \in Replies /\ tab' = Heard(tab, Head(sse))
        /\ Queued(sse') \subseteq Queued(sse)
        /\ UNCHANGED TabLeaves /\ UNCHANGED <<posts, answers, used>>
    <3>1. sse \in Seq(Replies) /\ sse # <<>>
      BY <1>1 DEF IInv, TypeOK, HearReply
    <3>2. Head(sse) \in Replies /\ Queued(Tail(sse)) \subseteq Queued(sse)
      BY <3>1, HeadTailProperties DEF Queued
    <3> QED BY <1>1, <3>2 DEF HearReply, tabOnly, TabLeaves, queueVars, diskVars
  <2> DEFINE m == Head(sse)
  <2> HIDE DEF m
  <2>2. m \in Replies /\ tab' = Heard(tab, m) /\ m.id # None
    BY <2>1, IdsAssumption DEF m, Replies, Ids
  <2>3. /\ tab'.open = tab.open /\ tab'.linked = tab.linked
        /\ tab'.current = tab.current
        /\ tab'.accepted \in {None, tab.accepted}
        /\ tab'.arrived /\ ~tab.arrived => source[tab.current] = "variants"
        /\ tab'.state = "cycling" /\ tab.state # "cycling"
             => tab.arrived \/ source[tab.current] = "variants"
                \/ tab.accepted # None
    BY <1>0, <2>2 DEF Heard, Tabs
  <2> QED BY <1>0, <2>1, <2>3, TabOnlyStands DEF TabIsSound
<1>2. ASSUME NEW a \in answers, HearAnswer(a) PROVE DInv'
  <2>1. /\ UNCHANGED TabLeaves /\ UNCHANGED <<sse, posts, used>>
        /\ answers' \subseteq answers
    BY <1>2 DEF HearAnswer, TabLeaves, queueVars, diskVars
  <2>2. /\ tab'.open = tab.open /\ tab'.linked = tab.linked
        /\ tab'.current \in {None, tab.current}
        /\ tab'.accepted \in {None, tab.accepted}
        /\ tab'.arrived = tab.arrived
        /\ tab'.state = "cycling" /\ tab.state # "cycling" => ~a.ok
    BY <1>0, <1>2 DEF HearAnswer, Tabs
  <2> QED BY <1>0, <2>1, <2>2, TabOnlyStands DEF TabIsSound, Queued
<1> QED BY <1>1, <1>2

LEMMA CheckpointStands ==
  ASSUME IInv, DInv, SendCheckpoint
  PROVE  DInv'
<1> DEFINE m == [type |-> "checkpoint", id |-> tab.current,
                 phase |-> tab.state, revision |-> tab.revision + 1]
<1>0. tab \in Tabs
  BY DEF IInv, TypeOK
<1>1. /\ UNCHANGED TabLeaves /\ UNCHANGED <<sse, used>>
      /\ tab.open /\ tab.current # None /\ Fetch(m)
      /\ m.type = "checkpoint" /\ m.id = tab.current
  BY DEF SendCheckpoint, tabOnly, TabLeaves, queueVars, diskVars
<1>2. /\ tab'.open = tab.open /\ tab'.linked = tab.linked
      /\ tab'.current = tab.current /\ tab'.accepted = tab.accepted
      /\ tab'.arrived = tab.arrived /\ tab'.state = tab.state
  BY <1>0 DEF SendCheckpoint, Tabs
<1> HIDE DEF m
<1>3. posts' \subseteq posts \cup {m} /\ answers' = answers
  BY <1>1, FetchAdds DEF Fetch, Unwatched
<1>4. TabIsSound'
  BY <1>1, <1>2, <1>3 DEF DInv, TabIsSound
<1>5. ASSUME NEW s \in Sessions, Unheard(s)'
      PROVE  /\ Unheard(s)
             /\ \A p \in posts' \ posts : p.id = s => p.type \in Unwatched
             /\ tab'.accepted # s
             /\ tab'.current = s
                  => tab'.linked /\ ~tab'.arrived /\ tab'.state # "cycling"
  <2>1. Unheard(s)
    BY <1>1, <1>3, <1>5 DEF Unheard, Post
  <2>2. Untouched(s)
    BY <2>1 DEF DInv, RequestComesFirst
  <2> QED BY <1>1, <1>2, <1>3, <2>1, <2>2 DEF Untouched, Unwatched
<1> QED BY <1>1, <1>4, <1>5, TabStep DEF Queued

\* A page that goes away forgets its session; one that comes finds a wrapper.
LEMMA OpenAndCloseStand ==
  ASSUME IInv, DInv, CloseTab \/ OpenTab
  PROVE  DInv'
<1>0. /\ tab \in Tabs /\ UNCHANGED TabLeaves /\ UNCHANGED <<posts, used>>
      /\ Queued(sse') \subseteq Queued(sse)
  BY DEF IInv, TypeOK, CloseTab, OpenTab, TabLeaves, queueVars, diskVars,
         wireVars, Queued
<1>1. tab'.accepted = None
  BY DEF CloseTab, OpenTab, NewTab, Resumed
<1>2. /\ \/ tab'.current = None
         \/ tab'.current \in Sessions /\ source[tab'.current] # "original"
      /\ ~tab'.open => ~tab'.linked
      /\ answers' = {}
  BY DEF CloseTab, OpenTab, NewTab, Resumed, Wrapped, DInv, TabIsSound, wireVars
<1>3. \A s \in Sessions : Unheard(s)' =>
        Unheard(s) /\ Untouched(s) /\ tab'.current # s /\ s # None
  BY <1>0, <1>2, IdsAssumption
     DEF DInv, RequestComesFirst, Untouched, Unheard, Ids
<1>4. TabIsSound'
  BY <1>0, <1>1, <1>2, <1>3 DEF DInv, TabIsSound, RequestComesFirst, Unheard, Untouched
<1> QED BY <1>0, <1>1, <1>3, <1>4, TabStep

LEMMA TabStands == IInv /\ DInv /\ Tab => DInv'
<1> SUFFICES ASSUME IInv, DInv, Tab PROVE DInv'
  OBVIOUS
<1>0. tab \in Tabs /\ TabIsSound
  BY DEF IInv, TypeOK, DInv
<1>1. CASE VariantsMount \/ SteerTimeout \/ Finish
  <2>1. /\ UNCHANGED TabLeaves /\ UNCHANGED <<sse, posts, answers, used>>
    BY <1>1 DEF VariantsMount, SteerTimeout, Finish, tabOnly, TabLeaves, wireVars,
                queueVars, diskVars
  <2>2. /\ tab'.open = tab.open /\ tab'.linked = tab.linked
        /\ tab'.current \in {None, tab.current}
        /\ tab'.accepted \in {None, tab.accepted}
        /\ tab'.accepted # None => tab'.current = tab.current
        /\ \/ tab'.arrived = tab.arrived /\ tab'.state \in {tab.state, "picking"}
           \/ source[tab.current] = "variants"
    BY <1>0, <1>1 DEF VariantsMount, SteerTimeout, Finish, Tabs
  <2> QED BY <1>0, <2>1, <2>2, TabOnlyStands DEF TabIsSound, Queued
<1>2. CASE Accept \/ Discard
  BY <1>2, DecideStands DEF Accept, Discard, Decisions
<1> QED BY <1>1, <1>2, GoStands, SteerStands, HearingStands, CheckpointStands,
           OpenAndCloseStand
        DEF Tab

\* The queue is handed on, or the agent waits at it.
LEMMA QueueStepStands ==
  ASSUME IInv, DInv,
         UNCHANGED <<tab, posts, answers, sse, up, snap, source, used, decision,
                     refused, clobbered, forgotten>>,
         Queued(queue') \ {Exit} = Queued(queue) \ {Exit}, InOrder(queue'),
         \/ UNCHANGED agent \/ agent' = Parked
         \/ \E e \in Queued(queue) \cup {Exit} : agent' = Hands("working", e, None)
  PROVE  DInv'
<1>0. /\ Exit.type = "exit" /\ Exit.id = None
      /\ \A s : Event("generate", s) # Exit /\ \A d \in Decisions : Event(d, s) # Exit
  BY DEF Exit, Event, Decisions
<1>1. \/ UNCHANGED agent
      \/ /\ agent'.st \in {"parked", "working"}
         /\ \/ agent'.id = None
            \/ \E e \in Queued(queue) : agent'.id = e.id /\ agent'.type = e.type
  BY <1>0 DEF Parked, Hands, Event
<1>2. \A s \in Ids : Wraps(s)' => Wraps(s)
  <2> SUFFICES ASSUME NEW s \in Ids, Wraps(s)' PROVE Wraps(s)
    OBVIOUS
  <2>1. Event("generate", s) \in Queued(queue') => Event("generate", s) \in Queued(queue)
    BY <1>0
  <2>2. ASSUME NEW e \in Queued(queue), e.id = s, e.type = "generate"
        PROVE  e = Event("generate", s)
    <3>1. e \in Requests
      BY <2>2 DEF IInv, QueueIsSound, Exit, Event
    <3> QED BY <2>2, <3>1 DEF Requests, Events, Event
  <2>3. CASE UNCHANGED agent
    BY <2>1, <2>3 DEF Wraps
  <2>4. CASE ~UNCHANGED agent
    <3>1. s # None
      BY IdsAssumption DEF Ids
    <3> QED BY <1>1, <2>1, <2>2, <2>4, <3>1 DEF Wraps
  <2> QED BY <2>3, <2>4
<1>3. RequestComesFirst'
  <2> SUFFICES ASSUME NEW s \in Sessions, Unheard(s)' PROVE Untouched(s)'
    BY DEF RequestComesFirst
  <2>1. Untouched(s) /\ s # None
    BY IdsAssumption DEF DInv, RequestComesFirst, Unheard, Ids
  <2>2. /\ \A e \in Queued(queue') : e.id # s
        /\ agent'.id # s
    BY <1>0, <1>1, <2>1 DEF Untouched
  <2> QED BY <2>1, <2>2 DEF Untouched
<1>4. TabIsSound' /\ SlotsAreSound'
  BY DEF DInv, TabIsSound, SlotsAreSound
<1>5. RepliesAreTrue'
  BY <1>1 DEF DInv, RepliesAreTrue
<1>6. ReportsAreTrue'
  BY <1>2 DEF DInv, ReportsAreTrue, Saved, Ids
<1>7. DecisionsStand'
  <2> SUFFICES ASSUME NEW s \in Sessions, Standing(s)'
               PROVE  /\ Kept(s)' \/ s \in forgotten
                      /\ snap[s].pending = decision[s] \/ s \in clobbered \cup forgotten
    BY DEF DecisionsStand
  <2>1. Standing(s)
    BY <1>2 DEF Standing, Ids
  <2>2. decision[s] \in Decisions
    BY <2>1 DEF Standing, IInv, TypeOK
  <2>3. Kept(s) => Kept(s)'
    BY <1>0, <2>2 DEF Kept
  <2> QED BY <2>1, <2>3 DEF DInv, DecisionsStand
<1> QED BY <1>3, <1>4, <1>5, <1>6, <1>7 DEF DInv

LEMMA LeaseExpiresStands ==
  ASSUME IInv, DInv, NEW e \in leases, LeaseExpires(e)
  PROVE  DInv'
<1>1. /\ queue \in Seq(Events \cup {Exit}) /\ leases \ {e} \in SUBSET Events
      /\ leases \ {e} \subseteq Queued(queue) /\ Once(queue)
      /\ Queued(queue) \subseteq Requests \cup {Exit} /\ InOrder(queue)
  BY DEF IInv, TypeOK, QueueIsSound, DInv, SlotsAreSound
<1>2. /\ Flush(queue, leases \ {e})
      /\ UNCHANGED <<tab, posts, answers, sse, up, snap, source, used, decision,
                     refused, clobbered, forgotten>>
  BY DEF LeaseExpires, wireVars, diskVars, pastVars
<1>3. /\ Queued(queue') \ {Exit} = Queued(queue) \ {Exit} /\ InOrder(queue')
      /\ \/ UNCHANGED agent
         \/ \E f \in Queued(queue) : agent' = Hands("working", f, None)
  BY <1>1, <1>2, Flushed
<1> QED BY <1>2, <1>3, QueueStepStands

LEMMA ExitTimerStands ==
  ASSUME IInv, DInv, ExitTimerFires
  PROVE  DInv'
<1>1. /\ Enqueue(Exit)
      /\ UNCHANGED <<tab, posts, answers, sse, up, snap, source, used, decision,
                     refused, clobbered, forgotten>>
  BY DEF ExitTimerFires, wireVars, diskVars, pastVars
<1>2. InOrder(queue) /\ Exit.type # "generate"
  BY DEF DInv, SlotsAreSound, Exit, Event
<1>3. /\ Queued(queue') \ {Exit} = (Queued(queue) \cup {Exit}) \ {Exit}
      /\ InOrder(queue')
      /\ \/ UNCHANGED agent
         \/ \E f \in Queued(queue) \cup {Exit} : agent' = Hands("working", f, None)
  BY <1>1, <1>2, Enqueued
<1> QED BY <1>1, <1>3, QueueStepStands

LEMMA PollStands ==
  ASSUME IInv, DInv, Poll
  PROVE  DInv'
<1>1. UNCHANGED <<tab, posts, answers, sse, up, snap, source, used, decision,
                  refused, clobbered, forgotten>>
  BY DEF Poll, agentOnly, wireVars, diskVars, pastVars
<1>2. /\ queue \in Seq(Events \cup {Exit}) /\ leases \in SUBSET Events
      /\ leases \subseteq Queued(queue) /\ Once(queue)
      /\ Queued(queue) \subseteq Requests \cup {Exit} /\ InOrder(queue)
  BY DEF IInv, TypeOK, QueueIsSound, DInv, SlotsAreSound
<1>3. CASE Free(queue, leases) # {}
  <2>1. Deliver(queue, leases)
    BY <1>3 DEF Poll
  <2>2. /\ Queued(queue') \ {Exit} = Queued(queue) \ {Exit} /\ InOrder(queue')
        /\ \E f \in Queued(queue) : agent' = Hands("working", f, None)
    BY <1>2, <1>3, <2>1, Delivered
  <2> QED BY <1>1, <2>2, QueueStepStands
<1>4. CASE Free(queue, leases) = {}
  <2>1. agent' = Parked /\ UNCHANGED queue
    BY <1>4 DEF Poll, queueVars
  <2> QED BY <1>1, <1>2, <2>1, QueueStepStands DEF Queued
<1> QED BY <1>3, <1>4

\* The checkpoint of a session says nothing of its decision.
LEMMA CheckpointTakenStands ==
  ASSUME IInv, DInv, NEW m \in posts, HandlePost(m), m.type = "checkpoint"
  PROVE  DInv'
<1>1. /\ UNCHANGED <<tab, sse, up, queue, source, agent, used, answers, decision,
                     refused, clobbered, forgotten>>
      /\ posts' \subseteq posts
      /\ snap' = [snap EXCEPT ![m.id] = Checkpointed(snap[m.id], m)]
  BY DEF HandlePost, queueVars, pastVars, Decisions
<1>2. \A i \in Ids : snap'[i].pending = snap[i].pending
  <2>1. m.id \in Ids /\ snap \in [Ids -> Snapshots]
    BY DEF IInv, TypeOK, Posts
  <2>2. Checkpointed(snap[m.id], m).pending = snap[m.id].pending
    BY <2>1 DEF Checkpointed, Snapshots
  <2> QED BY <1>1, <2>1, <2>2
<1>3. Queued(queue') = Queued(queue) /\ Queued(sse') = Queued(sse)
  BY <1>1 DEF Queued
<1>4. RequestComesFirst'
  <2> SUFFICES ASSUME NEW s \in Sessions, Unheard(s)' PROVE Untouched(s)'
    BY DEF RequestComesFirst
  <2>1. Untouched(s)
    BY <1>1 DEF DInv, RequestComesFirst, Unheard
  <2> QED BY <1>1, <1>2, <1>3, <2>1 DEF Untouched, Ids
<1>5. TabIsSound' /\ SlotsAreSound' /\ RepliesAreTrue'
  BY <1>1, <1>2 DEF DInv, TabIsSound, SlotsAreSound, InOrder, RepliesAreTrue, Ids
<1>6. ReportsAreTrue' /\ DecisionsStand'
  <2>1. \A s : Wraps(s)' = Wraps(s)
    BY <1>1, <1>3 DEF Wraps
  <2> QED BY <1>1, <1>2, <1>3, <2>1
          DEF DInv, ReportsAreTrue, Saved, DecisionsStand, Standing, Kept, Ids
<1> QED BY <1>4, <1>5, <1>6 DEF DInv

\* A request is queued and fills its slot; a decision is confirmed with it.
LEMMA RequestTakenStands ==
  ASSUME IInv, DInv, NEW m \in posts, HandlePost(m), m.type # "checkpoint"
  PROVE  DInv'
<1> DEFINE e == Event(m.type, m.id)
<1>1. /\ e \in Requests /\ e # Exit /\ e.type = m.type /\ e.id = m.id
      /\ m.id \in Ids /\ m.type \in DOMAIN RequestPhase
      /\ m.type # "steer" => m.id \in Sessions
      /\ m.type = "steer" => m.id \notin Sessions
      /\ m = Post(m.type, m.id) /\ m.id \in used
      /\ \A s : Event("generate", s) # Exit
  BY IdsAssumption, ExitIsNoRequest
     DEF IInv, TypeOK, Posts, PostsAreRequests, Requests, Events, Event, Exit,
         DInv, TabIsSound
<1>2. /\ UNCHANGED <<tab, sse, up, source, used>> /\ up = "up"
      /\ posts' = posts \ {m} /\ Enqueue(e)
      /\ snap' = [snap EXCEPT ![m.id] = Requested(snap[m.id], m.type)]
  BY DEF HandlePost
<1>3. m.type = "generate" => Untouched(m.id)
  BY <1>1 DEF DInv, RequestComesFirst, Unheard
<1> HIDE DEF e
<1>4. /\ Queued(queue') \ {Exit} = (Queued(queue) \cup {e}) \ {Exit}
      /\ InOrder(queue')
      /\ \/ UNCHANGED agent
         \/ \E f \in Queued(queue) \cup {e} : agent' = Hands("working", f, None)
  <2>1. InOrder(queue) /\ (e.type = "generate" => \A f \in Queued(queue) : f.id # e.id)
    BY <1>1, <1>3 DEF DInv, SlotsAreSound, Untouched
  <2> QED BY <1>1, <1>2, <2>1, Enqueued
<1>5. \/ UNCHANGED agent
      \/ /\ agent'.st = "working"
         /\ \E f \in Queued(queue) \cup {e} : agent'.id = f.id /\ agent'.type = f.type
  BY <1>4 DEF Hands
<1>6. \A i \in Ids : snap'[i].pending = IF i = m.id THEN m.type ELSE snap[i].pending
  <2>1. snap \in [Ids -> Snapshots]
    BY DEF IInv, TypeOK
  <2>2. Requested(snap[m.id], m.type).pending = m.type
    BY <1>1, <2>1 DEF Requested, Snapshots
  <2> QED BY <1>1, <1>2, <2>1, <2>2
<1>7. \A s \in Sessions : decision'[s] = IF s = m.id /\ m.type \in Decisions
                                       THEN m.type ELSE decision[s]
  <2>1. decision \in [Sessions -> Decisions \cup {None}]
    BY DEF IInv, TypeOK
  <2> QED BY <1>1, <2>1 DEF HandlePost, pastVars
<1>8. ASSUME NEW s \in Sessions, Wraps(s)'
      PROVE  Wraps(s) \/ (m.type = "generate" /\ m.id = s)
  <2>1. Event("generate", s) \in Queued(queue') =>
          Event("generate", s) \in Queued(queue) \/ Event("generate", s) = e
    BY <1>1, <1>4
  <2>2. Event("generate", s) = e => m.type = "generate" /\ m.id = s
    BY <1>1 DEF Event
  <2>3. ASSUME NEW f \in Queued(queue), f.id = s, f.type = "generate"
        PROVE  f = Event("generate", s)
    <3>1. f \in Requests
      BY <2>3 DEF IInv, QueueIsSound, Exit, Event
    <3> QED BY <2>3, <3>1 DEF Requests, Events, Event
  <2>4. CASE UNCHANGED agent
    BY <1>8, <2>1, <2>2, <2>4 DEF Wraps
  <2>5. CASE ~UNCHANGED agent
    BY <1>1, <1>5, <1>8, <2>1, <2>2, <2>3, <2>5 DEF Wraps
  <2> QED BY <2>4, <2>5
<1>9. RequestComesFirst'
  <2> SUFFICES ASSUME NEW s \in Sessions, Unheard(s)' PROVE Untouched(s)'
    BY DEF RequestComesFirst
  <2>1. Unheard(s) /\ ~(m.type = "generate" /\ m.id = s)
    BY <1>1, <1>2 DEF Unheard
  <2>2. Untouched(s) /\ s # None
    BY <2>1, IdsAssumption DEF DInv, RequestComesFirst, Ids
  <2>3. m.id # s
    BY <1>1, <2>1, <2>2 DEF Untouched, Unwatched
  <2>4. /\ \A f \in Queued(queue') : f.id # s
        /\ agent'.id # s
    <3>1. \A f \in Queued(queue) \cup {e} : f.id # s
      BY <1>1, <2>2, <2>3 DEF Untouched
    <3>2. Exit.id # s
      BY <2>2 DEF Exit, Event
    <3> QED BY <1>4, <1>5, <2>2, <3>1, <3>2 DEF Untouched
  <2> QED BY <1>2, <1>6, <1>7, <2>2, <2>3, <2>4 DEF Untouched, Ids
<1>10. TabIsSound'
  BY <1>2 DEF DInv, TabIsSound, HandlePost, Answer
<1>11. SlotsAreSound' /\ RepliesAreTrue'
  <2>1. \A s \in Sessions : snap'[s].pending = "generate" => decision'[s] = None
    BY <1>3, <1>6, <1>7 DEF DInv, SlotsAreSound, Untouched, Decisions, Ids
  <2>2. RepliesAreTrue'
    BY <1>2, <1>5 DEF DInv, RepliesAreTrue
  <2> QED BY <1>4, <2>1, <2>2 DEF SlotsAreSound
<1>12. ReportsAreTrue'
  <2> SUFFICES ASSUME NEW r \in Queued(sse), r.reply = "complete" PROVE Saved(r.id)'
    BY <1>2 DEF ReportsAreTrue, Queued
  <2>1. Saved(r.id)
    BY DEF DInv, ReportsAreTrue
  <2> QED BY <1>2, <1>3, <1>8, <2>1 DEF Saved, Untouched
<1>13. DecisionsStand'
  <2> SUFFICES ASSUME NEW s \in Sessions, Standing(s)'
               PROVE  /\ Kept(s)' \/ s \in forgotten'
                      /\ \/ snap'[s].pending = decision'[s]
                         \/ s \in clobbered' \cup forgotten'
    BY DEF DecisionsStand
  <2>1. CASE m.id = s
    <3>1. m.type \in Decisions
      BY <1>1, <1>3, <1>7, <2>1, RequestTypes DEF Standing, Untouched, Decisions
    <3>2. Event(decision'[s], s) = e
      BY <1>7, <2>1, <3>1 DEF e
    <3>3. e \in Queued(queue')
      BY <1>1, <1>4
    <3> QED BY <1>2, <1>6, <1>7, <2>1, <3>1, <3>2, <3>3 DEF Kept, Ids
  <2>2. CASE m.id # s
    <3>1. /\ decision'[s] = decision[s] /\ snap'[s].pending = snap[s].pending
          /\ s \in refused' <=> s \in refused
          /\ s \in clobbered' <=> s \in clobbered
          /\ s \in forgotten' <=> s \in forgotten
      BY <1>6, <1>7, <2>2 DEF HandlePost, pastVars, Ids
    <3>2. Standing(s)
      BY <1>2, <1>8, <2>2, <3>1 DEF Standing
    <3>3. Event(decision[s], s) # Exit
      BY IdsAssumption DEF Event, Exit, Ids
    <3> QED BY <1>2, <1>4, <3>1, <3>2, <3>3 DEF DInv, DecisionsStand, Kept
  <2> QED BY <2>1, <2>2
<1> QED BY <1>9, <1>10, <1>11, <1>12, <1>13 DEF DInv

\* When the helper's process ends, what a reply had erased is forgotten.
LEMMA DownStands ==
  ASSUME IInv, DInv, NEW how, how # "up", up = "up", Down(how),
         UNCHANGED agent \/ agent' = Idle
  PROVE  DInv'
<1>1. /\ up' # "up" /\ queue' = <<>> /\ sse' = <<>> /\ posts' = {}
      /\ UNCHANGED <<snap, source, used, decision, refused, clobbered>>
      /\ tab' = [tab EXCEPT !.linked = FALSE]
      /\ ~tab.open => answers' = {}
      /\ forgotten' = forgotten \cup clobbered
  BY DEF Down, diskVars
<1>2. /\ Queued(queue') = {} /\ Queued(sse') = {} /\ InOrder(queue')
  BY <1>1 DEF Queued, InOrder
<1>3. /\ tab'.open = tab.open /\ tab'.current = tab.current /\ ~tab'.linked
      /\ tab'.accepted = tab.accepted
  BY <1>1 DEF IInv, TypeOK, Tabs
<1>4. Idle.st = "idle" /\ Idle.id = None
  BY DEF Idle, Hands, Event
<1>5. \A s \in Ids : Wraps(s)' => Wraps(s)
  BY <1>2, <1>4 DEF Wraps
<1>6. RequestComesFirst'
  <2> SUFFICES ASSUME NEW s \in Sessions, Unheard(s)' PROVE Untouched(s)'
    BY DEF RequestComesFirst
  <2>1. s \notin used /\ s # None
    BY <1>1, IdsAssumption DEF Unheard, Ids
  <2>2. Untouched(s) /\ tab.current # s
    BY <2>1 DEF DInv, RequestComesFirst, Unheard, TabIsSound
  <2> QED BY <1>1, <1>2, <1>3, <1>4, <2>1, <2>2 DEF Untouched
<1>7. TabIsSound'
  BY <1>1, <1>3 DEF DInv, TabIsSound
<1>8. SlotsAreSound' /\ RepliesAreTrue' /\ ReportsAreTrue'
  BY <1>1, <1>2, <1>4 DEF DInv, SlotsAreSound, RepliesAreTrue, ReportsAreTrue
<1>9. DecisionsStand'
  <2> SUFFICES ASSUME NEW s \in Sessions, Standing(s)'
               PROVE  snap[s].pending = decision[s] \/ s \in forgotten'
    BY <1>1 DEF DecisionsStand, Kept
  <2>1. Standing(s)
    BY <1>1, <1>5 DEF Standing, Ids
  <2> QED BY <1>1, <2>1 DEF DInv, DecisionsStand
<1> QED BY <1>6, <1>7, <1>8, <1>9 DEF DInv

LEMMA StartStands ==
  ASSUME IInv, DInv, Start
  PROVE  DInv'
<1>1. /\ up # "up" /\ up' = "up"
      /\ UNCHANGED <<tab, posts, answers, sse, snap, source, agent, used, decision,
                     refused, clobbered, forgotten>>
  BY DEF Start, wireVars, diskVars, pastVars
<1>2. Queued(queue') = {Event(snap[i].pending, i) :
                          i \in {j \in Ids : snap[j].pending # None}}
  BY Restarted
<1>3. InOrder(queue')
  <2>1. \A i, j \in DOMAIN queue' : queue'[i].id = queue'[j].id => queue'[i] = queue'[j]
    BY <1>2 DEF Queued, Event
  <2>2. Once(queue') /\ \A i \in DOMAIN queue' : queue'[i] # Exit
    BY Restarted, ExitIsNoRequest DEF Queued
  <2>3. queue' \in Seq(Events \cup {Exit})
    BY Restarted
  <2> QED BY <2>1, <2>2, <2>3 DEF InOrder, Once
<1>4. \A s \in Sessions : Event("generate", s) \in Queued(queue') => decision[s] = None
  BY <1>2, IdsAssumption DEF DInv, SlotsAreSound, Event, Ids
<1>5. RequestComesFirst'
  <2> SUFFICES ASSUME NEW s \in Sessions, Unheard(s) PROVE Untouched(s)'
    BY <1>1 DEF RequestComesFirst, Unheard
  <2>1. Untouched(s)
    BY DEF DInv, RequestComesFirst
  <2>2. \A e \in Queued(queue') : e.id # s
    BY <1>2, <2>1 DEF Untouched, Event
  <2> QED BY <1>1, <2>1, <2>2 DEF Untouched
<1>6. TabIsSound' /\ SlotsAreSound' /\ RepliesAreTrue'
  BY <1>1, <1>3 DEF DInv, TabIsSound, SlotsAreSound, RepliesAreTrue
<1>7. ReportsAreTrue'
  BY <1>1 DEF DInv, ReportsAreTrue, Queued
<1>8. DecisionsStand'
  <2> SUFFICES ASSUME NEW s \in Sessions, Standing(s)'
               PROVE  /\ Kept(s)' \/ s \in forgotten
                      /\ snap[s].pending = decision[s] \/ s \in clobbered \cup forgotten
    BY <1>1 DEF DecisionsStand
  <2>1. Standing(s)
    BY <1>1, <1>4 DEF Standing, Wraps
  <2>2. /\ snap[s].pending = decision[s] \/ s \in forgotten
        /\ decision[s] # None
    BY <1>1, <2>1 DEF DInv, DecisionsStand, Kept, Standing
  <2> QED BY <1>1, <1>2, <2>2 DEF Kept, Ids
<1> QED BY <1>5, <1>6, <1>7, <1>8 DEF DInv

\* An edit of the source by whoever holds the event, and the reply it leads to.
LEMMA WorkStands ==
  ASSUME IInv, DInv, NEW type \in {"generate", "accept", "discard"}, NEW markups,
         NEW markup \in Markup, NEW reply, Work(type, markups, markup, reply),
         type = "generate" =>
           reply = None \/ reply \notin {"complete", "discarded", "carbonize"},
         type # "generate" =>
           /\ markup # "variants" \/ (markups = {markup} /\ reply \in {"unhandled", "error"})
           /\ "accepted" \in markups => markup = "accepted"
           /\ reply = "complete" => type = "accept" /\ markup = "accepted"
           /\ reply = "discarded" => type = "discard"
           /\ reply = "carbonize" => type = "accept"
  PROVE  DInv'
<1>1. /\ UNCHANGED <<tab, posts, answers, sse, up, queue, snap, used, decision,
                     refused, clobbered, forgotten>>
      /\ agent.st = "working" /\ agent.type = type /\ source[agent.id] \in markups
      /\ source' = [source EXCEPT ![agent.id] = markup]
      /\ agent' = IF reply = None THEN agent
                  ELSE [agent EXCEPT !.st = "reply", !.reply = reply]
  BY DEF Work, agentOnly, wireVars, queueVars, pastVars
<1>2. agent.id \in Sessions
  BY <1>1 DEF IInv, HandsAreSound, Requests, Event, Exit
<1>3. \A s \in Sessions : source'[s] = IF s = agent.id THEN markup ELSE source[s]
  BY <1>1 DEF IInv, TypeOK
<1>4. /\ agent'.type = type /\ agent'.id = agent.id
      /\ \/ agent'.st = "working"
         \/ agent'.st = "reply" /\ agent'.reply = reply /\ reply # None
  BY <1>1 DEF IInv, TypeOK, Agents
<1>5. Queued(queue') = Queued(queue) /\ Queued(sse') = Queued(sse)
  BY <1>1 DEF Queued
<1>6. \A s : Wraps(s)' = Wraps(s)
  BY <1>1, <1>4, <1>5 DEF Wraps
<1>7. RequestComesFirst'
  <2> SUFFICES ASSUME NEW s \in Sessions, Unheard(s)' PROVE Untouched(s)'
    BY DEF RequestComesFirst
  <2>1. Untouched(s)
    BY <1>1 DEF DInv, RequestComesFirst, Unheard
  <2> QED BY <1>1, <1>3, <1>4, <1>5, <2>1 DEF Untouched
<1>8. TabIsSound' /\ SlotsAreSound'
  BY <1>1 DEF DInv, TabIsSound, SlotsAreSound, InOrder
<1>9. RepliesAreTrue'
  BY <1>2, <1>3, <1>4 DEF RepliesAreTrue, Decisions
<1>10. ReportsAreTrue'
  <2> SUFFICES ASSUME NEW r \in Queued(sse), r.reply = "complete" PROVE Saved(r.id)'
    BY <1>1, <1>5 DEF DInv, ReportsAreTrue
  <2>1. Saved(r.id)
    BY DEF DInv, ReportsAreTrue
  <2>2. r.id = agent.id => type # "generate"
    BY <1>1, <2>1 DEF Saved, Wraps
  <2> QED BY <1>1, <1>3, <1>6, <2>1, <2>2 DEF Saved
<1>11. DecisionsStand'
  <2> SUFFICES ASSUME NEW s \in Sessions, Standing(s)'
               PROVE  /\ Kept(s) \/ s \in forgotten
                      /\ snap[s].pending = decision[s] \/ s \in clobbered \cup forgotten
    BY <1>1, <1>5 DEF DecisionsStand, Kept
  <2>1. Standing(s)
    <3>1. s = agent.id /\ type = "generate" => Wraps(s)
      BY <1>1 DEF Wraps
    <3> QED BY <1>1, <1>3, <1>6, <3>1 DEF Standing
  <2> QED BY <2>1 DEF DInv, DecisionsStand
<1> QED BY <1>7, <1>8, <1>9, <1>10, <1>11 DEF DInv

LEMMA EditStands == ASSUME IInv, DInv, Edit PROVE DInv'
<1> USE DEF Markup
<1>0. None \notin {"generate", "accept", "discard"} /\ Decisions = {"accept", "discard"}
  BY IdsAssumption DEF Decisions
<1>1. CASE Wrap
  BY <1>1, WorkStands DEF Wrap
<1>2. CASE WriteVariants
  BY <1>2, WorkStands DEF WriteVariants
<1>3. CASE AcceptPlain
  BY <1>3, WorkStands DEF AcceptPlain
<1>4. CASE AcceptCarbonize
  BY <1>4, WorkStands DEF AcceptCarbonize
<1>5. CASE AcceptMissing
  BY <1>5, WorkStands DEF AcceptMissing
<1>6. CASE DiscardWrapped
  BY <1>6, WorkStands DEF DiscardWrapped
<1>7. CASE DiscardMissing
  BY <1>7, WorkStands DEF DiscardMissing
<1>8. CASE GiveUp
  BY <1>8, WorkStands DEF GiveUp
<1>9. CASE AnswerSteer
  <2>1. /\ UNCHANGED <<tab, posts, answers, sse, up, queue, snap, source, used,
                       decision, refused, clobbered, forgotten>>
        /\ agent.st = "working" /\ agent.type = "steer" /\ agent'.st = "reply"
        /\ agent'.type = "steer" /\ agent'.id = agent.id
        /\ agent'.reply \in {"steer_done", "error"}
    BY <1>9 DEF AnswerSteer, agentOnly, wireVars, queueVars, diskVars, pastVars,
                IInv, TypeOK, Agents
  <2>2. Queued(queue') = Queued(queue) /\ Queued(sse') = Queued(sse)
    BY <2>1 DEF Queued
  <2>3. \A s : Wraps(s)' = Wraps(s)
    BY <2>1, <2>2 DEF Wraps
  <2>4. RequestComesFirst'
    BY <2>1, <2>2 DEF DInv, RequestComesFirst, Unheard, Untouched
  <2>5. TabIsSound' /\ SlotsAreSound' /\ RepliesAreTrue'
    BY <1>0, <2>1 DEF DInv, TabIsSound, SlotsAreSound, InOrder, RepliesAreTrue
  <2>6. ReportsAreTrue' /\ DecisionsStand'
    BY <2>1, <2>2, <2>3 DEF DInv, ReportsAreTrue, Saved, DecisionsStand, Standing, Kept
  <2> QED BY <2>4, <2>5, <2>6 DEF DInv
<1>10. CASE CleanUp
  <2>1. /\ UNCHANGED <<tab, posts, answers, sse, up, queue, snap, used,
                       decision, refused, clobbered, forgotten>>
        /\ agent.st = "cleanup" /\ agent.type = "accept" /\ agent'.st = "reply"
        /\ agent'.type = "accept" /\ agent'.id = agent.id
        /\ agent'.reply = "complete" /\ agent.id \in Sessions
        /\ source' = [source EXCEPT ![agent.id] = "accepted"]
    BY <1>10 DEF CleanUp, agentOnly, wireVars, queueVars, pastVars, DInv,
                 RepliesAreTrue, IInv, TypeOK, Agents, HandsAreSound, Requests, Event
  <2>2. \A s \in Sessions : source'[s] = IF s = agent.id THEN "accepted" ELSE source[s]
    BY <2>1 DEF IInv, TypeOK
  <2>3. Queued(queue') = Queued(queue) /\ Queued(sse') = Queued(sse)
    BY <2>1 DEF Queued
  <2>4. \A s : Wraps(s)' = Wraps(s)
    BY <2>1, <2>3 DEF Wraps
  <2>5. RequestComesFirst'
    BY <2>1, <2>2, <2>3 DEF DInv, RequestComesFirst, Unheard, Untouched
  <2>6. TabIsSound' /\ SlotsAreSound' /\ RepliesAreTrue'
    BY <2>1, <2>2 DEF DInv, TabIsSound, SlotsAreSound, InOrder, RepliesAreTrue
  <2>7. ReportsAreTrue' /\ DecisionsStand'
    BY <2>1, <2>2, <2>3, <2>4
       DEF DInv, ReportsAreTrue, Saved, DecisionsStand, Standing, Kept
  <2> QED BY <2>5, <2>6, <2>7 DEF DInv
<1> QED BY <1>1, <1>2, <1>3, <1>4, <1>5, <1>6, <1>7, <1>8, <1>9, <1>10 DEF Edit

\* The agent drops what it holds.
LEMMA DropStands ==
  ASSUME IInv, DInv, agent' = Idle,
         UNCHANGED <<tab, posts, answers, sse, up, queue, snap, source, used,
                     decision, refused, clobbered, forgotten>>
  PROVE  DInv'
<1>1. Idle.st = "idle" /\ Idle.id = None
  BY DEF Idle, Hands, Event
<1>2. Queued(queue') = Queued(queue) /\ Queued(sse') = Queued(sse)
  BY DEF Queued
<1>3. \A s \in Ids : Wraps(s)' => Wraps(s)
  BY <1>1, <1>2 DEF Wraps
<1>4. RequestComesFirst'
  BY <1>1, <1>2, IdsAssumption DEF DInv, RequestComesFirst, Unheard, Untouched, Ids
<1>5. TabIsSound' /\ SlotsAreSound' /\ RepliesAreTrue'
  BY <1>1 DEF DInv, TabIsSound, SlotsAreSound, InOrder, RepliesAreTrue
<1>6. ReportsAreTrue' /\ DecisionsStand'
  BY <1>2, <1>3 DEF DInv, ReportsAreTrue, Saved, DecisionsStand, Standing, Kept, Ids
<1> QED BY <1>4, <1>5, <1>6 DEF DInv

LEMMA StopHelperStands == ASSUME IInv, DInv, StopHelper PROVE DInv'
<1>1. CASE up = "up"
  BY <1>1, DownStands DEF StopHelper
<1>2. CASE up # "up"
  BY <1>2, DropStands DEF StopHelper, agentOnly, wireVars, queueVars, diskVars, pastVars
<1> QED BY <1>1, <1>2

LEMMA InterruptStands == ASSUME IInv, DInv, Interrupt PROVE DInv'
  BY DropStands DEF Interrupt, agentOnly, wireVars, queueVars, diskVars, pastVars

\* The journal that is completed without a helper has its decision carried out.
LEMMA CompleteOfflineStands == ASSUME IInv, DInv, CompleteOffline PROVE DInv'
<1> DEFINE id == agent.id
<1>1. /\ UNCHANGED <<tab, posts, answers, sse, up, queue, source, used,
                     decision, refused, clobbered, forgotten>>
      /\ up # "up" /\ agent.st = "reply" /\ agent.reply \in {"complete", "discarded"}
      /\ snap' = [snap EXCEPT ![id] = Replied(snap[id], agent.reply)]
      /\ agent' = Idle
  BY DEF CompleteOffline, agentOnly, wireVars, queueVars, pastVars
<1>2. /\ id \in Ids /\ agent.type \in Decisions /\ source[id] # "variants"
  BY <1>1 DEF DInv, RepliesAreTrue, Decisions, IInv, HandsAreSound, Requests,
              Events, Event
<1>3. \A i \in Ids : snap'[i].pending = IF i = id THEN None ELSE snap[i].pending
  BY <1>1, <1>2 DEF IInv, TypeOK, Replied, Snapshots
<1>4. Idle.st = "idle" /\ Idle.id = None
  BY DEF Idle, Hands, Event
<1>5. Queued(queue') = Queued(queue) /\ Queued(sse') = Queued(sse) /\ Queued(queue) = {}
  BY <1>1 DEF Queued, IInv, QueueIsSound
<1>6. \A s \in Ids : ~Wraps(s)'
  BY <1>1, <1>4, <1>5 DEF Wraps
<1> HIDE DEF id
<1>7. RequestComesFirst'
  BY <1>1, <1>3, <1>4, <1>5, IdsAssumption
     DEF DInv, RequestComesFirst, Unheard, Untouched, Ids
<1>8. TabIsSound' /\ SlotsAreSound' /\ RepliesAreTrue' /\ ReportsAreTrue'
  <2>1. None # "generate"
    BY IdsAssumption
  <2> QED BY <1>1, <1>3, <1>4, <1>5, <2>1
          DEF DInv, TabIsSound, SlotsAreSound, InOrder, RepliesAreTrue,
              ReportsAreTrue, Ids
<1>9. DecisionsStand'
  <2> SUFFICES ASSUME NEW s \in Sessions, Standing(s)'
               PROVE  /\ Kept(s)' \/ s \in forgotten
                      /\ snap'[s].pending = decision[s] \/ s \in clobbered \cup forgotten
    BY <1>1 DEF DecisionsStand
  <2>1. Standing(s) /\ s # id
    BY <1>1, <1>2, <1>6 DEF Standing, Ids
  <2> QED BY <1>1, <1>3, <2>1 DEF DInv, DecisionsStand, Kept, Ids
<1> QED BY <1>7, <1>8, <1>9 DEF DInv

\* A reply finishes the first event of its id.  To a request for variants it
\* may end what was confirmed later, and that is remembered; to a decision it
\* says that the source has it, or that it is refused.
LEMMA ReplyStands == ASSUME IInv, DInv, Reply PROVE DInv'
<1> DEFINE id == agent.id
           rec == Named(id) # {} \/ snap[id].phase \notin Terminal
           first == queue[Least(Named(id))]
<1>1. /\ UNCHANGED <<tab, posts, answers, up, source, used, decision>>
      /\ up = "up" /\ agent.st = "reply" /\ Acknowledge(id)
      /\ snap' = IF rec THEN [snap EXCEPT ![id] = Replied(snap[id], agent.reply)]
                 ELSE snap
      /\ sse' = IF tab.linked
                THEN Append(sse, [reply |-> agent.reply, id |-> id])
                ELSE sse
      /\ refused' = IF agent.type \in Decisions
                       /\ agent.reply \in {"unhandled", "error"}
                    THEN refused \cup {id} ELSE refused
      /\ clobbered' = IF rec /\ snap[id].pending \in Decisions
                         /\ snap[id].pending # agent.type
                      THEN clobbered \cup {id} ELSE clobbered
      /\ forgotten' = IF /\ Named(id) # {} /\ first.type \in Decisions
                         /\ first.type # agent.type
                      THEN forgotten \cup {id} ELSE forgotten
      /\ agent' = IF agent.reply = "carbonize"
                  THEN [agent EXCEPT !.st = "cleanup"] ELSE Idle
  BY DEF Reply
<1>2. /\ Event(agent.type, id) \in Requests /\ id \in Ids
      /\ agent.reply \in DOMAIN ReplyPhase
  BY <1>1 DEF IInv, HandsAreSound, Requests, Events, Event
<1>3. /\ Queued(queue') \subseteq Queued(queue) /\ InOrder(queue')
      /\ Event("generate", id) \notin Queued(queue')
      /\ \A e \in Queued(queue) \ Queued(queue') :
           e.id = id /\ e = first /\ Named(id) # {}
  BY <1>1, <1>2, Acknowledged DEF DInv, SlotsAreSound, queueVars, Queued
<1>4. /\ agent'.st = "idle" /\ agent'.id = None
      \/ /\ agent'.st = "cleanup" /\ agent'.id = id
         /\ agent'.type = "accept" /\ agent.type = "accept" /\ source[id] # "variants"
  <2>1. CASE agent.reply = "carbonize"
    BY <1>1, <2>1 DEF DInv, RepliesAreTrue, Decisions, IInv, TypeOK, Agents
  <2>2. CASE agent.reply # "carbonize"
    BY <1>1, <2>2 DEF Idle, Hands, Event
  <2> QED BY <2>1, <2>2
<1>5. /\ \A i \in Ids : snap'[i].pending = IF i = id THEN None ELSE snap[i].pending
      /\ snap[id].pending # None => rec
  <2>1. snap \in [Ids -> Snapshots]
    BY DEF IInv, TypeOK
  <2>2. Replied(snap[id], agent.reply).pending = None
    BY <1>2, <2>1 DEF Replied, Snapshots
  <2>3. snap[id].pending # None => rec
    BY <1>2 DEF IInv, JournalsAreSound
  <2> HIDE DEF rec, id
  <2> QED BY <1>1, <1>2, <2>1, <2>2, <2>3
<1> HIDE DEF id, rec, first
<1>6. \A s \in Ids : Wraps(s)' => Wraps(s) /\ s # id
  BY <1>3, <1>4 DEF Wraps
<1>7. RequestComesFirst'
  <2> SUFFICES ASSUME NEW s \in Sessions, Unheard(s)' PROVE Untouched(s)'
    BY DEF RequestComesFirst
  <2>1. Untouched(s) /\ s # id /\ s # None
    BY <1>1, IdsAssumption DEF DInv, RequestComesFirst, Unheard, Untouched, Ids, id
  <2> QED BY <1>1, <1>3, <1>4, <1>5, <2>1 DEF Untouched, Ids
<1>8. TabIsSound'
  BY <1>1 DEF DInv, TabIsSound
<1>9. SlotsAreSound'
  BY <1>1, <1>3, <1>5, IdsAssumption DEF DInv, SlotsAreSound, Ids
<1>10. RepliesAreTrue'
  BY <1>1, <1>4 DEF RepliesAreTrue
<1>11. ReportsAreTrue'
  <2> DEFINE r == [reply |-> agent.reply, id |-> id]
  <2>1. Queued(sse') \subseteq Queued(sse) \cup {r}
    <3>1. sse \in Seq(Replies)
      BY DEF IInv, TypeOK
    <3> QED BY <1>1, <3>1 DEF Queued
  <2>2. agent.reply = "complete" => id \in Sessions /\ source[id] = "accepted"
    BY <1>1, <1>2 DEF DInv, RepliesAreTrue, Requests, Event, id
  <2>3. ASSUME NEW m \in Queued(sse), m.reply = "complete" PROVE Saved(m.id)'
    BY <1>1, <1>6, <2>3 DEF DInv, ReportsAreTrue, Saved, Ids
  <2>4. PICK k \in Ids : k = id
    BY <1>2 DEF id
  <2>5. agent.reply = "complete" => Saved(k)'
    BY <1>1, <1>6, <2>2, <2>4 DEF Saved, Ids
  <2>6. \A m \in Queued(sse') : m.reply = "complete" => Saved(m.id)'
    BY <2>1, <2>3, <2>4, <2>5
  <2> QED BY <1>1, <2>6 DEF ReportsAreTrue
<1>12. DecisionsStand'
  <2> SUFFICES ASSUME NEW s \in Sessions, Standing(s)'
               PROVE  /\ Kept(s)' \/ s \in forgotten'
                      /\ snap'[s].pending = decision'[s] \/ s \in clobbered' \cup forgotten'
    BY DEF DecisionsStand
  <2>1. Standing(s)
    BY <1>1, <1>6 DEF Standing, Ids
  <2> DEFINE ev == Event(decision[s], s)
  <2>2. /\ decision[s] \in Decisions
        /\ ev \in Queued(queue) \/ s \in forgotten
        /\ snap[s].pending = decision[s] \/ s \in clobbered \cup forgotten
    BY <1>1, <2>1 DEF DInv, DecisionsStand, Kept, Standing, IInv, TypeOK
  <2>3. ev.id = s /\ ev.type = decision[s]
    BY DEF Event
  <2>4. CASE s # id
    <3>1. ev \in Queued(queue) => ev \in Queued(queue')
      BY <1>3, <2>3, <2>4
    <3> QED BY <1>1, <1>5, <2>2, <2>4, <3>1 DEF Kept, Ids
  <2>5. CASE s = id
    <3>1. source[s] = "variants" /\ s \notin refused'
      BY <1>1, <1>6, <2>5 DEF Standing, Ids
    <3>2. agent.type \notin Decisions
      BY <1>1, <2>5, <3>1 DEF DInv, RepliesAreTrue, id
    <3>3. ev \in Queued(queue) => ev \in Queued(queue') \/ s \in forgotten'
      BY <1>1, <1>3, <2>2, <2>3, <2>5, <3>2
    <3>4. snap[s].pending = decision[s] => s \in clobbered'
      BY <1>1, <1>5, <2>2, <2>5, <3>2, IdsAssumption DEF Decisions
    <3>5. clobbered \subseteq clobbered' /\ forgotten \subseteq forgotten'
      BY <1>1
    <3> QED BY <1>1, <2>2, <3>3, <3>4, <3>5 DEF Kept
  <2> QED BY <2>4, <2>5
<1> QED BY <1>7, <1>8, <1>9, <1>10, <1>11, <1>12 DEF DInv

LEMMA DInvNext == IInv /\ DInv /\ [Next]_vars => DInv'
<1> SUFFICES ASSUME IInv, DInv, [Next]_vars PROVE DInv'
  OBVIOUS
<1>1. CASE Helper
  <2>1. CASE Crash
    <3>1. UNCHANGED agent \/ agent' = Idle
      BY <2>1 DEF Crash
    <3> QED BY <2>1, <3>1, DownStands DEF Crash
  <2> QED BY <1>1, <2>1, CheckpointTakenStands, RequestTakenStands, LeaseExpiresStands,
             ExitTimerStands, StartStands
          DEF Helper
<1>2. CASE Agent
  BY <1>2, PollStands, EditStands, ReplyStands, CompleteOfflineStands,
     StopHelperStands, InterruptStands
  DEF Agent
<1>3. CASE UNCHANGED vars
  <2>1. /\ UNCHANGED <<tab, posts, answers, sse, up, queue, snap, source, agent,
                       used, decision, refused, clobbered, forgotten>>
    BY <1>3 DEF vars, wireVars, queueVars, diskVars, pastVars
  <2>2. InOrder(queue')
    BY <2>1 DEF DInv, SlotsAreSound, InOrder
  <2> QED BY <2>1, <2>2, QueueStepStands DEF Queued
<1> QED BY <1>1, <1>2, <1>3, TabStands DEF Next

\* The page confirms an accept when it hears that it is complete.
LEMMA ConfirmedStands ==
  ASSUME IInv, DInv, [Next]_vars PROVE ConfirmedIsSaved
<1> SUFFICES ASSUME NEW s \in Sessions, tab.state # "confirmed",
                    tab'.state = "confirmed", tab.accepted = s
             PROVE  source[s] = "accepted"
  BY DEF ConfirmedIsSaved
<1>0. tab \in Tabs
  BY DEF IInv, TypeOK
<1>1. CASE HearReply
  <2>1. sse \in Seq(Replies) /\ sse # <<>>
    BY <1>1 DEF IInv, TypeOK, HearReply
  <2>2. Head(sse) \in Queued(sse) /\ tab' = Heard(tab, Head(sse))
    BY <1>1, <2>1 DEF Queued, HearReply
  <2>3. Head(sse).reply = "complete" /\ Head(sse).id = s
    BY <1>0, <2>2 DEF Heard, Tabs
  <2> QED BY <2>2, <2>3 DEF DInv, ReportsAreTrue, Saved
<1>2. CASE Tab /\ ~HearReply
  <2>1. tab'.state # "confirmed"
    BY <1>0, <1>2
       DEF Tab, Go, Steer, VariantsMount, SendCheckpoint, Accept, Discard, Decide,
           SteerTimeout, Finish, CloseTab, OpenTab, HearAnswer, Tabs, NewTab,
           Resumed
  <2> QED BY <2>1
<1>3. CASE Helper \/ Agent \/ UNCHANGED vars
  <2>1. tab'.state = tab.state
    BY <1>0, <1>3
       DEF Helper, HandlePost, LeaseExpires, ExitTimerFires, Crash, Down, Start,
           Agent, Poll, Edit, Wrap, WriteVariants, AcceptPlain, AcceptCarbonize,
           AcceptMissing, DiscardWrapped, DiscardMissing, GiveUp, AnswerSteer,
           CleanUp, Work, Reply, CompleteOffline, StopHelper, Interrupt, agentOnly,
           vars, Tabs
  <2> QED BY <2>1
<1> QED BY <1>1, <1>2, <1>3 DEF Next

LEMMA DecisionIsNotLost == IInv /\ DInv => DecisionNotLost
  BY DEF DInv, DecisionsStand, DecisionNotLost, Owed, Standing

\* An accept or a discard that the helper has confirmed is queued, or journaled
\* while there is no helper, until it is carried out or refused, but for the
\* late reply to an earlier request of its session; and the tab confirms a
\* session only once the source holds the accepted variant.
THEOREM DecisionsKept == Spec => DecisionsAreKept
<1>1. Init => IInv /\ DInv
  BY IInvInit, DInvInit
<1>2. IInv /\ DInv /\ [Next]_vars => (IInv /\ DInv)'
  BY IInvNext, DInvNext
<1>3. IInv /\ DInv => DecisionNotLost
  BY DecisionIsNotLost
<1>4. IInv /\ DInv /\ [Next]_vars => ConfirmedIsSaved
  BY ConfirmedStands
<1> QED BY <1>1, <1>2, <1>3, <1>4, PTL DEF Spec, DecisionsAreKept
=============================================================================

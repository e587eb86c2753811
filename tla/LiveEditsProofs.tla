-------------------------- MODULE LiveEditsProofs --------------------------
(* The safety of staged copy edits, for any finite or infinite sets of     *)
(* elements and pages, any chunk size and any bounds: what a staged edit   *)
(* and the source file go through while events are answered, time out and  *)
(* fail, the helper dies and starts, and the user decides.                 *)
EXTENDS LiveEdits, TLAPS

Disks == [source : Texts, buffer : Texts, tx : {None} \cup Transactions]

\* The types of what an Apply may write.
ApplyTypes ==
  /\ buffer \in Texts /\ source \in Texts /\ committed \in Texts
  /\ tx \in {None} \cup Transactions
  /\ applies \in [Pages -> ApplyStates]
  /\ ids \in Nat

\* b is the Apply a later on: more may be reported applied.
Follows(b, a) ==
  /\ b \in ApplyStates
  /\ b.st = a.st /\ b.want = a.want /\ b.ours = a.ours /\ b.snap = a.snap
  /\ b.before = a.before /\ b.tx = a.tx
  /\ a.applied \subseteq b.applied /\ (a.told => b.told)

\* How commitManualEdits goes on once it waits for no event: it is rolled
\* back, it is repaired, or the edits reported applied are found in the source
\* and leave the buffer.
Concludes(p, b, d) ==
  \/ /\ RollBack(p, b, d)
     /\ b.st # "repairing"
     /\ b.st = "applying" \/ ~b.told \/ Leaks(b, d.source) # {}
  \/ Repair(p, b, d)
  \/ /\ ClearApplied(p, b, b.applied, d)
     /\ b.applied = Verified(b, d.source)
     /\ \/ b.st = "repairing" \/ d.source = b.snap
        \/ b.told /\ Leaks(b, d.source) = {}
-----------------------------------------------------------------------------
(* What the operators of an Apply do.                                      *)

\* Texts: none, parts, and what one edit changes.
LEMMA TextTypes ==
  /\ [e \in Entries |-> 0] \in Texts
  /\ \A t \in Texts : \A S : Part(t, S) \in Texts
  /\ \A t \in Texts : In(t) \subseteq Entries
  /\ \A t, u \in Texts, e \in Entries : [t EXCEPT ![e] = u[e]] \in Texts
<1> 0 \in 0..MaxVersion
    BY BoundAssumption
<1> QED BY DEF Texts, Part, In

\* Applies and events are recorded with their types.
LEMMA RecordTypes ==
  /\ NoEvent \in Events /\ NoApply \in ApplyStates
  /\ NoApply.st = "none" /\ NoApply.event.no = 0
  /\ \A n \in Nat, t, u \in Texts : Event(n, t, u) \in Events
<1>1. NoEvent \in Events
      BY TextTypes DEF NoEvent, Events
<1>2. 0 \in 0..MaxRepairs
      BY SizeAssumption
<1>3. NoApply \in ApplyStates
      BY <1>1, <1>2, TextTypes DEF NoApply, ApplyStates
<1>4. QED BY <1>1, <1>3 DEF NoApply, NoEvent, Event, Events

\* A repair that goes on, and one that gives up.
LEMMA RepairFacts ==
  ASSUME ApplyTypes, NEW p \in Pages, NEW b \in ApplyStates, NEW d \in Disks,
         Repair(p, b, d)
  PROVE  /\ ApplyTypes'
         /\ source' = d.source /\ buffer' = d.buffer /\ tx' = d.tx
         /\ committed' = committed
         /\ \A q \in Pages \ {p} : applies'[q] = applies[q]
         /\ applies'[p].want = b.want /\ applies'[p].ours = b.ours
         /\ applies'[p].tx = b.tx /\ applies'[p].before = b.before
         /\ applies'[p].applied = b.applied
         /\ \/ /\ applies'[p].st = "repairing" /\ ids' = ids + 1
               /\ applies'[p].event = Event(ids + 1, b.want, d.source)
            \/ applies'[p].st = "asking" /\ ids' = ids
<1>1. /\ source' = d.source /\ buffer' = d.buffer /\ tx' = d.tx
      /\ committed' = committed /\ d.source \in Texts
      /\ source' \in Texts /\ buffer' \in Texts /\ committed' \in Texts
      /\ tx' \in {None} \cup Transactions
      BY DEF Repair, Disks, ApplyTypes
<1>2. CASE b.attempt < MaxRepairs
      <2> DEFINE ev == Event(ids + 1, b.want, d.source)
                 c == [b EXCEPT !.st = "repairing", !.attempt = b.attempt + 1,
                                !.event = ev]
      <2>1. applies' = [applies EXCEPT ![p] = c] /\ ids' = ids + 1
            BY <1>2 DEF Repair
      <2>2. ev \in Events
            <3>1. ids + 1 \in Nat /\ b.want \in Texts /\ d.source \in Texts
                  BY <1>1 DEF ApplyTypes, ApplyStates
            <3>2. QED BY <3>1, RecordTypes
      <2>3. b.attempt + 1 \in 0..MaxRepairs
            BY <1>2, SizeAssumption DEF ApplyStates
      <2> HIDE DEF ev
      <2>4. /\ c \in ApplyStates
            /\ c.st = "repairing" /\ c.event = ev /\ c.want = b.want
            /\ c.ours = b.ours /\ c.tx = b.tx /\ c.before = b.before
            /\ c.applied = b.applied
            BY <2>2, <2>3 DEF ApplyStates
      <2> HIDE DEF c
      <2>5. applies' \in [Pages -> ApplyStates] /\ applies'[p] = c
            /\ \A q \in Pages \ {p} : applies'[q] = applies[q]
            BY <2>1, <2>4 DEF ApplyTypes
      <2>6. ids' \in Nat
            BY <2>1 DEF ApplyTypes
      <2>7. QED BY <1>1, <2>1, <2>4, <2>5, <2>6 DEF ApplyTypes, ev
<1>3. CASE ~(b.attempt < MaxRepairs)
      <2> DEFINE c == [b EXCEPT !.st = "asking", !.event = NoEvent]
      <2>1. applies' = [applies EXCEPT ![p] = c] /\ ids' = ids
            BY <1>3 DEF Repair
      <2>2. /\ c \in ApplyStates
            /\ c.st = "asking" /\ c.want = b.want
            /\ c.ours = b.ours /\ c.tx = b.tx /\ c.before = b.before
            /\ c.applied = b.applied
            BY RecordTypes DEF ApplyStates
      <2> HIDE DEF c
      <2>3. applies' \in [Pages -> ApplyStates] /\ applies'[p] = c
            /\ \A q \in Pages \ {p} : applies'[q] = applies[q]
            BY <2>1, <2>2 DEF ApplyTypes
      <2>4. QED BY <1>1, <2>1, <2>2, <2>3 DEF ApplyTypes
<1>4. QED BY <1>2, <1>3

\* The end of an Apply, by a rollback or by the clearing of the buffer.
LEMMA EndFacts ==
  ASSUME ApplyTypes, NEW p \in Pages, NEW b \in ApplyStates, NEW d \in Disks,
         NEW S \in SUBSET Entries,
         RollBack(p, b, d) \/ ClearApplied(p, b, S, d)
  PROVE  /\ ApplyTypes' /\ ids' = ids /\ tx' = Clear(d.tx, b.tx)
         /\ applies'[p] = NoApply
         /\ \A q \in Pages \ {p} : applies'[q] = applies[q]
         /\ RollBack(p, b, d) => /\ buffer' = d.buffer /\ source' = b.snap
                                 /\ committed' = committed
         /\ ClearApplied(p, b, S, d) =>
              /\ source' = d.source
              /\ \A e \in Entries :
                   /\ buffer'[e] = IF e \in S \cap b.ours THEN 0 ELSE d.buffer[e]
                   /\ committed'[e] = IF e \in S THEN b.want[e] ELSE committed[e]
<1>1. /\ applies' = [applies EXCEPT ![p] = NoApply] /\ ids' = ids
      /\ tx' = Clear(d.tx, b.tx)
      BY DEF RollBack, ClearApplied, End, Disks
<1>2. /\ applies' \in [Pages -> ApplyStates] /\ applies'[p] = NoApply
      /\ \A q \in Pages \ {p} : applies'[q] = applies[q]
      BY <1>1, RecordTypes DEF ApplyTypes
<1>3. tx' \in {None} \cup Transactions
      BY <1>1 DEF Clear, Disks
<1>4. ids' \in Nat
      BY <1>1 DEF ApplyTypes
<1>5. CASE RollBack(p, b, d)
      <2>1. /\ buffer' = d.buffer /\ source' = b.snap /\ committed' = committed
            BY <1>5 DEF RollBack, End
      <2>2. buffer' \in Texts /\ source' \in Texts /\ committed' \in Texts
            BY <2>1 DEF ApplyTypes, Disks, ApplyStates
      <2>3. CASE ClearApplied(p, b, S, d)
            <3>1. source' = d.source /\ buffer' = Part(d.buffer, Entries \ (S \cap b.ours))
                  /\ committed' = [e \in Entries |-> IF e \in S THEN b.want[e]
                                                     ELSE committed[e]]
                  BY <2>3 DEF ClearApplied, End, Disks
            <3>2. QED BY <1>1, <1>2, <1>3, <1>4, <2>1, <2>2, <3>1 DEF ApplyTypes, Part
      <2>4. QED BY <1>1, <1>2, <1>3, <1>4, <2>1, <2>2, <2>3 DEF ApplyTypes
<1>6. CASE ClearApplied(p, b, S, d) /\ ~RollBack(p, b, d)
      <2>1. source' = d.source /\ buffer' = Part(d.buffer, Entries \ (S \cap b.ours))
            /\ committed' = [e \in Entries |-> IF e \in S THEN b.want[e]
                                               ELSE committed[e]]
            BY <1>6 DEF ClearApplied, End, Disks
      <2>2. source' \in Texts /\ buffer' \in Texts
            BY <2>1, TextTypes DEF Disks
      <2>3. committed' \in Texts
            BY <2>1 DEF ApplyTypes, ApplyStates, Texts
      <2>4. \A e \in Entries :
              /\ buffer'[e] = IF e \in S \cap b.ours THEN 0 ELSE d.buffer[e]
              /\ committed'[e] = IF e \in S THEN b.want[e] ELSE committed[e]
            BY <2>1 DEF Part
      <2>5. QED BY <1>1, <1>2, <1>3, <1>4, <1>6, <2>1, <2>2, <2>3, <2>4 DEF ApplyTypes
<1>7. QED BY <1>5, <1>6

\* The next event of an Apply.
LEMMA DispatchFacts ==
  ASSUME ApplyTypes, NEW p \in Pages, NEW b \in ApplyStates, NEW s \in Texts,
         Dispatch(p, b, s)
  PROVE  /\ applies' \in [Pages -> ApplyStates] /\ ids' = ids + 1
         /\ \A q \in Pages \ {p} : applies'[q] = applies[q]
         /\ applies'[p].want = b.want /\ applies'[p].ours = b.ours
         /\ applies'[p].tx = b.tx /\ applies'[p].before = b.before
         /\ applies'[p].applied = b.applied /\ applies'[p].st = b.st
         /\ applies'[p].snap = b.snap
         /\ applies'[p].event.no = ids + 1
         /\ \E C : applies'[p].event.want = Part(b.want, C)
<1>1. PICK C \in Chunks(b.left) :
        applies' = [applies EXCEPT ![p] =
          [b EXCEPT !.left = b.left \ C,
                    !.event = Event(ids + 1, Part(b.want, C), s)]]
      BY DEF Dispatch
<1> DEFINE ev == Event(ids + 1, Part(b.want, C), s)
           c == [b EXCEPT !.left = b.left \ C, !.event = ev]
<1>2. ev \in Events /\ ev.no = ids + 1 /\ ev.want = Part(b.want, C)
      <2>1. Part(b.want, C) \in Texts /\ ids + 1 \in Nat
            BY TextTypes DEF ApplyTypes, ApplyStates
      <2> HIDE DEF ev
      <2>2. ev = [no |-> ids + 1, want |-> Part(b.want, C), snap |-> s]
            BY DEF ev, Event
      <2>3. QED BY <2>1, <2>2 DEF Events
<1> HIDE DEF ev
<1>3. /\ c \in ApplyStates /\ c.event = ev
      /\ c.st = b.st /\ c.want = b.want /\ c.ours = b.ours /\ c.tx = b.tx
      /\ c.before = b.before /\ c.applied = b.applied /\ c.snap = b.snap
      BY <1>2 DEF ApplyStates
<1>4. applies' = [applies EXCEPT ![p] = c] /\ ids' = ids + 1
      BY <1>1 DEF Dispatch, ev
<1> HIDE DEF c
<1>5. /\ applies' \in [Pages -> ApplyStates] /\ applies'[p] = c
      /\ \A q \in Pages \ {p} : applies'[q] = applies[q]
      BY <1>3, <1>4 DEF ApplyTypes
<1>6. QED BY <1>2, <1>3, <1>4, <1>5
-----------------------------------------------------------------------------
(* How an Apply goes on.                                                   *)

\* Settle rolls back, repairs, or clears what is verified.
LEMMA SettleConcludes ==
  ASSUME NEW p, NEW a \in ApplyStates, a.st # "repairing", NEW d, NEW checks,
         Settle(p, a, d, checks)
  PROVE  \E b : Follows(b, a) /\ Concludes(p, b, d)
<1> DEFINE ok == Verified(a, d.source)
<1>1. Follows(a, a)
      BY DEF Follows
<1>2. CASE \/ ~a.told /\ Changed(a, d.source)
           \/ a.told /\ Leaks(a, d.source) # {}
      <2>1. RollBack(p, a, d)
            BY <1>2 DEF Settle
      <2>2. QED BY <1>1, <1>2, <2>1 DEF Concludes
<1>3. CASE /\ ~(\/ ~a.told /\ Changed(a, d.source)
                \/ a.told /\ Leaks(a, d.source) # {})
           /\ a.applied # {} /\ (~a.told \/ ok # a.applied)
      <2>1. Repair(p, a, d)
            BY <1>3 DEF Settle
      <2>2. QED BY <1>1, <2>1 DEF Concludes
<1>4. CASE /\ ~(\/ ~a.told /\ Changed(a, d.source)
                \/ a.told /\ Leaks(a, d.source) # {})
           /\ ~(a.applied # {} /\ (~a.told \/ ok # a.applied))
      <2>1. ok = a.applied
            BY <1>4 DEF Verified
      <2>2. CASE checks
            <3>1. ClearApplied(p, a, a.applied, d)
                  BY <1>4, <2>1, <2>2 DEF Settle
            <3>2. d.source = a.snap \/ (a.told /\ Leaks(a, d.source) = {})
                  BY <1>4 DEF Changed
            <3>3. QED BY <1>1, <2>1, <3>1, <3>2 DEF Concludes
      <2>3. CASE ~checks
            <3> DEFINE A == IF ok = {} THEN In(a.want) ELSE ok
                       b == [a EXCEPT !.applied = A]
            <3>1. Repair(p, b, d)
                  BY <1>4, <2>3 DEF Settle
            <3>2. A \in SUBSET Entries /\ a.applied \subseteq A
                  BY <2>1, TextTypes DEF ApplyStates
            <3> HIDE DEF A, ok
            <3>3. Follows(b, a)
                  BY <3>2 DEF Follows, ApplyStates
            <3>4. QED BY <3>1, <3>3 DEF Concludes
      <2>4. QED BY <2>2, <2>3
<1>5. QED BY <1>2, <1>3, <1>4

\* So does an Apply whose event failed.
LEMMA FailConcludes ==
  ASSUME NEW p, NEW a \in ApplyStates, a.st \in {"applying", "repairing"},
         NEW d, EventFails(p, a, d)
  PROVE  \E b : /\ Follows(b, a) /\ Concludes(p, b, d)
                /\ b.st = "repairing" => Repair(p, b, d)
<1>1. Follows(a, a)
      BY DEF Follows
<1>2. CASE a.st = "repairing"
      BY <1>1, <1>2 DEF EventFails, Concludes, Follows
<1>3. CASE a.st = "applying" /\ a.applied = {}
      BY <1>1, <1>3 DEF EventFails, Concludes
<1>4. CASE a.st = "applying" /\ a.applied # {}
      <2> DEFINE c == [a EXCEPT !.left = {}]
      <2>1. PICK checks \in Checks : Settle(p, c, d, checks)
            BY <1>4 DEF EventFails
      <2>2. Follows(c, a) /\ c.st = "applying"
            BY <1>4 DEF Follows, ApplyStates
      <2> HIDE DEF c
      <2>3. \E b : Follows(b, c) /\ Concludes(p, b, d)
            BY <2>1, <2>2, SettleConcludes DEF Follows
      <2>4. QED BY <2>2, <2>3 DEF Follows
<1>5. QED BY <1>2, <1>3, <1>4

\* And one whose event was answered, unless there is another chunk to send.
LEMMA AnswerConcludes ==
  ASSUME NEW p \in Pages, applies[p] \in ApplyStates, Running(p),
         NEW X \in SUBSET Entries, NEW told \in BOOLEAN,
         EventAnswered(p, X, told)
  PROVE  \E b : /\ Follows(b, applies[p]) /\ X \subseteq b.applied
                /\ \/ Concludes(p, b, Disk)
                   \/ /\ b.st = "applying" /\ Dispatch(p, b, source)
                      /\ UNCHANGED <<diskVars, committed>>
<1> DEFINE a == [applies[p] EXCEPT !.applied = applies[p].applied \cup X,
                                   !.told = applies[p].told \/ told]
<1>1. Follows(a, applies[p]) /\ X \subseteq a.applied
      BY DEF Follows, ApplyStates
<1>2. a.st \in {"applying", "repairing"} /\ Disk.source = source
      BY <1>1 DEF Follows, Running, Disk
<1>3. \/ /\ a.st = "repairing"
         /\ \/ ClearApplied(p, a, a.applied, Disk) /\ Verified(a, source) = a.applied
            \/ Repair(p, a, Disk)
      \/ /\ a.st = "applying"
         /\ \/ Dispatch(p, a, source) /\ UNCHANGED <<diskVars, committed>>
            \/ RollBack(p, a, Disk)
            \/ \E checks \in Checks : Settle(p, a, Disk, checks)
      BY <1>2 DEF EventAnswered
<1> HIDE DEF a
<1>4. CASE a.st = "applying" /\ \E checks \in Checks : Settle(p, a, Disk, checks)
      <2>1. PICK b : Follows(b, a) /\ Concludes(p, b, Disk)
            BY <1>1, <1>4, SettleConcludes DEF Follows
      <2>2. Follows(b, applies[p]) /\ X \subseteq b.applied
            BY <1>1, <2>1 DEF Follows
      <2>3. QED BY <2>1, <2>2
<1>5. CASE ~(/\ a.st = "applying"
             /\ \E checks \in Checks : Settle(p, a, Disk, checks))
      BY <1>1, <1>2, <1>3, <1>5 DEF Concludes
<1>6. QED BY <1>4, <1>5

\* Either way what an Apply writes is well typed.
LEMMA ConcludeTypes ==
  ASSUME ApplyTypes, NEW p \in Pages, NEW b \in ApplyStates, NEW d \in Disks,
         Concludes(p, b, d)
  PROVE  /\ ApplyTypes'
         /\ \A q \in Pages \ {p} : applies'[q] = applies[q]
         /\ ids' \in {ids, ids + 1}
<1>1. b.applied \in SUBSET Entries
      BY DEF ApplyStates
<1>2. QED BY <1>1, RepairFacts, EndFacts DEF Concludes
-----------------------------------------------------------------------------
(* Types.                                                                  *)

Docks == [busy : BOOLEAN, ask : BOOLEAN, stored : BOOLEAN]

Tombs == [no : Nat, snap : Texts]

\* The types of what is not written by an Apply alone.
RestTypes ==
  /\ tombs \subseteq Tombs
  /\ up \in BOOLEAN /\ agent \in {None} \cup Events
  /\ dock \in [Pages -> Docks]
  /\ spent \in [applies : 0..MaxApplies, faults : 0..MaxFaults,
                discards : 0..1]
  /\ excused \subseteq {"late", "stale", "overlap", "canceled", "silent"}

\* Together they are the type invariant.
LEMMA TypeParts == TypeOK <=> ApplyTypes /\ RestTypes
  BY DEF TypeOK, ApplyTypes, RestTypes, Transactions, Docks, Tombs

\* Docks.
LEMMA DockTypes ==
  /\ Ready \in Docks /\ Asking \in Docks /\ Waiting \in Docks
  /\ \A d \in Docks : \A S : Counted(d, S) \in Docks /\ Resumed(d, S) \in Docks
  BY DEF Docks, Ready, Asking, Waiting, Dock, Counted, Resumed

\* What a page shows after a step of its Apply.
LEMMA ShownFacts ==
  ASSUME RestTypes, NEW p \in Pages, Shown(p)
  PROVE  /\ dock' \in [Pages -> Docks]
         /\ \A q \in Pages \ {p} : dock'[q] = dock[q]
         /\ applies'[p].st \in {"applying", "repairing"} => dock'[p] = Waiting
         /\ dock'[p].ask => applies'[p].st = "asking"
<1>1. /\ Ready \in Docks /\ Asking \in Docks /\ Waiting \in Docks
      /\ ~Ready.ask /\ ~Waiting.ask
      BY DockTypes DEF Ready, Waiting, Dock
<1> DEFINE d == CASE applies'[p].st = "none"   -> Ready
                  [] applies'[p].st = "asking" -> Asking
                  [] OTHER                     -> Waiting
<1>2. /\ d \in Docks
      /\ applies'[p].st \in {"applying", "repairing"} => d = Waiting
      /\ d.ask => applies'[p].st = "asking"
      <2>1. CASE applies'[p].st = "none"
            BY <1>1, <2>1
      <2>2. CASE applies'[p].st = "asking"
            BY <1>1, <2>2
      <2>3. CASE applies'[p].st \notin {"none", "asking"}
            BY <1>1, <2>3
      <2>4. QED BY <2>1, <2>2, <2>3
<1>3. dock' = [dock EXCEPT ![p] = d]
      BY DEF Shown
<1> HIDE DEF d
<1>4. QED BY <1>2, <1>3 DEF RestTypes

\* Recovery.
LEMMA RecoveredTypes ==
  ASSUME ApplyTypes, NEW pages
  PROVE  /\ Recovered(pages) \in Texts
         /\ TxLeft(pages) \in {None} \cup Transactions
  BY DEF ApplyTypes, Recovered, TxLeft, Held, Transactions

\* The disk as it is, and a batch.
LEMMA DiskTypes ==
  ASSUME ApplyTypes
  PROVE  /\ Disk \in Disks /\ Disk.source = source /\ Disk.buffer = buffer
         /\ Disk.tx = tx
         /\ \A p : Batch(p) \in Texts /\ Staged(p) \in SUBSET Entries
  BY TextTypes DEF ApplyTypes, Disk, Disks, Batch, Staged, StagedIn

\* What Commit writes.
LEMMA CommitFacts ==
  ASSUME ApplyTypes, NEW p \in Pages, Commit(p)
  PROVE  /\ ApplyTypes' /\ ids' = ids + 2
         /\ source' = Recovered({p}) /\ UNCHANGED <<buffer, committed>>
         /\ tx'.no = ids + 1 /\ tx'.page = p /\ tx'.entries = Staged(p)
         /\ tx'.file = source' /\ tx' \in Transactions
         /\ \A q \in Pages \ {p} : applies'[q] = applies[q]
         /\ applies'[p].want = Batch(p) /\ applies'[p].ours = Staged(p)
         /\ applies'[p].tx = ids + 1 /\ applies'[p].before = source'
         /\ applies'[p].snap = source' /\ applies'[p].st = "applying"
         /\ applies'[p].event.no = ids + 2
         /\ \E C : applies'[p].event.want = Part(buffer, C) /\ C \subseteq Staged(p)
<1>1. /\ Recovered({p}) \in Texts /\ Batch(p) \in Texts
      /\ Staged(p) \in SUBSET Entries /\ ids \in Nat /\ buffer \in Texts
      BY RecoveredTypes, DiskTypes DEF ApplyTypes
<1> DEFINE t == [no |-> ids + 1, page |-> p, entries |-> Staged(p),
                 file |-> Recovered({p})]
<1>2. /\ source' = Recovered({p}) /\ ids' = ids + 2 /\ tx' = t
      /\ UNCHANGED <<buffer, committed>>
      BY DEF Commit
<1>3. /\ t \in Transactions /\ t.no = ids + 1 /\ t.page = p
      /\ t.entries = Staged(p) /\ t.file = Recovered({p})
      BY <1>1 DEF Transactions
<1>4. PICK C \in Chunks(Staged(p)) :
        applies' = [applies EXCEPT ![p] =
          [NoApply EXCEPT !.st = "applying",
             !.want = Batch(p), !.ours = Staged(p), !.left = Staged(p) \ C,
             !.snap = Recovered({p}), !.before = Recovered({p}), !.tx = ids + 1,
             !.event = Event(ids + 2, Part(buffer, C), Recovered({p}))]]
      BY DEF Commit
<1> DEFINE ev == Event(ids + 2, Part(buffer, C), Recovered({p}))
           c == [NoApply EXCEPT !.st = "applying",
                   !.want = Batch(p), !.ours = Staged(p),
                   !.left = Staged(p) \ C, !.snap = Recovered({p}),
                   !.before = Recovered({p}), !.tx = ids + 1, !.event = ev]
<1>5. ev \in Events /\ ev.no = ids + 2 /\ ev.want = Part(buffer, C)
      <2>1. Part(buffer, C) \in Texts /\ ids + 2 \in Nat
            BY <1>1, TextTypes
      <2> HIDE DEF ev
      <2>2. ev = [no |-> ids + 2, want |-> Part(buffer, C), snap |-> Recovered({p})]
            BY DEF ev, Event
      <2>3. QED BY <1>1, <2>1, <2>2 DEF Events
<1>6. applies' = [applies EXCEPT ![p] = c]
      BY <1>4
<1> HIDE DEF ev, t
<1>7. /\ c \in ApplyStates /\ c.event = ev
      /\ c.want = Batch(p) /\ c.ours = Staged(p) /\ c.tx = ids + 1
      /\ c.before = Recovered({p}) /\ c.snap = Recovered({p}) /\ c.st = "applying"
      <2> DEFINE L == Staged(p) \ C
                 R == Recovered({p})
                 n == ids + 1
      <2>1. L \in SUBSET Entries /\ R \in Texts /\ n \in Nat
            BY <1>1
      <2>2. c = [NoApply EXCEPT !.st = "applying", !.want = Batch(p),
                   !.ours = Staged(p), !.left = L, !.snap = R,
                   !.before = R, !.tx = n, !.event = ev]
            OBVIOUS
      <2> HIDE DEF L, R, n, c
      <2>3. /\ c \in ApplyStates /\ c.event = ev
            /\ c.want = Batch(p) /\ c.ours = Staged(p) /\ c.tx = n
            /\ c.before = R /\ c.snap = R /\ c.st = "applying"
            BY <1>1, <1>5, <2>1, <2>2, RecordTypes DEF ApplyStates
      <2>4. QED BY <2>3 DEF R, n
<1> HIDE DEF c
<1>8. /\ applies' \in [Pages -> ApplyStates] /\ applies'[p] = c
      /\ \A q \in Pages \ {p} : applies'[q] = applies[q]
      BY <1>6, <1>7 DEF ApplyTypes
<1>9. ApplyTypes'
      BY <1>1, <1>2, <1>3, <1>8 DEF ApplyTypes
<1>10. C \subseteq Staged(p)
      BY <1>4 DEF Chunks
<1>11. QED BY <1>2, <1>3, <1>5, <1>7, <1>8, <1>9, <1>10

\* The Apply that Keep fixing makes of what is staged.
LEMMA KeepFixingFacts ==
  ASSUME ApplyTypes, NEW p \in Pages, KeepFixing(p)
  PROVE  \E b \in ApplyStates :
           /\ Concludes(p, b, Disk)
           /\ b.st = "none" /\ b.told /\ b.want = Batch(p)
           /\ b.ours = Staged(p) /\ Staged(p) \subseteq b.applied
           /\ b.tx = tx.no /\ b.before = applies[p].before
<1> DEFINE a == [NoApply EXCEPT !.want = Batch(p), !.ours = Staged(p),
                                !.applied = Staged(p), !.told = TRUE,
                                !.snap = source, !.tx = tx.no,
                                !.before = applies[p].before]
<1>1. PICK checks \in Checks : Settle(p, a, Disk, checks)
      BY DEF KeepFixing
<1>2. tx.no \in Nat
      BY DEF KeepFixing, ApplyTypes, Transactions
<1>3. source \in Texts /\ applies[p].before \in Texts
      BY DEF ApplyTypes, ApplyStates
<1>4. /\ a \in ApplyStates /\ a.st = "none" /\ a.told
      /\ a.want = Batch(p) /\ a.ours = Staged(p) /\ a.applied = Staged(p)
      /\ a.tx = tx.no /\ a.before = applies[p].before
      BY <1>2, <1>3, DiskTypes, RecordTypes DEF ApplyStates
<1> HIDE DEF a
<1>5. PICK b : Follows(b, a) /\ Concludes(p, b, Disk)
      BY <1>1, <1>4, SettleConcludes
<1>6. QED BY <1>4, <1>5 DEF Follows

\* The Apply that a Discard makes fail, and its disk.
LEMMA DiscardFacts ==
  ASSUME ApplyTypes, NEW p \in Pages, Discard(p), Running(p)
  PROVE  \E b \in ApplyStates, d \in Disks :
           /\ Concludes(p, b, d) /\ b.ours = {}
           /\ d.buffer = Part(buffer, {e \in Entries : PageOf[e] # p})
<1> DEFINE a == [applies[p] EXCEPT !.ours = {}]
           d == [source |-> applies[p].event.snap,
                 buffer |-> Part(buffer, {e \in Entries : PageOf[e] # p}),
                 tx |-> TxLeft({p})]
<1>1. EventFails(p, a, d)
      BY DEF Discard
<1>2. applies[p].event.snap \in Texts
      BY DEF ApplyTypes, ApplyStates, Events
<1>3. d \in Disks /\ d.buffer = Part(buffer, {e \in Entries : PageOf[e] # p})
      BY <1>2, TextTypes, RecoveredTypes DEF Disks, ApplyTypes
<1>4. /\ a \in ApplyStates /\ a.ours = {} /\ a.st \in {"applying", "repairing"}
      BY DEF ApplyTypes, ApplyStates, Running
<1> HIDE DEF a, d
<1>5. PICK b : Follows(b, a) /\ Concludes(p, b, d)
      BY <1>1, <1>4, FailConcludes
<1>6. QED BY <1>3, <1>4, <1>5 DEF Follows

\* A reply that is awaited.
LEMMA ReplyFacts ==
  ASSUME ApplyTypes, agent \in Events, NEW p \in Awaited(agent.no),
         NEW X \in Reports, NEW told \in BOOLEAN, EventAnswered(p, X, told)
  PROVE  /\ p \in Pages /\ Running(p) /\ applies[p].event.no = agent.no
         /\ \E b \in ApplyStates :
              /\ Follows(b, applies[p]) /\ X \subseteq b.applied
              /\ \/ Concludes(p, b, Disk)
                 \/ /\ b.st = "applying" /\ Dispatch(p, b, source)
                    /\ UNCHANGED <<diskVars, committed>>
<1>1. p \in Pages /\ Running(p) /\ applies[p].event.no = agent.no
      BY DEF Awaited
<1>2. agent.want \in Texts
      BY DEF Events
<1>3. X \in SUBSET Entries /\ applies[p] \in ApplyStates
      BY <1>1, <1>2, TextTypes DEF Reports, ApplyTypes
<1>4. PICK b : /\ Follows(b, applies[p]) /\ X \subseteq b.applied
                /\ \/ Concludes(p, b, Disk)
                   \/ /\ b.st = "applying" /\ Dispatch(p, b, source)
                      /\ UNCHANGED <<diskVars, committed>>
      BY <1>1, <1>3, AnswerConcludes
<1>5. b \in ApplyStates
      BY <1>4 DEF Follows
<1>6. QED BY <1>1, <1>4, <1>5

\* An event that failed.
LEMMA FailFacts ==
  ASSUME ApplyTypes, NEW p \in Pages, Running(p), EventFails(p, applies[p], Disk)
  PROVE  \E b \in ApplyStates : /\ Follows(b, applies[p])
                                /\ Concludes(p, b, Disk)
                                /\ b.st = "repairing" => Repair(p, b, Disk)
<1>1. applies[p] \in ApplyStates /\ applies[p].st \in {"applying", "repairing"}
      BY DEF ApplyTypes, Running
<1>2. QED BY <1>1, FailConcludes DEF Follows

\* The tombstone of an event.
LEMMA TombType ==
  ASSUME ApplyTypes, NEW p \in Pages
  PROVE  Tomb(p) \in Tombs
  BY DEF Tomb, Tombs, ApplyTypes, ApplyStates, Events

\* What the steps of an Apply write is well typed.
LEMMA NextApplyTypes ==
  ASSUME TypeOK, [Next]_vars
  PROVE  ApplyTypes'
<1>0. ApplyTypes /\ RestTypes /\ Disk \in Disks
      BY TypeParts, DiskTypes
<1>1. ASSUME NEW e \in Entries, Stash(e) PROVE ApplyTypes'
      <2>1. \A v \in 0..MaxVersion : v < MaxVersion => v + 1 \in 0..MaxVersion
            BY BoundAssumption
      <2>2. Restaged(e) \in Texts
            BY <1>0, <1>1, <2>1 DEF Stash, Restaged, ApplyTypes, Texts
      <2>3. QED BY <1>0, <1>1, <2>2 DEF Stash, ApplyTypes, pastVars
<1>2. ASSUME NEW e \in Entries, AgentWrites(e) PROVE ApplyTypes'
      <2>1. agent.want \in Texts
            BY <1>0, <1>2 DEF AgentWrites, RestTypes, Events
      <2>2. source' \in Texts
            BY <1>0, <1>2, <2>1, TextTypes DEF AgentWrites, ApplyTypes
      <2>3. QED BY <1>0, <1>2, <2>2 DEF AgentWrites, ApplyTypes
<1>3. ASSUME NEW p \in Pages, Commit(p) PROVE ApplyTypes'
      BY <1>0, <1>3, CommitFacts
<1>4. ASSUME NEW p \in Pages, KeepFixing(p) PROVE ApplyTypes'
      BY <1>0, <1>4, KeepFixingFacts, ConcludeTypes
<1>5. ASSUME NEW p \in Pages, RollbackDecision(p) PROVE ApplyTypes'
      BY <1>0, <1>5, RecoveredTypes, RecordTypes
      DEF RollbackDecision, ApplyTypes, pastVars
<1>6. ASSUME NEW p \in Pages, Discard(p) PROVE ApplyTypes'
      <2>1. CASE Running(p)
            BY <1>0, <1>6, <2>1, DiscardFacts, ConcludeTypes
      <2>2. CASE ~Running(p)
            <3>1. Part(buffer, {e \in Entries : PageOf[e] # p}) \in Texts
                  BY <1>0, TextTypes DEF ApplyTypes
            <3>2. QED
                  BY <1>0, <1>6, <2>2, <3>1, RecoveredTypes, RecordTypes
                  DEF Discard, ApplyTypes
      <2>3. QED BY <2>1, <2>2
<1>7. ASSUME NEW p \in Pages, Timeout(p) PROVE ApplyTypes'
      BY <1>0, <1>7, FailFacts, ConcludeTypes DEF Timeout
<1>8. ASSUME AgentReplies PROVE ApplyTypes'
      <2>1. agent \in Events
            BY <1>0, <1>8 DEF AgentReplies, RestTypes
      <2>2. ASSUME NEW p \in Awaited(agent.no), NEW X \in Reports,
                   NEW told \in BOOLEAN, EventAnswered(p, X, told)
            PROVE  ApplyTypes'
            BY <1>0, <2>1, <2>2, ReplyFacts, ConcludeTypes, DispatchFacts
            DEF ApplyTypes, diskVars
      <2>3. ASSUME NEW p \in Awaited(agent.no), EventFails(p, applies[p], Disk)
            PROVE  ApplyTypes'
            BY <1>0, <2>3, FailFacts, ConcludeTypes DEF Awaited
      <2>4. ASSUME NEW x \in tombs, source' = x.snap,
                   UNCHANGED <<buffer, tx, applies, ids, committed>>
            PROVE  ApplyTypes'
            BY <1>0, <2>4 DEF ApplyTypes, RestTypes, Tombs
      <2>5. ASSUME UNCHANGED <<diskVars, applies, ids, pastVars>>
            PROVE  ApplyTypes'
            BY <1>0, <2>5 DEF ApplyTypes, diskVars, pastVars
      <2>6. QED BY <1>8, <2>2, <2>3, <2>4, <2>5 DEF AgentReplies
<1>9. CASE Crash
      BY <1>0, <1>9, RecordTypes DEF Crash, ApplyTypes, diskVars, pastVars
<1>10. CASE Start
      BY <1>0, <1>10, RecoveredTypes DEF Start, ApplyTypes, pastVars
<1>11. CASE \/ Interrupt \/ UNCHANGED vars
            \/ \E p \in Pages : Reload(p) \/ Expire(p) \/ AgentTakes(p)
      BY <1>0, <1>11 DEF Interrupt, vars, Reload, Expire, AgentTakes, ApplyTypes,
         diskVars, pastVars
<1>12. QED
      BY <1>1, <1>2, <1>3, <1>4, <1>5, <1>6, <1>7, <1>8, <1>9, <1>10, <1>11
      DEF Next

\* And so is the rest.
LEMMA NextRestTypes ==
  ASSUME TypeOK, [Next]_vars
  PROVE  RestTypes'
<1>0. ApplyTypes /\ RestTypes
      BY TypeParts
<1>1. \A n \in 0..MaxFaults : n < MaxFaults => n + 1 \in 0..MaxFaults
      BY BoundAssumption
<1>2. \A n \in 0..MaxApplies : n < MaxApplies => n + 1 \in 0..MaxApplies
      BY BoundAssumption
<1>3. ASSUME NEW e \in Entries, Stash(e) PROVE RestTypes'
      <2>1. PageOf[e] \in Pages
            BY PageAssumption
      <2>2. QED BY <1>0, <1>3, <2>1, DockTypes DEF Stash, RestTypes, pastVars
<1>4. ASSUME NEW e \in Entries, AgentWrites(e) PROVE RestTypes'
      BY <1>0, <1>4 DEF AgentWrites, RestTypes
<1>5. ASSUME NEW p \in Pages, Reload(p) PROVE RestTypes'
      BY <1>0, <1>1, <1>5, DockTypes DEF Reload, RestTypes, pastVars
<1>6. ASSUME NEW p \in Pages, Expire(p) PROVE RestTypes'
      BY <1>0, <1>6 DEF Expire, RestTypes, Docks, pastVars
<1>7. ASSUME NEW p \in Pages, Commit(p) PROVE RestTypes'
      BY <1>0, <1>2, <1>7, DockTypes DEF Commit, RestTypes
<1>8. ASSUME NEW p \in Pages, KeepFixing(p) PROVE RestTypes'
      <2>1. Shown(p)
            BY <1>8 DEF KeepFixing
      <2>2. dock' \in [Pages -> Docks]
            BY <1>0, <2>1, ShownFacts
      <2>3. QED BY <1>0, <1>2, <1>8, <2>2 DEF KeepFixing, RestTypes
<1>9. ASSUME NEW p \in Pages, RollbackDecision(p) PROVE RestTypes'
      BY <1>0, <1>9, DockTypes DEF RollbackDecision, RestTypes, pastVars
<1>10. ASSUME NEW p \in Pages, Discard(p) PROVE RestTypes'
      <2>1. /\ tombs' \subseteq tombs \cup {Tomb(p)} /\ up' = up /\ agent' = agent
            /\ dock' = [dock EXCEPT ![p] = Ready]
            /\ spent' = [spent EXCEPT !.discards = 1]
            /\ excused' \subseteq excused \cup {"canceled"}
            BY <1>10 DEF Discard
      <2>2. QED BY <1>0, <2>1, DockTypes, TombType DEF RestTypes
<1>11. ASSUME NEW p \in Pages, AgentTakes(p) PROVE RestTypes'
      <2>1. applies[p].event \in Events
            BY <1>0 DEF ApplyTypes, ApplyStates
      <2>2. QED BY <1>0, <1>11, <2>1 DEF AgentTakes, RestTypes, pastVars
<1>12. ASSUME NEW p \in Pages, Timeout(p) PROVE RestTypes'
      <2>1. dock' \in [Pages -> Docks]
            BY <1>0, <1>12, ShownFacts DEF Timeout
      <2>2. QED BY <1>0, <1>12, <2>1, TombType DEF Timeout, RestTypes
<1>13. CASE AgentReplies
      <2>1. /\ dock' = dock \/ \E p \in Pages : Shown(p)
            /\ tombs' \subseteq tombs /\ agent' = None
            /\ UNCHANGED <<up, spent>>
            /\ excused' \subseteq excused \cup {"stale", "silent"}
            BY <1>13 DEF AgentReplies, Awaited, pastVars
      <2>2. dock' \in [Pages -> Docks]
            BY <1>0, <2>1, ShownFacts DEF RestTypes
      <2>3. QED BY <1>0, <2>1, <2>2 DEF RestTypes
<1>14. CASE Interrupt
      BY <1>0, <1>1, <1>14 DEF Interrupt, RestTypes, pastVars
<1>15. CASE Crash
      BY <1>0, <1>1, <1>15, DockTypes DEF Crash, RestTypes, pastVars
<1>16. CASE Start
      BY <1>0, <1>16 DEF Start, RestTypes, pastVars
<1>17. CASE UNCHANGED vars
      BY <1>0, <1>17 DEF vars, RestTypes, pastVars
<1>18. QED
      BY <1>3, <1>4, <1>5, <1>6, <1>7, <1>8, <1>9, <1>10, <1>11, <1>12, <1>13,
         <1>14, <1>15, <1>16, <1>17 DEF Next

\* The initial state.
LEMMA InitTypes == Init => TypeOK
<1> SUFFICES ASSUME Init PROVE TypeOK
    OBVIOUS
<1>1. ApplyTypes
      BY TextTypes, RecordTypes DEF Init, ApplyTypes
<1>2. RestTypes
      BY BoundAssumption, DockTypes DEF Init, RestTypes
<1>3. QED BY <1>1, <1>2, TypeParts

\* Every reachable state has the declared types: whatever fails, an Apply is
\* repaired at most repairAttemptLimit times before the user is asked.
THEOREM TypeCorrect == Spec => []TypeOK
<1>1. Init => ApplyTypes /\ RestTypes
      BY InitTypes, TypeParts
<1>2. ApplyTypes /\ RestTypes /\ [Next]_vars => ApplyTypes' /\ RestTypes'
      BY NextApplyTypes, NextRestTypes, TypeParts
<1>3. ApplyTypes /\ RestTypes => TypeOK
      BY TypeParts
<1>4. QED BY <1>1, <1>2, <1>3, PTL DEF Spec
-----------------------------------------------------------------------------
(* Staged edits are kept.                                                  *)

\* The entries an Apply still has in the buffer are of its page, as staged.
HasItsEdits(p, a) ==
  \A e \in a.ours : PageOf[e] = p /\ buffer[e] # 0 /\ buffer[e] = a.want[e]

\* Only a Discard under it takes them away.
HasThemAll(a) ==
  "canceled" \notin excused => a.ours # {} /\ a.ours = In(a.want)

\* As long as it has any, the dock of the page waits.
Guarded(p) ==
  Running(p) => /\ HasItsEdits(p, applies[p]) /\ HasThemAll(applies[p])
                /\ applies[p].ours # {} => dock[p] = Waiting

Guards == \A p \in Pages : Guarded(p)

\* The batch of a page is what is staged for it.
LEMMA BatchFacts ==
  ASSUME buffer \in Texts, NEW p
  PROVE  /\ In(Batch(p)) = Staged(p)
         /\ \A e \in Staged(p) : /\ PageOf[e] = p /\ buffer[e] # 0
                                 /\ e \in Entries /\ Batch(p)[e] = buffer[e]
  BY DEF Batch, In, Part, Staged, StagedIn

\* What is verified is in the source.
LEMMA VerifiedFacts ==
  ASSUME NEW b, NEW s, NEW e \in Verified(b, s)
  PROVE  s[e] = b.want[e]
  BY DEF Verified, Landed

\* Steps that leave buffer, Applies and docks alone.
LEMMA GuardsStay ==
  ASSUME Guards, UNCHANGED <<buffer, applies, dock>>, excused \subseteq excused'
  PROVE  Guards' /\ NoEditIsSwallowed
<1>1. ASSUME NEW p \in Pages PROVE Guarded(p)'
      BY DEF Guards, Guarded, Running, HasItsEdits, HasThemAll
<1>2. NoEditIsSwallowed
      BY DEF NoEditIsSwallowed
<1>3. QED BY <1>1, <1>2 DEF Guards

\* Steps of one page that leave the others alone.
LEMMA GuardsOfOthers ==
  ASSUME Guards, NEW p \in Pages, excused \subseteq excused',
         \A q \in Pages \ {p} : applies'[q] = applies[q] /\ dock'[q] = dock[q],
         \A e \in Entries : PageOf[e] # p => buffer'[e] = buffer[e],
         applies \in [Pages -> ApplyStates],
         Guarded(p)'
  PROVE  Guards'
<1>1. ASSUME NEW q \in Pages, q # p PROVE Guarded(q)'
      <2>1. applies'[q] = applies[q] /\ dock'[q] = dock[q]
            BY <1>1
      <2>2. Guarded(q)
            BY DEF Guards
      <2>3. applies[q].ours \subseteq Entries
            BY DEF ApplyStates
      <2>4. QED
            BY <1>1, <2>1, <2>2, <2>3
            DEF Guarded, Running, HasItsEdits, HasThemAll
<1>2. QED BY <1>1 DEF Guards

\* An Apply that concludes with the buffer as it was: what leaves the buffer
\* is in the source.
LEMMA ConcludeGuards ==
  ASSUME ApplyTypes, RestTypes, Guards, NEW p \in Pages, NEW b \in ApplyStates,
         HasItsEdits(p, b), HasThemAll(b), Concludes(p, b, Disk), Shown(p),
         excused \subseteq excused'
  PROVE  Guards' /\ NoEditIsSwallowed
<1>1. /\ Disk \in Disks /\ Disk.source = source /\ Disk.buffer = buffer
      /\ b.applied \in SUBSET Entries
      BY DiskTypes DEF ApplyStates
<1>2. /\ \A q \in Pages \ {p} : applies'[q] = applies[q] /\ dock'[q] = dock[q]
      /\ applies'[p].st \in {"applying", "repairing"} => dock'[p] = Waiting
      BY <1>1, ConcludeTypes, ShownFacts
<1>3. CASE Repair(p, b, Disk)
      <2>1. /\ buffer' = buffer
            /\ applies'[p].want = b.want /\ applies'[p].ours = b.ours
            BY <1>1, <1>3, RepairFacts
      <2>2. Guarded(p)'
            BY <1>2, <2>1 DEF Guarded, Running, HasItsEdits, HasThemAll
      <2>3. QED
            BY <1>2, <2>1, <2>2, GuardsOfOthers
            DEF NoEditIsSwallowed, ApplyTypes
<1>4. CASE RollBack(p, b, Disk)
      <2>1. buffer' = buffer /\ applies'[p] = NoApply
            BY <1>1, <1>4, EndFacts
      <2>2. Guarded(p)'
            BY <2>1, RecordTypes DEF Guarded, Running
      <2>3. QED
            BY <1>2, <2>1, <2>2, GuardsOfOthers
            DEF NoEditIsSwallowed, ApplyTypes
<1>5. CASE /\ ClearApplied(p, b, b.applied, Disk)
           /\ b.applied = Verified(b, Disk.source)
      <2>1. /\ source' = source /\ applies'[p] = NoApply
            /\ \A e \in Entries :
                 buffer'[e] = IF e \in b.applied \cap b.ours THEN 0 ELSE buffer[e]
            BY <1>1, <1>5, EndFacts
      <2>2. Guarded(p)'
            BY <2>1, RecordTypes DEF Guarded, Running
      <2>3. \A e \in Entries : PageOf[e] # p => buffer'[e] = buffer[e]
            BY <2>1 DEF HasItsEdits
      <2>4. Guards'
            BY <1>2, <2>2, <2>3, GuardsOfOthers DEF ApplyTypes
      <2>5. \A e \in b.applied : source[e] = b.want[e]
            BY <1>1, <1>5, VerifiedFacts
      <2>6. NoEditIsSwallowed
            BY <2>1, <2>5 DEF NoEditIsSwallowed, HasItsEdits
      <2>7. QED BY <2>4, <2>6
<1>6. QED BY <1>3, <1>4, <1>5 DEF Concludes

\* Every step keeps the guards and swallows nothing.
LEMMA NextGuards ==
  ASSUME ApplyTypes, RestTypes, Guards, [Next]_vars
  PROVE  Guards' /\ NoEditIsSwallowed
<1>0. buffer \in Texts /\ applies \in [Pages -> ApplyStates]
      BY DEF ApplyTypes
<1>1. ASSUME NEW e \in Entries, Stash(e) PROVE Guards' /\ NoEditIsSwallowed
      <2> DEFINE p == PageOf[e]
      <2>1. p \in Pages
            BY PageAssumption
      <2>2. /\ ~dock[p].busy /\ UNCHANGED <<applies, excused>>
            /\ \A q \in Pages \ {p} : dock'[q] = dock[q]
            BY <1>1, <2>1 DEF Stash, pastVars, RestTypes
      <2>3. /\ buffer'[e] # 0
            /\ \A f \in Entries \ {e} : buffer'[f] = buffer[f]
            <3>1. /\ buffer[e] \in Nat /\ committed[e] \in Nat
                  BY DEF ApplyTypes, Texts
            <3>2. buffer' = Restaged(e)
                  BY <1>1 DEF Stash
            <3>3. QED BY <1>0, <3>1, <3>2 DEF Restaged, Texts
      <2>4. Running(p) => applies[p].ours = {}
            <3>1. dock[p] # Waiting
                  BY <2>2 DEF Waiting, Dock
            <3>2. QED BY <2>1, <3>1 DEF Guards, Guarded
      <2>5. Guarded(p)'
            <3>1. Guarded(p)
                  BY <2>1 DEF Guards
            <3>2. QED
                  BY <2>2, <2>4, <3>1
                  DEF Guarded, Running, HasItsEdits, HasThemAll
      <2>6. \A f \in Entries : PageOf[f] # p => buffer'[f] = buffer[f]
            BY <2>3
      <2> HIDE DEF p
      <2>7. Guards'
            BY <1>0, <2>1, <2>2, <2>5, <2>6, GuardsOfOthers
      <2>8. NoEditIsSwallowed
            BY <2>3 DEF NoEditIsSwallowed
      <2>9. QED BY <2>7, <2>8
<1>2. ASSUME NEW p \in Pages, Reload(p) PROVE Guards' /\ NoEditIsSwallowed
      <2>1. /\ UNCHANGED <<buffer, applies, excused>>
            /\ dock' = [dock EXCEPT ![p] = Resumed(dock[p], Staged(p))]
            BY <1>2 DEF Reload, diskVars, pastVars
      <2>2. Guarded(p)'
            <3>1. ASSUME Running(p), applies[p].ours # {} PROVE dock'[p] = Waiting
                  <4>1. dock[p] = Waiting /\ Staged(p) # {}
                        <5>1. PICK e \in applies[p].ours : TRUE
                              BY <3>1
                        <5>2. /\ e \in Entries /\ PageOf[e] = p /\ buffer[e] # 0
                              /\ dock[p] = Waiting
                              BY <1>0, <3>1, <5>1
                              DEF Guards, Guarded, HasItsEdits, ApplyStates
                        <5>3. QED BY <5>2 DEF Staged, StagedIn
                  <4>2. QED BY <2>1, <4>1 DEF Resumed, Waiting, Dock, RestTypes
            <3>2. Guarded(p)
                  BY DEF Guards
            <3>3. QED
                  BY <2>1, <3>1, <3>2
                  DEF Guarded, Running, HasItsEdits, HasThemAll
      <2>3. QED
            BY <1>0, <2>1, <2>2, GuardsOfOthers DEF NoEditIsSwallowed, RestTypes
<1>3. ASSUME NEW p \in Pages, Expire(p) PROVE Guards' /\ NoEditIsSwallowed
      <2>1. /\ UNCHANGED <<buffer, applies, excused>> /\ ~Running(p)
            /\ \A q \in Pages \ {p} : dock'[q] = dock[q]
            BY <1>3 DEF Expire, diskVars, pastVars, RestTypes
      <2>2. Guarded(p)'
            BY <2>1 DEF Guarded, Running
      <2>3. QED BY <1>0, <2>1, <2>2, GuardsOfOthers DEF NoEditIsSwallowed
<1>4. ASSUME NEW p \in Pages, Commit(p) PROVE Guards' /\ NoEditIsSwallowed
      <2>1. /\ buffer' = buffer /\ excused \subseteq excused'
            /\ Staged(p) # {} /\ dock' = [dock EXCEPT ![p] = Waiting]
            BY <1>4 DEF Commit
      <2>2. /\ \A q \in Pages \ {p} : applies'[q] = applies[q]
            /\ applies'[p].want = Batch(p) /\ applies'[p].ours = Staged(p)
            BY <1>4, CommitFacts
      <2>3. /\ dock'[p] = Waiting
            /\ \A q \in Pages \ {p} : dock'[q] = dock[q]
            BY <2>1 DEF RestTypes
      <2>4. Guarded(p)'
            BY <1>0, <2>1, <2>2, <2>3, BatchFacts
            DEF Guarded, HasItsEdits, HasThemAll
      <2>5. QED
            BY <1>0, <2>1, <2>2, <2>3, <2>4, GuardsOfOthers DEF NoEditIsSwallowed
<1>5. ASSUME NEW p \in Pages, KeepFixing(p) PROVE Guards' /\ NoEditIsSwallowed
      <2>1. PICK b \in ApplyStates :
              /\ Concludes(p, b, Disk) /\ b.want = Batch(p) /\ b.ours = Staged(p)
            BY <1>5, KeepFixingFacts
      <2>2. Staged(p) # {} /\ Shown(p) /\ excused' = excused
            BY <1>5 DEF KeepFixing
      <2>3. HasItsEdits(p, b) /\ HasThemAll(b)
            BY <1>0, <2>1, <2>2, BatchFacts DEF HasItsEdits, HasThemAll
      <2>4. QED BY <2>1, <2>2, <2>3, ConcludeGuards
<1>6. ASSUME NEW p \in Pages, RollbackDecision(p) PROVE Guards' /\ NoEditIsSwallowed
      <2>1. /\ UNCHANGED <<buffer, excused>>
            /\ applies' = [applies EXCEPT ![p] = NoApply]
            /\ dock' = [dock EXCEPT ![p] = Ready]
            BY <1>6 DEF RollbackDecision, pastVars
      <2>2. /\ \A q \in Pages \ {p} : applies'[q] = applies[q] /\ dock'[q] = dock[q]
            /\ applies'[p] = NoApply
            BY <1>0, <2>1 DEF RestTypes
      <2>3. Guarded(p)'
            BY <2>2, RecordTypes DEF Guarded, Running
      <2>4. QED BY <1>0, <2>1, <2>2, <2>3, GuardsOfOthers DEF NoEditIsSwallowed
<1>7. ASSUME NEW p \in Pages, Discard(p) PROVE Guards' /\ NoEditIsSwallowed
      <2> DEFINE buf == Part(buffer, {e \in Entries : PageOf[e] # p})
      <2>1. /\ spent.discards = 0 /\ spent' = [spent EXCEPT !.discards = 1]
            /\ dock' = [dock EXCEPT ![p] = Ready] /\ excused \subseteq excused'
            /\ Running(p) => "canceled" \in excused'
            BY <1>7 DEF Discard
      <2>2. NoEditIsSwallowed
            BY <2>1 DEF NoEditIsSwallowed, RestTypes
      <2>3. \A e \in Entries : PageOf[e] # p => buf[e] = buffer[e]
            BY DEF Part
      <2>4. CASE Running(p)
            <3>1. PICK b \in ApplyStates, d \in Disks :
                    Concludes(p, b, d) /\ b.ours = {} /\ d.buffer = buf
                  BY <1>7, <2>4, DiscardFacts
            <3>2. b.applied \in SUBSET Entries
                  BY DEF ApplyStates
            <3>3. /\ \A q \in Pages \ {p} : applies'[q] = applies[q]
                  /\ \A e \in Entries : buffer'[e] = buf[e]
                  /\ applies'[p] = NoApply \/ applies'[p].ours = {}
                  <4>1. CASE Repair(p, b, d)
                        BY <3>1, <4>1, RepairFacts
                  <4>2. CASE RollBack(p, b, d)
                        <5> HIDE DEF buf
                        <5>1. /\ applies'[p] = NoApply /\ buffer' = d.buffer
                              /\ \A q \in Pages \ {p} : applies'[q] = applies[q]
                              BY <3>2, <4>2, EndFacts
                        <5>2. QED BY <3>1, <5>1
                  <4>3. CASE ClearApplied(p, b, b.applied, d)
                        <5> HIDE DEF buf
                        <5>1. /\ applies'[p] = NoApply
                              /\ \A q \in Pages \ {p} : applies'[q] = applies[q]
                              /\ \A e \in Entries : buffer'[e] =
                                   IF e \in b.applied \cap b.ours THEN 0
                                   ELSE d.buffer[e]
                              BY <3>2, <4>3, EndFacts
                        <5>2. QED BY <3>1, <5>1
                  <4>4. QED BY <3>1, <4>1, <4>2, <4>3 DEF Concludes
            <3>4. Guarded(p)'
                  BY <2>1, <2>4, <3>3, RecordTypes
                  DEF Guarded, Running, HasItsEdits, HasThemAll
            <3>5. \A q \in Pages \ {p} : dock'[q] = dock[q]
                  BY <2>1 DEF RestTypes
            <3> HIDE DEF buf
            <3>6. Guards'
                  BY <1>0, <2>1, <2>3, <3>3, <3>4, <3>5, GuardsOfOthers
            <3>7. QED BY <2>2, <3>6
      <2>5. CASE ~Running(p)
            <3>1. buffer' = buf /\ applies' = [applies EXCEPT ![p] = NoApply]
                  BY <1>7, <2>5 DEF Discard
            <3>2. /\ \A q \in Pages \ {p} : /\ applies'[q] = applies[q]
                                            /\ dock'[q] = dock[q]
                  /\ applies'[p] = NoApply
                  BY <1>0, <2>1, <3>1 DEF RestTypes
            <3>3. Guarded(p)'
                  BY <3>2, RecordTypes DEF Guarded, Running
            <3>4. \A e \in Entries : PageOf[e] # p => buffer'[e] = buffer[e]
                  BY <2>3, <3>1
            <3>5. QED BY <1>0, <2>1, <2>2, <3>2, <3>3, <3>4, GuardsOfOthers
      <2>6. QED BY <2>4, <2>5
<1>8. ASSUME NEW p \in Pages, NEW b \in ApplyStates, Running(p), Shown(p),
             Follows(b, applies[p]), Concludes(p, b, Disk),
             excused \subseteq excused'
      PROVE  Guards' /\ NoEditIsSwallowed
      <2>1. HasItsEdits(p, b) /\ HasThemAll(b)
            BY <1>8 DEF Guards, Guarded, Follows, HasItsEdits, HasThemAll
      <2>2. QED BY <1>8, <2>1, ConcludeGuards
<1>9. ASSUME NEW p \in Pages, Timeout(p) PROVE Guards' /\ NoEditIsSwallowed
      <2>1. Running(p) /\ Shown(p) /\ excused' = excused
            BY <1>9 DEF Timeout
      <2>2. PICK b \in ApplyStates : Follows(b, applies[p]) /\ Concludes(p, b, Disk)
            BY <1>9, <2>1, FailFacts DEF Timeout
      <2>3. QED BY <1>8, <2>1, <2>2
<1>10. CASE AgentReplies
      <2>1. agent \in Events
            BY <1>10 DEF AgentReplies, RestTypes
      <2>2. ASSUME NEW p \in Awaited(agent.no), NEW X \in Reports,
                   NEW told \in BOOLEAN, EventAnswered(p, X, told),
                   Shown(p), excused \subseteq excused'
            PROVE  Guards' /\ NoEditIsSwallowed
            <3>1. p \in Pages /\ Running(p)
                  BY <2>1, <2>2, ReplyFacts
            <3>2. PICK b \in ApplyStates :
                    /\ Follows(b, applies[p])
                    /\ \/ Concludes(p, b, Disk)
                       \/ /\ b.st = "applying" /\ Dispatch(p, b, source)
                          /\ UNCHANGED <<diskVars, committed>>
                  BY <2>1, <2>2, ReplyFacts
            <3>3. CASE Concludes(p, b, Disk)
                  BY <1>8, <2>2, <3>1, <3>2, <3>3
            <3>4. CASE Dispatch(p, b, source) /\ UNCHANGED diskVars
                  <4>1. /\ buffer' = buffer
                        /\ \A q \in Pages \ {p} : applies'[q] = applies[q]
                        /\ applies'[p].want = b.want /\ applies'[p].ours = b.ours
                        /\ applies'[p].st = b.st
                        BY <3>1, <3>4, DispatchFacts DEF diskVars, ApplyTypes
                  <4>2. /\ \A q \in Pages \ {p} : dock'[q] = dock[q]
                        /\ applies'[p].st \in {"applying", "repairing"} => dock'[p] = Waiting
                        BY <2>2, <3>1, ShownFacts
                  <4>3. Guarded(p)
                        BY <3>1 DEF Guards
                  <4>4. Guarded(p)'
                        BY <2>2, <3>1, <3>2, <4>1, <4>2, <4>3
                        DEF Guarded, Running, Follows, HasItsEdits, HasThemAll
                  <4>5. QED
                        BY <1>0, <2>2, <3>1, <4>1, <4>2, <4>4, GuardsOfOthers
                        DEF NoEditIsSwallowed
            <3>5. QED BY <3>2, <3>3, <3>4
      <2>3. ASSUME NEW p \in Awaited(agent.no), EventFails(p, applies[p], Disk),
                   Shown(p), excused \subseteq excused'
            PROVE  Guards' /\ NoEditIsSwallowed
            BY <1>8, <2>3, FailFacts DEF Awaited
      <2>4. CASE UNCHANGED <<buffer, applies, dock>> /\ excused \subseteq excused'
            BY <2>4, GuardsStay
      <2>5. \/ \E p \in Awaited(agent.no) :
                 /\ Shown(p) /\ excused \subseteq excused'
                 /\ \/ \E X \in Reports, told \in BOOLEAN : EventAnswered(p, X, told)
                    \/ EventFails(p, applies[p], Disk)
            \/ UNCHANGED <<buffer, applies, dock>> /\ excused \subseteq excused'
            BY <1>10 DEF AgentReplies, diskVars, pastVars
      <2>6. QED BY <2>2, <2>3, <2>4, <2>5
<1>11. CASE Crash
      <2>1. UNCHANGED buffer /\ \A p \in Pages : applies'[p].st = "none"
            BY <1>11, RecordTypes DEF Crash, diskVars
      <2>2. QED BY <2>1 DEF Guards, Guarded, Running, NoEditIsSwallowed
<1>12. CASE \/ Interrupt \/ Start \/ UNCHANGED vars
            \/ \E p \in Pages : AgentTakes(p)
            \/ \E e \in Entries : AgentWrites(e)
      <2>1. UNCHANGED <<buffer, applies, dock>> /\ excused \subseteq excused'
            BY <1>12 DEF Interrupt, Start, vars, AgentTakes, AgentWrites,
               diskVars, pastVars
      <2>2. QED BY <2>1, GuardsStay
<1>13. QED
      BY <1>1, <1>2, <1>3, <1>4, <1>5, <1>6, <1>7, <1>9, <1>10, <1>11, <1>12
      DEF Next

\* Nothing the user staged is lost: a tab cannot stage under a running Apply,
\* and an Apply takes an edit out of the buffer only when the source has it.
THEOREM EditsAreKept == Spec => StagedEditsAreKept
<1> DEFINE GInv == ApplyTypes /\ RestTypes /\ Guards
<1>1. Init => GInv
      <2> SUFFICES ASSUME Init PROVE GInv
          OBVIOUS
      <2>1. ApplyTypes /\ RestTypes
            BY InitTypes, TypeParts
      <2>2. Guards
            BY RecordTypes DEF Init, Guards, Guarded, Running
      <2>3. QED BY <2>1, <2>2
<1>2. GInv /\ [Next]_vars => GInv' /\ NoEditIsSwallowed
      BY NextApplyTypes, NextRestTypes, NextGuards, TypeParts
<1>3. GInv => ApplyKeepsTheLock
      BY DEF Guards, Guarded, HasThemAll, ApplyKeepsTheLock, Waiting, Dock
<1> HIDE DEF GInv
<1>4. QED BY <1>1, <1>2, <1>3, PTL DEF Spec, StagedEditsAreKept
-----------------------------------------------------------------------------
(* The source stays whole.                                                 *)

\* Every event has a number of its own, and the agent holds the event of the
\* number it will answer.
Numbered ==
  /\ agent # None => agent.no <= ids
  /\ \A p \in Pages : Running(p) =>
       /\ applies[p].event.no <= ids
       /\ agent # None /\ agent.no = applies[p].event.no
            => agent = applies[p].event
  /\ \A p, q \in Pages :
       Running(p) /\ Running(q) /\ applies[p].event.no = applies[q].event.no
         => p = q

\* An event asks for edits of its batch, a repair for all of them.
EventFits(p) ==
  Running(p) =>
    /\ \A e \in In(applies[p].event.want) :
         e \in In(applies[p].want) /\ applies[p].event.want[e] = applies[p].want[e]
    /\ applies[p].st = "repairing" => applies[p].event.want = applies[p].want

EventsFit == \A p \in Pages : EventFits(p)

\* The question is shown only while it is open, and nothing is under way
\* without a helper.
Asked == /\ \A p \in Pages : dock[p].ask => applies[p].st = "asking"
         /\ ~up => \A p \in Pages : applies[p].st = "none"

Active(p) == applies[p].st # "none"

\* Outside its batch an Apply has changed nothing, and of its batch what is
\* not reported applied is as it was or as it is wanted.
Outside(b) == \A e \in Entries \ In(b.want) : source[e] = committed[e]

Untouched(b) ==
  \A e \in Entries \ b.applied :
    source[e] = committed[e] \/ (e \in In(b.want) /\ source[e] = b.want[e])

\* The transaction file can give back the source as it was.
Owns(p, b) ==
  /\ b.before = committed
  /\ tx # None /\ tx.no = b.tx /\ tx.page = p /\ tx.file = committed
  /\ tx.entries # {} /\ tx.entries \subseteq Staged(p)
  /\ In(b.want) \subseteq Staged(p)

Standing(p) ==
  /\ Owns(p, applies[p]) /\ Outside(applies[p])
  /\ Running(p) => Untouched(applies[p])
  /\ applies[p].st = "applying" => applies[p].snap = committed

\* No Apply is under way, or one died with the helper.
Resting ==
  IF up THEN source = committed /\ tx = None
  ELSE /\ tx # None => tx.file = committed
       /\ \/ source = committed
          \/ tx # None /\ \E e \in tx.entries : buffer[e] # 0

Settled ==
  excused = {} =>
    /\ \A p, q \in Pages : Active(p) /\ Active(q) => p = q
    /\ \A p \in Pages : Active(p) => Standing(p)
    /\ (\A p \in Pages : ~Active(p)) => Resting

\* A new event, or an Apply that has none.
LEMMA NumbersGoOn ==
  ASSUME Numbered, EventsFit, ApplyTypes, ApplyTypes', ids <= ids',
         agent \in {None} \cup Events, agent' \in {agent, None},
         NEW p \in Pages,
         \A q \in Pages \ {p} : applies'[q] = applies[q],
         EventFits(p)',
         Running(p)' => ids < applies'[p].event.no /\ applies'[p].event.no <= ids'
  PROVE  Numbered' /\ EventsFit'
<1>1. \A q \in Pages \ {p} : /\ Running(q)' = Running(q)
                             /\ EventFits(q)' = EventFits(q)
      BY DEF Running, EventFits
<1>2. EventsFit'
      BY <1>1 DEF EventsFit
<1>3. /\ agent # None => agent.no \in Nat
      /\ \A q \in Pages : applies[q].event.no \in Nat /\ applies'[q].event.no \in Nat
      /\ ids \in Nat /\ ids' \in Nat
      BY DEF Events, ApplyStates, ApplyTypes
<1>4. agent' # None => agent' = agent
      OBVIOUS
<1>5. \A q \in Pages \ {p} : Running(q)' => applies'[q].event.no <= ids
      BY <1>1 DEF Numbered
<1>6. agent' # None => agent'.no <= ids'
      BY <1>3, <1>4 DEF Numbered
<1>7. ASSUME NEW q \in Pages, Running(q)'
      PROVE  /\ applies'[q].event.no <= ids'
             /\ agent' # None /\ agent'.no = applies'[q].event.no
                  => agent' = applies'[q].event
      <2>1. CASE q = p
            <3>1. agent' # None => agent'.no # applies'[q].event.no
                  BY <1>3, <1>4, <1>7, <2>1 DEF Numbered
            <3>2. QED BY <1>7, <2>1, <3>1
      <2>2. CASE q # p
            <3>1. Running(q) /\ applies'[q] = applies[q]
                  BY <1>1, <1>7, <2>2
            <3>2. /\ applies[q].event.no <= ids
                  /\ agent # None /\ agent.no = applies[q].event.no
                       => agent = applies[q].event
                  BY <3>1 DEF Numbered
            <3>3. QED BY <1>3, <1>4, <3>1, <3>2
      <2>3. QED BY <2>1, <2>2
<1>8. ASSUME NEW q \in Pages, NEW r \in Pages, Running(q)', Running(r)',
             applies'[q].event.no = applies'[r].event.no
      PROVE  q = r
      <2>1. CASE q = p /\ r # p
            BY <1>3, <1>5, <1>8, <2>1
      <2>2. CASE q # p /\ r = p
            BY <1>3, <1>5, <1>8, <2>2
      <2>3. CASE q # p /\ r # p
            BY <1>1, <1>8, <2>3 DEF Numbered
      <2>4. QED BY <2>1, <2>2, <2>3
<1>9. QED BY <1>2, <1>6, <1>7, <1>8 DEF Numbered

\* No event is new, and the agent holds what it held or an awaited one.
LEMMA NumbersStay ==
  ASSUME Numbered, EventsFit, UNCHANGED <<applies, ids>>,
         agent' \in {agent, None}
           \cup {applies[p].event : p \in {q \in Pages : Running(q)}}
  PROVE  Numbered' /\ EventsFit'
<1>1. /\ \A p \in Pages : Running(p)' = Running(p) /\ EventFits(p)' = EventFits(p)
      BY DEF Running, EventFits
<1>2. EventsFit'
      BY <1>1 DEF EventsFit
<1>3. CASE agent' \in {agent, None}
      BY <1>1, <1>2, <1>3 DEF Numbered
<1>4. ASSUME NEW p \in Pages, Running(p), agent' = applies[p].event
      PROVE  Numbered'
      BY <1>1, <1>4 DEF Numbered
<1>5. QED BY <1>2, <1>3, <1>4

\* The part of a batch that an event asks for agrees with it.
LEMMA PartFits ==
  ASSUME NEW t \in Texts, NEW C, NEW e \in In(Part(t, C))
  PROVE  e \in In(t) /\ Part(t, C)[e] = t[e]
  BY DEF In, Part

\* An Apply that concludes leaves no event of an old number.
LEMMA ConcludeNumbers ==
  ASSUME ApplyTypes, Numbered, EventsFit, agent \in {None} \cup Events,
         agent' \in {agent, None}, NEW p \in Pages, NEW b \in ApplyStates,
         NEW d \in Disks, Concludes(p, b, d)
  PROVE  Numbered' /\ EventsFit'
<1>1. /\ ApplyTypes' /\ ids \in Nat /\ ids' \in {ids, ids + 1}
      /\ \A q \in Pages \ {p} : applies'[q] = applies[q]
      /\ b.applied \in SUBSET Entries /\ b.want \in Texts
      BY ConcludeTypes DEF ApplyTypes, ApplyStates
<1>2. /\ EventFits(p)'
      /\ Running(p)' => ids < applies'[p].event.no /\ applies'[p].event.no <= ids'
      <2>1. CASE Repair(p, b, d)
            <3>1. /\ applies'[p].want = b.want
                  /\ \/ /\ applies'[p].st = "repairing" /\ ids' = ids + 1
                        /\ applies'[p].event = Event(ids + 1, b.want, d.source)
                     \/ applies'[p].st = "asking"
                  BY <2>1, RepairFacts
            <3>2. /\ Event(ids + 1, b.want, d.source).no = ids + 1
                  /\ Event(ids + 1, b.want, d.source).want = b.want
                  BY DEF Event
            <3>3. QED BY <1>1, <3>1, <3>2 DEF EventFits, Running
      <2>2. CASE RollBack(p, b, d) \/ ClearApplied(p, b, b.applied, d)
            <3>1. applies'[p] = NoApply
                  BY <1>1, <2>2, EndFacts
            <3>2. ~Running(p)'
                  BY <3>1, RecordTypes DEF Running
            <3>3. QED BY <3>2 DEF EventFits
      <2>3. QED BY <2>1, <2>2 DEF Concludes
<1>3. ids <= ids'
      BY <1>1
<1>4. QED BY <1>1, <1>2, <1>3, NumbersGoOn

\* Every step numbers its events.
LEMMA NextNumbers ==
  ASSUME ApplyTypes, RestTypes, Numbered, EventsFit, [Next]_vars
  PROVE  Numbered' /\ EventsFit'
<1>0. agent \in {None} \cup Events /\ Disk \in Disks
      BY DiskTypes DEF RestTypes
<1>1. ASSUME NEW p \in Pages, Commit(p) PROVE Numbered' /\ EventsFit'
      <2>1. /\ ApplyTypes' /\ ids' = ids + 2 /\ ids \in Nat
            /\ \A q \in Pages \ {p} : applies'[q] = applies[q]
            /\ applies'[p].want = Batch(p) /\ applies'[p].st = "applying"
            /\ applies'[p].event.no = ids + 2
            BY <1>1, CommitFacts DEF ApplyTypes
      <2>2. PICK C : applies'[p].event.want = Part(buffer, C) /\ C \subseteq Staged(p)
            BY <1>1, CommitFacts
      <2>3. ASSUME NEW e \in In(Part(buffer, C))
            PROVE  e \in In(Batch(p)) /\ Part(buffer, C)[e] = Batch(p)[e]
            <3>1. e \in C /\ e \in Entries /\ Part(buffer, C)[e] = buffer[e]
                  BY <2>3 DEF In, Part
            <3>2. QED BY <2>2, <3>1, BatchFacts DEF ApplyTypes
      <2>4. EventFits(p)'
            BY <2>1, <2>2, <2>3 DEF EventFits, In
      <2>5. agent' = agent
            BY <1>1 DEF Commit
      <2>6. QED BY <1>0, <2>1, <2>4, <2>5, NumbersGoOn
<1>2. ASSUME NEW p \in Pages, KeepFixing(p) PROVE Numbered' /\ EventsFit'
      <2>1. agent' = agent
            BY <1>2 DEF KeepFixing
      <2>2. QED BY <1>0, <1>2, <2>1, KeepFixingFacts, ConcludeNumbers
<1>3. ASSUME NEW p \in Pages, applies' = [applies EXCEPT ![p] = NoApply],
             UNCHANGED <<ids, agent>>, ApplyTypes'
      PROVE  Numbered' /\ EventsFit'
      <2>1. /\ \A q \in Pages \ {p} : applies'[q] = applies[q]
            /\ applies'[p] = NoApply /\ ids' \in Nat
            BY <1>3 DEF ApplyTypes
      <2>2. ~Running(p)' /\ EventFits(p)'
            BY <2>1, RecordTypes DEF Running, EventFits
      <2>3. ids <= ids'
            BY <1>3, <2>1
      <2>4. QED BY <1>0, <1>3, <2>1, <2>2, <2>3, NumbersGoOn
<1>4. ASSUME NEW p \in Pages, RollbackDecision(p) PROVE Numbered' /\ EventsFit'
      BY <1>3, <1>4, NextApplyTypes, TypeParts DEF RollbackDecision
<1>5. ASSUME NEW p \in Pages, Discard(p) PROVE Numbered' /\ EventsFit'
      <2>1. agent' = agent
            BY <1>5 DEF Discard
      <2>2. CASE Running(p)
            BY <1>0, <1>5, <2>1, <2>2, DiscardFacts, ConcludeNumbers
      <2>3. CASE ~Running(p)
            BY <1>3, <1>5, <2>3, NextApplyTypes, TypeParts DEF Discard
      <2>4. QED BY <2>2, <2>3
<1>6. ASSUME NEW p \in Pages, Timeout(p) PROVE Numbered' /\ EventsFit'
      <2>1. agent' = agent /\ Running(p) /\ EventFails(p, applies[p], Disk)
            BY <1>6 DEF Timeout
      <2>2. QED BY <1>0, <2>1, FailFacts, ConcludeNumbers
<1>7. CASE AgentReplies
      <2>1. agent \in Events /\ agent' = None
            BY <1>0, <1>7 DEF AgentReplies
      <2>2. ASSUME NEW p \in Awaited(agent.no), NEW X \in Reports,
                   NEW told \in BOOLEAN, EventAnswered(p, X, told)
            PROVE  Numbered' /\ EventsFit'
            <3>1. p \in Pages /\ Running(p)
                  BY <2>1, <2>2, ReplyFacts
            <3>2. PICK b \in ApplyStates :
                    /\ Follows(b, applies[p])
                    /\ \/ Concludes(p, b, Disk)
                       \/ /\ b.st = "applying" /\ Dispatch(p, b, source)
                          /\ UNCHANGED <<diskVars, committed>>
                  BY <2>1, <2>2, ReplyFacts
            <3>3. CASE Concludes(p, b, Disk)
                  BY <1>0, <2>1, <3>1, <3>2, <3>3, ConcludeNumbers
            <3>4. CASE b.st = "applying" /\ Dispatch(p, b, source)
                  <4>1. /\ ids' = ids + 1 /\ ids \in Nat /\ b.want \in Texts
                        /\ \A q \in Pages \ {p} : applies'[q] = applies[q]
                        /\ applies'[p].want = b.want /\ applies'[p].st = "applying"
                        /\ applies'[p].event.no = ids + 1
                        BY <3>1, <3>4, DispatchFacts DEF ApplyTypes, ApplyStates
                  <4>2. PICK C : applies'[p].event.want = Part(b.want, C)
                        BY <3>1, <3>4, DispatchFacts DEF ApplyTypes
                  <4>3. EventFits(p)'
                        BY <4>1, <4>2, PartFits DEF EventFits, In
                  <4>4. ApplyTypes'
                        BY <1>7, NextApplyTypes, TypeParts DEF Next
                  <4>5. QED BY <1>0, <2>1, <3>1, <4>1, <4>3, <4>4, NumbersGoOn
            <3>5. QED BY <3>2, <3>3, <3>4
      <2>3. ASSUME NEW p \in Awaited(agent.no), EventFails(p, applies[p], Disk)
            PROVE  Numbered' /\ EventsFit'
            BY <1>0, <2>1, <2>3, FailFacts, ConcludeNumbers DEF Awaited
      <2>4. CASE UNCHANGED <<applies, ids>>
            BY <2>1, <2>4, NumbersStay
      <2>5. \/ \E p \in Awaited(agent.no) :
                 \/ \E X \in Reports, told \in BOOLEAN : EventAnswered(p, X, told)
                 \/ EventFails(p, applies[p], Disk)
            \/ UNCHANGED <<applies, ids>>
            BY <1>7 DEF AgentReplies
      <2>6. QED BY <2>2, <2>3, <2>4, <2>5
<1>8. CASE Crash
      <2>1. /\ UNCHANGED <<ids, agent>>
            /\ \A p \in Pages : ~Running(p)' /\ EventFits(p)'
            BY <1>8, RecordTypes DEF Crash, Running, EventFits
      <2>2. QED BY <2>1 DEF Numbered, EventsFit
<1>9. CASE \/ Interrupt \/ Start \/ UNCHANGED vars
           \/ \E p \in Pages : AgentTakes(p) \/ Reload(p) \/ Expire(p)
           \/ \E e \in Entries : AgentWrites(e) \/ Stash(e)
      <2>1. /\ UNCHANGED <<applies, ids>>
            /\ agent' \in {agent, None}
                 \cup {applies[p].event : p \in {q \in Pages : Running(q)}}
            BY <1>9 DEF Interrupt, Start, vars, AgentTakes, Reload, Expire,
               AgentWrites, Stash
      <2>2. QED BY <2>1, NumbersStay
<1>10. QED
      BY <1>1, <1>2, <1>4, <1>5, <1>6, <1>7, <1>8, <1>9 DEF Next

\* A step of one page's Apply that shows its page what it came to.
LEMMA NextAsked ==
  ASSUME ApplyTypes, RestTypes, Asked, [Next]_vars
  PROVE  Asked'
<1>1. ASSUME NEW p \in Pages, dock' \in [Pages -> Docks], up, up',
             \A q \in Pages \ {p} : applies'[q] = applies[q] /\ dock'[q] = dock[q],
             dock'[p].ask => applies'[p].st = "asking"
      PROVE  Asked'
      <2>1. ASSUME NEW q \in Pages, dock'[q].ask PROVE applies'[q].st = "asking"
            BY <1>1, <2>1 DEF Asked
      <2>2. QED BY <1>1, <2>1 DEF Asked
<1>2. ASSUME NEW p \in Pages, Shown(p), up, up',
             \A q \in Pages \ {p} : applies'[q] = applies[q]
      PROVE  Asked'
      BY <1>1, <1>2, ShownFacts
<1>3. ASSUME NEW e \in Entries, Stash(e) PROVE Asked'
      <2>1. PageOf[e] \in Pages
            BY PageAssumption
      <2>2. /\ UNCHANGED applies /\ up /\ up'
            /\ \A q \in Pages \ {PageOf[e]} : dock'[q] = dock[q]
            /\ dock'[PageOf[e]].ask => dock[PageOf[e]].ask
            BY <1>3, <2>1 DEF Stash, RestTypes, Docks, Counted, Ready, Dock
      <2>3. QED BY <2>1, <2>2 DEF Asked
<1>4. ASSUME NEW p \in Pages, Reload(p) PROVE Asked'
      <2>1. /\ UNCHANGED applies /\ up /\ up'
            /\ \A q \in Pages \ {p} : dock'[q] = dock[q]
            /\ ~dock'[p].ask
            BY <1>4 DEF Reload, RestTypes, Resumed, Ready, Waiting, Dock
      <2>2. QED BY <2>1 DEF Asked
<1>5. ASSUME NEW p \in Pages, Expire(p) PROVE Asked'
      <2>1. /\ UNCHANGED <<applies, up>>
            /\ \A q \in Pages : dock'[q].ask = dock[q].ask
            BY <1>5 DEF Expire, RestTypes, Docks
      <2>2. QED BY <2>1 DEF Asked
<1>6. ASSUME NEW p \in Pages, Commit(p) PROVE Asked'
      <2>1. /\ up /\ up' /\ \A q \in Pages \ {p} : dock'[q] = dock[q]
            /\ ~dock'[p].ask
            BY <1>6 DEF Commit, RestTypes, Waiting, Dock
      <2>2. \A q \in Pages \ {p} : applies'[q] = applies[q]
            BY <1>6, CommitFacts
      <2>3. QED BY <2>1, <2>2 DEF Asked
<1>7. ASSUME NEW p \in Pages, KeepFixing(p) PROVE Asked'
      <2>1. \A q \in Pages \ {p} : applies'[q] = applies[q]
            BY <1>7, DiskTypes, KeepFixingFacts, ConcludeTypes
      <2>2. QED BY <1>2, <1>7, <2>1 DEF KeepFixing
<1>8. ASSUME NEW p \in Pages, dock' = [dock EXCEPT ![p] = Ready], up, up',
             \A q \in Pages \ {p} : applies'[q] = applies[q]
      PROVE  Asked'
      <2>1. ~dock'[p].ask /\ \A q \in Pages \ {p} : dock'[q] = dock[q]
            BY <1>8 DEF RestTypes, Ready, Dock
      <2>2. QED BY <1>8, <2>1 DEF Asked
<1>9. ASSUME NEW p \in Pages, RollbackDecision(p) PROVE Asked'
      <2>1. \A q \in Pages \ {p} : applies'[q] = applies[q]
            BY <1>9 DEF RollbackDecision, ApplyTypes
      <2>2. QED BY <1>8, <1>9, <2>1 DEF RollbackDecision
<1>10. ASSUME NEW p \in Pages, Discard(p) PROVE Asked'
      <2>1. \A q \in Pages \ {p} : applies'[q] = applies[q]
            <3>1. CASE Running(p)
                  BY <1>10, <3>1, DiscardFacts, ConcludeTypes
            <3>2. CASE ~Running(p)
                  BY <1>10, <3>2 DEF Discard, ApplyTypes
            <3>3. QED BY <3>1, <3>2
      <2>2. QED BY <1>8, <1>10, <2>1 DEF Discard
<1>11. ASSUME NEW p \in Pages, Timeout(p) PROVE Asked'
      <2>1. \A q \in Pages \ {p} : applies'[q] = applies[q]
            BY <1>11, DiskTypes, FailFacts, ConcludeTypes DEF Timeout
      <2>2. QED BY <1>2, <1>11, <2>1 DEF Timeout
<1>12. CASE AgentReplies
      <2>1. agent \in Events /\ up /\ up'
            BY <1>12 DEF AgentReplies, RestTypes
      <2>2. ASSUME NEW p \in Awaited(agent.no), NEW X \in Reports,
                   NEW told \in BOOLEAN, EventAnswered(p, X, told), Shown(p)
            PROVE  Asked'
            <3>1. p \in Pages
                  BY DEF Awaited
            <3>2. \A q \in Pages \ {p} : applies'[q] = applies[q]
                  BY <2>1, <2>2, <3>1, ReplyFacts, DiskTypes, ConcludeTypes,
                     DispatchFacts DEF ApplyTypes
            <3>3. QED BY <1>2, <2>1, <2>2, <3>1, <3>2
      <2>3. ASSUME NEW p \in Awaited(agent.no), EventFails(p, applies[p], Disk),
                   Shown(p)
            PROVE  Asked'
            <3>1. p \in Pages /\ Running(p)
                  BY DEF Awaited
            <3>2. \A q \in Pages \ {p} : applies'[q] = applies[q]
                  BY <2>3, <3>1, FailFacts, DiskTypes, ConcludeTypes
            <3>3. QED BY <1>2, <2>1, <2>3, <3>1, <3>2
      <2>4. CASE UNCHANGED <<applies, dock>>
            BY <2>1, <2>4 DEF Asked
      <2>5. \/ \E p \in Awaited(agent.no) :
                 /\ Shown(p)
                 /\ \/ \E X \in Reports, told \in BOOLEAN : EventAnswered(p, X, told)
                    \/ EventFails(p, applies[p], Disk)
            \/ UNCHANGED <<applies, dock>>
            BY <1>12 DEF AgentReplies
      <2>6. QED BY <2>2, <2>3, <2>4, <2>5
<1>13. CASE Crash
      BY <1>13, RecordTypes DEF Crash, Asked, Ready, Dock
<1>14. CASE \/ Interrupt \/ Start \/ UNCHANGED vars
            \/ \E p \in Pages : AgentTakes(p)
            \/ \E e \in Entries : AgentWrites(e)
      <2>1. UNCHANGED <<applies, dock>> /\ (up' = up \/ up')
            BY <1>14 DEF Interrupt, Start, vars, AgentTakes, AgentWrites
      <2>2. QED BY <2>1 DEF Asked
<1>15. QED
      BY <1>3, <1>4, <1>5, <1>6, <1>7, <1>9, <1>10, <1>11, <1>12, <1>13, <1>14
      DEF Next

\* The source and the records are functions of the entries.
LEMMA SameTexts ==
  ASSUME NEW s \in Texts, NEW t \in Texts, \A e \in Entries : s[e] = t[e]
  PROVE  s = t
  BY DEF Texts

\* An Apply that concludes leaves the source whole, or can still do so.  It is
\* taken back while its events are answered, never once the user was asked.
LEMMA ConcludeStands ==
  ASSUME ApplyTypes, NEW p \in Pages, NEW b \in ApplyStates,
         Concludes(p, b, Disk), Owns(p, b), Outside(b), Untouched(b),
         b.st \in {"none", "applying", "repairing"},
         b.st = "applying" => b.snap = committed,
         b.st = "none" => b.told /\ In(b.want) \subseteq b.applied,
         b.st = "repairing" /\ ~Repair(p, b, Disk)
           => \A e \in Entries \ b.applied : source[e] = committed[e]
  PROVE  /\ Active(p)' => Standing(p)'
         /\ ~Active(p)' => /\ source' = committed' /\ tx' = None
                           /\ b.st = "none" =>
                                \A e \in b.applied \cap b.ours : buffer'[e] = 0
<1>1. /\ Disk \in Disks /\ Disk.source = source /\ Disk.buffer = buffer
      /\ Disk.tx = tx /\ b.applied \in SUBSET Entries
      BY DiskTypes DEF ApplyStates
<1>2. CASE Repair(p, b, Disk)
      <2>1. /\ source' = source /\ buffer' = buffer /\ tx' = tx
            /\ committed' = committed
            /\ applies'[p].want = b.want /\ applies'[p].tx = b.tx
            /\ applies'[p].before = b.before /\ applies'[p].applied = b.applied
            /\ applies'[p].st \in {"repairing", "asking"}
            BY <1>1, <1>2, RepairFacts
      <2>2. Owns(p, applies[p])'
            BY <2>1 DEF Owns, Staged, StagedIn
      <2>3. Outside(applies[p])' /\ Untouched(applies[p])'
            BY <2>1 DEF Outside, Untouched
      <2>4. Active(p)'
            BY <2>1 DEF Active
      <2>5. QED BY <2>1, <2>2, <2>3, <2>4 DEF Standing
<1>3. ASSUME applies'[p] = NoApply, tx' = Clear(tx, b.tx)
      PROVE  ~Active(p)' /\ tx' = None
      BY <1>3, RecordTypes DEF Active, Clear, Owns
<1>4. CASE /\ RollBack(p, b, Disk) /\ b.st # "repairing"
           /\ b.st = "applying" \/ ~b.told \/ Leaks(b, Disk.source) # {}
      <2>1. /\ applies'[p] = NoApply /\ tx' = Clear(tx, b.tx)
            /\ source' = b.snap /\ committed' = committed
            BY <1>1, <1>4, EndFacts
      <2>2. b.st = "applying"
            <3>1. b.st = "none" => Leaks(b, Disk.source) = {}
                  BY DEF Leaks
            <3>2. QED BY <1>4, <3>1
      <2>3. QED BY <1>3, <2>1, <2>2
<1>5. CASE /\ ~Repair(p, b, Disk)
           /\ ClearApplied(p, b, b.applied, Disk)
           /\ b.applied = Verified(b, Disk.source)
           /\ \/ b.st = "repairing" \/ Disk.source = b.snap
              \/ b.told /\ Leaks(b, Disk.source) = {}
      <2>1. /\ applies'[p] = NoApply /\ tx' = Clear(tx, b.tx) /\ source' = source
            /\ \A e \in Entries :
                 /\ buffer'[e] = IF e \in b.applied \cap b.ours THEN 0 ELSE buffer[e]
                 /\ committed'[e] = IF e \in b.applied THEN b.want[e]
                                    ELSE committed[e]
            /\ source' \in Texts /\ committed' \in Texts
            BY <1>1, <1>5, EndFacts DEF ApplyTypes
      <2>2. ASSUME NEW e \in Entries PROVE source'[e] = committed'[e]
            <3>1. CASE e \in b.applied
                  BY <1>1, <1>5, <2>1, <3>1, VerifiedFacts
            <3>2. CASE e \notin b.applied
                  <4>1. source[e] = committed[e]
                        <5>1. CASE b.st = "repairing"
                              BY <1>5, <3>2, <5>1
                        <5>2. CASE b.st = "none"
                              BY <3>2, <5>2 DEF Outside
                        <5>3. CASE b.st = "applying"
                              <6>1. CASE source = b.snap
                                    BY <5>3, <6>1
                              <6>2. CASE Leaks(b, source) = {}
                                    <7>1. CASE e \in In(b.want)
                                          BY <3>2, <5>3, <6>2, <7>1
                                          DEF Leaks, Landed, Untouched
                                    <7>2. CASE e \notin In(b.want)
                                          BY <7>2 DEF Outside
                                    <7>3. QED BY <7>1, <7>2
                              <6>3. QED BY <1>1, <1>5, <5>3, <6>1, <6>2
                        <5>4. QED BY <5>1, <5>2, <5>3
                  <4>2. QED BY <2>1, <3>2, <4>1
            <3>3. QED BY <3>1, <3>2
      <2>3. source' = committed'
            BY <2>1, <2>2, SameTexts
      <2>4. \A e \in b.applied \cap b.ours : buffer'[e] = 0
            BY <1>1, <2>1
      <2>5. QED BY <1>3, <2>1, <2>3, <2>4
<1>6. QED BY <1>2, <1>4, <1>5 DEF Concludes
-----------------------------------------------------------------------------
(* The source stays whole, step by step.                                   *)

\* One page's Apply is the only one, or none is left.
LEMMA SettledAt ==
  ASSUME NEW p \in Pages, \A q \in Pages \ {p} : ~Active(q)',
         Active(p)' => Standing(p)', ~Active(p)' => Resting'
  PROVE  Settled'
  BY DEF Settled

\* Nothing but the buffer changes, and nothing leaves it.
LEMMA SettledStays ==
  ASSUME Settled, UNCHANGED <<applies, source, tx, committed, up, excused>>,
         \A e \in Entries : buffer[e] # 0 => buffer'[e] # 0,
         tx \in {None} \cup Transactions
  PROVE  Settled'
<1> SUFFICES ASSUME excused = {}
             PROVE  /\ \A p, q \in Pages : Active(p)' /\ Active(q)' => p = q
                    /\ \A p \in Pages : Active(p)' => Standing(p)'
                    /\ (\A p \in Pages : ~Active(p)') => Resting'
    BY DEF Settled
<1>1. \A p \in Pages : Active(p)' = Active(p)
      BY DEF Active
<1>2. ASSUME NEW p \in Pages, Standing(p) PROVE Standing(p)'
      <2>1. Staged(p) \subseteq Staged(p)'
            BY DEF Staged, StagedIn
      <2>2. Owns(p, applies[p])'
            BY <1>2, <2>1 DEF Standing, Owns
      <2>3. QED
            BY <1>2, <2>2 DEF Standing, Outside, Untouched, Running
<1>3. ASSUME Resting PROVE Resting'
      BY <1>3 DEF Resting, Transactions
<1>4. QED BY <1>1, <1>2, <1>3 DEF Settled

\* What can be given back is the source as it was.
LEMMA RecoveredFacts ==
  ASSUME NEW p \in Pages, NEW b, Owns(p, b)
  PROVE  Recovered({p}) = committed /\ TxLeft({p}) = None
<1>1. PICK e \in tx.entries : TRUE
      BY DEF Owns
<1>2. buffer[e] # 0
      BY <1>1 DEF Owns, Staged, StagedIn
<1>3. QED BY <1>1, <1>2 DEF Owns, Recovered, TxLeft, Held

\* Commit leaves a transaction on disk.
LEMMA TransactionIsSome ==
  ASSUME ApplyTypes, NEW p \in Pages, Commit(p)
  PROVE  tx' # None
  BY CommitFacts, NoneAssumption

\* With the helper up and nothing under way there is nothing to give back.
LEMMA RestingFacts ==
  ASSUME up, Resting, NEW pages
  PROVE  Recovered(pages) = committed /\ TxLeft(pages) = None
  BY DEF Resting, Recovered, TxLeft, Held

\* Before an Apply of a page the source is the text last reported applied,
\* or can be given back.
LEMMA BeforeAnApply ==
  ASSUME Settled, excused = {}, up, NEW p \in Pages, ~Running(p),
         \A q \in Pages \ {p} : ~Active(q), applies[p] \in ApplyStates
  PROVE  Recovered({p}) = committed /\ TxLeft({p}) = None
<1>1. CASE Active(p)
      BY <1>1, RecoveredFacts DEF Settled, Standing
<1>2. CASE ~Active(p)
      BY <1>2, RestingFacts DEF Settled
<1>3. QED BY <1>1, <1>2

\* The Apply of an asking page, once its user has the edits repaired again.
LEMMA KeepFixingStands ==
  ASSUME ApplyTypes, Asked, Settled, excused = {}, NEW p \in Pages, KeepFixing(p)
  PROVE  /\ \A q \in Pages \ {p} : ~Active(q)
         /\ Active(p)' => Standing(p)'
         /\ ~Active(p)' => source' = committed' /\ tx' = None /\ buffer' # buffer
<1>1. applies[p].st = "asking" /\ Staged(p) # {}
      BY DEF KeepFixing, Asked
<1>2. /\ Owns(p, applies[p]) /\ Outside(applies[p])
      /\ \A q \in Pages \ {p} : ~Active(q)
      BY <1>1 DEF Settled, Standing, Active
<1>3. PICK b \in ApplyStates :
        /\ Concludes(p, b, Disk)
        /\ b.st = "none" /\ b.told /\ b.want = Batch(p)
        /\ b.ours = Staged(p) /\ Staged(p) \subseteq b.applied
        /\ b.tx = tx.no /\ b.before = applies[p].before
      BY KeepFixingFacts
<1>4. In(b.want) = Staged(p)
      BY <1>3, BatchFacts DEF ApplyTypes
<1>5. Owns(p, b)
      BY <1>2, <1>3, <1>4 DEF Owns
<1>6. Outside(b) /\ Untouched(b)
      BY <1>2, <1>3, <1>4 DEF Outside, Untouched, Owns
<1>7. /\ Active(p)' => Standing(p)'
      /\ ~Active(p)' => /\ source' = committed' /\ tx' = None
                        /\ \A e \in b.applied \cap b.ours : buffer'[e] = 0
      BY <1>3, <1>4, <1>5, <1>6, ConcludeStands
<1>8. (\A e \in b.applied \cap b.ours : buffer'[e] = 0) => buffer' # buffer
      <2>1. PICK e \in Staged(p) : TRUE
            BY <1>1
      <2>2. buffer[e] # 0
            BY <2>1 DEF Staged, StagedIn
      <2>3. QED BY <1>3, <2>1, <2>2
<1>9. QED BY <1>2, <1>7, <1>8

\* An event that is answered or fails.
LEMMA EventStands ==
  ASSUME ApplyTypes, Settled, excused = {}, NEW p \in Pages, Running(p),
         NEW b \in ApplyStates, Follows(b, applies[p]), Concludes(p, b, Disk),
         b.st = "repairing" /\ ~Repair(p, b, Disk)
           => \A e \in Entries \ b.applied : source[e] = committed[e]
  PROVE  /\ \A q \in Pages \ {p} : ~Active(q)
         /\ Active(p)' => Standing(p)'
         /\ ~Active(p)' => source' = committed' /\ tx' = None
<1>1. Active(p) /\ Standing(p) /\ \A q \in Pages \ {p} : ~Active(q)
      BY DEF Settled, Active, Running
<1>2. b.st = applies[p].st /\ b.st \in {"applying", "repairing"}
      BY DEF Follows, Running
<1>3. Owns(p, b) /\ Outside(b) /\ Untouched(b)
      BY <1>1 DEF Standing, Follows, Owns, Outside, Untouched
<1>4. b.st = "applying" => b.snap = committed
      BY <1>1, <1>2 DEF Standing, Follows
<1>5. QED BY <1>1, <1>2, <1>3, <1>4, ConcludeStands

\* A step of a running page leaves it whole and shuts no other out.
LEMMA NextSettled ==
  ASSUME ApplyTypes, RestTypes, Guards, Numbered, EventsFit, Asked, Settled,
         [Next]_vars
  PROVE  Settled'
<1>0. /\ applies \in [Pages -> ApplyStates] /\ buffer \in Texts
      /\ source \in Texts /\ tx \in {None} \cup Transactions
      BY DEF ApplyTypes
<1>1. excused \subseteq excused'
      BY DEF Next, vars, pastVars, Stash, AgentWrites, Reload, Expire, Commit,
         KeepFixing, RollbackDecision, Discard, AgentTakes, Timeout,
         AgentReplies, Interrupt, Crash, Start
<1> SUFFICES ASSUME excused' = {}
             PROVE  Settled'
    BY DEF Settled
<1>2. excused = {}
      BY <1>1
<1>3. /\ \A p, q \in Pages : Active(p) /\ Active(q) => p = q
      /\ \A p \in Pages : Active(p) => Standing(p)
      /\ (\A p \in Pages : ~Active(p)) => Resting
      BY <1>2 DEF Settled
<1>4. ASSUME NEW p \in Pages, \A q \in Pages \ {p} : ~Active(q),
             \A q \in Pages \ {p} : applies'[q] = applies[q], up, up',
             Active(p)' => Standing(p)',
             ~Active(p)' => source' = committed' /\ tx' = None
      PROVE  Settled'
      <2>1. \A q \in Pages \ {p} : ~Active(q)'
            BY <1>4 DEF Active
      <2>2. QED BY <1>4, <2>1, SettledAt DEF Resting
<1>5. ASSUME NEW e \in Entries, Stash(e) PROVE Settled'
      <2>1. /\ UNCHANGED <<applies, source, tx, committed, up, excused>>
            /\ buffer' = Restaged(e)
            BY <1>5 DEF Stash, pastVars
      <2>2. \A f \in Entries : buffer[f] # 0 => buffer'[f] # 0
            BY <1>0, <2>1 DEF Restaged, Texts
      <2>3. QED BY <1>0, <2>1, <2>2, SettledStays
<1>6. ASSUME NEW e \in Entries, AgentWrites(e) PROVE Settled'
      <2>1. /\ agent # None /\ agent.want[e] \notin {0, source[e]}
            /\ source' = [source EXCEPT ![e] = agent.want[e]]
            /\ UNCHANGED <<buffer, tx, applies, up, committed>>
            /\ Awaited(agent.no) # {}
            BY <1>6 DEF AgentWrites
      <2>2. PICK p \in Pages : Running(p) /\ applies[p].event.no = agent.no
            BY <2>1 DEF Awaited
      <2>3. agent = applies[p].event
            BY <2>1, <2>2 DEF Numbered
      <2>4. e \in In(applies[p].want) /\ agent.want[e] = applies[p].want[e]
            BY <2>1, <2>2, <2>3 DEF EventsFit, EventFits, In
      <2>5. /\ source'[e] = applies[p].want[e]
            /\ \A f \in Entries \ {e} : source'[f] = source[f]
            BY <1>0, <2>1, <2>4 DEF Texts
      <2>6. Active(p) /\ Standing(p) /\ Running(p)'
            BY <1>3, <2>1, <2>2 DEF Active, Running
      <2>7. Standing(p)'
            <3>1. Owns(p, applies[p])'
                  BY <2>1, <2>6 DEF Standing, Owns, Staged, StagedIn
            <3>2. Outside(applies[p])'
                  BY <2>1, <2>4, <2>5, <2>6 DEF Standing, Outside
            <3>3. Untouched(applies[p])'
                  BY <2>1, <2>2, <2>4, <2>5, <2>6 DEF Standing, Untouched
            <3>4. applies'[p].st = "applying" => applies'[p].snap = committed'
                  BY <2>1, <2>6 DEF Standing
            <3>5. QED BY <3>1, <3>2, <3>3, <3>4 DEF Standing
      <2>8. Active(p)' /\ \A q \in Pages \ {p} : ~Active(q)'
            BY <1>3, <2>1, <2>6 DEF Active
      <2>9. QED BY <2>7, <2>8, SettledAt
<1>7. ASSUME NEW p \in Pages, Commit(p) PROVE Settled'
      <2>1. /\ up /\ up' /\ ~Running(p) /\ Staged(p) # {}
            /\ \A q \in Pages \ {p} : ~Active(q)
            BY <1>7 DEF Commit, Running, Active
      <2>2. Recovered({p}) = committed
            BY <1>0, <1>2, <2>1, BeforeAnApply
      <2>3. /\ source' = committed /\ committed' = committed /\ buffer' = buffer
            /\ tx'.no = ids + 1 /\ tx'.page = p /\ tx'.entries = Staged(p)
            /\ tx'.file = committed /\ tx' \in Transactions
            /\ \A q \in Pages \ {p} : applies'[q] = applies[q]
            /\ applies'[p].want = Batch(p)
            /\ applies'[p].tx = ids + 1 /\ applies'[p].before = committed
            /\ applies'[p].snap = committed /\ applies'[p].st = "applying"
            BY <1>7, <2>2, CommitFacts
      <2>4. tx' # None
            BY <1>7, <2>3, TransactionIsSome DEF Commit
      <2>5. In(Batch(p)) = Staged(p) /\ Staged(p)' = Staged(p)
            BY <1>0, <2>3, BatchFacts DEF Staged, StagedIn
      <2>6. Owns(p, applies[p])'
            BY <2>1, <2>3, <2>4, <2>5 DEF Owns
      <2>7. Outside(applies[p])' /\ Untouched(applies[p])'
            BY <2>3 DEF Outside, Untouched
      <2>8. Standing(p)' /\ Active(p)'
            BY <2>3, <2>6, <2>7 DEF Standing, Active
      <2>9. QED BY <1>4, <2>1, <2>3, <2>8
<1>8. ASSUME NEW p \in Pages, KeepFixing(p) PROVE Settled'
      <2>1. up /\ up'
            BY <1>8 DEF KeepFixing
      <2>2. \A q \in Pages \ {p} : applies'[q] = applies[q]
            BY <1>8, DiskTypes, KeepFixingFacts, ConcludeTypes
      <2>3. /\ \A q \in Pages \ {p} : ~Active(q)
            /\ Active(p)' => Standing(p)'
            /\ ~Active(p)' => source' = committed' /\ tx' = None
            BY <1>2, <1>8, KeepFixingStands
      <2>4. QED BY <1>4, <2>1, <2>2, <2>3
<1>9. ASSUME NEW p \in Pages, ~Running(p), up, up', committed' = committed,
             source' = Recovered({p}), tx' = TxLeft({p}),
             applies' = [applies EXCEPT ![p] = NoApply],
             \A q \in Pages \ {p} : ~Active(q)
      PROVE  Settled'
      <2>1. source' = committed' /\ tx' = None
            BY <1>0, <1>2, <1>9, BeforeAnApply
      <2>2. ~Active(p)' /\ \A q \in Pages \ {p} : applies'[q] = applies[q]
            BY <1>0, <1>9, RecordTypes DEF Active
      <2>3. QED BY <1>4, <1>9, <2>1, <2>2
<1>10. ASSUME NEW p \in Pages, RollbackDecision(p) PROVE Settled'
      <2>1. applies[p].st = "asking"
            BY <1>10 DEF RollbackDecision, Asked
      <2>2. ~Running(p) /\ \A q \in Pages \ {p} : ~Active(q)
            BY <1>3, <2>1 DEF Running, Active
      <2>3. QED BY <1>9, <1>10, <2>2 DEF RollbackDecision, pastVars
<1>11. ASSUME NEW p \in Pages, Discard(p) PROVE Settled'
      <2>1. /\ ~Running(p) /\ up /\ up' /\ UNCHANGED committed
            /\ source' = Recovered({p}) /\ tx' = TxLeft({p})
            /\ buffer' = Part(buffer, {e \in Entries : PageOf[e] # p})
            /\ applies' = [applies EXCEPT ![p] = NoApply]
            BY <1>11 DEF Discard
      <2>2. CASE \A q \in Pages \ {p} : ~Active(q)
            BY <1>9, <2>1, <2>2
      <2>3. ASSUME NEW q \in Pages, q # p, Active(q) PROVE Settled'
            <3>1. Standing(q) /\ \A r \in Pages \ {q} : ~Active(r)
                  BY <1>3, <2>3
            <3>2. tx.page = q
                  BY <3>1 DEF Standing, Owns
            <3>3. source' = source /\ tx' = tx
                  BY <2>1, <2>3, <3>2 DEF Recovered, TxLeft, Held
            <3>4. applies'[q] = applies[q] /\ Staged(q)' = Staged(q)
                  <4>1. applies'[q] = applies[q]
                        BY <1>0, <2>1, <2>3
                  <4>2. \A e \in Entries : PageOf[e] = q => buffer'[e] = buffer[e]
                        BY <2>1, <2>3 DEF Part
                  <4>3. QED BY <4>1, <4>2 DEF Staged, StagedIn
            <3>5. Standing(q)'
                  BY <2>1, <3>1, <3>3, <3>4
                  DEF Standing, Owns, Outside, Untouched, Running
            <3>6. \A r \in Pages \ {q} : ~Active(r)'
                  BY <1>0, <2>1, <3>1, RecordTypes DEF Active
            <3>7. Active(q)'
                  BY <2>3, <3>4 DEF Active
            <3>8. QED BY <3>5, <3>6, <3>7, SettledAt
      <2>4. QED BY <2>2, <2>3
<1>12. ASSUME NEW p \in Pages, Timeout(p) PROVE Settled'
      <2>1. up /\ up' /\ Running(p) /\ EventFails(p, applies[p], Disk)
            BY <1>12 DEF Timeout
      <2>2. PICK b \in ApplyStates : /\ Follows(b, applies[p])
                                     /\ Concludes(p, b, Disk)
                                     /\ b.st = "repairing" => Repair(p, b, Disk)
            BY <2>1, FailFacts
      <2>3. \A q \in Pages \ {p} : applies'[q] = applies[q]
            BY <2>2, DiskTypes, ConcludeTypes
      <2>4. /\ \A q \in Pages \ {p} : ~Active(q)
            /\ Active(p)' => Standing(p)'
            /\ ~Active(p)' => source' = committed' /\ tx' = None
            BY <1>2, <2>1, <2>2, EventStands
      <2>5. QED BY <1>4, <2>1, <2>3, <2>4
<1>13. CASE AgentReplies
      <2>1. agent \in Events /\ up /\ up'
            BY <1>13 DEF AgentReplies, RestTypes
      <2>2. ASSUME NEW p \in Awaited(agent.no), NEW X \in Reports,
                   NEW told \in BOOLEAN, EventAnswered(p, X, told), ~LeavesOut(p, X)
            PROVE  Settled'
            <3>1. p \in Pages /\ Running(p) /\ applies[p].event.no = agent.no
                  BY <2>1, <2>2, ReplyFacts
            <3>2. PICK b \in ApplyStates :
                    /\ Follows(b, applies[p]) /\ X \subseteq b.applied
                    /\ \/ Concludes(p, b, Disk)
                       \/ /\ b.st = "applying" /\ Dispatch(p, b, source)
                          /\ UNCHANGED <<diskVars, committed>>
                  BY <2>1, <2>2, ReplyFacts
            <3>3. Active(p) /\ Standing(p) /\ \A q \in Pages \ {p} : ~Active(q)
                  BY <1>3, <3>1 DEF Active, Running
            <3>4. CASE Concludes(p, b, Disk)
                  <4>1. ASSUME b.st = "repairing", NEW e \in Entries \ b.applied
                        PROVE  source[e] = committed[e]
                        <5>1. /\ applies[p].st = "repairing"
                              /\ e \notin applies[p].applied /\ e \notin X
                              BY <3>2, <4>1 DEF Follows
                        <5>2. agent = applies[p].event /\ agent.want = applies[p].want
                              BY <1>13, <2>1, <3>1, <5>1
                              DEF AgentReplies, Numbered, EventsFit, EventFits
                        <5>3. ~(e \in In(agent.want) /\ source[e] = agent.want[e])
                              BY <2>2, <5>1 DEF LeavesOut
                        <5>4. QED
                              BY <3>1, <3>3, <4>1, <5>1, <5>2, <5>3
                              DEF Standing, Untouched
                  <4>2. /\ Active(p)' => Standing(p)'
                        /\ ~Active(p)' => source' = committed' /\ tx' = None
                        BY <1>2, <3>1, <3>2, <3>4, <4>1, EventStands
                  <4>3. \A q \in Pages \ {p} : applies'[q] = applies[q]
                        BY <3>1, <3>4, DiskTypes, ConcludeTypes
                  <4>4. QED BY <1>4, <2>1, <3>1, <3>3, <4>2, <4>3
            <3>5. CASE /\ b.st = "applying" /\ Dispatch(p, b, source)
                       /\ UNCHANGED <<diskVars, committed>>
                  <4>1. /\ \A q \in Pages \ {p} : applies'[q] = applies[q]
                        /\ applies'[p].want = applies[p].want
                        /\ applies'[p].tx = applies[p].tx
                        /\ applies'[p].before = applies[p].before
                        /\ applies[p].applied \subseteq applies'[p].applied
                        /\ applies'[p].st = applies[p].st
                        /\ applies'[p].snap = applies[p].snap
                        BY <1>0, <3>1, <3>2, <3>5, DispatchFacts DEF Follows
                  <4>2. UNCHANGED <<source, buffer, tx, committed>>
                        BY <3>5 DEF diskVars
                  <4>3. Owns(p, applies[p])'
                        BY <3>3, <4>1, <4>2 DEF Standing, Owns, Staged, StagedIn
                  <4>4. Outside(applies[p])' /\ Untouched(applies[p])'
                        BY <3>1, <3>3, <4>1, <4>2 DEF Standing, Outside, Untouched
                  <4>5. Standing(p)' /\ Active(p)'
                        BY <3>3, <4>1, <4>2, <4>3, <4>4 DEF Standing, Active
                  <4>6. QED BY <1>4, <2>1, <3>1, <3>3, <4>1, <4>5
            <3>6. QED BY <3>2, <3>4, <3>5
      <2>3. ASSUME NEW p \in Awaited(agent.no), EventFails(p, applies[p], Disk)
            PROVE  Settled'
            <3>1. p \in Pages /\ Running(p)
                  BY DEF Awaited
            <3>2. PICK b \in ApplyStates :
                    /\ Follows(b, applies[p]) /\ Concludes(p, b, Disk)
                    /\ b.st = "repairing" => Repair(p, b, Disk)
                  BY <2>3, <3>1, FailFacts
            <3>3. \A q \in Pages \ {p} : applies'[q] = applies[q]
                  BY <3>1, <3>2, DiskTypes, ConcludeTypes
            <3>4. /\ \A q \in Pages \ {p} : ~Active(q)
                  /\ Active(p)' => Standing(p)'
                  /\ ~Active(p)' => source' = committed' /\ tx' = None
                  BY <1>2, <3>1, <3>2, EventStands
            <3>5. QED BY <1>4, <2>1, <3>1, <3>3, <3>4
      <2>4. CASE UNCHANGED <<applies, buffer, source, tx, committed>>
            BY <1>0, <1>2, <2>1, <2>4, <1>13, SettledStays DEF AgentReplies
      <2>5. \/ \E p \in Awaited(agent.no) :
                 \/ \E X \in Reports, told \in BOOLEAN :
                      EventAnswered(p, X, told) /\ ~LeavesOut(p, X)
                 \/ EventFails(p, applies[p], Disk)
            \/ UNCHANGED <<applies, buffer, source, tx, committed>>
            BY <1>13 DEF AgentReplies, diskVars, pastVars
      <2>6. QED BY <2>2, <2>3, <2>4, <2>5
<1>14. CASE Crash
      <2>1. /\ up /\ ~up' /\ UNCHANGED <<source, buffer, tx, committed>>
            /\ \A p \in Pages : ~Active(p)'
            BY <1>14, RecordTypes DEF Crash, diskVars, pastVars, Active
      <2>2. CASE \A p \in Pages : ~Active(p)
            BY <1>3, <2>1, <2>2 DEF Settled, Resting
      <2>3. ASSUME NEW p \in Pages, Active(p) PROVE Resting'
            <3>1. Owns(p, applies[p])
                  BY <1>3, <2>3 DEF Standing
            <3>2. \E e \in tx.entries : buffer[e] # 0
                  BY <3>1 DEF Owns, Staged, StagedIn
            <3>3. QED BY <2>1, <3>1, <3>2 DEF Owns, Resting
      <2>4. QED BY <2>1, <2>2, <2>3 DEF Settled
<1>15. CASE Start
      <2>1. /\ ~up /\ up' /\ UNCHANGED <<applies, committed>>
            /\ source' = Recovered(Pages) /\ tx' = TxLeft(Pages)
            BY <1>15 DEF Start, pastVars
      <2>2. (\A p \in Pages : ~Active(p)) /\ Resting
            BY <1>3, <2>1 DEF Asked, Active
      <2>3. tx # None => tx.page \in Pages
            BY <1>0 DEF Transactions
      <2>4. source' = committed /\ tx' = None
            BY <2>1, <2>2, <2>3 DEF Resting, Recovered, TxLeft, Held
      <2>5. QED BY <2>1, <2>2, <2>4 DEF Settled, Resting, Active
<1>16. CASE \/ Interrupt \/ UNCHANGED vars
            \/ \E p \in Pages : AgentTakes(p) \/ Reload(p) \/ Expire(p)
      <2>1. UNCHANGED <<applies, buffer, source, tx, committed, up, excused>>
            BY <1>16 DEF Interrupt, vars, AgentTakes, Reload, Expire, diskVars,
               pastVars
      <2>2. QED BY <1>0, <2>1, SettledStays
<1>17. QED
      BY <1>5, <1>6, <1>7, <1>8, <1>10, <1>11, <1>12, <1>13, <1>14, <1>15, <1>16
      DEF Next

\* The step that answers an open question with Rollback restores the source.
LEMMA NextRestores ==
  ASSUME ApplyTypes, RestTypes, Asked, Settled, [Next]_vars
  PROVE  RollbackRestores
<1> SUFFICES ASSUME NEW p \in Pages, RollsBack(p), excused = {}
             PROVE  source' = applies[p].before
    BY DEF RollbackRestores
<1>0. applies \in [Pages -> ApplyStates]
      BY DEF ApplyTypes
<1>1. /\ applies[p].st = "asking" /\ applies'[p].st = "none"
      /\ up' /\ buffer' = buffer
      BY DEF RollsBack
<1>2. Owns(p, applies[p]) /\ ~Running(p)
      BY <1>1 DEF Settled, Active, Standing, Running
<1>3. ASSUME NEW q \in Pages, q # p,
             \A r \in Pages \ {q} : applies'[r] = applies[r]
      PROVE  FALSE
      BY <1>1, <1>3
<1>4. ASSUME UNCHANGED applies PROVE FALSE
      BY <1>1, <1>4
<1>5. ASSUME NEW q \in Pages, Commit(q) PROVE FALSE
      <2>1. /\ \A r \in Pages \ {q} : applies'[r] = applies[r]
            /\ applies'[q].st = "applying"
            BY <1>5, CommitFacts
      <2>2. QED BY <1>1, <1>3, <2>1
<1>6. ASSUME NEW q \in Pages, KeepFixing(q) PROVE FALSE
      <2>1. \A r \in Pages \ {q} : applies'[r] = applies[r]
            BY <1>6, DiskTypes, KeepFixingFacts, ConcludeTypes
      <2>2. CASE q = p
            BY <1>1, <1>6, <2>2, KeepFixingStands DEF Active
      <2>3. QED BY <1>3, <2>1, <2>2
<1>7. ASSUME NEW q \in Pages, RollbackDecision(q)
      PROVE  source' = applies[p].before
      <2>1. /\ \A r \in Pages \ {q} : applies'[r] = applies[r]
            /\ source' = Recovered({q})
            BY <1>0, <1>7 DEF RollbackDecision
      <2>2. QED BY <1>2, <1>3, <2>1, RecoveredFacts DEF Owns
<1>8. ASSUME NEW q \in Pages, Discard(q) PROVE FALSE
      <2>1. \A r \in Pages \ {q} : applies'[r] = applies[r]
            BY <1>0, <1>8, DiscardFacts, ConcludeTypes DEF Discard
      <2>2. CASE q = p
            <3>1. /\ Staged(p) # {}
                  /\ buffer' = Part(buffer, {e \in Entries : PageOf[e] # p})
                  BY <1>2, <1>8, <2>2 DEF Discard
            <3>2. QED BY <1>1, <3>1 DEF Part, Staged, StagedIn
      <2>3. QED BY <1>3, <2>1, <2>2
<1>9. ASSUME NEW q \in Pages, Running(q), NEW b \in ApplyStates,
             Concludes(q, b, Disk)
      PROVE  FALSE
      BY <1>2, <1>3, <1>9, DiskTypes, ConcludeTypes
<1>10. ASSUME NEW q \in Pages, Timeout(q) PROVE FALSE
      BY <1>9, <1>10, FailFacts DEF Timeout
<1>11. ASSUME AgentReplies PROVE FALSE
      <2>1. agent \in Events
            BY <1>11 DEF AgentReplies, RestTypes
      <2>2. ASSUME NEW q \in Awaited(agent.no), NEW X \in Reports,
                   NEW told \in BOOLEAN, EventAnswered(q, X, told)
            PROVE  FALSE
            <3>1. q \in Pages /\ Running(q) /\ q # p
                  BY <1>2 DEF Awaited
            <3>2. PICK b \in ApplyStates :
                    Concludes(q, b, Disk) \/ Dispatch(q, b, source)
                  BY <2>1, <2>2, ReplyFacts
            <3>3. CASE Dispatch(q, b, source)
                  BY <1>3, <3>1, <3>3, DispatchFacts DEF ApplyTypes
            <3>4. QED BY <1>9, <3>1, <3>2, <3>3
      <2>3. ASSUME NEW q \in Awaited(agent.no), EventFails(q, applies[q], Disk)
            PROVE  FALSE
            BY <1>9, <2>3, FailFacts DEF Awaited
      <2>4. \/ \E q \in Awaited(agent.no) :
                 \/ \E X \in Reports, told \in BOOLEAN : EventAnswered(q, X, told)
                 \/ EventFails(q, applies[q], Disk)
            \/ UNCHANGED applies
            BY <1>11 DEF AgentReplies, diskVars
      <2>5. QED BY <1>4, <2>2, <2>3, <2>4
<1>12. CASE Crash
      BY <1>1, <1>12 DEF Crash
<1>13. CASE \/ Interrupt \/ Start \/ UNCHANGED vars
            \/ \E q \in Pages : AgentTakes(q) \/ Reload(q) \/ Expire(q)
            \/ \E e \in Entries : AgentWrites(e) \/ Stash(e)
      BY <1>4, <1>13 DEF Interrupt, Start, vars, AgentTakes, Reload, Expire,
         AgentWrites, Stash
<1>14. QED
      BY <1>5, <1>6, <1>7, <1>8, <1>10, <1>11, <1>12, <1>13 DEF Next

\* Once no Apply is under way the source is what was last reported applied,
\* and Rollback gives back the source from before the Apply, as long as no
\* agent wrote late, no reply to a given-up event put a file back, and no two
\* Applies or a Discard met under way.
THEOREM SourceIsWhole == Spec => SourceStaysWhole
<1> DEFINE SInv == /\ ApplyTypes /\ RestTypes /\ Guards
                   /\ Numbered /\ EventsFit /\ Asked /\ Settled
<1>1. Init => SInv
      <2> SUFFICES ASSUME Init PROVE SInv
          OBVIOUS
      <2>1. ApplyTypes /\ RestTypes
            BY InitTypes, TypeParts
      <2>2. /\ \A p \in Pages : ~Running(p) /\ ~Active(p) /\ ~dock[p].ask
            /\ agent = None /\ up /\ source = committed /\ tx = None
            BY RecordTypes DEF Init, Running, Active, Ready, Dock
      <2>3. /\ Guards /\ Numbered /\ EventsFit /\ Asked
            BY <2>2 DEF Guards, Guarded, Numbered, EventsFit, EventFits, Asked
      <2>4. Settled
            BY <2>2 DEF Settled, Resting
      <2>5. QED BY <2>1, <2>3, <2>4
<1>2. SInv /\ [Next]_vars => SInv' /\ RollbackRestores
      BY NextApplyTypes, NextRestTypes, NextGuards, NextNumbers, NextAsked,
         NextSettled, NextRestores, TypeParts
<1>3. SInv => SourceIsSettled
      BY DEF Settled, Resting, Active, Quiet, SourceIsSettled
<1> HIDE DEF SInv
<1>4. QED BY <1>1, <1>2, <1>3, PTL DEF Spec, SourceStaysWhole
=============================================================================

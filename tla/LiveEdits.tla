------------------------------ MODULE LiveEdits ------------------------------
(***************************************************************************)
(* Staged copy edits of the live mode.  Saving an edit in the browser puts *)
(* it in a buffer on disk; Apply sends the edits of one page to the agent, *)
(* in chunks, and verifies what the agent reports before it empties the    *)
(* buffer.  Whatever fails is rolled back to a snapshot or repaired; when  *)
(* the repairs run out the user is asked.                                  *)
(*                                                                         *)
(* An entry is one element and its buffered version, 0 when nothing is     *)
(* staged.  All elements live in one source file, so that a snapshot is    *)
(* the text of every element: the rollbacks of the code restore files.     *)
(* The chat agent is the provider.                                         *)
(***************************************************************************)
EXTENDS Naturals, FiniteSets

CONSTANTS
  Entries,      \* elements whose copy can be edited
  Pages,        \* page URLs
  PageOf,       \* the page of each element
  None,
  ChunkSize,    \* manualEditApplyChunkSize: edits per event
  MaxRepairs,   \* repairAttemptLimit
  MaxVersion,   \* bound on saves of one element
  MaxApplies,   \* bound on Apply and Keep fixing together
  MaxFaults     \* bound on crashes, interruptions and reloads together

ASSUME PageAssumption == PageOf \in [Entries -> Pages]
ASSUME SizeAssumption == ChunkSize \in Nat \ {0} /\ MaxRepairs \in Nat \ {0}
ASSUME BoundAssumption == {MaxVersion, MaxApplies, MaxFaults} \subseteq Nat

VARIABLES
  buffer,     \* pending-manual-edits.json
  source,     \* the source file
  tx,         \* manual-edit-apply-transaction.json
  applies,    \* the Apply of each page: a call of commitManualEdits
  tombs,      \* timedOutApplyIds: the snapshot of each event given up
  up,         \* the helper runs
  agent,      \* the event in the agent's hands
  dock,       \* each page's Apply button and its session storage
  ids,        \* ids given out to transactions and events
  spent,      \* applies, faults and discards so far
  committed,  \* history: the version of each element last reported applied
  excused     \* history: what no rollback of the code makes good, see below

diskVars == <<buffer, source, tx>>
pastVars == <<committed, excused>>
vars == <<diskVars, applies, tombs, up, agent, dock, ids, spent, pastVars>>
-----------------------------------------------------------------------------
Texts == [Entries -> 0..MaxVersion]
StagedIn(buf, p) == {e \in Entries : PageOf[e] = p /\ buf[e] # 0}
Staged(p) == StagedIn(buffer, p)
In(texts) == {e \in Entries : texts[e] # 0}

\* What the transaction file says: which edits are being applied, and the
\* file as it was.
Transactions ==
  [no : Nat, page : Pages, entries : SUBSET Entries, file : Texts]
ASSUME NoneAssumption == None \notin Transactions

Events == [no : Nat, want : Texts, snap : Texts]
NoEvent == [no |-> 0, want |-> [e \in Entries |-> 0],
            snap |-> [e \in Entries |-> 0]]
\* ours: the entries of the batch that are still in the buffer.
NoApply == [st |-> "none", want |-> [e \in Entries |-> 0], ours |-> {},
            left |-> {}, applied |-> {}, told |-> FALSE, snap |-> [e \in Entries |-> 0],
            before |-> [e \in Entries |-> 0], tx |-> 0, event |-> NoEvent,
            attempt |-> 0]

\* Ready, waiting for an Apply, or asking; what the session storage says.
Dock(busy, ask, stored) == [busy |-> busy, ask |-> ask, stored |-> stored]
Ready == Dock(FALSE, FALSE, FALSE)

Running(p) == applies[p].st \in {"applying", "repairing"}

Init ==
  /\ buffer = [e \in Entries |-> 0] /\ source = [e \in Entries |-> 0]
  /\ tx = None
  /\ applies = [p \in Pages |-> NoApply]
  /\ tombs = {}
  /\ up = TRUE /\ agent = None
  /\ dock = [p \in Pages |-> Ready]
  /\ ids = 0
  /\ spent = [applies |-> 0, faults |-> 0, discards |-> 0]
  /\ committed = [e \in Entries |-> 0]
  /\ excused = {}
-----------------------------------------------------------------------------
(* The Apply button.                                                       *)

\* updatePendingCounter: no edits hide the dock; a stored state resumes the
\* wait, and hides the buttons of a decision.
Counted(d, S) == IF S = {} THEN Ready
                 ELSE IF d.busy \/ d.stored THEN Dock(TRUE, FALSE, TRUE) ELSE d
Asking == Dock(FALSE, TRUE, TRUE)
Waiting == Dock(TRUE, FALSE, TRUE)

\* stageEntry: saving an element again replaces the text of its entry.
Restaged(e) ==
  LET v == IF buffer[e] # 0 THEN buffer[e] ELSE committed[e]
  IN [buffer EXCEPT ![e] = v + 1]

Stash(e) ==
  /\ up /\ ~dock[PageOf[e]].busy
  /\ buffer[e] < MaxVersion /\ committed[e] < MaxVersion
  /\ buffer' = Restaged(e)
  /\ LET p == PageOf[e]
     IN dock' = [dock EXCEPT ![p] = Counted(@, Staged(p) \cup {e})]
  /\ UNCHANGED <<source, tx, applies, tombs, up, agent, ids, spent, pastVars>>

\* A tab resumes what its session storage says, while edits are staged.
Resumed(d, S) == IF S = {} THEN Ready ELSE IF d.stored THEN Waiting ELSE Ready

\* The page is loaded again; broadcasts sent meanwhile are lost to it.
Reload(p) ==
  /\ up /\ dock[p] # Ready /\ spent.faults < MaxFaults
  /\ dock' = [dock EXCEPT ![p] = Resumed(@, Staged(p))]
  /\ spent' = [spent EXCEPT !.faults = @ + 1]
  /\ UNCHANGED <<diskVars, applies, tombs, up, agent, ids, pastVars>>

\* Fifteen minutes after it was last written the stored state is void.
Expire(p) ==
  /\ dock[p].stored /\ ~Running(p)
  /\ dock' = [dock EXCEPT ![p].stored = FALSE]
  /\ UNCHANGED <<diskVars, applies, tombs, up, agent, ids, spent, pastVars>>
-----------------------------------------------------------------------------
(* An Apply, from its first event to its end.  d is the disk as the        *)
(* handler has left it so far: the file, the buffer and the transaction.   *)

Disk == [source |-> source, buffer |-> buffer, tx |-> tx]

Clear(t, no) == IF t # None /\ t.no = no THEN None ELSE t

\* splitManualApplyBatch: the next edits, at most a chunk of them.
Chunks(S) == {C \in SUBSET S :
                Cardinality(C) = IF Cardinality(S) <= ChunkSize
                                 THEN Cardinality(S) ELSE ChunkSize}

\* A batch of edits, and what is left of the buffer without some.
Part(texts, S) == [e \in Entries |-> IF e \in S THEN texts[e] ELSE 0]

\* pushApplyEventAndWait: an event carries edits and a snapshot of the file.
Event(no, want, src) == [no |-> no, want |-> want, snap |-> src]

\* buildManualEditEvidence: the staged edits of the page.
Batch(p) == Part(buffer, Staged(p))

Dispatch(p, a, src) ==
  \E C \in Chunks(a.left) :
    /\ applies' = [applies EXCEPT ![p] =
         [a EXCEPT !.left = @ \ C,
                   !.event = Event(ids + 1, Part(a.want, C), src)]]
    /\ ids' = ids + 1

\* What the page of an Apply shows after a step of it.
Shown(p) ==
  dock' = [dock EXCEPT ![p] =
    CASE applies'[p].st = "none"   -> Ready
      [] applies'[p].st = "asking" -> Asking
      [] OTHER                     -> Waiting]

\* The Apply ends: its transaction goes, whatever was applied.
End(p, a, d) ==
  /\ applies' = [applies EXCEPT ![p] = NoApply]
  /\ tx' = Clear(d.tx, a.tx)
  /\ buffer' = d.buffer
  /\ UNCHANGED ids

\* rollbackChangedFiles
RollBack(p, a, d) ==
  /\ source' = a.snap
  /\ End(p, a, d)
  /\ UNCHANGED committed

\* verificationTargetPasses: the new text is where the old one was.
Landed(texts, want, e) == texts[e] = want[e]

\* verifyAppliedEntry
Verified(a, src) == {e \in a.applied : Landed(src, a.want, e)}

\* findUnappliedEntrySourceChanges
Leaks(a, src) == {e \in In(a.want) \ a.applied :
                    Landed(src, a.want, e) /\ ~Landed(a.snap, a.want, e)}

\* changedFilesSinceSnapshot
Changed(a, src) == src # a.snap

\* runCopyEditPostApplyChecks: syntax, left markers, the project's script.
Checks == BOOLEAN

\* clearAppliedEntries takes entries out of the buffer by their ids: one that
\* was discarded and staged anew has another.
ClearApplied(p, a, S, d) ==
  /\ source' = d.source
  /\ committed' = [e \in Entries |-> IF e \in S THEN a.want[e]
                                     ELSE committed[e]]
  /\ End(p, a, [d EXCEPT !.buffer = Part(@, Entries \ (S \cap a.ours))])

\* repairPostApplyValidation: another event, or the question to the user.
\* Mutant: the attempts are not limited.
RepairForEver(p, a, d) ==
  /\ source' = d.source /\ buffer' = d.buffer /\ tx' = d.tx
  /\ ids' = ids + 1
  /\ applies' = [applies EXCEPT ![p] =
       [a EXCEPT !.st = "repairing", !.attempt = @ + 1,
                 !.event = Event(ids + 1, a.want, d.source)]]
  /\ UNCHANGED committed
Repair(p, a, d) ==
  /\ source' = d.source /\ buffer' = d.buffer /\ tx' = d.tx
  /\ IF a.attempt < MaxRepairs
     THEN /\ ids' = ids + 1
          /\ applies' = [applies EXCEPT ![p] =
               [a EXCEPT !.st = "repairing", !.attempt = @ + 1,
                         !.event = Event(ids + 1, a.want, d.source)]]
     ELSE /\ applies' = [applies EXCEPT ![p] =
               [a EXCEPT !.st = "asking", !.event = NoEvent]]
          /\ UNCHANGED ids
  /\ UNCHANGED committed

\* The rest of commitManualEdits, once all chunks are answered or one failed.
\* checks is what the checks of the touched files say.
\* Mutant: what was reported is not looked up in the source.
SettleUnverified(p, a, d, checks) ==
  ClearApplied(p, a, a.applied, d)
\* Mutant: edits of entries that were not reported stay in the file.
SettleLeaking(p, a, d, checks) ==
  IF a.applied # {} /\ (~a.told \/ Verified(a, d.source) # a.applied)
  THEN Repair(p, a, d)
  ELSE ClearApplied(p, a, a.applied, d)
Settle(p, a, d, checks) ==
  LET ok == Verified(a, d.source)
  IN IF \/ ~a.told /\ Changed(a, d.source)
        \/ a.told /\ Leaks(a, d.source) # {}
     THEN RollBack(p, a, d)
     ELSE IF a.applied # {} /\ (~a.told \/ ok # a.applied)
     THEN Repair(p, a, d)
     ELSE IF ~checks
     THEN Repair(p, [a EXCEPT !.applied = IF ok = {} THEN In(a.want) ELSE ok],
                 d)
     ELSE ClearApplied(p, a, ok, d)

\* An event fails: the Apply is rolled back if nothing else was applied, the
\* chunks left are not sent, and a repair counts as an attempt.
EventFails(p, a, d) ==
  IF a.st = "repairing"
  THEN Repair(p, a, d)
  ELSE IF a.applied = {}
  THEN RollBack(p, a, d)
  ELSE \E checks \in Checks : Settle(p, [a EXCEPT !.left = {}], d, checks)

\* The answer to an event: edits reported applied, and whether the file was.
EventAnswered(p, applied, told) ==
  LET a == [applies[p] EXCEPT !.applied = @ \cup applied,
                              !.told = @ \/ told]
  IN IF a.st = "repairing"
     THEN \E checks \in Checks :
            IF Verified(a, source) = a.applied /\ checks
            THEN ClearApplied(p, a, a.applied, Disk)
            ELSE Repair(p, a, Disk)
     ELSE IF a.left # {}
     THEN Dispatch(p, a, source) /\ UNCHANGED <<diskVars, committed>>
     ELSE IF a.applied = {} /\ In(a.event.want) # In(a.want)
     THEN RollBack(p, a, Disk)
     ELSE \E checks \in Checks : Settle(p, a, Disk, checks)
-----------------------------------------------------------------------------
(* The transaction file and the requests of the browser.                   *)

\* tombstoneTimedOutApplyId
Tomb(p) == [no |-> applies[p].event.no, snap |-> applies[p].event.snap]

\* rollbackManualApplyTransaction: an abandoned transaction of these pages
\* gives its file back while some edit of it is staged, and goes.
Held(pages) == tx # None /\ tx.page \in pages
Recovered(pages) ==
  IF Held(pages) /\ \E e \in tx.entries : buffer[e] # 0 THEN tx.file ELSE source
TxLeft(pages) == IF Held(pages) THEN None ELSE tx

\* POST /manual-edit-commit
Commit(p) ==
  /\ up /\ applies[p].st # "applying" /\ applies[p].st # "repairing"
  /\ Staged(p) # {} /\ ~dock[p].busy /\ ~dock[p].ask
  /\ spent.applies < MaxApplies
  /\ spent' = [spent EXCEPT !.applies = @ + 1]
  /\ LET src == Recovered({p})
     IN /\ source' = src
        /\ tx' = [no |-> ids + 1, page |-> p, entries |-> Staged(p),
                  file |-> src]
        /\ \E C \in Chunks(Staged(p)) :
             applies' = [applies EXCEPT ![p] =
               [NoApply EXCEPT !.st = "applying",
                  !.want = Batch(p), !.ours = Staged(p),
                  !.left = Staged(p) \ C,
                  !.snap = src, !.before = src, !.tx = ids + 1,
                  !.event = Event(ids + 2, Part(buffer, C), src)]]
  /\ ids' = ids + 2
  /\ dock' = [dock EXCEPT ![p] = Waiting]
  /\ excused' = IF \E q \in Pages \ {p} : applies[q].st # "none"
                THEN excused \cup {"overlap"} ELSE excused
  /\ UNCHANGED <<buffer, tombs, up, agent, committed>>

\* The same with repair=1: everything staged is taken for applied.  It works
\* with the transaction that is there, whichever page wrote it.
KeepFixing(p) ==
  /\ up /\ dock[p].ask /\ Staged(p) # {} /\ tx # None
  /\ spent.applies < MaxApplies
  /\ spent' = [spent EXCEPT !.applies = @ + 1]
  /\ LET a == [NoApply EXCEPT !.want = Batch(p), !.ours = Staged(p),
                              !.applied = Staged(p), !.told = TRUE,
                              !.snap = source, !.tx = tx.no,
                              !.before = applies[p].before]
     IN \E checks \in Checks : Settle(p, a, Disk, checks)
  /\ Shown(p)
  /\ UNCHANGED <<tombs, up, agent, excused>>

\* POST /manual-edit-repair-decision, action rollback: the edits stay staged.
RollbackDecision(p) ==
  /\ up /\ dock[p].ask
  /\ source' = Recovered({p}) /\ tx' = TxLeft({p})
  /\ applies' = [applies EXCEPT ![p] = NoApply]
  /\ dock' = [dock EXCEPT ![p] = Ready]
  /\ UNCHANGED <<buffer, tombs, up, agent, ids, spent, pastVars>>

\* POST /manual-edit-discard.  A page that was loaded after the Apply began
\* does not know of it and may send this while it runs: the event is
\* canceled, and the Apply goes on as after a failed event.
Discard(p) ==
  /\ up /\ Staged(p) # {} /\ spent.discards = 0
  /\ spent' = [spent EXCEPT !.discards = 1]
  /\ LET buf == Part(buffer, {e \in Entries : PageOf[e] # p})
     IN IF Running(p)
        THEN /\ tombs' = tombs \cup {Tomb(p)}
             /\ EventFails(p, [applies[p] EXCEPT !.ours = {}],
                           [source |-> applies[p].event.snap, buffer |-> buf,
                            tx |-> TxLeft({p})])
        ELSE /\ source' = Recovered({p}) /\ tx' = TxLeft({p})
             /\ buffer' = buf
             /\ applies' = [applies EXCEPT ![p] = NoApply]
             /\ UNCHANGED <<tombs, ids, committed>>
  /\ dock' = [dock EXCEPT ![p] = Ready]
  /\ excused' = IF Running(p) THEN excused \cup {"canceled"} ELSE excused
  /\ UNCHANGED <<up, agent>>
-----------------------------------------------------------------------------
(* The agent, the timers and the process.                                  *)

Awaited(no) == {p \in Pages : Running(p) /\ applies[p].event.no = no}

\* The poll delivers an event; an interrupted one comes again.
AgentTakes(p) ==
  /\ up /\ agent = None /\ Running(p)
  /\ agent' = applies[p].event
  /\ UNCHANGED <<diskVars, applies, tombs, up, dock, ids, spent, pastVars>>

\* It edits the file, in any order and not necessarily all of it.
AgentWrites(e) ==
  /\ agent # None /\ agent.want[e] \notin {0, source[e]}
  /\ source' = [source EXCEPT ![e] = agent.want[e]]
  /\ excused' = IF Awaited(agent.no) = {} THEN excused \cup {"late"} ELSE excused
  /\ UNCHANGED <<buffer, tx, applies, tombs, up, agent, dock, ids, spent,
                 committed>>

\* What the agent may report: any entries of its event, whether it wrote them
\* or not.
Reports == SUBSET In(agent.want)

\* A reply to a repair that says nothing of an edit the file holds: after a
\* repair findUnappliedEntrySourceChanges is not run, and the edit may stay.
LeavesOut(p, applied) ==
  /\ applies[p].st = "repairing"
  /\ \E e \in In(agent.want) \ applied : source[e] = agent.want[e]

\* POST /poll.  An awaited event is resolved with what is reported; the reply
\* to one that was given up restores the file; another is not known.
AgentReplies ==
  /\ up /\ agent # None /\ agent' = None
  /\ \/ \E p \in Awaited(agent.no) :
          /\ \/ \E applied \in Reports, told \in BOOLEAN :
                  /\ EventAnswered(p, applied, told)
                  /\ excused' = IF LeavesOut(p, applied)
                                THEN excused \cup {"silent"} ELSE excused
             \/ /\ applies[p].st = "applying" /\ EventFails(p, applies[p], Disk)
                /\ UNCHANGED excused
          /\ Shown(p)
          /\ UNCHANGED tombs
     \/ \E t \in tombs :
          /\ t.no = agent.no
          /\ source' = t.snap /\ tombs' = tombs \ {t}
          /\ excused' = IF source' # source THEN excused \cup {"stale"}
                        ELSE excused
          /\ UNCHANGED <<buffer, tx, applies, dock, ids, committed>>
     \/ /\ Awaited(agent.no) = {} /\ \A t \in tombs : t.no # agent.no
        /\ UNCHANGED <<diskVars, applies, tombs, dock, ids, pastVars>>
  /\ UNCHANGED <<up, spent>>

\* chat_agent_timeout: 150 s after the event was dispatched.
\* Mutant: the event is given up, and the Apply not told.
TimeoutSilent(p) ==
  /\ up /\ Running(p) /\ applies[p].event.no \notin {t.no : t \in tombs}
  /\ tombs' = tombs \cup {Tomb(p)}
  /\ UNCHANGED <<diskVars, applies, up, agent, dock, ids, spent, pastVars>>
Timeout(p) ==
  /\ up /\ Running(p)
  /\ tombs' = tombs \cup {Tomb(p)}
  /\ EventFails(p, applies[p], Disk) /\ Shown(p)
  /\ UNCHANGED <<up, agent, spent, excused>>

Interrupt ==
  /\ agent # None /\ spent.faults < MaxFaults
  /\ agent' = None
  /\ spent' = [spent EXCEPT !.faults = @ + 1]
  /\ UNCHANGED <<diskVars, applies, tombs, up, dock, ids, pastVars>>

\* The helper dies with its memory; another token makes the stored states of
\* the tabs void.
Crash ==
  /\ up /\ spent.faults < MaxFaults
  /\ up' = FALSE
  /\ applies' = [p \in Pages |-> NoApply] /\ tombs' = {}
  /\ dock' = [p \in Pages |-> Ready]
  /\ spent' = [spent EXCEPT !.faults = @ + 1]
  /\ UNCHANGED <<diskVars, agent, ids, pastVars>>

Start ==
  /\ ~up /\ up' = TRUE
  /\ source' = Recovered(Pages) /\ tx' = TxLeft(Pages)
  /\ UNCHANGED <<buffer, applies, tombs, agent, dock, ids, spent, pastVars>>
-----------------------------------------------------------------------------
Next == \/ \E e \in Entries : Stash(e) \/ AgentWrites(e)
        \/ \E p \in Pages : \/ Reload(p) \/ Expire(p) \/ Commit(p)
                            \/ KeepFixing(p) \/ RollbackDecision(p)
                            \/ Discard(p) \/ AgentTakes(p) \/ Timeout(p)
        \/ AgentReplies \/ Interrupt \/ Crash \/ Start

Spec == Init /\ [][Next]_vars

\* The timer of an event that is out fires: the agent owes nothing.
Fairness == \A p \in Pages : WF_vars(Timeout(p))
FairSpec == Spec /\ Fairness
-----------------------------------------------------------------------------
(* Properties.  excused remembers what the code never makes good: an agent *)
(* that writes for an event nobody awaits ("late"), a file put back for a  *)
(* reply to a given-up event ("stale"), an Apply of one page that met the  *)
(* Apply of another ("overlap"), a Discard under a running Apply           *)
(* ("canceled"), a repair whose report leaves out an edit that is in the   *)
(* file ("silent").                                                        *)

ApplyStates ==
  [st : {"none", "applying", "repairing", "asking"}, want : Texts,
   ours : SUBSET Entries, left : SUBSET Entries, applied : SUBSET Entries,
   told : BOOLEAN, snap : Texts, before : Texts, tx : Nat, event : Events,
   attempt : 0..MaxRepairs]

\* Every variable has its shape and a repair loop ends after
\* repairAttemptLimit events (live-commit-manual-edits.mjs, postApplyRepair).
TypeOK ==
  /\ buffer \in Texts /\ source \in Texts /\ committed \in Texts
  /\ tx \in {None} \cup Transactions
  /\ applies \in [Pages -> ApplyStates]
  /\ tombs \subseteq [no : Nat, snap : Texts]
  /\ up \in BOOLEAN /\ agent \in {None} \cup Events
  /\ dock \in [Pages -> [busy : BOOLEAN, ask : BOOLEAN, stored : BOOLEAN]]
  /\ ids \in Nat
  /\ spent \in [applies : 0..MaxApplies, faults : 0..MaxFaults,
                discards : 0..1]
  /\ excused \subseteq {"late", "stale", "overlap", "canceled", "silent"}

Quiet == up /\ agent = None /\ \A p \in Pages : applies[p].st = "none"

\* Once no Apply is under way, the file holds the versions reported applied
\* and nothing of an Apply that failed, was rolled back, or died with the
\* helper: chunks, rollbacks, repairs and recovery leave no half of an edit.
SourceIsSettled == Quiet /\ excused = {} => source = committed

\* A staged edit leaves the buffer only by a Discard, or when the source has
\* its text: clearAppliedEntries never drops an edit that was not written.
NoEditIsSwallowed ==
  \A e \in Entries :
    buffer[e] # 0 /\ buffer'[e] = 0 /\ spent'.discards = spent.discards
      => source'[e] = buffer[e]

\* While an Apply of a page runs, its tab keeps Save and Apply shut, over
\* reloads and decisions: nothing is staged under the clearing of the buffer.
ApplyKeepsTheLock ==
  \A p \in Pages : Running(p) /\ "canceled" \notin excused => dock[p].busy

\* The user answered the repair question with Rollback.
RollsBack(p) == /\ applies[p].st = "asking" /\ applies'[p].st = "none"
                /\ up' /\ buffer' = buffer

\* Rollback gives back the file as it was before the Apply in question.
RollbackRestores ==
  \A p \in Pages : RollsBack(p) /\ excused = {} => source' = applies[p].before

\* Both: the file is never left with half of an edit, by an Apply that ends or
\* by one that is taken back.
SourceStaysWhole ==
  SourceIsSettled /\ [][SourceIsSettled' /\ RollbackRestores]_vars

\* Both: nothing the user staged is lost, neither under a running Apply nor by
\* the clearing after it.
StagedEditsAreKept ==
  ApplyKeepsTheLock /\ [][ApplyKeepsTheLock' /\ NoEditIsSwallowed]_vars

\* An Apply comes to an end whatever the agent does, by its timers alone.
ApplyEnds == \A p \in Pages : Running(p) ~> ~Running(p)
=============================================================================

---------------------- MODULE TunnelTransactionProofs ----------------------
(* Proofs about TunnelTransaction, for every set of sessions, helpers,     *)
(* users and servers and for both route policies, in three parts: the      *)
(* evidence for what is installed; the contract of a session; and what is  *)
(* built and undone: journals always validate, rollback goes in reverse,   *)
(* only own routes are removed, and DNS goes back to the user.             *)
EXTENDS TunnelTransaction, TLAPS

\* What the plan's layout gives: the steps are 1..NumSteps, the device is
\* step 2, and the routes of one session have different destinations.
LEMMA StepFacts ==
    /\ NumTunnelRoutes \in 1..4
    /\ NumSteps \in 3..7
    /\ Steps = 1..NumSteps
    /\ TunnelSteps = 3..(2 + NumTunnelRoutes)
    /\ RouteSteps \subseteq Steps
    /\ 2 \notin RouteSteps
    /\ \A i \in Steps : /\ Kind(i) = "device" => i = 2
                        /\ Kind(i) = "dns" => i \notin RouteSteps
                        /\ Kind(i) \in {"endpoint_route", "tunnel_route"} => i \in RouteSteps
<1>1. NumTunnelRoutes \in 1..4 /\ NumSteps \in 3..7 /\ 2 + NumTunnelRoutes <= NumSteps
  BY PlanAssumption DEF NumTunnelRoutes, NumSteps, UsesDNS
<1>2. TunnelSteps = 3..(2 + NumTunnelRoutes)
  BY <1>1 DEF TunnelSteps, Steps, Kind
<1>3. RouteSteps \subseteq Steps /\ 2 \notin RouteSteps
  BY <1>1, <1>2 DEF RouteSteps, Steps
<1>4. ASSUME NEW i \in Steps
      PROVE  /\ Kind(i) = "device" => i = 2
             /\ Kind(i) = "dns" => i \notin RouteSteps
             /\ Kind(i) \in {"endpoint_route", "tunnel_route"} => i \in RouteSteps
  BY <1>1, <1>2 DEF RouteSteps, Kind, Steps
<1> QED
  BY <1>1, <1>2, <1>3, <1>4 DEF Steps

\* Different route steps of a session have different destinations, all of
\* them in the table: what Add and Remove touch identifies the step.
LEMMA DestFacts ==
    /\ \A s \in Sessions, i \in RouteSteps : Dest(s, i) \in Dests
    /\ \A s \in Sessions, i \in RouteSteps, k \in RouteSteps :
          Dest(s, i) = Dest(s, k) => i = k
<1>1. TunnelSteps \subseteq 3..6
  BY StepFacts
<1> QED
  BY <1>1, PlanAssumption DEF Dest, Dests, RouteSteps

\* A store call that succeeds has written; one that fails has written or not.
LEMMA StoreFacts ==
    \A old, j, o :
        /\ o \in CreateOutcomes(old, j) =>
              \/ ~o.ok /\ o.journal = old
              \/ o.journal = j /\ ~Exists(old) /\ Validate(j)
        /\ o \in UpdateOutcomes(old, j) =>
              \/ ~o.ok /\ o.journal = old
              \/ o.journal = j /\ Exists(old) /\ Validate(j)
        /\ o \in DeleteOutcomes(old) => o.journal \in {old, AbsentJournal}
<1> TAKE old, j, o
<1>1. \A y : /\ ~Outcome(FALSE, y).ok
             /\ Outcome(FALSE, y).journal = y
             /\ Outcome(TRUE, y).journal = y
  BY DEF Outcome
<1>2. \A x, y : o \in Faults(x, y) => o = Outcome(FALSE, x) \/ o = Outcome(FALSE, y)
  BY DEF Faults
<1>3. o \in CreateOutcomes(old, j) =>
         \/ o = Outcome(FALSE, old)
         \/ (o = Outcome(TRUE, j) \/ o = Outcome(FALSE, j)) /\ ~Exists(old) /\ Validate(j)
  BY <1>2 DEF CreateOutcomes
<1>4. o \in UpdateOutcomes(old, j) =>
         \/ o = Outcome(FALSE, old)
         \/ (o = Outcome(TRUE, j) \/ o = Outcome(FALSE, j)) /\ Exists(old) /\ Validate(j)
  BY <1>2 DEF UpdateOutcomes
<1>5. o \in DeleteOutcomes(old) =>
         o = Outcome(FALSE, old) \/ o = Outcome(TRUE, AbsentJournal) \/ o = Outcome(FALSE, AbsentJournal)
  BY <1>2 DEF DeleteOutcomes
<1> QED
  BY <1>1, <1>3, <1>4, <1>5

\* A missing journal and a resting helper are well typed.
LEMMA JournalTypes ==
    /\ AbsentJournal \in Journals
    /\ Dead \in HelperStates
<1>1. AbsentJournal \in Journals
  BY DEF AbsentJournal, Journals, DNSValues
<1>2. 0 \in 0..NumSteps
  BY StepFacts
<1> QED
  BY <1>1, <1>2 DEF Dead, HelperStates, ControlPoints

\* Before any helper runs there is no route, no journal and no lock, so the
\* strengthened invariant holds.
THEOREM EvidenceInit == Init => EvidenceInv
<1> SUFFICES ASSUME Init PROVE EvidenceInv
  OBVIOUS
<1>1. TypeOK
  BY JournalTypes DEF Init, TypeOK, DNSValues
<1>2. LockHeld /\ MemoryHasEvidence /\ LoopPosition /\ IntentOnDisk
  BY DEF Init, LockHeld, MemoryHasEvidence, LoopPosition, Positioned, IntentOnDisk,
         Dead, At, Critical, Holding
<1>3. InstalledIsThere /\ DiskIsHonest
  BY DEF Init, InstalledIsThere, DiskIsHonest, Honest, AbsentJournal, Live, Exists
<1>4. RoutesHaveEvidence
  BY DestFacts, SessionAssumption DEF Init, RoutesHaveEvidence, Covers
<1> QED
  BY <1>1, <1>2, <1>3, <1>4 DEF EvidenceInv

\* The machine's part of TypeOK.
MachineTypes ==
    /\ dev \in [Helpers -> Sessions \cup {NoSession}]
    /\ table \in [Dests -> {"none", "other", "physical", "lo0"} \cup Helpers]
    /\ installer \in [Dests -> Sessions \cup {NoSession}]
    /\ dns \in DNSValues
    /\ userDns \in DNSValues

\* What it takes for a step of one helper inside its transaction to preserve
\* the invariant: the other helpers work on other sessions, because the lock
\* is per owner, so only h's own locals and its session's journal matter.
LEMMA HelperStep ==
    ASSUME EvidenceInv,
           NEW h \in Helpers,
           helper[h].pc \in Critical,
           helper'[h].pc \in Critical,
           helper'[h] \in HelperStates,
           helper'[h].sess = helper[h].sess,
           helper' = [helper EXCEPT ![h] = helper'[h]],
           disk'[helper[h].sess] \in Journals,
           disk' = [disk EXCEPT ![helper[h].sess] = disk'[helper[h].sess]],
           UNCHANGED <<lock, started, calm>>,
           MachineTypes',
           InstalledIsThere',
           \A d \in Dests : installer'[d] \in {installer[d], NoSession, helper[h].sess},
           Honest(disk'[helper[h].sess]),
           Covers(disk[helper[h].sess], helper[h].sess)',
           helper'[h].pc \in Holding => Covers(helper[h].journal, helper[h].sess)',
           Positioned(helper'[h]),
           helper'[h].pc = "apply" => Live(disk'[helper[h].sess], helper'[h].index)
    PROVE  EvidenceInv'
<1> DEFINE s == helper[h].sess
<1>1. s \in Sessions /\ lock[OwnerOf[s]] = h
  BY DEF EvidenceInv, LockHeld
<1>2. TypeOK'
  BY <1>1 DEF EvidenceInv, TypeOK, MachineTypes
<1>3. \A g \in Helpers : g # h => helper'[g] = helper[g]
  BY DEF EvidenceInv, TypeOK
<1>4. \A t \in Sessions : t # s => disk'[t] = disk[t]
  BY DEF EvidenceInv, TypeOK
<1>5. LockHeld'
  BY <1>1, <1>3 DEF EvidenceInv, LockHeld
<1>6. \A g \in Helpers : g # h /\ helper[g].pc \in Critical => helper[g].sess \in Sessions \ {s}
  BY <1>1 DEF EvidenceInv, LockHeld
<1>7. DiskIsHonest'
  BY <1>4 DEF EvidenceInv, DiskIsHonest
<1>8. \A t \in Sessions \ {s}, i \in RouteSteps :
         installer'[Dest(t, i)] = t => installer[Dest(t, i)] = t
  BY DestFacts, SessionAssumption
<1>9. RoutesHaveEvidence'
  BY <1>1, <1>4, <1>8 DEF EvidenceInv, RoutesHaveEvidence, Covers, Dest
<1>10. MemoryHasEvidence'
  BY <1>1, <1>3, <1>6, <1>8 DEF EvidenceInv, MemoryHasEvidence, Covers, Dest, Critical, Holding, ControlPoints
<1>11. LoopPosition'
  BY <1>3 DEF EvidenceInv, LoopPosition
<1>12. IntentOnDisk'
  BY <1>1, <1>3, <1>4, <1>6 DEF EvidenceInv, IntentOnDisk, At, Evidence, Critical, ControlPoints
<1> QED
  BY <1>2, <1>5, <1>7, <1>9, <1>10, <1>11, <1>12 DEF EvidenceInv

\* HelperStep for the steps that leave the machine alone.
LEMMA QuietStep ==
    ASSUME EvidenceInv,
           NEW h \in Helpers,
           helper[h].pc \in Critical,
           helper'[h].pc \in Critical,
           helper'[h] \in HelperStates,
           helper'[h].sess = helper[h].sess,
           helper' = [helper EXCEPT ![h] = helper'[h]],
           disk'[helper[h].sess] \in Journals,
           disk' = [disk EXCEPT ![helper[h].sess] = disk'[helper[h].sess]],
           UNCHANGED <<lock, machine, started, calm>>,
           Honest(disk'[helper[h].sess]),
           Covers(disk'[helper[h].sess], helper[h].sess),
           helper'[h].pc \in Holding => Covers(helper'[h].journal, helper[h].sess),
           Positioned(helper'[h]),
           helper'[h].pc = "apply" => Live(disk'[helper[h].sess], helper'[h].index)
    PROVE  EvidenceInv'
<1>1. MachineTypes' /\ InstalledIsThere'
  BY DEF EvidenceInv, TypeOK, MachineTypes, InstalledIsThere, machine
<1>2. installer' = installer
  BY DEF machine
<1>3. Covers(disk[helper[h].sess], helper[h].sess)'
  BY <1>2 DEF Covers, Dest
<1>4. helper'[h].pc \in Holding => Covers(helper[h].journal, helper[h].sess)'
  BY <1>2 DEF Covers, Dest
<1>5. \A d \in Dests : installer'[d] \in {installer[d], NoSession, helper[h].sess}
  BY <1>2
<1> QED
  BY <1>1, <1>3, <1>4, <1>5, HelperStep DEF machine

\* A step that changes only h's locals.
LEMMA LocalStep ==
    ASSUME EvidenceInv,
           NEW h \in Helpers,
           NEW hs \in HelperStates,
           helper[h].pc \in Critical,
           hs.pc \in Critical,
           hs.sess = helper[h].sess,
           Local(h, hs),
           UNCHANGED <<disk, lock, machine, started, calm>>,
           hs.pc \in Holding => Covers(hs.journal, helper[h].sess),
           Positioned(hs),
           hs.pc # "apply"
    PROVE  EvidenceInv'
<1>1. helper[h].sess \in Sessions
  BY DEF EvidenceInv, LockHeld
<1>2. helper'[h] = hs /\ helper' = [helper EXCEPT ![h] = helper'[h]]
  BY DEF EvidenceInv, TypeOK, Local
<1>3. disk'[helper[h].sess] \in Journals /\ disk' = [disk EXCEPT ![helper[h].sess] = disk'[helper[h].sess]]
  BY <1>1 DEF EvidenceInv, TypeOK
<1>4. Honest(disk'[helper[h].sess]) /\ Covers(disk'[helper[h].sess], helper[h].sess)
  BY <1>1 DEF EvidenceInv, DiskIsHonest, RoutesHaveEvidence
<1> QED
  BY <1>2, <1>3, <1>4, QuietStep

\* A step of h that writes outcome o of a store call and moves on with hs.
LEMMA StoreStep ==
    ASSUME EvidenceInv,
           NEW h \in Helpers,
           NEW hs \in HelperStates,
           NEW o,
           helper[h].pc \in Critical,
           hs.pc \in Critical,
           hs.sess = helper[h].sess,
           Local(h, hs),
           Store(h, o),
           o.journal \in Journals,
           Honest(o.journal),
           Covers(o.journal, helper[h].sess),
           UNCHANGED <<lock, machine, started, calm>>,
           hs.pc \in Holding => Covers(hs.journal, helper[h].sess),
           Positioned(hs),
           hs.pc = "apply" => Live(o.journal, hs.index)
    PROVE  EvidenceInv'
<1>1. helper[h].sess \in Sessions
  BY DEF EvidenceInv, LockHeld
<1>2. helper'[h] = hs /\ helper' = [helper EXCEPT ![h] = helper'[h]]
  BY DEF EvidenceInv, TypeOK, Local
<1>3. disk'[helper[h].sess] = o.journal /\ disk' = [disk EXCEPT ![helper[h].sess] = disk'[helper[h].sess]]
  BY <1>1 DEF EvidenceInv, TypeOK, Store
<1> QED
  BY <1>2, <1>3, QuietStep

\* A step of h that changes the machine and h's locals, not the journal file.
LEMMA MachineStep ==
    ASSUME EvidenceInv,
           NEW h \in Helpers,
           NEW hs \in HelperStates,
           helper[h].pc \in Critical,
           hs.pc \in Critical,
           hs.sess = helper[h].sess,
           Local(h, hs),
           UNCHANGED <<disk, lock, started, calm>>,
           MachineTypes',
           InstalledIsThere',
           \A d \in Dests : installer'[d] \in {installer[d], NoSession, helper[h].sess},
           \A i \in RouteSteps : installer'[Dest(helper[h].sess, i)] = helper[h].sess =>
                                     /\ Live(disk[helper[h].sess], i)
                                     /\ hs.pc \in Holding => Live(hs.journal, i),
           Positioned(hs),
           hs.pc # "apply"
    PROVE  EvidenceInv'
<1>1. helper[h].sess \in Sessions
  BY DEF EvidenceInv, LockHeld
<1>2. helper'[h] = hs /\ helper' = [helper EXCEPT ![h] = helper'[h]]
  BY DEF EvidenceInv, TypeOK, Local
<1>3. disk'[helper[h].sess] \in Journals /\ disk' = [disk EXCEPT ![helper[h].sess] = disk'[helper[h].sess]]
  BY <1>1 DEF EvidenceInv, TypeOK
<1>4. Honest(disk'[helper[h].sess])
  BY <1>1 DEF EvidenceInv, DiskIsHonest
<1>5. Covers(disk[helper[h].sess], helper[h].sess)'
  BY <1>2 DEF Covers, Dest
<1>6. helper'[h].pc \in Holding => Covers(helper[h].journal, helper[h].sess)'
  BY <1>2 DEF Covers, Dest
<1> QED
  BY <1>2, <1>3, <1>4, <1>5, <1>6, HelperStep

\* What an Update of j leaves on disk is a journal that still covers the session.
LEMMA UpdateCovers ==
    ASSUME EvidenceInv,
           NEW s \in Sessions,
           NEW j \in Journals,
           Covers(j, s),
           NEW o \in UpdateOutcomes(disk[s], j)
    PROVE  /\ o.journal \in Journals /\ Honest(o.journal) /\ Covers(o.journal, s)
           /\ o.ok => o.journal = j /\ Validate(j)
<1>1. \/ ~o.ok /\ o.journal = disk[s]
      \/ o.journal = j /\ Validate(j)
  BY StoreFacts
<1>2. disk[s] \in Journals /\ Honest(disk[s]) /\ Covers(disk[s], s)
  BY DEF EvidenceInv, TypeOK, DiskIsHonest, RoutesHaveEvidence
<1>3. Validate(j) => Honest(j)
  BY DEF Validate, Honest, Exists, Phases
<1> QED
  BY <1>1, <1>2, <1>3

\* The write of Connect (recordIntent, markApplied, setPhase): when both the
\* locals it goes on with and the ones it rolls back with fit the journal j
\* that is written, the step preserves the invariant.
LEMMA PersistOrRollBackStep ==
    ASSUME EvidenceInv,
           NEW h \in Helpers,
           NEW j \in Journals,
           NEW ok \in HelperStates,
           helper[h].pc \in Critical,
           ok.pc \in Critical,
           ok.sess = helper[h].sess,
           PersistOrRollBack(h, j, ok),
           Covers(j, helper[h].sess),
           Positioned([ok EXCEPT !.journal = j]),
           ok.pc = "apply" => Live(j, ok.index)
    PROVE  EvidenceInv'
<1> DEFINE s == helper[h].sess
           good == [ok EXCEPT !.journal = j]
           bad == [helper[h] EXCEPT !.pc = "rollback", !.journal = j]
<1>1. s \in Sessions
  BY DEF EvidenceInv, LockHeld
<1>2. PICK o \in UpdateOutcomes(disk[s], j) : Store(h, o) /\ Local(h, IF o.ok THEN good ELSE bad)
  BY DEF PersistOrRollBack
<1>3. /\ o.journal \in Journals /\ Honest(o.journal) /\ Covers(o.journal, s)
      /\ o.ok => o.journal = j
  BY <1>1, <1>2, UpdateCovers
<1>4. /\ good \in HelperStates /\ good.pc = ok.pc /\ good.sess = s /\ good.journal = j /\ good.index = ok.index
  BY DEF HelperStates
<1>5. bad \in HelperStates /\ bad.pc = "rollback" /\ bad.sess = s /\ bad.journal = j
  BY DEF EvidenceInv, TypeOK, HelperStates, ControlPoints
<1>6. UNCHANGED <<lock, machine, started, calm>>
  BY DEF PersistOrRollBack
<1>7. CASE o.ok
  <2>1. Local(h, good) /\ (good.pc = "apply" => Live(o.journal, good.index))
    BY <1>2, <1>3, <1>4, <1>7
  <2>2. Positioned(good)
    OBVIOUS
  <2> HIDE DEF good
  <2> QED BY <2>1, <2>2, <1>2, <1>3, <1>4, <1>6, StoreStep
<1>8. CASE ~o.ok
  <2>1. Local(h, bad)
    BY <1>2, <1>8
  <2>2. bad.pc \in Critical /\ bad.pc # "apply" /\ Positioned(bad)
    BY <1>5 DEF Critical, ControlPoints, Positioned
  <2> HIDE DEF bad
  <2> QED BY <2>1, <2>2, <1>2, <1>3, <1>5, <1>6, StoreStep
<1> QED
  BY <1>7, <1>8

\* The write of rollback, whose failure is only remembered.
LEMMA PersistAndGoOnStep ==
    ASSUME EvidenceInv,
           NEW h \in Helpers,
           NEW j \in Journals,
           NEW hs \in HelperStates,
           helper[h].pc \in Critical,
           hs.pc \in {"undo", "release"},
           hs.sess = helper[h].sess,
           PersistAndGoOn(h, j, hs),
           Covers(j, helper[h].sess)
    PROVE  EvidenceInv'
<1> DEFINE s == helper[h].sess
           next(o) == [hs EXCEPT !.journal = j, !.failed = hs.failed \/ ~o.ok]
<1>1. s \in Sessions
  BY DEF EvidenceInv, LockHeld
<1>2. PICK o \in UpdateOutcomes(disk[s], j) : Store(h, o) /\ Local(h, next(o))
  BY DEF PersistAndGoOn
<1>3. o.journal \in Journals /\ Honest(o.journal) /\ Covers(o.journal, s)
  BY <1>1, <1>2, UpdateCovers
<1>4. next(o) \in HelperStates /\ next(o).pc = hs.pc /\ next(o).sess = s /\ next(o).journal = j
  BY DEF HelperStates
<1>5. next(o).pc \in Critical /\ next(o).pc # "apply" /\ Positioned(next(o))
  BY <1>4 DEF Critical, ControlPoints, Positioned
<1>6. UNCHANGED <<lock, machine, started, calm>>
  BY DEF PersistAndGoOn
<1> HIDE DEF next
<1> QED
  BY <1>2, <1>3, <1>4, <1>5, <1>6, StoreStep

-----------------------------------------------------------------------------
(* One lemma for each group of actions.                                    *)

\* The steps of Connect that read, or write the journal: check and snapshot,
\* Create, recordIntent, markApplied, Verify and the phase connected.
LEMMA ConnectPreserves ==
    ASSUME EvidenceInv, NEW h \in Helpers,
           CheckAndSnapshot(h) \/ CreateJournal(h) \/ RecordIntent(h)
             \/ MarkApplied(h) \/ Verify(h) \/ SetConnected(h)
    PROVE  EvidenceInv'
<1> DEFINE s == helper[h].sess
           j == helper[h].journal
           i == helper[h].index
<1>1. helper[h] \in HelperStates /\ j \in Journals /\ i \in 0..NumSteps
  BY DEF EvidenceInv, TypeOK, HelperStates
<1>2. Positioned(helper[h])
  BY DEF EvidenceInv, LoopPosition
<1>3. helper[h].pc \in Critical => s \in Sessions
  BY DEF EvidenceInv, LockHeld
<1>4. helper[h].pc \in Holding => Covers(j, s)
  BY DEF EvidenceInv, MemoryHasEvidence
<1>5. CASE CheckAndSnapshot(h)
  <2> DEFINE go == [helper[h] EXCEPT !.pc = "create", !.journal = NewJournal]
             stop == [helper[h] EXCEPT !.pc = "release", !.failed = TRUE]
  <2>1. NewJournal \in Journals
    BY JournalTypes DEF NewJournal, Journals, Phases, EvidenceInv, TypeOK, DNSValues
  <2>2. /\ go \in HelperStates /\ go.pc = "create" /\ go.sess = s
        /\ stop \in HelperStates /\ stop.pc = "release" /\ stop.sess = s
    BY <1>1, <2>1 DEF HelperStates, ControlPoints
  <2>3. Positioned(go) /\ Positioned(stop)
    BY <2>2 DEF Positioned
  <2>4. /\ helper[h].pc \in Critical /\ go.pc \in Critical /\ stop.pc \in Critical
        /\ go.pc \notin Holding /\ stop.pc \notin Holding
    BY <1>5, <2>2 DEF CheckAndSnapshot, At, Critical, ControlPoints, Holding
  <2>5. Local(h, go) \/ Local(h, stop)
    BY <1>5 DEF CheckAndSnapshot
  <2>6. UNCHANGED <<disk, lock, machine, started, calm>>
    BY <1>5 DEF CheckAndSnapshot
  <2> HIDE DEF go, stop
  <2> QED
    BY <2>2, <2>3, <2>4, <2>5, <2>6, LocalStep
<1>6. CASE CreateJournal(h)
  <2> DEFINE go == [helper[h] EXCEPT !.pc = "intent", !.index = 1]
             stop == [helper[h] EXCEPT !.pc = "release", !.failed = TRUE]
  <2>1. helper[h].pc = "create" /\ helper[h].pc \in Critical /\ s \in Sessions
    BY <1>3, <1>6 DEF CreateJournal, At, Critical, ControlPoints
  <2>2. PICK o \in CreateOutcomes(disk[s], j) : Store(h, o) /\ Local(h, IF o.ok THEN go ELSE stop)
    BY <1>6 DEF CreateJournal
  <2>3. \/ ~o.ok /\ o.journal = disk[s]
        \/ o.journal = j /\ ~Exists(disk[s]) /\ Validate(j)
    BY <2>2, StoreFacts
  <2>4. disk[s] \in Journals /\ Honest(disk[s]) /\ Covers(disk[s], s)
    BY <2>1 DEF EvidenceInv, TypeOK, DiskIsHonest, RoutesHaveEvidence
  <2>5. ~Exists(disk[s]) => Covers(j, s)
    BY <2>4, StepFacts, SMTT(60) DEF Covers, Honest, Live
  <2>6. o.journal \in Journals /\ Honest(o.journal) /\ Covers(o.journal, s)
    BY <1>1, <2>3, <2>4, <2>5 DEF Validate, Honest, Exists, Phases
  <2>7. /\ go \in HelperStates /\ go.pc = "intent" /\ go.sess = s /\ go.index = 1 /\ go.journal = j
        /\ stop \in HelperStates /\ stop.pc = "release" /\ stop.sess = s
    <3>1. 1 \in 0..NumSteps
      BY StepFacts
    <3> QED
      BY <1>1, <3>1 DEF HelperStates, ControlPoints
  <2>8. Positioned(go) /\ Positioned(stop)
    BY <2>7, StepFacts DEF Positioned
  <2>9. go.pc \in Critical /\ stop.pc \in Critical /\ stop.pc \notin Holding
    BY <2>7 DEF Critical, ControlPoints, Holding
  <2>10. UNCHANGED <<lock, machine, started, calm>>
    BY <1>6 DEF CreateJournal
  <2> HIDE DEF go, stop
  <2>11. CASE o.ok
    BY <2>1, <2>2, <2>3, <2>5, <2>6, <2>7, <2>8, <2>9, <2>10, <2>11, StoreStep
  <2>12. CASE ~o.ok
    BY <2>1, <2>2, <2>6, <2>7, <2>8, <2>9, <2>10, <2>12, StoreStep
  <2> QED
    BY <2>11, <2>12
<1>7. CASE RecordIntent(h)
  <2> DEFINE k == [j EXCEPT !.entries[i] = "planned"]
             go == [helper[h] EXCEPT !.pc = "apply"]
  <2>1. /\ helper[h].pc = "intent" /\ helper[h].pc \in Critical /\ i \in Steps
        /\ PersistOrRollBack(h, k, go)
    BY <1>2, <1>7 DEF RecordIntent, At, Critical, ControlPoints, Positioned
  <2>2. k \in Journals /\ k.device = j.device /\ k.entries = [j.entries EXCEPT ![i] = "planned"]
    BY <1>1 DEF Journals, Statuses
  <2>3. Live(k, i) /\ \A n \in Steps : Live(j, n) => Live(k, n)
    BY <1>1, <2>1, <2>2 DEF Live, Journals
  <2>4. Covers(k, s)
    BY <1>4, <2>1, <2>3, StepFacts DEF Covers, Holding
  <2>5. go \in HelperStates /\ go.pc = "apply" /\ go.sess = s /\ go.index = i
    BY <1>1 DEF HelperStates, ControlPoints
  <2>6. [go EXCEPT !.journal = k].pc = "apply" /\ [go EXCEPT !.journal = k].index = i
        /\ [go EXCEPT !.journal = k].journal = k
    BY <1>1 DEF HelperStates
  <2>7. Positioned([go EXCEPT !.journal = k])
    BY <1>2, <2>1, <2>2, <2>3, <2>6 DEF Positioned
  <2>8. go.pc \in Critical
    BY <2>5 DEF Critical, ControlPoints
  <2> HIDE DEF k, go
  <2> QED
    BY <2>1, <2>2, <2>3, <2>4, <2>5, <2>7, <2>8, PersistOrRollBackStep
<1>8. CASE MarkApplied(h)
  <2> DEFINE k == [j EXCEPT !.entries[i] = "applied"]
             go == IF i = NumSteps THEN [helper[h] EXCEPT !.pc = "verify"]
                                   ELSE [helper[h] EXCEPT !.pc = "intent", !.index = i + 1]
             next == [go EXCEPT !.journal = k]
  <2>1. /\ helper[h].pc = "mark" /\ helper[h].pc \in Critical /\ i \in Steps
        /\ PersistOrRollBack(h, k, go)
    BY <1>2, <1>8 DEF MarkApplied, At, Critical, ControlPoints, Positioned
  <2>2. k \in Journals /\ k.device = j.device /\ k.entries = [j.entries EXCEPT ![i] = "applied"]
    BY <1>1 DEF Journals, Statuses
  <2>3. \A n \in Steps : Live(j, n) => Live(k, n)
    BY <1>1, <2>1, <2>2 DEF Live, Journals
  <2>4. Covers(k, s)
    BY <1>4, <2>1, <2>3, StepFacts DEF Covers, Holding
  <2>5. /\ go \in HelperStates /\ go.sess = s
        /\ \/ go.pc = "verify"
           \/ go.pc = "intent" /\ go.index = i + 1 /\ i + 1 \in Steps
    <3>1. i # NumSteps => i + 1 \in 0..NumSteps /\ i + 1 \in Steps
      BY <2>1, StepFacts, SMTT(60)
    <3> HIDE DEF i
    <3> QED
      BY <1>1, <3>1 DEF HelperStates, ControlPoints
  <2>6. next.pc = go.pc /\ next.index = go.index /\ next.journal = k
    BY <2>5 DEF HelperStates
  <2>7. Positioned(next)
    <3>1. i + 1 > 2 => j.device \in Helpers
      BY <1>1, <1>2, <2>1, StepFacts DEF Positioned
    <3> QED
      BY <2>2, <2>5, <2>6, <3>1 DEF Positioned
  <2>8. go.pc \in Critical /\ go.pc # "apply"
    BY <2>5 DEF Critical, ControlPoints
  <2> HIDE DEF k, go
  <2> QED
    BY <2>1, <2>2, <2>4, <2>5, <2>7, <2>8, PersistOrRollBackStep
<1>9. CASE Verify(h)
  <2> DEFINE go == [helper[h] EXCEPT !.pc = "connect"]
             stop == [helper[h] EXCEPT !.pc = "rollback"]
  <2>1. helper[h].pc = "verify" /\ helper[h].pc \in Critical /\ helper[h].pc \in Holding
    BY <1>9 DEF Verify, At, Critical, ControlPoints, Holding
  <2>2. /\ go \in HelperStates /\ go.pc = "connect" /\ go.sess = s /\ go.journal = j
        /\ stop \in HelperStates /\ stop.pc = "rollback" /\ stop.sess = s /\ stop.journal = j
    BY <1>1 DEF HelperStates, ControlPoints
  <2>3. Positioned(go) /\ Positioned(stop) /\ go.pc \in Critical /\ stop.pc \in Critical
    BY <2>2 DEF Positioned, Critical, ControlPoints
  <2>4. Local(h, go) \/ Local(h, stop)
    BY <1>9 DEF Verify
  <2>5. UNCHANGED <<disk, lock, machine, started, calm>>
    BY <1>9 DEF Verify
  <2> HIDE DEF go, stop
  <2> QED
    BY <1>4, <2>1, <2>2, <2>3, <2>4, <2>5, LocalStep
<1>10. CASE SetConnected(h)
  <2> DEFINE k == [j EXCEPT !.phase = "connected"]
             go == [helper[h] EXCEPT !.pc = "release", !.resident = TRUE]
             next == [go EXCEPT !.journal = k]
  <2>1. helper[h].pc = "connect" /\ helper[h].pc \in Critical /\ PersistOrRollBack(h, k, go)
    BY <1>10 DEF SetConnected, At, Critical, ControlPoints
  <2>2. k \in Journals /\ k.entries = j.entries
    BY <1>1 DEF Journals, Phases
  <2>3. Covers(k, s)
    BY <1>4, <2>1, <2>2 DEF Covers, Holding, Live
  <2>4. go \in HelperStates /\ go.sess = s /\ go.pc = "release"
    BY <1>1 DEF HelperStates, ControlPoints
  <2>5. next.pc = "release"
    BY <2>4 DEF HelperStates
  <2>6. Positioned(next) /\ go.pc \in Critical /\ go.pc # "apply"
    BY <2>4, <2>5 DEF Positioned, Critical, ControlPoints
  <2> HIDE DEF k, go
  <2> QED
    BY <2>1, <2>2, <2>3, <2>4, <2>6, PersistOrRollBackStep
<1> QED
  BY <1>5, <1>6, <1>7, <1>8, <1>9, <1>10

\* The steps of Connect that change the machine: Routes.Add, Devices.Create
\* and DNS.Apply happen only with their intent on disk.
LEMMA ApplyPreserves ==
    ASSUME EvidenceInv, NEW h \in Helpers,
           AddRoute(h) \/ CreateDevice(h) \/ ApplyDNS(h)
    PROVE  EvidenceInv'
<1> DEFINE s == helper[h].sess
           j == helper[h].journal
           i == helper[h].index
           bad == [helper[h] EXCEPT !.pc = "rollback"]
           mark == [helper[h] EXCEPT !.pc = "mark"]
<1>1. helper[h] \in HelperStates /\ j \in Journals
  BY DEF EvidenceInv, TypeOK, HelperStates
<1>2. At(h, "apply") /\ helper[h].pc = "apply" /\ helper[h].pc \in Critical /\ helper[h].pc \in Holding
  BY DEF AddRoute, CreateDevice, ApplyDNS, At, Critical, ControlPoints, Holding
<1>3. s \in Sessions
  BY <1>2 DEF EvidenceInv, LockHeld
<1>4. Positioned(helper[h]) /\ i \in Steps /\ Live(j, i) /\ (i > 2 => j.device \in Helpers)
  BY <1>2 DEF EvidenceInv, LoopPosition, Positioned
<1>5. Live(disk[s], i)
  BY <1>2 DEF EvidenceInv, IntentOnDisk, Evidence
<1>6. Covers(j, s) /\ Covers(disk[s], s)
  BY <1>2, <1>3 DEF EvidenceInv, MemoryHasEvidence, RoutesHaveEvidence
<1>7. /\ bad \in HelperStates /\ bad.pc = "rollback" /\ bad.sess = s /\ bad.journal = j
      /\ mark \in HelperStates /\ mark.pc = "mark" /\ mark.sess = s /\ mark.journal = j /\ mark.index = i
  BY <1>1 DEF HelperStates, ControlPoints
<1>8. /\ Positioned(bad) /\ bad.pc \in Critical /\ bad.pc # "apply"
      /\ mark.pc \in Critical /\ mark.pc # "apply"
      /\ i # 2 => Positioned(mark)
  BY <1>4, <1>7 DEF Positioned, Critical, ControlPoints
<1>9. MachineTypes /\ InstalledIsThere
  BY DEF EvidenceInv, TypeOK, MachineTypes
<1>10. CASE AddRoute(h)
  <2> DEFINE d == Dest(s, i)
  <2>1. i \in RouteSteps /\ i # 2 /\ d \in Dests
    BY <1>3, <1>10, StepFacts, DestFacts DEF AddRoute
  <2>2. UNCHANGED <<disk, lock, dev, dns, userDns, started, calm>>
    BY <1>10 DEF AddRoute
  <2>3. Local(h, bad) \/ Local(h, mark)
    BY <1>10 DEF AddRoute
  <2>4. CASE UNCHANGED routes
    <3>1. MachineTypes' /\ InstalledIsThere' /\ installer' = installer
      BY <1>9, <2>2, <2>4 DEF MachineTypes, InstalledIsThere, routes
    <3> HIDE DEF bad, mark
    <3> QED
      BY <1>2, <1>6, <1>7, <1>8, <2>1, <2>2, <2>3, <3>1, MachineStep DEF Covers
  <2>5. CASE /\ table' = [table EXCEPT ![d] = Via(j, i)]
             /\ installer' = [installer EXCEPT ![d] = s]
    <3>1. Via(j, i) \in {"physical", "lo0"} \cup Helpers
      BY <1>4, <2>1, StepFacts DEF Via
    <3>2. MachineTypes'
      BY <1>3, <1>9, <2>2, <2>5, <3>1 DEF MachineTypes
    <3>3. InstalledIsThere'
      BY <1>9, <2>1, <2>5, <3>1, HelperAssumption DEF InstalledIsThere, MachineTypes
    <3>4. \A e \in Dests : installer'[e] \in {installer[e], NoSession, s}
      BY <1>9, <2>5 DEF MachineTypes
    <3>5. \A k \in RouteSteps : installer'[Dest(s, k)] = s => k = i \/ installer[Dest(s, k)] = s
      BY <1>3, <1>9, <2>1, <2>5, DestFacts DEF MachineTypes
    <3>6. \A k \in RouteSteps : installer'[Dest(s, k)] = s => Live(disk[s], k) /\ Live(j, k)
      BY <1>4, <1>5, <1>6, <3>5 DEF Covers
    <3> HIDE DEF bad, mark
    <3> QED
      BY <1>2, <1>7, <1>8, <2>1, <2>2, <2>3, <3>2, <3>3, <3>4, <3>6, MachineStep
  <2> QED
    BY <1>10, <2>4, <2>5 DEF AddRoute
<1>11. CASE CreateDevice(h)
  <2> DEFINE up == [helper[h] EXCEPT !.pc = "mark", !.journal.device = h]
  <2>1. i = 2
    BY <1>4, <1>11, StepFacts DEF CreateDevice
  <2>2. UNCHANGED <<disk, lock, table, installer, dns, userDns, started, calm>>
    BY <1>11 DEF CreateDevice
  <2>3. MachineTypes' /\ InstalledIsThere'
    BY <1>3, <1>9, <1>11, <2>2 DEF CreateDevice, MachineTypes, InstalledIsThere
  <2>4. [j EXCEPT !.device = h] \in Journals /\ [j EXCEPT !.device = h].entries = j.entries
        /\ [j EXCEPT !.device = h].device = h
    BY <1>1 DEF Journals
  <2>5. /\ up \in HelperStates /\ up.pc = "mark" /\ up.sess = s /\ up.index = i
        /\ up.journal.entries = j.entries /\ up.journal.device = h
    BY <1>1, <2>4 DEF HelperStates, ControlPoints
  <2>6. Positioned(up) /\ up.pc \in Critical /\ up.pc # "apply"
    BY <1>4, <2>5 DEF Positioned, Critical, ControlPoints
  <2>7. Local(h, bad) \/ Local(h, up)
    BY <1>11 DEF CreateDevice
  <2>8. \A k \in RouteSteps : Live(j, k) => Live(up.journal, k)
    BY <2>5 DEF Live
  <2> HIDE DEF bad, up
  <2> QED
    BY <1>2, <1>6, <1>7, <1>8, <2>2, <2>3, <2>5, <2>6, <2>7, <2>8, MachineStep DEF Covers
<1>12. CASE ApplyDNS(h)
  <2>1. i # 2
    BY <1>12, <1>4 DEF ApplyDNS, Kind
  <2>2. UNCHANGED <<disk, lock, dev, table, installer, userDns, started, calm>>
    BY <1>12 DEF ApplyDNS
  <2>3. MachineTypes' /\ InstalledIsThere'
    BY <1>9, <1>12, <2>2 DEF ApplyDNS, MachineTypes, InstalledIsThere, DNSValues
  <2>4. Local(h, bad) \/ Local(h, mark)
    BY <1>12 DEF ApplyDNS
  <2> HIDE DEF bad, mark
  <2> QED
    BY <1>2, <1>6, <1>7, <1>8, <2>1, <2>2, <2>3, <2>4, MachineStep DEF Covers
<1> QED
  BY <1>10, <1>11, <1>12

\* The steps of Disconnect and rollback that read, or write the journal; the
\* file is deleted only when no entry in memory is live.
LEMMA RollbackPreserves ==
    ASSUME EvidenceInv, NEW h \in Helpers,
           LoadJournal(h) \/ BeginRollback(h) \/ UndoSkip(h) \/ PersistUndo(h)
             \/ FinishRollback(h) \/ DeleteJournal(h)
    PROVE  EvidenceInv'
<1> DEFINE s == helper[h].sess
           j == helper[h].journal
           i == helper[h].index
           stop == [helper[h] EXCEPT !.pc = "release"]
           return(b) == [helper[h] EXCEPT !.pc = "release", !.failed = b]
<1>1. helper[h] \in HelperStates /\ j \in Journals /\ i \in 0..NumSteps
  BY DEF EvidenceInv, TypeOK, HelperStates
<1>2. helper[h].pc \in Critical
  BY DEF LoadJournal, BeginRollback, UndoSkip, PersistUndo, FinishRollback, DeleteJournal,
         At, Critical, ControlPoints
<1>3. s \in Sessions
  BY <1>2 DEF EvidenceInv, LockHeld
<1>4. Positioned(helper[h])
  BY DEF EvidenceInv, LoopPosition
<1>5. helper[h].pc \in Holding => Covers(j, s)
  BY DEF EvidenceInv, MemoryHasEvidence
<1>6. disk[s] \in Journals /\ Honest(disk[s]) /\ Covers(disk[s], s)
  BY <1>3 DEF EvidenceInv, TypeOK, DiskIsHonest, RoutesHaveEvidence
<1>7. stop \in HelperStates /\ stop.pc = "release" /\ stop.sess = s
  BY <1>1 DEF HelperStates, ControlPoints
<1>8. Positioned(stop) /\ stop.pc \in Critical /\ stop.pc \notin Holding
  BY <1>7 DEF Positioned, Critical, ControlPoints, Holding
<1>15. ASSUME NEW b \in BOOLEAN
       PROVE  /\ return(b) \in HelperStates /\ return(b).pc = "release" /\ return(b).sess = s
              /\ Positioned(return(b)) /\ return(b).pc \in Critical /\ return(b).pc \notin Holding
  <2>1. return(b) \in HelperStates /\ return(b).pc = "release" /\ return(b).sess = s
    BY <1>1 DEF HelperStates, ControlPoints
  <2> QED
    BY <2>1 DEF Positioned, Critical, ControlPoints, Holding
<1>9. CASE LoadJournal(h)
  <2> DEFINE roll == [helper[h] EXCEPT !.pc = "rollback", !.journal = disk[s]]
             del == [helper[h] EXCEPT !.pc = "delete", !.journal = disk[s]]
  <2>1. /\ roll \in HelperStates /\ roll.pc = "rollback" /\ roll.sess = s /\ roll.journal = disk[s]
        /\ del \in HelperStates /\ del.pc = "delete" /\ del.sess = s /\ del.journal = disk[s]
    BY <1>1, <1>6 DEF HelperStates, ControlPoints
  <2>2. Positioned(roll) /\ roll.pc \in Critical /\ del.pc \in Critical
    BY <2>1 DEF Positioned, Critical, ControlPoints
  <2>3. disk[s].phase = "disconnected" => Positioned(del)
    BY <1>6, <2>1 DEF Positioned, Honest
  <2>4. \/ Local(h, roll)
        \/ Local(h, del) /\ disk[s].phase = "disconnected"
        \/ Local(h, stop) \/ Local(h, return(TRUE))
    BY <1>9 DEF LoadJournal
  <2>5. UNCHANGED <<disk, lock, machine, started, calm>>
    BY <1>9 DEF LoadJournal
  <2> HIDE DEF roll, del, stop, return
  <2> QED
    BY <1>2, <1>6, <1>7, <1>8, <1>15, <2>1, <2>2, <2>3, <2>4, <2>5, LocalStep
<1>10. CASE BeginRollback(h)
  <2> DEFINE k == [j EXCEPT !.phase = "disconnecting"]
             undo == [helper[h] EXCEPT !.pc = "undo", !.index = NumSteps, !.failed = FALSE]
             undo2 == [undo EXCEPT !.failed = j.phase # "disconnecting"]
  <2>1. Covers(j, s)
    BY <1>5, <1>10 DEF BeginRollback, At, Holding
  <2>2. k \in Journals /\ k.entries = j.entries
    BY <1>1 DEF Journals, Phases
  <2>3. Covers(k, s)
    BY <2>1, <2>2 DEF Covers, Live
  <2>4. NumSteps \in 0..NumSteps
    BY StepFacts
  <2>5. /\ undo \in HelperStates /\ undo.pc = "undo" /\ undo.sess = s
        /\ undo2 \in HelperStates /\ undo2.pc = "undo" /\ undo2.sess = s /\ undo2.journal = j
    BY <1>1, <2>4 DEF HelperStates, ControlPoints
  <2>6. Positioned(undo2) /\ undo2.pc \in Critical /\ undo2.pc # "apply"
    BY <2>5 DEF Positioned, Critical, ControlPoints
  <2>7. \/ PersistAndGoOn(h, k, undo)
        \/ Local(h, undo2) /\ UNCHANGED <<disk, lock, machine, started, calm>>
    BY <1>10 DEF BeginRollback
  <2> HIDE DEF k, undo, undo2
  <2> QED
    BY <1>2, <2>1, <2>2, <2>3, <2>5, <2>6, <2>7, LocalStep, PersistAndGoOnStep
<1>11. CASE UndoSkip(h)
  <2> DEFINE next == [helper[h] EXCEPT !.index = helper[h].index - 1]
  <2>1. helper[h].pc = "undo" /\ helper[h].pc \in Holding /\ helper[h].index - 1 \in 0..NumSteps
    BY <1>1, <1>11, StepFacts, SMTT(60) DEF UndoSkip, At, Holding
  <2>2. next \in HelperStates /\ next.pc = "undo" /\ next.sess = s /\ next.journal = j
    BY <1>1, <2>1 DEF HelperStates
  <2>3. Positioned(next) /\ next.pc \in Critical /\ next.pc # "apply"
    BY <2>2 DEF Positioned, Critical, ControlPoints
  <2>4. Local(h, next) /\ UNCHANGED <<disk, lock, machine, started, calm>>
    BY <1>11 DEF UndoSkip
  <2> HIDE DEF next
  <2> QED
    BY <1>2, <1>5, <2>1, <2>2, <2>3, <2>4, LocalStep
<1>12. CASE PersistUndo(h)
  <2> DEFINE next == [helper[h] EXCEPT !.pc = "undo", !.index = helper[h].index - 1]
  <2>1. helper[h].pc = "undone" /\ helper[h].pc \in Holding /\ helper[h].index - 1 \in 0..NumSteps
    BY <1>4, <1>12, StepFacts DEF PersistUndo, At, Holding, Positioned
  <2>2. next \in HelperStates /\ next.pc = "undo" /\ next.sess = s
    BY <1>1, <2>1 DEF HelperStates, ControlPoints
  <2>3. PersistAndGoOn(h, j, next)
    BY <1>12 DEF PersistUndo
  <2> HIDE DEF next
  <2> QED
    BY <1>1, <1>2, <1>5, <2>1, <2>2, <2>3, PersistAndGoOnStep
<1>13. CASE FinishRollback(h)
  <2> DEFINE k == [j EXCEPT !.phase = "rollback_required"]
             d == [j EXCEPT !.phase = "disconnected"]
             fin(o) == [helper[h] EXCEPT !.pc = IF o.ok THEN "delete" ELSE "release",
                                         !.journal.phase = "disconnected",
                                         !.failed = ~o.ok]
  <2>1. Covers(j, s)
    BY <1>5, <1>13 DEF FinishRollback, At, Holding
  <2>2. /\ k \in Journals /\ k.entries = j.entries
        /\ d \in Journals /\ d.entries = j.entries /\ d.phase = "disconnected"
    BY <1>1 DEF Journals, Phases
  <2>3. Covers(k, s) /\ Covers(d, s)
    BY <2>1, <2>2 DEF Covers, Live
  <2>4. CASE PersistAndGoOn(h, k, stop)
    <3> HIDE DEF k, stop
    <3> QED BY <1>2, <1>7, <2>2, <2>3, <2>4, PersistAndGoOnStep
  <2>5. CASE /\ \E o \in UpdateOutcomes(disk[s], d) : Store(h, o) /\ Local(h, fin(o))
             /\ UNCHANGED <<lock, machine, started, calm>>
    <3>1. PICK o \in UpdateOutcomes(disk[s], d) : Store(h, o) /\ Local(h, fin(o))
      BY <2>5
    <3>2. /\ o.journal \in Journals /\ Honest(o.journal) /\ Covers(o.journal, s)
          /\ o.ok => Validate(d)
      BY <1>3, <2>2, <2>3, <3>1, UpdateCovers
    <3>3. /\ fin(o) \in HelperStates /\ fin(o).sess = s /\ fin(o).journal = d
          /\ fin(o).pc = IF o.ok THEN "delete" ELSE "release"
      BY <1>1, <2>2 DEF HelperStates, ControlPoints
    <3>4. Validate(d) => \A n \in Steps : ~Live(d, n)
      BY <2>2 DEF Validate
    <3>5. Positioned(fin(o)) /\ fin(o).pc \in Critical /\ fin(o).pc # "apply"
      BY <3>2, <3>3, <3>4 DEF Positioned, Critical, ControlPoints
    <3> HIDE DEF fin
    <3> QED
      BY <1>2, <2>3, <2>5, <3>1, <3>2, <3>3, <3>5, StoreStep
  <2> QED
    BY <1>13, <2>4, <2>5 DEF FinishRollback
<1>14. CASE DeleteJournal(h)
  <2>1. PICK o \in DeleteOutcomes(disk[s]) : Store(h, o) /\ Local(h, return(~o.ok))
    BY <1>14 DEF DeleteJournal
  <2>2. o.journal \in {disk[s], AbsentJournal}
    BY <2>1, StoreFacts
  <2>3. \A n \in Steps : ~Live(j, n)
    BY <1>4, <1>14 DEF DeleteJournal, At, Positioned
  <2>4. \A n \in RouteSteps : installer[Dest(s, n)] # s
    BY <1>5, <1>14, <2>3, StepFacts DEF DeleteJournal, At, Holding, Covers
  <2>5. Honest(AbsentJournal) /\ Covers(AbsentJournal, s)
    BY <2>4 DEF Honest, Covers, AbsentJournal, Exists, Live
  <2>6. UNCHANGED <<lock, machine, started, calm>>
    BY <1>14 DEF DeleteJournal
  <2>7. o.journal \in Journals /\ Honest(o.journal) /\ Covers(o.journal, s)
    BY <1>6, <2>2, <2>5, JournalTypes
  <2>8. (~o.ok) \in BOOLEAN
    OBVIOUS
  <2> HIDE DEF return
  <2> QED
    BY <1>2, <1>15, <2>1, <2>6, <2>7, <2>8, StoreStep
<1> QED
  BY <1>9, <1>10, <1>11, <1>12, <1>13, <1>14

\* The steps of rollback that inspect or change the machine: an entry becomes
\* rolled_back only when the session's route is gone.
LEMMA UndoPreserves ==
    ASSUME EvidenceInv, NEW h \in Helpers,
           InspectRoute(h) \/ RemoveRoute(h) \/ InspectDNS(h) \/ RestoreDNS(h) \/ DeleteDevice(h)
    PROVE  EvidenceInv'
<1> DEFINE s == helper[h].sess
           j == helper[h].journal
           i == helper[h].index
           done == UndoSucceeded(h)
           fail == UndoFailed(h)
           rem == [helper[h] EXCEPT !.pc = "remove"]
           rest == [helper[h] EXCEPT !.pc = "restore"]
<1>1. helper[h] \in HelperStates /\ j \in Journals /\ i \in 0..NumSteps
  BY DEF EvidenceInv, TypeOK, HelperStates
<1>2. helper[h].pc \in {"undo", "remove", "restore"}
  BY DEF InspectRoute, RemoveRoute, InspectDNS, RestoreDNS, DeleteDevice, Undoing, At
<1>3. helper[h].pc \in Critical /\ helper[h].pc \in Holding
  BY <1>2 DEF Critical, ControlPoints, Holding
<1>4. s \in Sessions
  BY <1>3 DEF EvidenceInv, LockHeld
<1>5. i \in Steps
  BY <1>1, StepFacts DEF EvidenceInv, LoopPosition, Positioned, InspectRoute, RemoveRoute,
     InspectDNS, RestoreDNS, DeleteDevice, Undoing, At
<1>6. Covers(j, s) /\ Covers(disk[s], s)
  BY <1>3, <1>4 DEF EvidenceInv, MemoryHasEvidence, RoutesHaveEvidence
<1>7. [j EXCEPT !.entries[i] = "rolled_back"] \in Journals
      /\ [j EXCEPT !.entries[i] = "rolled_back"].entries = [j.entries EXCEPT ![i] = "rolled_back"]
  BY <1>1 DEF Journals, Statuses
<1>8. /\ done \in HelperStates /\ done.pc = "undone" /\ done.sess = s /\ done.index = i
      /\ done.journal.entries = [j.entries EXCEPT ![i] = "rolled_back"]
  BY <1>1, <1>7 DEF HelperStates, ControlPoints, UndoSucceeded
<1>9. fail \in HelperStates /\ fail.pc = "undo" /\ fail.sess = s /\ fail.journal = j
  <2>1. i - 1 \in 0..NumSteps
    BY <1>5, StepFacts
  <2> QED
    BY <1>1, <2>1 DEF HelperStates, ControlPoints, UndoFailed
<1>10. /\ rem \in HelperStates /\ rem.pc = "remove" /\ rem.sess = s /\ rem.journal = j /\ rem.index = i
       /\ rest \in HelperStates /\ rest.pc = "restore" /\ rest.sess = s /\ rest.journal = j /\ rest.index = i
  BY <1>1 DEF HelperStates, ControlPoints
<1>11. /\ Positioned(done) /\ Positioned(fail)
       /\ i \in RouteSteps => Positioned(rem)
       /\ Kind(i) = "dns" => Positioned(rest)
       /\ {done.pc, fail.pc, rem.pc, rest.pc} \subseteq Critical \ {"apply"}
  BY <1>5, <1>8, <1>9, <1>10 DEF Positioned, Critical, ControlPoints
<1>12. \A k \in RouteSteps : k # i /\ Live(j, k) => Live(done.journal, k)
  BY <1>1, <1>5, <1>8, StepFacts DEF Live, Journals
<1>13. MachineTypes /\ InstalledIsThere
  BY DEF EvidenceInv, TypeOK, MachineTypes
<1> HIDE DEF done, fail, rem, rest
<1>14. CASE InspectRoute(h)
  <2>1. i \in RouteSteps /\ Dest(s, i) \in Dests
    BY <1>4, <1>5, <1>14, StepFacts, DestFacts DEF InspectRoute, Undoing
  <2>2. table[Dest(s, i)] = "none" => installer[Dest(s, i)] # s
    BY <1>4, <1>13, <2>1, SessionAssumption DEF InstalledIsThere
  <2>3. table[Dest(s, i)] = "none" => Covers(done.journal, s)
    BY <1>6, <1>12, <2>2 DEF Covers
  <2>4. \/ Local(h, done) /\ table[Dest(s, i)] = "none"
        \/ Local(h, rem)
        \/ Local(h, fail)
    BY <1>14 DEF InspectRoute, done, rem, fail
  <2>5. UNCHANGED <<disk, lock, machine, started, calm>>
    BY <1>14 DEF InspectRoute
  <2> QED
    BY <1>3, <1>6, <1>8, <1>9, <1>10, <1>11, <2>1, <2>3, <2>4, <2>5, LocalStep
<1>15. CASE InspectDNS(h)
  <2>1. i \notin RouteSteps /\ Kind(i) = "dns"
    BY <1>5, <1>15, StepFacts DEF InspectDNS, Undoing
  <2>2. Covers(done.journal, s)
    BY <1>6, <1>12, <2>1 DEF Covers
  <2>3. Local(h, done) \/ Local(h, rest) \/ Local(h, fail)
    BY <1>15 DEF InspectDNS, done, rest, fail
  <2>4. UNCHANGED <<disk, lock, machine, started, calm>>
    BY <1>15 DEF InspectDNS
  <2> QED
    BY <1>3, <1>6, <1>8, <1>9, <1>10, <1>11, <2>1, <2>2, <2>3, <2>4, LocalStep
<1>16. CASE RemoveRoute(h)
  <2> DEFINE d == Dest(s, i)
  <2>1. i \in RouteSteps /\ d \in Dests
    BY <1>4, <1>16, DestFacts DEF RemoveRoute, At, EvidenceInv, LoopPosition, Positioned
  <2>2. UNCHANGED <<disk, lock, dev, dns, userDns, started, calm>>
    BY <1>16 DEF RemoveRoute
  <2>3. CASE Local(h, fail) /\ UNCHANGED routes
    <3>1. MachineTypes' /\ InstalledIsThere' /\ installer' = installer
      BY <1>13, <2>2, <2>3 DEF MachineTypes, InstalledIsThere, routes
    <3> QED
      BY <1>3, <1>6, <1>9, <1>11, <2>2, <2>3, <3>1, MachineStep DEF Covers
  <2>4. CASE /\ Local(h, done) \/ Local(h, fail)
             /\ table' = [table EXCEPT ![d] = "none"]
             /\ installer' = [installer EXCEPT ![d] = NoSession]
    <3>1. MachineTypes' /\ InstalledIsThere'
      BY <1>13, <2>2, <2>4 DEF MachineTypes, InstalledIsThere
    <3>2. \A e \in Dests : installer'[e] \in {installer[e], NoSession, s}
      BY <1>13, <2>4 DEF MachineTypes
    <3>3. \A k \in RouteSteps : installer'[Dest(s, k)] = s => k # i /\ installer[Dest(s, k)] = s
      BY <1>4, <1>13, <2>1, <2>4, DestFacts, SessionAssumption DEF MachineTypes
    <3>4. \A k \in RouteSteps : installer'[Dest(s, k)] = s =>
             Live(disk[s], k) /\ Live(j, k) /\ Live(done.journal, k)
      BY <1>6, <1>12, <3>3 DEF Covers
    <3> QED
      BY <1>3, <1>8, <1>9, <1>11, <2>2, <2>4, <3>1, <3>2, <3>4, MachineStep
  <2> QED
    BY <1>16, <2>3, <2>4 DEF RemoveRoute, done, fail
<1>17. CASE RestoreDNS(h)
  <2>1. i \notin RouteSteps
    BY <1>5, <1>17, StepFacts DEF RestoreDNS, At, EvidenceInv, LoopPosition, Positioned
  <2>2. UNCHANGED <<disk, lock, dev, table, installer, userDns, started, calm>>
    BY <1>17 DEF RestoreDNS
  <2>3. dns' \in DNSValues
    BY <1>1, <1>13, <1>17 DEF RestoreDNS, MachineTypes, Journals
  <2>4. MachineTypes' /\ InstalledIsThere'
    BY <1>13, <2>2, <2>3 DEF MachineTypes, InstalledIsThere
  <2>5. Local(h, done) \/ Local(h, fail)
    BY <1>17 DEF RestoreDNS, done, fail
  <2> QED
    BY <1>3, <1>6, <1>8, <1>9, <1>11, <1>12, <2>1, <2>2, <2>4, <2>5, MachineStep DEF Covers
<1>18. CASE DeleteDevice(h)
  <2>1. i \notin RouteSteps
    BY <1>5, <1>18, StepFacts DEF DeleteDevice, Undoing
  <2>2. UNCHANGED <<disk, lock, dns, userDns, started, calm>>
    BY <1>18 DEF DeleteDevice
  <2>3. Local(h, done) \/ Local(h, fail)
    BY <1>18 DEF DeleteDevice, done, fail
  <2>4. MachineTypes' /\ InstalledIsThere' /\ \A e \in Dests : installer'[e] \in {installer[e], NoSession}
    BY <1>13, <1>18, <2>2 DEF DeleteDevice, MachineTypes, InstalledIsThere, WithoutVia,
       InstallerWithoutVia, routes
  <2>5. \A k \in RouteSteps : installer'[Dest(s, k)] = s => installer[Dest(s, k)] = s
    BY <1>4, <2>4, DestFacts, SessionAssumption
  <2> QED
    BY <1>3, <1>6, <1>8, <1>9, <1>11, <1>12, <2>1, <2>2, <2>3, <2>4, <2>5, MachineStep DEF Covers
<1> QED
  BY <1>14, <1>15, <1>16, <1>17, <1>18

\* Taking the lock: nothing else changes but the locals of h.
LEMMA AcquirePreserves ==
    ASSUME EvidenceInv, NEW h \in Helpers, NEW s \in Sessions,
           AcquireForConnect(h, s) \/ AcquireForDisconnect(h, s)
    PROVE  EvidenceInv'
<1> DEFINE hs == helper'[h]
<1>1. /\ lock[OwnerOf[s]] = NoHelper
      /\ lock' = [lock EXCEPT ![OwnerOf[s]] = h]
      /\ UNCHANGED <<disk, machine, calm>>
      /\ started' \in {started, started \cup {s}}
  BY DEF AcquireForConnect, AcquireForDisconnect
<1>2. helper[h] \in HelperStates /\ OwnerOf[s] \in Users
  BY PlanAssumption DEF EvidenceInv, TypeOK
<1>3. /\ helper' = [helper EXCEPT ![h] = hs]
      /\ hs \in HelperStates /\ hs.pc \in {"check", "load"} /\ hs.sess = s
  <2>1. CASE AcquireForConnect(h, s)
    <3>1. [Dead EXCEPT !.pc = "check", !.sess = s] \in HelperStates
      BY JournalTypes DEF HelperStates, ControlPoints
    <3> QED
      BY <2>1, <3>1, JournalTypes DEF AcquireForConnect, Local, EvidenceInv, TypeOK, HelperStates
  <2>2. CASE AcquireForDisconnect(h, s) /\ Local(h, [Dead EXCEPT !.pc = "load", !.sess = s])
    <3>1. [Dead EXCEPT !.pc = "load", !.sess = s] \in HelperStates
      BY JournalTypes DEF HelperStates, ControlPoints
    <3> QED
      BY <2>2, <3>1, JournalTypes DEF Local, EvidenceInv, TypeOK, HelperStates
  <2>3. CASE /\ helper[h].sess = s
             /\ \E stay \in BOOLEAN : Local(h, [helper[h] EXCEPT !.pc = "load", !.resident = stay])
    <3>1. PICK stay \in BOOLEAN : Local(h, [helper[h] EXCEPT !.pc = "load", !.resident = stay])
      BY <2>3
    <3>2. [helper[h] EXCEPT !.pc = "load", !.resident = stay] \in HelperStates
      BY <1>2 DEF HelperStates, ControlPoints
    <3> QED
      BY <1>2, <2>3, <3>1, <3>2 DEF Local, EvidenceInv, TypeOK, HelperStates
  <2> QED
    BY <2>1, <2>2, <2>3 DEF AcquireForDisconnect
<1>4. TypeOK'
  BY <1>1, <1>2, <1>3 DEF EvidenceInv, TypeOK, machine
<1>5. \A g \in Helpers : g # h => helper'[g] = helper[g]
  BY <1>3 DEF EvidenceInv, TypeOK
<1>6. LockHeld'
  BY <1>1, <1>2, <1>3, <1>5, HelperAssumption DEF EvidenceInv, TypeOK, LockHeld
<1>7. InstalledIsThere' /\ DiskIsHonest' /\ RoutesHaveEvidence'
  BY <1>1 DEF EvidenceInv, InstalledIsThere, DiskIsHonest, RoutesHaveEvidence, Covers, Dest, machine
<1>8. MemoryHasEvidence'
  BY <1>1, <1>3, <1>5 DEF EvidenceInv, MemoryHasEvidence, Covers, Dest, Holding, machine
<1>9. LoopPosition' /\ IntentOnDisk'
  BY <1>1, <1>3, <1>5 DEF EvidenceInv, LoopPosition, Positioned, IntentOnDisk, At, Evidence
<1> QED
  BY <1>4, <1>6, <1>7, <1>8, <1>9 DEF EvidenceInv

\* Steps that only take routes away and send helpers to rest: whoever is
\* still in a transaction keeps its lock, its locals and its journal.
LEMMA RestPreserves ==
    ASSUME EvidenceInv,
           UNCHANGED disk,
           TypeOK',
           InstalledIsThere',
           \A d \in Dests : installer'[d] \in {installer[d], NoSession},
           \A h \in Helpers :
              \/ helper'[h].pc \in {"idle", "serving"}
              \/ /\ helper'[h] = helper[h]
                 /\ \A u \in Users : lock[u] = h => lock'[u] = h
    PROVE  EvidenceInv'
<1>1. \A h \in Helpers :
         helper'[h].pc \in Critical =>
             /\ helper'[h] = helper[h]
             /\ helper[h].pc \in Critical
             /\ \A u \in Users : lock[u] = h => lock'[u] = h
  BY DEF Critical
<1>2. LockHeld'
  BY <1>1, PlanAssumption DEF EvidenceInv, LockHeld
<1>3. \A s \in Sessions, i \in RouteSteps : installer'[Dest(s, i)] = s => installer[Dest(s, i)] = s
  BY DestFacts, SessionAssumption
<1>4. DiskIsHonest' /\ RoutesHaveEvidence'
  BY <1>3 DEF EvidenceInv, DiskIsHonest, RoutesHaveEvidence, Covers, Dest
<1>5. \A h \in Helpers : helper'[h].pc \in Holding => helper'[h].pc \in Critical
  BY DEF Holding, Critical, ControlPoints
<1>6. MemoryHasEvidence'
  BY <1>1, <1>3, <1>5 DEF EvidenceInv, MemoryHasEvidence, LockHeld, Covers, Dest
<1>7. LoopPosition'
  BY DEF EvidenceInv, LoopPosition, Positioned
<1>8. IntentOnDisk'
  BY DEF EvidenceInv, IntentOnDisk, At, Evidence
<1> QED
  BY <1>2, <1>4, <1>6, <1>7, <1>8 DEF EvidenceInv

\* Returning, exiting and dying: the kernel takes the process's utun, the
\* routes through it and its lock, and the journal on disk stays.
LEMMA LifecyclePreserves ==
    ASSUME EvidenceInv, NEW h \in Helpers, Release(h) \/ Crash(h)
    PROVE  EvidenceInv'
<1>1. UNCHANGED <<disk, dns, userDns, started, calm>> /\ helper[h] \in HelperStates
  BY DEF Release, Crash, EvidenceInv, TypeOK
<1>2. CASE Ends(h)
  <2>1. /\ helper' \in [Helpers -> HelperStates] /\ helper'[h].pc = "idle"
        /\ \A g \in Helpers : g # h => helper'[g] = helper[g]
    BY <1>2, JournalTypes DEF Ends, EvidenceInv, TypeOK, Dead
  <2>2. lock' \in [Users -> Helpers \cup {NoHelper}]
        /\ \A g \in Helpers : g # h => \A u \in Users : lock[u] = g => lock'[u] = g
    BY <1>2 DEF Ends, EvidenceInv, TypeOK
  <2>3. MachineTypes' /\ InstalledIsThere' /\ \A d \in Dests : installer'[d] \in {installer[d], NoSession}
    BY <1>1, <1>2 DEF Ends, WithoutVia, InstallerWithoutVia, MachineTypes, InstalledIsThere, EvidenceInv, TypeOK
  <2>4. TypeOK'
    BY <1>1, <2>1, <2>2, <2>3 DEF TypeOK, MachineTypes, EvidenceInv
  <2> QED
    BY <1>1, <2>1, <2>2, <2>3, <2>4, RestPreserves
<1>3. CASE /\ At(h, "release")
           /\ lock' = [lock EXCEPT ![OwnerOf[helper[h].sess]] = NoHelper]
           /\ Local(h, [Dead EXCEPT !.pc = "serving", !.sess = helper[h].sess, !.resident = TRUE])
           /\ UNCHANGED <<dev, routes>>
  <2> DEFINE hs == [Dead EXCEPT !.pc = "serving", !.sess = helper[h].sess, !.resident = TRUE]
  <2>1. hs \in HelperStates /\ hs.pc = "serving"
    BY <1>1, JournalTypes DEF HelperStates, ControlPoints
  <2>2. /\ helper' \in [Helpers -> HelperStates] /\ helper'[h].pc = "serving"
        /\ \A g \in Helpers : g # h => helper'[g] = helper[g]
    BY <1>3, <2>1 DEF Local, EvidenceInv, TypeOK
  <2>3. lock[OwnerOf[helper[h].sess]] = h
    BY <1>3 DEF EvidenceInv, LockHeld, At, Critical, ControlPoints
  <2>4. lock' \in [Users -> Helpers \cup {NoHelper}]
        /\ \A g \in Helpers : g # h => \A u \in Users : lock[u] = g => lock'[u] = g
    BY <1>3, <2>3 DEF EvidenceInv, TypeOK
  <2>5. MachineTypes' /\ InstalledIsThere' /\ \A d \in Dests : installer'[d] \in {installer[d], NoSession}
    BY <1>1, <1>3 DEF MachineTypes, InstalledIsThere, EvidenceInv, TypeOK, routes
  <2>6. TypeOK'
    BY <1>1, <2>2, <2>4, <2>5 DEF TypeOK, MachineTypes, EvidenceInv
  <2> QED
    BY <1>1, <2>2, <2>4, <2>5, <2>6, RestPreserves
<1> QED
  BY <1>2, <1>3 DEF Release, Crash

\* A reboot, other programs' routes and the user's DNS changes.
LEMMA EnvironmentPreserves ==
    ASSUME EvidenceInv, Reboot \/ UserSetsDNS \/ \E d \in Dests : ForeignRoute(d)
    PROVE  EvidenceInv'
<1>1. CASE Reboot
  <2>1. TypeOK' /\ InstalledIsThere'
    BY <1>1, JournalTypes DEF Reboot, TypeOK, EvidenceInv, InstalledIsThere
  <2>2. UNCHANGED disk /\ \A h \in Helpers : helper'[h].pc = "idle"
    BY <1>1 DEF Reboot, Dead
  <2>3. \A d \in Dests : installer'[d] \in {installer[d], NoSession}
    BY <1>1 DEF Reboot
  <2> QED
    BY <2>1, <2>2, <2>3, RestPreserves
<1>2. CASE UserSetsDNS
  <2>1. UNCHANGED <<disk, lock, helper, dev, table, installer, started, calm>>
    BY <1>2 DEF UserSetsDNS
  <2>2. TypeOK' /\ InstalledIsThere'
    BY <1>2, <2>1, EnvironmentAssumption DEF UserSetsDNS, TypeOK, EvidenceInv, InstalledIsThere, DNSValues
  <2> QED
    BY <2>1, <2>2, RestPreserves
<1>3. CASE \E d \in Dests : ForeignRoute(d)
  <2>1. PICK d \in Dests : ForeignRoute(d)
    BY <1>3
  <2>2. UNCHANGED <<disk, lock, helper, dev, dns, userDns, started, calm>>
    BY <2>1 DEF ForeignRoute
  <2>3. TypeOK' /\ InstalledIsThere'
    BY <2>1, <2>2, EnvironmentAssumption DEF ForeignRoute, TypeOK, EvidenceInv, InstalledIsThere
  <2>4. \A e \in Dests : installer'[e] \in {installer[e], NoSession}
    BY <2>1 DEF ForeignRoute, EvidenceInv, TypeOK
  <2> QED
    BY <2>2, <2>3, <2>4, RestPreserves
<1> QED
  BY <1>1, <1>2, <1>3

\* Every step of the system, and every stuttering step, preserves the
\* strengthened invariant.
THEOREM EvidenceStep == EvidenceInv /\ [Next]_vars => EvidenceInv'
<1> SUFFICES ASSUME EvidenceInv, [Next]_vars PROVE EvidenceInv'
  OBVIOUS
<1>1. ASSUME NEW h \in Helpers, Proceed(h) PROVE EvidenceInv'
  BY <1>1, ConnectPreserves, ApplyPreserves, RollbackPreserves, UndoPreserves, LifecyclePreserves
     DEF Proceed
<1>2. CASE UNCHANGED vars
  BY <1>2, RestPreserves DEF vars, EvidenceInv, TypeOK, InstalledIsThere
<1>3. CASE Next
  BY <1>1, <1>3, AcquirePreserves, LifecyclePreserves, EnvironmentPreserves DEF Next
<1> QED
  BY <1>2, <1>3

\* Every reachable state has the types of TypeOK: in particular the kernel's
\* table only ever holds routes the plan can name.
THEOREM TypeCorrect == Spec => []TypeOK
<1>1. EvidenceInv => TypeOK
  BY DEF EvidenceInv
<1> QED
  BY <1>1, EvidenceInit, EvidenceStep, PTL DEF Spec

\* Write-ahead for every number of sessions, helpers, users and servers and
\* both policies: whatever fails, dies, reboots or interferes, each route a
\* session has installed is recorded live in that session's journal on disk.
THEOREM WriteAhead == Spec => []RoutesHaveEvidence
<1>1. EvidenceInv => RoutesHaveEvidence
  BY DEF EvidenceInv
<1> QED
  BY <1>1, EvidenceInit, EvidenceStep, PTL DEF Spec

-----------------------------------------------------------------------------
(* The contract of a session, for every owner, and the forward motion of   *)
(* the journals on disk.                                                   *)

\* What the session of one operation may go through in one step: from the
\* record r and the stage a to the record q and the stage b.
Permitted(r, a, q, b) ==
    \/ q = r /\ b = a
    \/ /\ a \in {"connect", "rollback"} /\ b \in {a, "rollback", "failed"}
       /\ \/ r = "none" /\ q = "open" /\ a = "connect"
          \/ r = "open" /\ q \in {"live", "undone"}
          \/ r = "live" /\ q = "undone"
    \/ q = r /\ a = "connect" /\ b = "rollback"
    \/ a = "rollback" /\ b \in {"clean", "failed"} /\ r \in {"open", "undone"} /\ q = "none"
    \/ q = r /\ a \in {"connect", "rollback"} /\ b = "failed"
    \/ q = r /\ a = "connect" /\ b = "connected" /\ r = "live"
    \/ q = r /\ a = "rollback" /\ b = "clean" /\ r = "none"

\* A step that moves one owner's session as permitted is a step of that
\* owner's contract.
LEMMA PermittedStep ==
    ASSUME NEW u \in Users, NEW h \in Helpers, NEW s \in Sessions,
           OwnerOf[s] = u,
           lock[u] = h, lock'[u] = h,
           helper[h].sess = s, helper'[h].sess = s,
           \A t \in Sessions \ {s} : disk'[t] = disk[t],
           Permitted(RecordOf(disk[s]), StageOf(helper[h]),
                     RecordOf(disk'[s]), StageOf(helper'[h]))
    PROVE  Contract(u)!ContractNext \/ UNCHANGED Contract(u)!contract
<1> DEFINE r == RecordOf(disk[s])
           a == StageOf(helper[h])
           q == RecordOf(disk'[s])
           b == StageOf(helper'[h])
<1>1. h # NoHelper /\ s \in SessionsOf(u)
  BY HelperAssumption DEF SessionsOf
<1>2. /\ WorkOf(u) = [by |-> h, sess |-> s, stage |-> a]
      /\ WorkOf(u)' = [by |-> h, sess |-> s, stage |-> b]
  BY <1>1 DEF WorkOf
<1>3. RecordsOf(u)' = [RecordsOf(u) EXCEPT ![s] = q] /\ RecordsOf(u)[s] = r
  BY <1>1 DEF RecordsOf, SessionsOf
<1>4. q = r => RecordsOf(u)' = RecordsOf(u)
  BY <1>1, <1>3 DEF RecordsOf
<1>5. \A stage : [WorkOf(u) EXCEPT !.stage = stage] = [by |-> h, sess |-> s, stage |-> stage]
  BY <1>2
<1>6. WorkOf(u).by = h /\ WorkOf(u).sess = s /\ WorkOf(u).stage = a
  BY <1>2
<1> HIDE DEF r, a, q, b
<1>7. CASE q = r /\ b = a
  BY <1>2, <1>4, <1>7 DEF Contract!contract
<1>8. CASE /\ a \in {"connect", "rollback"} /\ b \in {a, "rollback", "failed"}
           /\ \/ r = "none" /\ q = "open" /\ a = "connect"
              \/ r = "open" /\ q \in {"live", "undone"}
              \/ r = "live" /\ q = "undone"
  <2>1. q \in Contract(u)!Later(r)
    BY <1>8 DEF Contract!Later
  <2>2. WorkOf(u)' \in {[WorkOf(u) EXCEPT !.stage = stage] : stage \in {a, "rollback", "failed"}}
    BY <1>2, <1>5, <1>8
  <2>3. Contract(u)!Advance(h)
    BY <1>3, <1>6, <1>8, <2>1, <2>2 DEF Contract!Advance, Contract!Works
  <2> QED
    BY <2>3 DEF Contract!ContractNext, Contract!Operate
<1>9. CASE q = r /\ a = "connect" /\ b = "rollback"
  <2>1. Contract(u)!TurnBack(h)
    BY <1>2, <1>4, <1>5, <1>6, <1>9 DEF Contract!TurnBack, Contract!Works
  <2> QED
    BY <2>1 DEF Contract!ContractNext, Contract!Operate
<1>10. CASE a = "rollback" /\ b \in {"clean", "failed"} /\ r \in {"open", "undone"} /\ q = "none"
  <2>1. Contract(u)!Close(h)
    BY <1>2, <1>3, <1>5, <1>6, <1>10 DEF Contract!Close, Contract!Works
  <2> QED
    BY <2>1 DEF Contract!ContractNext, Contract!Operate
<1>11. CASE /\ q = r
            /\ \/ a \in {"connect", "rollback"} /\ b = "failed"
               \/ a = "connect" /\ b = "connected" /\ r = "live"
               \/ a = "rollback" /\ b = "clean" /\ r = "none"
  <2>1. Contract(u)!Finish(h)
    BY <1>2, <1>3, <1>4, <1>5, <1>6, <1>11 DEF Contract!Finish, Contract!Works, Contract!Finished
  <2> QED
    BY <2>1 DEF Contract!ContractNext, Contract!Operate
<1> QED
  BY <1>7, <1>8, <1>9, <1>10, <1>11 DEF Permitted, r, a, q, b

\* What every step shall do: keep the invariant, keep every owner's contract,
\* and move journals on disk forward.
Faithful ==
    /\ ContractInv'
    /\ \A u \in Users : Contract(u)!ContractNext \/ UNCHANGED Contract(u)!contract
    /\ \A s \in Sessions : PhaseMoves(disk[s], disk'[s])
    /\ \A s \in Sessions : Exists(disk'[s]) => NotAhead(disk[s], disk'[s])

\* The owners whose lock, operation and journals a step leaves alone.
LEMMA UntouchedOwner ==
    ASSUME NEW u \in Users,
           lock'[u] = lock[u],
           lock[u] # NoHelper => helper'[lock[u]] = helper[lock[u]],
           \A t \in SessionsOf(u) : disk'[t] = disk[t]
    PROVE  UNCHANGED Contract(u)!contract
<1>1. WorkOf(u)' = WorkOf(u)
  BY DEF WorkOf
<1>2. RecordsOf(u)' = RecordsOf(u)
  BY DEF RecordsOf, SessionsOf
<1> QED
  BY <1>1, <1>2 DEF Contract!contract

\* Journals that stay as they are do not move.
LEMMA SameJournal ==
    /\ \A j : PhaseMoves(j, j) /\ NotAhead(j, j)
    /\ \A r, a : Permitted(r, a, r, a)
<1>1. \A x : Rank(x) \in Nat
  BY DEF Rank
<1> QED
  BY <1>1 DEF PhaseMoves, NotAhead, Permitted

\* What it takes for a step of one helper inside its transaction: as in
\* HelperStep, only h's own locals and its session's journal matter.
LEMMA OwnMove ==
    ASSUME ContractInv, EvidenceInv',
           NEW h \in Helpers,
           helper[h].pc \in Critical,
           helper'[h].pc \in Critical,
           helper'[h].sess = helper[h].sess,
           \A g \in Helpers \ {h} : helper'[g] = helper[g],
           \A t \in Sessions \ {helper[h].sess} : disk'[t] = disk[t],
           UNCHANGED lock,
           Fresh(helper'[h]),
           InStep(helper'[h], disk'[helper[h].sess]),
           disk'[helper[h].sess].phase # "foreign_conflict",
           PhaseMoves(disk[helper[h].sess], disk'[helper[h].sess]),
           Exists(disk'[helper[h].sess]) => NotAhead(disk[helper[h].sess], disk'[helper[h].sess]),
           Permitted(RecordOf(disk[helper[h].sess]), StageOf(helper[h]),
                     RecordOf(disk'[helper[h].sess]), StageOf(helper'[h]))
    PROVE  Faithful
<1> DEFINE s == helper[h].sess
<1>1. s \in Sessions /\ lock[OwnerOf[s]] = h /\ OwnerOf[s] \in Users
  BY PlanAssumption DEF ContractInv, EvidenceInv, LockHeld
<1>2. \A u \in Users : lock[u] \in Helpers \cup {NoHelper}
  BY DEF ContractInv, EvidenceInv, TypeOK
<1>3. \A g \in Helpers : g # h /\ helper[g].pc \in Critical => helper[g].sess \in Sessions \ {s}
  BY <1>1 DEF ContractInv, EvidenceInv, LockHeld
<1>4. \A u \in Users : u # OwnerOf[s] => lock[u] # h
  BY <1>1 DEF ContractInv, LockOwned
<1>5. LockOwned'
  BY <1>1, <1>2, <1>4 DEF ContractInv, LockOwned
<1>6. PhaseIsSet'
  BY <1>1 DEF ContractInv, PhaseIsSet
<1>7. MemoryInStep'
  <2>1. \A g \in Helpers : Fresh(helper'[g])
    BY DEF ContractInv, MemoryInStep
  <2>2. \A g \in Helpers : helper'[g].pc \in Critical => InStep(helper'[g], disk'[helper'[g].sess])
    BY <1>3 DEF ContractInv, MemoryInStep
  <2> QED
    BY <2>1, <2>2 DEF MemoryInStep
<1>8. ASSUME NEW u \in Users
      PROVE  Contract(u)!ContractNext \/ UNCHANGED Contract(u)!contract
  <2>1. CASE u = OwnerOf[s]
    BY <1>1, <2>1, PermittedStep
  <2>2. CASE u # OwnerOf[s]
    <3>1. lock[u] # NoHelper => helper'[lock[u]] = helper[lock[u]]
      BY <1>2, <1>4, <2>2
    <3>2. \A t \in SessionsOf(u) : disk'[t] = disk[t]
      BY <2>2 DEF SessionsOf
    <3> QED
      BY <3>1, <3>2, UntouchedOwner
  <2> QED
    BY <2>1, <2>2
<1>9. \A t \in Sessions : PhaseMoves(disk[t], disk'[t]) /\ (Exists(disk'[t]) => NotAhead(disk[t], disk'[t]))
  BY <1>1, SameJournal
<1> QED
  BY <1>5, <1>6, <1>7, <1>8, <1>9 DEF Faithful, ContractInv

\* A step that changes only h's locals, and the machine.
LEMMA LocalMove ==
    ASSUME ContractInv, EvidenceInv',
           NEW h \in Helpers, NEW hs,
           helper[h].pc \in Critical,
           hs.pc \in Critical,
           hs.sess = helper[h].sess,
           Local(h, hs),
           UNCHANGED <<disk, lock>>,
           Fresh(hs),
           InStep(hs, disk[helper[h].sess]),
           Permitted(RecordOf(disk[helper[h].sess]), StageOf(helper[h]),
                     RecordOf(disk[helper[h].sess]), StageOf(hs))
    PROVE  Faithful
<1>1. helper[h].sess \in Sessions
  BY DEF ContractInv, EvidenceInv, LockHeld
<1>2. helper'[h] = hs /\ \A g \in Helpers \ {h} : helper'[g] = helper[g]
  BY DEF ContractInv, EvidenceInv, TypeOK, Local
<1>3. disk[helper[h].sess].phase # "foreign_conflict"
  BY <1>1 DEF ContractInv, PhaseIsSet
<1> QED
  BY <1>2, <1>3, SameJournal, OwnMove

\* A step of h that writes journal k, or leaves the file alone, and moves on
\* with hs.
LEMMA WriteMove ==
    ASSUME ContractInv, EvidenceInv',
           NEW h \in Helpers, NEW hs, NEW o,
           helper[h].pc \in Critical,
           hs.pc \in Critical,
           hs.sess = helper[h].sess,
           Local(h, hs),
           Store(h, o),
           UNCHANGED lock,
           Fresh(hs),
           InStep(hs, o.journal),
           o.journal.phase # "foreign_conflict",
           PhaseMoves(disk[helper[h].sess], o.journal),
           Exists(o.journal) => NotAhead(disk[helper[h].sess], o.journal),
           Permitted(RecordOf(disk[helper[h].sess]), StageOf(helper[h]),
                     RecordOf(o.journal), StageOf(hs))
    PROVE  Faithful
<1>1. helper[h].sess \in Sessions
  BY DEF ContractInv, EvidenceInv, LockHeld
<1>2. helper'[h] = hs /\ \A g \in Helpers \ {h} : helper'[g] = helper[g]
  BY DEF ContractInv, EvidenceInv, TypeOK, Local
<1>3. disk'[helper[h].sess] = o.journal /\ \A t \in Sessions \ {helper[h].sess} : disk'[t] = disk[t]
  BY <1>1 DEF ContractInv, EvidenceInv, TypeOK, Store
<1> QED
  BY <1>2, <1>3, OwnMove

\* The stage that the contract sees, by control point.
LEMMA StageFacts ==
    \A hs :
        /\ hs.pc \in {"check", "create", "intent", "apply", "mark", "verify", "connect"} =>
              StageOf(hs) = "connect"
        /\ hs.pc \in {"load", "rollback", "undo", "remove", "restore", "undone", "delete"} =>
              StageOf(hs) = "rollback"
        /\ hs.pc = "release" /\ hs.failed => StageOf(hs) = "failed"
        /\ hs.pc = "release" /\ ~hs.failed =>
              StageOf(hs) = IF hs.journal.phase = "connected" THEN "connected" ELSE "clean"
  BY DEF StageOf

\* Updating a journal forward is permitted while the operation is under way,
\* whether it goes on, turns back or ends with an error.
LEMMA ForwardPermitted ==
    ASSUME NEW old \in Journals, NEW new \in Journals,
           Exists(old), Exists(new), NotAhead(old, new),
           NEW a \in {"connect", "rollback"}, NEW b \in {a, "rollback", "failed"}
    PROVE  Permitted(RecordOf(old), a, RecordOf(new), b)
<1>1. 2 \in Steps
  BY StepFacts
<1>2. /\ old.entries[2] \in {"none", "planned", "applied", "rolled_back"}
      /\ new.entries[2] \in {"none", "planned", "applied", "rolled_back"}
  BY <1>1 DEF Journals, Statuses
<1>3. Rank(old.entries[2]) <= Rank(new.entries[2])
  BY <1>1 DEF NotAhead
<1>4. \A j \in {old, new} :
         \/ RecordOf(j) = "open" /\ j.entries[2] = "none"
         \/ RecordOf(j) = "live" /\ j.entries[2] \in {"planned", "applied"}
         \/ RecordOf(j) = "undone" /\ j.entries[2] = "rolled_back"
  BY <1>2 DEF RecordOf
<1>5. Rank("none") = 0 /\ Rank("planned") = 1 /\ Rank("applied") = 2 /\ Rank("rolled_back") = 3
  BY DEF Rank
<1>6. \/ RecordOf(new) = RecordOf(old)
      \/ RecordOf(old) = "open" /\ RecordOf(new) \in {"live", "undone"}
      \/ RecordOf(old) = "live" /\ RecordOf(new) = "undone"
  BY <1>3, <1>4, <1>5
<1> QED
  BY <1>6 DEF Permitted

\* The write of Connect: j is no step back from the disk, and both the locals
\* it goes on with and the ones it rolls back with fit it.
LEMMA PersistOrRollBackMove ==
    ASSUME ContractInv, EvidenceInv',
           NEW h \in Helpers, NEW j \in Journals, NEW ok \in HelperStates,
           helper[h].pc \in Critical,
           StageOf(helper[h]) = "connect",
           ok.pc \in Critical,
           StageOf(ok) = "connect",
           ok.sess = helper[h].sess,
           PersistOrRollBack(h, j, ok),
           disk[helper[h].sess].phase = "connecting",
           j.phase = "connecting",
           NotAhead(disk[helper[h].sess], j),
           Fresh([ok EXCEPT !.journal = j]),
           InStep([ok EXCEPT !.journal = j], j)
    PROVE  Faithful
<1> DEFINE s == helper[h].sess
           good == [ok EXCEPT !.journal = j]
           bad == [helper[h] EXCEPT !.pc = "rollback", !.journal = j]
<1>1. s \in Sessions /\ disk[s] \in Journals /\ helper[h] \in HelperStates
  BY DEF ContractInv, EvidenceInv, LockHeld, TypeOK
<1>2. PICK o \in UpdateOutcomes(disk[s], j) : Store(h, o) /\ Local(h, IF o.ok THEN good ELSE bad)
  BY DEF PersistOrRollBack
<1>3. o.journal \in {disk[s], j} /\ (o.ok => o.journal = j)
  BY <1>2, StoreFacts
<1>4. /\ good.pc = ok.pc /\ good.sess = s /\ good.journal = j /\ good.failed = ok.failed
      /\ bad.pc = "rollback" /\ bad.sess = s /\ bad.journal = j
  BY <1>1 DEF HelperStates
<1>5. StageOf(good) = "connect" /\ StageOf(bad) = "rollback"
  <2>1. ok.pc \in {"check", "create", "intent", "apply", "mark", "verify", "connect"}
    BY DEF StageOf
  <2> QED
    BY <1>4, <2>1, StageFacts
<1>6. NotAhead(j, j) /\ NotAhead(disk[s], disk[s])
  BY SameJournal
<1>7. PhaseMoves(disk[s], o.journal) /\ NotAhead(disk[s], o.journal) /\ NotAhead(o.journal, j)
  BY <1>3, <1>6 DEF PhaseMoves
<1>8. Exists(disk[s]) /\ Exists(o.journal) /\ o.journal \in Journals /\ o.journal.phase = "connecting"
  BY <1>1, <1>3 DEF Exists
<1>9. \A b \in {"connect", "rollback"} : Permitted(RecordOf(disk[s]), "connect", RecordOf(o.journal), b)
  BY <1>1, <1>7, <1>8, ForwardPermitted
<1>10. UNCHANGED lock
  BY DEF PersistOrRollBack
<1>11. CASE o.ok
  <2>1. Local(h, good) /\ o.journal = j
    BY <1>2, <1>3, <1>11
  <2>2. Fresh(good) /\ InStep(good, j)
    OBVIOUS
  <2> HIDE DEF good
  <2> QED
    BY <1>2, <1>4, <1>5, <1>7, <1>8, <1>9, <1>10, <2>1, <2>2, WriteMove
<1>12. CASE ~o.ok
  <2>1. Local(h, bad)
    BY <1>2, <1>12
  <2>2. bad.pc \in Critical /\ Fresh(bad) /\ InStep(bad, o.journal)
    BY <1>4, <1>7, <1>8 DEF Critical, ControlPoints, Fresh, InStep, Undoable
  <2> HIDE DEF bad
  <2> QED
    BY <1>2, <1>4, <1>5, <1>7, <1>8, <1>9, <1>10, <2>1, <2>2, WriteMove
<1> QED
  BY <1>11, <1>12

-----------------------------------------------------------------------------
(* One lemma for each group of actions.                                    *)

\* The steps of Connect that read, or write the journal.
LEMMA ConnectMoves ==
    ASSUME ContractInv, EvidenceInv', NEW h \in Helpers,
           CheckAndSnapshot(h) \/ CreateJournal(h) \/ RecordIntent(h)
             \/ MarkApplied(h) \/ Verify(h)
    PROVE  Faithful
<1> DEFINE s == helper[h].sess
           j == helper[h].journal
           i == helper[h].index
           stop == [helper[h] EXCEPT !.pc = "release", !.failed = TRUE]
<1>1. /\ helper[h].pc \in {"check", "create", "intent", "mark", "verify"}
      /\ helper[h].pc \in Critical
  BY DEF CheckAndSnapshot, CreateJournal, RecordIntent, MarkApplied, Verify, At, Critical, ControlPoints
<1>2. /\ s \in Sessions /\ disk[s] \in Journals /\ helper[h] \in HelperStates
      /\ j \in Journals /\ i \in 0..NumSteps
  BY <1>1 DEF ContractInv, EvidenceInv, LockHeld, TypeOK, HelperStates
<1>3. Positioned(helper[h]) /\ Honest(disk[s])
  BY <1>2 DEF ContractInv, EvidenceInv, LoopPosition, DiskIsHonest
<1>4. Fresh(helper[h]) /\ InStep(helper[h], disk[s])
  BY <1>1 DEF ContractInv, MemoryInStep
<1>5. StageOf(helper[h]) = "connect"
  BY <1>1, StageFacts
<1>6. /\ stop.pc = "release" /\ stop.sess = s /\ stop.failed /\ stop.pc \in Critical
      /\ Fresh(stop) /\ StageOf(stop) = "failed"
      /\ \A k : InStep(stop, k)
  <2>1. stop.pc = "release" /\ stop.sess = s /\ stop.failed
    BY <1>2 DEF HelperStates
  <2> HIDE DEF stop
  <2> QED
    BY <2>1, StageFacts DEF Critical, ControlPoints, Fresh, InStep
<1>7. CASE CheckAndSnapshot(h)
  <2> DEFINE go == [helper[h] EXCEPT !.pc = "create", !.journal = NewJournal]
  <2>1. NewJournal.phase = "connecting" /\ \A k \in Steps : NewJournal.entries[k] = "none"
    BY DEF NewJournal, AbsentJournal
  <2>2. helper[h].pc = "check" /\ ~helper[h].failed
    BY <1>4, <1>7 DEF CheckAndSnapshot, At, Fresh
  <2>3. go.pc = "create" /\ go.sess = s /\ go.journal = NewJournal /\ ~go.failed
    BY <1>2, <2>2 DEF HelperStates
  <2>4. Local(h, go) \/ Local(h, stop)
    BY <1>7 DEF CheckAndSnapshot
  <2>5. UNCHANGED <<disk, lock>>
    BY <1>7 DEF CheckAndSnapshot
  <2> HIDE DEF go, stop
  <2>6. go.pc \in Critical /\ Fresh(go) /\ InStep(go, disk[s]) /\ StageOf(go) = "connect"
    BY <2>1, <2>3, StageFacts DEF Critical, ControlPoints, Fresh, InStep
  <2>7. \A r : Permitted(r, "connect", r, "connect") /\ Permitted(r, "connect", r, "failed")
    BY DEF Permitted
  <2> QED
    BY <1>1, <1>5, <1>6, <2>3, <2>4, <2>5, <2>6, <2>7, LocalMove
<1>8. CASE CreateJournal(h)
  <2> DEFINE go == [helper[h] EXCEPT !.pc = "intent", !.index = 1]
  <2>1. /\ helper[h].pc = "create" /\ ~helper[h].failed
        /\ j.phase = "connecting" /\ \A k \in Steps : j.entries[k] = "none"
    BY <1>4, <1>8 DEF CreateJournal, At, InStep
  <2>2. PICK o \in CreateOutcomes(disk[s], j) : Store(h, o) /\ Local(h, IF o.ok THEN go ELSE stop)
    BY <1>8 DEF CreateJournal
  <2>3. \/ ~o.ok /\ o.journal = disk[s]
        \/ o.journal = j /\ ~Exists(disk[s])
    BY <2>2, StoreFacts
  <2>4. UNCHANGED lock
    BY <1>8 DEF CreateJournal
  <2>5. go.pc = "intent" /\ go.sess = s /\ go.index = 1 /\ go.journal = j /\ ~go.failed
    BY <1>2, <2>1 DEF HelperStates
  <2> HIDE DEF go, stop
  <2>6. CASE o.journal = disk[s] /\ ~o.ok
    <3>1. disk[s].phase # "foreign_conflict"
      BY <1>2 DEF ContractInv, PhaseIsSet
    <3>2. \A r : Permitted(r, "connect", r, "failed")
      BY DEF Permitted
    <3> QED
      BY <1>1, <1>5, <1>6, <2>2, <2>4, <2>6, <3>1, <3>2, SameJournal, WriteMove
  <2>7. CASE o.journal = j /\ ~Exists(disk[s])
    <3>1. disk[s].phase = "absent" /\ \A k \in Steps : disk[s].entries[k] = "none"
      BY <1>3, <2>7 DEF Honest, Exists
    <3>2. PhaseMoves(disk[s], j)
      BY <2>1, <3>1 DEF PhaseMoves
    <3>3. NotAhead(disk[s], j)
      BY <2>1, <3>1, SameJournal DEF NotAhead
    <3>4. RecordOf(disk[s]) = "none" /\ RecordOf(j) = "open"
      BY <2>1, <2>7, StepFacts DEF RecordOf, Exists
    <3>5. Permitted("none", "connect", "open", "connect") /\ Permitted("none", "connect", "open", "failed")
      BY DEF Permitted
    <3>6. go.pc \in Critical /\ Fresh(go) /\ StageOf(go) = "connect" /\ InStep(go, j)
      BY <2>1, <2>5, StageFacts, StepFacts DEF Critical, ControlPoints, Fresh, InStep
    <3> QED
      BY <1>1, <1>5, <1>6, <2>1, <2>2, <2>4, <2>5, <2>7, <3>2, <3>3, <3>4, <3>5, <3>6, WriteMove
  <2> QED
    BY <2>3, <2>6, <2>7
<1>9. CASE RecordIntent(h)
  <2> DEFINE k == [j EXCEPT !.entries[i] = "planned"]
             go == [helper[h] EXCEPT !.pc = "apply"]
             next == [go EXCEPT !.journal = k]
  <2>1. /\ helper[h].pc = "intent" /\ i \in Steps
        /\ PersistOrRollBack(h, k, go)
    BY <1>3, <1>9 DEF RecordIntent, At, Positioned
  <2>2. /\ ~helper[h].failed /\ j.phase = "connecting" /\ disk[s].phase = "connecting"
        /\ j.entries = disk[s].entries /\ j.entries[i] = "none"
        /\ \A n \in Steps : n > i => j.entries[n] = "none"
    BY <1>4, <2>1 DEF InStep
  <2>3. k \in Journals /\ k.phase = j.phase /\ k.entries = [j.entries EXCEPT ![i] = "planned"]
    BY <1>2 DEF Journals, Statuses
  <2>4. /\ k.entries[i] = "planned"
        /\ \A n \in Steps : n # i => k.entries[n] = j.entries[n]
    BY <1>2, <2>1, <2>3 DEF Journals
  <2>5. NotAhead(disk[s], k)
    <3>1. Rank("none") <= Rank("planned") /\ \A x : Rank(x) <= Rank(x)
      BY DEF Rank
    <3> QED
      BY <2>2, <2>4, <3>1 DEF NotAhead
  <2>6. go \in HelperStates /\ go.pc = "apply" /\ go.sess = s
    BY <1>2 DEF HelperStates, ControlPoints
  <2>7. next.pc = "apply" /\ next.index = i /\ next.journal = k /\ ~next.failed
    BY <1>2, <2>2 DEF HelperStates
  <2>8. go.pc \in Critical /\ StageOf(go) = "connect"
    BY <2>6, StageFacts DEF Critical, ControlPoints
  <2>9. Fresh(next) /\ InStep(next, k)
    <3>1. k.phase = "connecting" /\ k.entries[i] = "planned"
      BY <2>2, <2>3, <2>4
    <3>2. \A n \in Steps : n > i => k.entries[n] = "none"
      BY <1>2, <2>2, <2>4, StepFacts
    <3> HIDE DEF next, k, go, i
    <3> QED
      BY <2>7, <3>1, <3>2 DEF Fresh, InStep
  <2> HIDE DEF k, go
  <2> QED
    BY <1>1, <1>5, <2>1, <2>2, <2>3, <2>5, <2>6, <2>8, <2>9, PersistOrRollBackMove
<1>10. CASE MarkApplied(h)
  <2> DEFINE k == [j EXCEPT !.entries[i] = "applied"]
             go == IF i = NumSteps THEN [helper[h] EXCEPT !.pc = "verify"]
                                   ELSE [helper[h] EXCEPT !.pc = "intent", !.index = i + 1]
             next == [go EXCEPT !.journal = k]
  <2>1. /\ helper[h].pc = "mark" /\ i \in Steps
        /\ PersistOrRollBack(h, k, go)
    BY <1>3, <1>10 DEF MarkApplied, At, Positioned
  <2>2. /\ ~helper[h].failed /\ j.phase = "connecting" /\ disk[s].phase = "connecting"
        /\ j.entries = disk[s].entries /\ j.entries[i] = "planned"
        /\ \A n \in Steps : n > i => j.entries[n] = "none"
    BY <1>4, <2>1 DEF InStep
  <2>3. k \in Journals /\ k.phase = j.phase /\ k.entries = [j.entries EXCEPT ![i] = "applied"]
    BY <1>2 DEF Journals, Statuses
  <2>4. /\ k.entries[i] = "applied"
        /\ \A n \in Steps : n # i => k.entries[n] = j.entries[n]
    BY <1>2, <2>1, <2>3 DEF Journals
  <2>5. NotAhead(disk[s], k)
    <3>1. Rank("planned") <= Rank("applied") /\ \A x : Rank(x) <= Rank(x)
      BY DEF Rank
    <3> QED
      BY <2>2, <2>4, <3>1 DEF NotAhead
  <2>6. /\ go \in HelperStates /\ go.sess = s /\ ~go.failed
        /\ \/ go.pc = "verify"
           \/ go.pc = "intent" /\ go.index = i + 1 /\ i + 1 \in Steps
    <3>1. i # NumSteps => i + 1 \in 0..NumSteps /\ i + 1 \in Steps
      BY <2>1, StepFacts, SMTT(60)
    <3> HIDE DEF i
    <3> QED
      BY <1>2, <2>2, <3>1 DEF HelperStates, ControlPoints
  <2>7. next.pc = go.pc /\ next.index = go.index /\ next.journal = k /\ next.failed = go.failed
    BY <2>6 DEF HelperStates
  <2>8. go.pc \in Critical /\ StageOf(go) = "connect"
    BY <2>6, StageFacts DEF Critical, ControlPoints
  <2>9. Fresh(next) /\ InStep(next, k)
    <3>1. \A n \in Steps : n >= i + 1 => k.entries[n] = "none"
      BY <1>2, <2>1, <2>2, <2>4, StepFacts
    <3>2. \A n \in Steps : n > i + 1 => k.entries[n] = "none"
      BY <1>2, <3>1, StepFacts
    <3>3. i + 1 \in Steps => k.entries[i + 1] = "none"
      BY <1>2, <3>1, StepFacts
    <3>4. k.phase = "connecting"
      BY <2>2, <2>3
    <3> HIDE DEF next, k, go, i
    <3>5. CASE next.pc = "verify" /\ ~next.failed
      BY <2>7, <3>4, <3>5 DEF Fresh, InStep
    <3>6. CASE next.pc = "intent" /\ next.index = i + 1 /\ i + 1 \in Steps /\ ~next.failed
      BY <2>7, <3>2, <3>3, <3>4, <3>6 DEF Fresh, InStep
    <3> QED
      BY <2>6, <2>7, <3>5, <3>6
  <2> HIDE DEF k, go
  <2> QED
    BY <1>1, <1>5, <2>1, <2>2, <2>3, <2>5, <2>6, <2>8, <2>9, PersistOrRollBackMove
<1>11. CASE Verify(h)
  <2> DEFINE go == [helper[h] EXCEPT !.pc = "connect"]
             back == [helper[h] EXCEPT !.pc = "rollback"]
  <2>1. /\ ~helper[h].failed /\ j.phase = "connecting" /\ disk[s].phase = "connecting"
        /\ j.entries = disk[s].entries
    BY <1>4, <1>11 DEF Verify, At, InStep
  <2>2. /\ go.pc = "connect" /\ go.sess = s /\ go.journal = j /\ ~go.failed
        /\ back.pc = "rollback" /\ back.sess = s /\ back.journal = j
    BY <1>2, <2>1 DEF HelperStates
  <2>3. Local(h, go) \/ Local(h, back)
    BY <1>11 DEF Verify
  <2>4. UNCHANGED <<disk, lock>>
    BY <1>11 DEF Verify
  <2> HIDE DEF go, back
  <2>5. NotAhead(disk[s], j)
    BY <2>1, SameJournal DEF NotAhead
  <2>6. /\ go.pc \in Critical /\ Fresh(go) /\ InStep(go, disk[s]) /\ StageOf(go) = "connect"
        /\ back.pc \in Critical /\ Fresh(back) /\ InStep(back, disk[s]) /\ StageOf(back) = "rollback"
    BY <2>1, <2>2, <2>5, StageFacts DEF Critical, ControlPoints, Fresh, InStep, Undoable
  <2>7. \A r : Permitted(r, "connect", r, "connect") /\ Permitted(r, "connect", r, "rollback")
    BY DEF Permitted
  <2> QED
    BY <1>1, <1>5, <2>2, <2>3, <2>4, <2>6, <2>7, LocalMove
<1> QED
  BY <1>7, <1>8, <1>9, <1>10, <1>11

\* The write that ends Connect: the journal on disk has the device entry
\* already, so a connection is only reported when there is one to undo.
LEMMA SetConnectedMoves ==
    ASSUME ContractInv, EvidenceInv', NEW h \in Helpers, SetConnected(h)
    PROVE  Faithful
<1> DEFINE s == helper[h].sess
           j == helper[h].journal
           k == [j EXCEPT !.phase = "connected"]
           good == [[helper[h] EXCEPT !.pc = "release", !.resident = TRUE] EXCEPT !.journal = k]
           bad == [helper[h] EXCEPT !.pc = "rollback", !.journal = k]
<1>1. helper[h].pc = "connect" /\ helper[h].pc \in Critical
  BY DEF SetConnected, At, Critical, ControlPoints
<1>2. s \in Sessions /\ disk[s] \in Journals /\ helper[h] \in HelperStates /\ j \in Journals
  BY <1>1 DEF ContractInv, EvidenceInv, LockHeld, TypeOK, HelperStates
<1>3. /\ ~helper[h].failed /\ disk[s].phase = "connecting"
      /\ j.entries = disk[s].entries
  BY <1>1 DEF ContractInv, MemoryInStep, InStep
<1>4. k \in Journals /\ k.phase = "connected" /\ k.entries = disk[s].entries
  BY <1>2, <1>3 DEF Journals, Phases
<1>5. PICK o \in UpdateOutcomes(disk[s], k) : Store(h, o) /\ Local(h, IF o.ok THEN good ELSE bad)
  BY DEF SetConnected, PersistOrRollBack
<1>6. /\ o.journal \in {disk[s], k}
      /\ o.ok => o.journal = k /\ Validate(k)
  BY <1>5, StoreFacts
<1>7. /\ good.pc = "release" /\ good.sess = s /\ good.journal = k /\ ~good.failed
      /\ bad.pc = "rollback" /\ bad.sess = s /\ bad.journal = k
  BY <1>2, <1>3 DEF HelperStates
<1>8. UNCHANGED lock
  BY DEF SetConnected, PersistOrRollBack
<1>9. o.journal.entries = disk[s].entries /\ o.journal.phase \in {"connecting", "connected"}
  BY <1>3, <1>4, <1>6
<1>10. /\ PhaseMoves(disk[s], o.journal)
       /\ NotAhead(disk[s], o.journal) /\ NotAhead(o.journal, k)
  <2>1. PhaseMoves(disk[s], o.journal)
    BY <1>3, <1>9 DEF PhaseMoves, AllowedTransition
  <2> QED
    BY <1>4, <1>9, <2>1, SameJournal DEF NotAhead
<1>11. RecordOf(o.journal) = RecordOf(disk[s])
  <2>1. disk[s].entries[2] \in {"none", "planned", "applied", "rolled_back"}
    BY <1>2, StepFacts DEF Journals, Statuses
  <2>2. Exists(o.journal) /\ Exists(disk[s])
    BY <1>3, <1>9 DEF Exists
  <2> QED
    BY <1>9, <2>1, <2>2 DEF RecordOf
<1>12. o.ok => RecordOf(disk[s]) = "live"
  BY <1>3, <1>4, <1>6, StepFacts DEF Validate, RecordOf, Exists
<1>13. StageOf(helper[h]) = "connect"
  BY <1>1, StageFacts
<1> HIDE DEF k, good, bad
<1>14. CASE o.ok
  <2>1. good.pc \in Critical /\ Fresh(good) /\ InStep(good, o.journal) /\ StageOf(good) = "connected"
    BY <1>4, <1>7, StageFacts DEF Critical, ControlPoints, Fresh, InStep
  <2>2. Permitted("live", "connect", "live", "connected")
    BY DEF Permitted
  <2> QED
    BY <1>1, <1>5, <1>7, <1>8, <1>9, <1>10, <1>11, <1>12, <1>13, <1>14, <2>1, <2>2, WriteMove
<1>15. CASE ~o.ok
  <2>1. bad.pc \in Critical /\ Fresh(bad) /\ InStep(bad, o.journal) /\ StageOf(bad) = "rollback"
    BY <1>4, <1>7, <1>9, <1>10, StageFacts DEF Critical, ControlPoints, Fresh, InStep, Undoable
  <2>2. \A r : Permitted(r, "connect", r, "rollback")
    BY DEF Permitted
  <2> QED
    BY <1>1, <1>5, <1>7, <1>8, <1>9, <1>10, <1>11, <1>13, <1>15, <2>1, <2>2, WriteMove
<1> QED
  BY <1>14, <1>15

\* The steps of Connect that change the machine leave the disk alone.
LEMMA ApplyMoves ==
    ASSUME ContractInv, EvidenceInv', NEW h \in Helpers,
           AddRoute(h) \/ CreateDevice(h) \/ ApplyDNS(h)
    PROVE  Faithful
<1> DEFINE s == helper[h].sess
           j == helper[h].journal
           i == helper[h].index
           bad == [helper[h] EXCEPT !.pc = "rollback"]
           mark == [helper[h] EXCEPT !.pc = "mark"]
           up == [helper[h] EXCEPT !.pc = "mark", !.journal.device = h]
<1>1. helper[h].pc = "apply" /\ helper[h].pc \in Critical
  BY DEF AddRoute, CreateDevice, ApplyDNS, At, Critical, ControlPoints
<1>2. helper[h] \in HelperStates /\ j \in Journals
  BY DEF ContractInv, EvidenceInv, TypeOK, HelperStates
<1>3. /\ ~helper[h].failed /\ j.phase = "connecting" /\ disk[s].phase = "connecting"
      /\ j.entries = disk[s].entries /\ j.entries[i] = "planned"
      /\ \A n \in Steps : n > i => j.entries[n] = "none"
  BY <1>1 DEF ContractInv, MemoryInStep, InStep
<1>4. /\ bad.pc = "rollback" /\ bad.sess = s /\ bad.journal = j
      /\ mark.pc = "mark" /\ mark.sess = s /\ mark.journal = j /\ mark.index = i /\ ~mark.failed
      /\ up.pc = "mark" /\ up.sess = s /\ up.index = i /\ ~up.failed
      /\ up.journal.entries = j.entries /\ up.journal.phase = j.phase
  BY <1>2, <1>3 DEF HelperStates, Journals
<1>5. Local(h, bad) \/ Local(h, mark) \/ Local(h, up)
  BY DEF AddRoute, CreateDevice, ApplyDNS
<1>6. UNCHANGED <<disk, lock>>
  BY DEF AddRoute, CreateDevice, ApplyDNS
<1> HIDE DEF bad, mark, up, i
<1>7. bad.pc \in Critical /\ Fresh(bad) /\ StageOf(bad) = "rollback" /\ InStep(bad, disk[s])
  <2>1. NotAhead(disk[s], j)
    BY <1>3, SameJournal DEF NotAhead
  <2> QED
    BY <1>3, <1>4, <2>1, StageFacts DEF Critical, ControlPoints, Fresh, InStep, Undoable
<1>8. mark.pc \in Critical /\ Fresh(mark) /\ StageOf(mark) = "connect" /\ InStep(mark, disk[s])
  BY <1>3, <1>4, StageFacts DEF Critical, ControlPoints, Fresh, InStep
<1>9. up.pc \in Critical /\ Fresh(up) /\ StageOf(up) = "connect" /\ InStep(up, disk[s])
  BY <1>3, <1>4, StageFacts DEF Critical, ControlPoints, Fresh, InStep
<1>10. StageOf(helper[h]) = "connect"
  BY <1>1, StageFacts
<1>11. \A r : Permitted(r, "connect", r, "connect") /\ Permitted(r, "connect", r, "rollback")
  BY DEF Permitted
<1> QED
  BY <1>1, <1>4, <1>5, <1>6, <1>7, <1>8, <1>9, <1>10, <1>11, LocalMove

\* The write of rollback: a failure is remembered, so that a rollback without
\* one has its phase on disk.
LEMMA PersistAndGoOnMove ==
    ASSUME ContractInv, EvidenceInv',
           NEW h \in Helpers, NEW k \in Journals, NEW hs \in HelperStates,
           helper[h].pc \in Critical,
           StageOf(helper[h]) = "rollback",
           hs.pc \in {"undo", "release"},
           hs.pc = "release" => hs.failed,
           hs.sess = helper[h].sess,
           PersistAndGoOn(h, k, hs),
           disk[helper[h].sess].phase \in Undoable,
           k.phase \in {"disconnecting", "rollback_required"},
           hs.pc = "undo" => k.phase = "disconnecting",
           NotAhead(disk[helper[h].sess], k)
    PROVE  Faithful
<1> DEFINE s == helper[h].sess
           next(o) == [hs EXCEPT !.journal = k, !.failed = hs.failed \/ ~o.ok]
<1>1. s \in Sessions /\ disk[s] \in Journals
  BY DEF ContractInv, EvidenceInv, LockHeld, TypeOK
<1>2. PICK o \in UpdateOutcomes(disk[s], k) : Store(h, o) /\ Local(h, next(o))
  BY DEF PersistAndGoOn
<1>3. o.journal \in {disk[s], k} /\ (o.ok => o.journal = k)
  BY <1>2, StoreFacts
<1>4. /\ next(o).pc = hs.pc /\ next(o).sess = s /\ next(o).journal = k
      /\ next(o).failed <=> hs.failed \/ ~o.ok
  BY DEF HelperStates
<1>5. UNCHANGED lock
  BY DEF PersistAndGoOn
<1> HIDE DEF next
<1>6. /\ PhaseMoves(disk[s], o.journal) /\ NotAhead(disk[s], o.journal) /\ NotAhead(o.journal, k)
      /\ o.journal.phase \in Undoable /\ o.journal \in Journals
  <2>1. PhaseMoves(disk[s], o.journal)
    BY <1>3 DEF PhaseMoves, AllowedTransition, Undoable
  <2>2. NotAhead(disk[s], o.journal) /\ NotAhead(o.journal, k)
    BY <1>3, SameJournal
  <2> QED
    BY <1>1, <1>3, <2>1, <2>2 DEF Undoable
<1>7. Exists(disk[s]) /\ Exists(o.journal) /\ o.journal.phase # "foreign_conflict"
  BY <1>6 DEF Exists, Undoable
<1>8. StageOf(next(o)) = IF hs.pc = "undo" THEN "rollback" ELSE "failed"
  BY <1>4, StageFacts
<1>9. Permitted(RecordOf(disk[s]), "rollback", RecordOf(o.journal), StageOf(next(o)))
  BY <1>1, <1>6, <1>7, <1>8, ForwardPermitted
<1>10. next(o).pc \in Critical /\ Fresh(next(o))
  BY <1>4 DEF Critical, ControlPoints, Fresh
<1>11. InStep(next(o), o.journal)
  BY <1>3, <1>4, <1>6 DEF InStep
<1> QED
  BY <1>2, <1>4, <1>5, <1>6, <1>7, <1>9, <1>10, <1>11, WriteMove

\* The steps of Disconnect and rollback that read, or write the journal.
LEMMA RollbackMoves ==
    ASSUME ContractInv, EvidenceInv', NEW h \in Helpers,
           LoadJournal(h) \/ BeginRollback(h) \/ UndoSkip(h) \/ PersistUndo(h)
             \/ FinishRollback(h) \/ DeleteJournal(h)
    PROVE  Faithful
<1> DEFINE s == helper[h].sess
           j == helper[h].journal
           i == helper[h].index
           return(b) == [helper[h] EXCEPT !.pc = "release", !.failed = b]
<1>1. /\ helper[h].pc \in {"load", "rollback", "undo", "undone", "delete"}
      /\ helper[h].pc \in Critical
  BY DEF LoadJournal, BeginRollback, UndoSkip, PersistUndo, FinishRollback, DeleteJournal,
         At, Critical, ControlPoints
<1>2. /\ s \in Sessions /\ disk[s] \in Journals /\ helper[h] \in HelperStates
      /\ j \in Journals /\ i \in 0..NumSteps
  BY <1>1 DEF ContractInv, EvidenceInv, LockHeld, TypeOK, HelperStates
<1>3. Fresh(helper[h]) /\ InStep(helper[h], disk[s])
  BY <1>1 DEF ContractInv, MemoryInStep
<1>4. StageOf(helper[h]) = "rollback"
  BY <1>1, StageFacts
<1>5. disk[s].phase # "foreign_conflict" /\ Honest(disk[s])
  BY <1>2 DEF ContractInv, PhaseIsSet, EvidenceInv, DiskIsHonest
<1>6. ASSUME NEW b \in BOOLEAN
      PROVE  /\ return(b).pc = "release" /\ return(b).sess = s /\ return(b).journal = j
             /\ return(b).failed = b
             /\ return(b).pc \in Critical /\ Fresh(return(b)) /\ \A k : InStep(return(b), k)
  <2>1. /\ return(b).pc = "release" /\ return(b).sess = s /\ return(b).journal = j
        /\ return(b).failed = b
    BY <1>2 DEF HelperStates
  <2> HIDE DEF return
  <2> QED
    BY <2>1 DEF Critical, ControlPoints, Fresh, InStep
<1>7. StageOf(return(TRUE)) = "failed"
  BY <1>6, StageFacts
<1>8. \A r : Permitted(r, "rollback", r, "rollback") /\ Permitted(r, "rollback", r, "failed")
  BY DEF Permitted
<1>9. CASE LoadJournal(h)
  <2> DEFINE roll == [helper[h] EXCEPT !.pc = "rollback", !.journal = disk[s]]
             del == [helper[h] EXCEPT !.pc = "delete", !.journal = disk[s]]
             stop == [helper[h] EXCEPT !.pc = "release"]
  <2>1. ~helper[h].failed /\ j.phase = "absent"
    BY <1>3, <1>9 DEF LoadJournal, At, Fresh, AbsentJournal
  <2>2. /\ roll.pc = "rollback" /\ roll.sess = s /\ roll.journal = disk[s]
        /\ del.pc = "delete" /\ del.sess = s /\ del.journal = disk[s]
        /\ stop.pc = "release" /\ stop.sess = s /\ stop.journal = j /\ ~stop.failed
    BY <1>2, <2>1 DEF HelperStates
  <2>3. \/ Local(h, roll) /\ disk[s].phase \notin {"absent", "disconnected"}
        \/ Local(h, del) /\ disk[s].phase = "disconnected"
        \/ Local(h, stop) /\ disk[s].phase = "absent"
        \/ Local(h, return(TRUE))
    BY <1>9 DEF LoadJournal
  <2>4. UNCHANGED <<disk, lock>>
    BY <1>9 DEF LoadJournal
  <2> HIDE DEF roll, del, stop, return
  <2>5. CASE Local(h, roll) /\ disk[s].phase \notin {"absent", "disconnected"}
    <3>1. disk[s].phase \in Undoable
      BY <1>2, <1>5, <2>5 DEF Journals, Phases, Undoable
    <3>2. roll.pc \in Critical /\ Fresh(roll) /\ InStep(roll, disk[s]) /\ StageOf(roll) = "rollback"
      BY <2>2, <3>1, SameJournal, StageFacts DEF Critical, ControlPoints, Fresh, InStep
    <3> QED
      BY <1>1, <1>4, <1>8, <2>2, <2>4, <2>5, <3>2, LocalMove
  <2>6. CASE Local(h, del) /\ disk[s].phase = "disconnected"
    <3>1. del.pc \in Critical /\ Fresh(del) /\ InStep(del, disk[s]) /\ StageOf(del) = "rollback"
      BY <2>2, <2>6, StageFacts DEF Critical, ControlPoints, Fresh, InStep
    <3> QED
      BY <1>1, <1>4, <1>8, <2>2, <2>4, <2>6, <3>1, LocalMove
  <2>7. CASE Local(h, stop) /\ disk[s].phase = "absent"
    <3>1. stop.pc \in Critical /\ Fresh(stop) /\ InStep(stop, disk[s]) /\ StageOf(stop) = "clean"
      BY <2>1, <2>2, StageFacts DEF Critical, ControlPoints, Fresh, InStep
    <3>2. RecordOf(disk[s]) = "none"
      BY <2>7 DEF RecordOf, Exists
    <3>3. Permitted("none", "rollback", "none", "clean")
      BY DEF Permitted
    <3> QED
      BY <1>1, <1>4, <2>2, <2>4, <2>7, <3>1, <3>2, <3>3, LocalMove
  <2>8. CASE Local(h, return(TRUE))
    BY <1>1, <1>4, <1>6, <1>7, <1>8, <2>4, <2>8, LocalMove
  <2> QED
    BY <2>3, <2>5, <2>6, <2>7, <2>8
<1>10. CASE BeginRollback(h)
  <2> DEFINE k == [j EXCEPT !.phase = "disconnecting"]
             undo == [helper[h] EXCEPT !.pc = "undo", !.index = NumSteps, !.failed = FALSE]
             again == [undo EXCEPT !.failed = j.phase # "disconnecting"]
  <2>1. /\ j.phase \in Undoable /\ disk[s].phase \in Undoable /\ NotAhead(disk[s], j)
        /\ j.phase = "disconnecting" => disk[s].phase = "disconnecting"
    BY <1>3, <1>10 DEF BeginRollback, At, InStep
  <2>2. k \in Journals /\ k.phase = "disconnecting" /\ k.entries = j.entries
    BY <1>2 DEF Journals, Phases
  <2>3. NotAhead(disk[s], k)
    BY <2>1, <2>2 DEF NotAhead
  <2>4. NumSteps \in 0..NumSteps
    BY StepFacts
  <2>5. /\ undo \in HelperStates /\ undo.pc = "undo" /\ undo.sess = s
        /\ again.pc = "undo" /\ again.sess = s /\ again.journal = j
        /\ again.failed = (j.phase # "disconnecting")
    BY <1>2, <2>4 DEF HelperStates, ControlPoints
  <2>6. CASE PersistAndGoOn(h, k, undo)
    <3> HIDE DEF k, undo
    <3> QED
      BY <1>1, <1>4, <2>1, <2>2, <2>3, <2>5, <2>6, PersistAndGoOnMove
  <2>7. CASE /\ ~AllowedTransition(j.phase, "disconnecting")
             /\ Local(h, again) /\ UNCHANGED <<disk, lock>>
    <3>1. j.phase = "disconnecting"
      BY <2>1, <2>7 DEF AllowedTransition, Undoable
    <3> HIDE DEF again
    <3>2. again.pc \in Critical /\ Fresh(again) /\ InStep(again, disk[s]) /\ StageOf(again) = "rollback"
      BY <2>1, <2>5, <3>1, StageFacts DEF Critical, ControlPoints, Fresh, InStep
    <3> QED
      BY <1>1, <1>4, <1>8, <2>5, <2>7, <3>2, LocalMove
  <2> QED
    BY <1>10, <2>6, <2>7 DEF BeginRollback
<1>11. CASE UndoSkip(h)
  <2> DEFINE go == [helper[h] EXCEPT !.index = helper[h].index - 1]
  <2>1. helper[h].pc = "undo" /\ Local(h, go) /\ UNCHANGED <<disk, lock>>
    BY <1>11 DEF UndoSkip, At
  <2>2. go.pc = "undo" /\ go.sess = s /\ go.journal = j /\ go.failed = helper[h].failed
    BY <1>2, <2>1 DEF HelperStates
  <2> HIDE DEF go
  <2>3. go.pc \in Critical /\ Fresh(go) /\ InStep(go, disk[s]) /\ StageOf(go) = "rollback"
    BY <1>3, <2>1, <2>2, StageFacts DEF Critical, ControlPoints, Fresh, InStep
  <2> QED
    BY <1>1, <1>4, <1>8, <2>1, <2>2, <2>3, LocalMove
<1>12. helper[h].pc \in {"undo", "undone"} =>
          /\ j.phase = "disconnecting" /\ disk[s].phase \in Undoable /\ NotAhead(disk[s], j)
          /\ ~helper[h].failed => disk[s].phase = "disconnecting"
  BY <1>3 DEF InStep
<1>13. CASE PersistUndo(h)
  <2> DEFINE go == [helper[h] EXCEPT !.pc = "undo", !.index = helper[h].index - 1]
  <2>1. helper[h].pc = "undone" /\ PersistAndGoOn(h, j, go)
    BY <1>13 DEF PersistUndo, At
  <2>2. i - 1 \in 0..NumSteps
    BY <1>2, <2>1, StepFacts DEF ContractInv, EvidenceInv, LoopPosition, Positioned
  <2>3. go \in HelperStates /\ go.pc = "undo" /\ go.sess = s
    BY <1>2, <2>2 DEF HelperStates, ControlPoints
  <2> HIDE DEF go
  <2> QED
    BY <1>1, <1>2, <1>4, <1>12, <2>1, <2>3, PersistAndGoOnMove
<1>14. CASE FinishRollback(h) /\ helper[h].failed
  <2> DEFINE k == [j EXCEPT !.phase = "rollback_required"]
             go == [helper[h] EXCEPT !.pc = "release"]
  <2>1. helper[h].pc = "undo" /\ PersistAndGoOn(h, k, go)
    BY <1>14 DEF FinishRollback, At
  <2>2. k \in Journals /\ k.phase = "rollback_required" /\ k.entries = j.entries
    BY <1>2 DEF Journals, Phases
  <2>3. NotAhead(disk[s], k)
    BY <1>12, <2>1, <2>2 DEF NotAhead
  <2>4. go \in HelperStates /\ go.pc = "release" /\ go.sess = s /\ go.failed
    BY <1>2, <1>14 DEF HelperStates, ControlPoints
  <2> HIDE DEF go, k
  <2> QED
    BY <1>1, <1>4, <1>12, <2>1, <2>2, <2>3, <2>4, PersistAndGoOnMove
<1>15. CASE FinishRollback(h) /\ ~helper[h].failed
  <2> DEFINE k == [j EXCEPT !.phase = "disconnected"]
             next(o) == [helper[h] EXCEPT !.pc = IF o.ok THEN "delete" ELSE "release",
                                          !.journal.phase = "disconnected", !.failed = ~o.ok]
  <2>1. helper[h].pc = "undo" /\ UNCHANGED lock
    BY <1>15 DEF FinishRollback, At
  <2>2. PICK o \in UpdateOutcomes(disk[s], k) : Store(h, o) /\ Local(h, next(o))
    BY <1>15 DEF FinishRollback
  <2>3. o.journal \in {disk[s], k} /\ (o.ok => o.journal = k)
    BY <2>2, StoreFacts
  <2>4. k \in Journals /\ k.phase = "disconnected" /\ k.entries = j.entries
    BY <1>2 DEF Journals, Phases
  <2>5. /\ next(o).pc = IF o.ok THEN "delete" ELSE "release"
        /\ next(o).sess = s /\ next(o).journal.phase = "disconnected"
        /\ next(o).failed <=> ~o.ok
    BY <1>2 DEF HelperStates, Journals
  <2> HIDE DEF next, k
  <2>6. disk[s].phase = "disconnecting" /\ NotAhead(disk[s], j)
    BY <1>12, <1>15, <2>1
  <2>7. NotAhead(disk[s], k)
    BY <2>4, <2>6 DEF NotAhead
  <2>8. /\ PhaseMoves(disk[s], o.journal) /\ NotAhead(disk[s], o.journal)
        /\ o.journal \in Journals /\ o.journal.phase \in {"disconnecting", "disconnected"}
    BY <1>2, <2>3, <2>4, <2>6, <2>7, SameJournal DEF PhaseMoves, AllowedTransition
  <2>9. Exists(disk[s]) /\ Exists(o.journal)
    BY <2>6, <2>8 DEF Exists
  <2>10. StageOf(next(o)) = IF o.ok THEN "rollback" ELSE "failed"
    BY <2>5, StageFacts
  <2>11. Permitted(RecordOf(disk[s]), "rollback", RecordOf(o.journal), StageOf(next(o)))
    BY <1>2, <2>8, <2>9, <2>10, ForwardPermitted
  <2>12. next(o).pc \in Critical /\ Fresh(next(o)) /\ InStep(next(o), o.journal)
    BY <2>3, <2>4, <2>5 DEF Critical, ControlPoints, Fresh, InStep
  <2> QED
    BY <1>1, <1>4, <2>1, <2>2, <2>5, <2>8, <2>11, <2>12, WriteMove
<1>16. CASE DeleteJournal(h)
  <2>1. helper[h].pc = "delete" /\ UNCHANGED lock
    BY <1>16 DEF DeleteJournal, At
  <2>2. PICK o \in DeleteOutcomes(disk[s]) : Store(h, o) /\ Local(h, return(~o.ok))
    BY <1>16 DEF DeleteJournal
  <2>3. disk[s].phase = "disconnected" /\ j.phase = "disconnected"
    BY <1>3, <2>1 DEF InStep
  <2>4. Exists(disk[s]) /\ \A n \in Steps : ~Live(disk[s], n)
    BY <1>5, <2>3 DEF Exists, Honest
  <2>5. RecordOf(disk[s]) \in {"open", "undone"}
    BY <1>2, <2>4, StepFacts DEF RecordOf, Live, Journals, Statuses
  <2>6. o.journal \in {disk[s], AbsentJournal} /\ (o.ok => o.journal = AbsentJournal) /\ o.ok \in BOOLEAN
    <3>1. \A x \in Faults(disk[s], AbsentJournal) : x = Outcome(FALSE, disk[s]) \/ x = Outcome(FALSE, AbsentJournal)
      BY DEF Faults
    <3>2. o = Outcome(TRUE, AbsentJournal) \/ o = Outcome(FALSE, disk[s]) \/ o = Outcome(FALSE, AbsentJournal)
      BY <2>2, <2>4, <3>1 DEF DeleteOutcomes
    <3>3. \A b \in BOOLEAN : \A k : Outcome(b, k).ok = b /\ Outcome(b, k).journal = k
      BY DEF Outcome
    <3>4. CASE o = Outcome(TRUE, AbsentJournal)
      BY <3>3, <3>4
    <3>5. CASE o = Outcome(FALSE, AbsentJournal)
      BY <3>3, <3>5
    <3>6. CASE o = Outcome(FALSE, disk[s])
      BY <3>3, <3>6
    <3> QED
      BY <3>2, <3>4, <3>5, <3>6
  <2> DEFINE next == return(~o.ok)
  <2>7. /\ next.pc = "release" /\ next.sess = s /\ next.journal = j /\ next.failed = ~o.ok
        /\ next.pc \in Critical /\ Fresh(next) /\ InStep(next, o.journal)
    <3>1. (~o.ok) \in BOOLEAN
      BY <2>6, Zenon
    <3> HIDE DEF return
    <3> QED
      BY <1>6, <3>1, Zenon
  <2> HIDE DEF next, return
  <2>8. StageOf(next) = IF o.ok THEN "clean" ELSE "failed"
    BY <2>3, <2>6, <2>7, StageFacts
  <2>9. CASE o.journal = AbsentJournal
    <3>1. o.journal.phase = "absent" /\ RecordOf(o.journal) = "none" /\ ~Exists(o.journal)
      BY <2>9 DEF AbsentJournal, RecordOf, Exists
    <3>2. Permitted(RecordOf(disk[s]), "rollback", "none", StageOf(next))
      BY <2>5, <2>8 DEF Permitted
    <3>3. PhaseMoves(disk[s], o.journal)
      BY <2>3, <3>1 DEF PhaseMoves
    <3>4. Local(h, next)
      BY <2>2 DEF next
    <3> QED
      BY <1>1, <1>4, <2>1, <2>2, <2>7, <3>1, <3>2, <3>3, <3>4, WriteMove
  <2>10. CASE o.journal = disk[s] /\ ~o.ok
    <3>1. Local(h, next) /\ StageOf(next) = "failed"
      BY <2>2, <2>8, <2>10 DEF next
    <3> QED
      BY <1>1, <1>4, <1>5, <1>8, <2>1, <2>2, <2>7, <2>10, <3>1, SameJournal, WriteMove
  <2> QED
    BY <2>6, <2>9, <2>10
<1> QED
  BY <1>9, <1>10, <1>11, <1>13, <1>14, <1>15, <1>16

\* The steps of rollback that look at the machine or change it: an entry is
\* only marked in memory.
LEMMA UndoMoves ==
    ASSUME ContractInv, EvidenceInv', NEW h \in Helpers,
           InspectRoute(h) \/ RemoveRoute(h) \/ InspectDNS(h) \/ RestoreDNS(h) \/ DeleteDevice(h)
    PROVE  Faithful
<1> DEFINE s == helper[h].sess
           j == helper[h].journal
           i == helper[h].index
           done == UndoSucceeded(h)
           fail == UndoFailed(h)
           rem == [helper[h] EXCEPT !.pc = "remove"]
           rest == [helper[h] EXCEPT !.pc = "restore"]
<1>1. helper[h].pc \in {"undo", "remove", "restore"} /\ helper[h].pc \in Critical
  BY DEF InspectRoute, RemoveRoute, InspectDNS, RestoreDNS, DeleteDevice, Undoing, At,
         Critical, ControlPoints
<1>2. helper[h] \in HelperStates /\ j \in Journals
  BY DEF ContractInv, EvidenceInv, TypeOK, HelperStates
<1>3. /\ j.phase = "disconnecting" /\ disk[s].phase \in Undoable /\ NotAhead(disk[s], j)
      /\ ~helper[h].failed => disk[s].phase = "disconnecting"
  BY <1>1 DEF ContractInv, MemoryInStep, InStep
<1>4. UNCHANGED <<disk, lock>>
  BY DEF InspectRoute, RemoveRoute, InspectDNS, RestoreDNS, DeleteDevice
<1>5. Local(h, done) \/ Local(h, fail) \/ Local(h, rem) \/ Local(h, rest)
  BY DEF InspectRoute, RemoveRoute, InspectDNS, RestoreDNS, DeleteDevice
<1>6. /\ done.pc = "undone" /\ done.sess = s /\ done.failed = helper[h].failed
      /\ done.journal.phase = j.phase
      /\ done.journal.entries = [j.entries EXCEPT ![i] = "rolled_back"]
      /\ fail.pc = "undo" /\ fail.sess = s /\ fail.failed /\ fail.journal = j
      /\ rem.pc = "remove" /\ rem.sess = s /\ rem.failed = helper[h].failed /\ rem.journal = j
      /\ rest.pc = "restore" /\ rest.sess = s /\ rest.failed = helper[h].failed /\ rest.journal = j
  BY <1>2 DEF HelperStates, Journals, UndoSucceeded, UndoFailed
<1>7. NotAhead(disk[s], done.journal)
  <2>1. \A x : Rank(x) \in 0..3 /\ Rank("rolled_back") = 3
    BY DEF Rank
  <2>2. \A n \in Steps : done.journal.entries[n] \in {j.entries[n], "rolled_back"}
    BY <1>2, <1>6 DEF Journals
  <2> HIDE DEF done
  <2> QED
    BY <1>3, <2>1, <2>2 DEF NotAhead
<1> HIDE DEF done, fail, rem, rest
<1>8. /\ done.pc \in Critical /\ Fresh(done) /\ InStep(done, disk[s]) /\ StageOf(done) = "rollback"
      /\ fail.pc \in Critical /\ Fresh(fail) /\ InStep(fail, disk[s]) /\ StageOf(fail) = "rollback"
  BY <1>3, <1>6, <1>7, StageFacts DEF Critical, ControlPoints, Fresh, InStep
<1>9. /\ rem.pc \in Critical /\ Fresh(rem) /\ InStep(rem, disk[s]) /\ StageOf(rem) = "rollback"
      /\ rest.pc \in Critical /\ Fresh(rest) /\ InStep(rest, disk[s]) /\ StageOf(rest) = "rollback"
  BY <1>3, <1>6, StageFacts DEF Critical, ControlPoints, Fresh, InStep
<1>10. StageOf(helper[h]) = "rollback"
  BY <1>1, StageFacts
<1> QED
  BY <1>1, <1>4, <1>5, <1>6, <1>8, <1>9, <1>10, SameJournal, LocalMove

\* Taking the lock begins an operation.
LEMMA AcquireMoves ==
    ASSUME ContractInv, EvidenceInv', NEW h \in Helpers, NEW s \in Sessions,
           AcquireForConnect(h, s) \/ AcquireForDisconnect(h, s)
    PROVE  Faithful
<1>1. /\ lock[OwnerOf[s]] = NoHelper /\ lock' = [lock EXCEPT ![OwnerOf[s]] = h]
      /\ UNCHANGED disk /\ helper[h].pc \notin Critical
  BY DEF AcquireForConnect, AcquireForDisconnect, At, Critical
<1>2. /\ helper[h] \in HelperStates /\ OwnerOf[s] \in Users /\ h # NoHelper
      /\ lock \in [Users -> Helpers \cup {NoHelper}]
  BY PlanAssumption, HelperAssumption DEF ContractInv, EvidenceInv, TypeOK
<1>3. /\ \A g \in Helpers \ {h} : helper'[g] = helper[g]
      /\ helper'[h].pc \in {"check", "load"} /\ helper'[h].sess = s
      /\ ~helper'[h].failed /\ helper'[h].journal = AbsentJournal
  <2>1. Fresh(helper[h])
    BY DEF ContractInv, MemoryInStep
  <2>2. CASE AcquireForConnect(h, s)
    BY <2>2 DEF AcquireForConnect, Local, ContractInv, EvidenceInv, TypeOK, Dead
  <2>3. CASE AcquireForDisconnect(h, s) /\ Local(h, [Dead EXCEPT !.pc = "load", !.sess = s])
    BY <2>3 DEF Local, ContractInv, EvidenceInv, TypeOK, Dead
  <2>4. CASE /\ At(h, "serving") /\ helper[h].sess = s
             /\ \E stay \in BOOLEAN : Local(h, [helper[h] EXCEPT !.pc = "load", !.resident = stay])
    BY <1>2, <2>1, <2>4 DEF At, Fresh, Local, ContractInv, EvidenceInv, TypeOK, HelperStates
  <2> QED
    BY <2>2, <2>3, <2>4 DEF AcquireForDisconnect
<1>4. \A u \in Users : lock[u] # h
  BY <1>1 DEF ContractInv, LockOwned
<1>5. LockOwned'
  BY <1>1, <1>2, <1>3, <1>4 DEF ContractInv, LockOwned, Critical, ControlPoints
<1>6. PhaseIsSet'
  BY <1>1 DEF ContractInv, PhaseIsSet
<1>7. MemoryInStep'
  <2>1. Fresh(helper'[h]) /\ \A j : InStep(helper'[h], j)
    BY <1>3 DEF Fresh, InStep
  <2> QED
    BY <1>1, <1>3, <2>1 DEF ContractInv, MemoryInStep
<1>8. ASSUME NEW u \in Users
      PROVE  Contract(u)!ContractNext \/ UNCHANGED Contract(u)!contract
  <2>1. CASE u = OwnerOf[s]
    <3> DEFINE stage == StageOf(helper'[h])
    <3>1. stage \in {"connect", "rollback"}
      BY <1>3, StageFacts
    <3>2. s \in SessionsOf(u) /\ lock[u] = NoHelper /\ lock'[u] = h
      BY <1>1, <1>2, <2>1 DEF SessionsOf
    <3>3. /\ WorkOf(u) = [by |-> NoHelper, sess |-> NoSession, stage |-> "clean"]
          /\ WorkOf(u)' = [by |-> h, sess |-> s, stage |-> stage]
      BY <1>2, <1>3, <3>2 DEF WorkOf
    <3>4. RecordsOf(u)' = RecordsOf(u)
      BY <1>1 DEF RecordsOf
    <3> HIDE DEF stage
    <3>5. Contract(u)!Begin(h, s, stage)
      BY <3>3, <3>4 DEF Contract!Begin, Contract!Unlocked
    <3> QED
      BY <3>1, <3>2, <3>5 DEF Contract!ContractNext
  <2>2. CASE u # OwnerOf[s]
    <3>1. lock'[u] = lock[u] /\ (lock[u] # NoHelper => helper'[lock[u]] = helper[lock[u]])
      BY <1>1, <1>2, <1>3, <1>4, <2>2
    <3> QED
      BY <1>1, <3>1, UntouchedOwner
  <2> QED
    BY <2>1, <2>2
<1> QED
  BY <1>1, <1>5, <1>6, <1>7, <1>8, SameJournal DEF Faithful, ContractInv

\* Steps that leave the disk alone and send helpers to rest: the contract sees
\* the lock given back, or nothing.
LEMMA RestMoves ==
    ASSUME ContractInv, EvidenceInv', UNCHANGED disk,
           \A h \in Helpers : Fresh(helper'[h]),
           \A h \in Helpers : helper'[h] = helper[h] \/ helper'[h].pc \notin Critical,
           \A u \in Users : \/ lock'[u] = NoHelper
                            \/ lock'[u] = lock[u] /\ helper'[lock[u]] = helper[lock[u]]
    PROVE  Faithful
<1>1. LockOwned'
  BY HelperAssumption DEF ContractInv, LockOwned
<1>2. PhaseIsSet' /\ MemoryInStep'
  BY DEF ContractInv, PhaseIsSet, MemoryInStep
<1>3. ASSUME NEW u \in Users
      PROVE  Contract(u)!ContractNext \/ UNCHANGED Contract(u)!contract
  <2>1. RecordsOf(u)' = RecordsOf(u)
    BY DEF RecordsOf
  <2>2. CASE lock'[u] = NoHelper /\ lock[u] # NoHelper
    <3>1. lock[u] \in Helpers
      BY <2>2 DEF ContractInv, EvidenceInv, TypeOK
    <3>2. WorkOf(u).by = lock[u] /\ WorkOf(u)' = [by |-> NoHelper, sess |-> NoSession, stage |-> "clean"]
      BY <2>2 DEF WorkOf
    <3>3. Contract(u)!Drop(lock[u])
      BY <2>1, <3>2 DEF Contract!Drop, Contract!Unlocked
    <3> QED
      BY <3>1, <3>3 DEF Contract!ContractNext
  <2>3. CASE lock'[u] = lock[u] /\ (lock[u] # NoHelper => helper'[lock[u]] = helper[lock[u]])
    BY <2>3, UntouchedOwner
  <2> QED
    BY <2>2, <2>3
<1> QED
  BY <1>1, <1>2, <1>3, SameJournal DEF Faithful, ContractInv

\* Returning, exiting and dying, a reboot and everything outside.
LEMMA SurroundingsMove ==
    ASSUME ContractInv, EvidenceInv',
           \/ \E h \in Helpers : Release(h) \/ Crash(h)
           \/ Reboot
           \/ \E d \in Dests : ForeignRoute(d)
           \/ UserSetsDNS
           \/ UNCHANGED vars
    PROVE  Faithful
<1>1. /\ lock \in [Users -> Helpers \cup {NoHelper}] /\ helper \in [Helpers -> HelperStates]
      /\ \A g \in Helpers : Fresh(helper[g])
  BY DEF ContractInv, EvidenceInv, TypeOK, MemoryInStep
<1>2. Fresh(Dead) /\ Dead.pc \notin Critical
  BY DEF Dead, Fresh, Critical
<1>3. ASSUME NEW h \in Helpers, Ends(h), UNCHANGED disk
      PROVE  Faithful
  <2>1. /\ helper'[h] = Dead /\ \A g \in Helpers \ {h} : helper'[g] = helper[g]
        /\ \A u \in Users : lock'[u] = IF lock[u] = h THEN NoHelper ELSE lock[u]
    BY <1>1, <1>3 DEF Ends
  <2>2. \A u \in Users : \/ lock'[u] = NoHelper
                         \/ lock'[u] = lock[u] /\ helper'[lock[u]] = helper[lock[u]]
    <3> TAKE u \in Users
    <3>1. lock[u] \in Helpers \cup {NoHelper}
      BY <1>1, SMTT(60)
    <3> QED
      BY <2>1, <3>1
  <2> QED
    BY <1>1, <1>2, <1>3, <2>1, <2>2, RestMoves
<1>4. ASSUME NEW h \in Helpers, Release(h) \/ Crash(h)
      PROVE  Faithful
  <2>1. UNCHANGED disk
    BY <1>4 DEF Release, Crash
  <2>2. CASE /\ At(h, "release")
             /\ lock' = [lock EXCEPT ![OwnerOf[helper[h].sess]] = NoHelper]
             /\ Local(h, [Dead EXCEPT !.pc = "serving", !.sess = helper[h].sess, !.resident = TRUE])
    <3> DEFINE hs == [Dead EXCEPT !.pc = "serving", !.sess = helper[h].sess, !.resident = TRUE]
    <3>1. Fresh(hs) /\ hs.pc \notin Critical
      BY DEF Dead, Fresh, Critical
    <3>2. helper'[h] = hs /\ \A g \in Helpers \ {h} : helper'[g] = helper[g]
      BY <1>1, <2>2 DEF Local
    <3> HIDE DEF hs
    <3>3. \A u \in Users : lock[u] = h => lock'[u] = NoHelper
      BY <1>1, <2>2 DEF ContractInv, LockOwned
    <3>4. \A u \in Users : lock'[u] = NoHelper \/ lock'[u] = lock[u]
      BY <1>1, <2>2
    <3>5. \A u \in Users : \/ lock'[u] = NoHelper
                           \/ lock'[u] = lock[u] /\ helper'[lock[u]] = helper[lock[u]]
      <4> TAKE u \in Users
      <4>1. lock[u] \in Helpers \cup {NoHelper}
        BY <1>1
      <4> QED
        BY <3>2, <3>3, <3>4, <4>1
    <3> QED
      BY <1>1, <2>1, <3>1, <3>2, <3>5, RestMoves
  <2> QED
    BY <1>3, <1>4, <2>1, <2>2, ZenonT(60) DEF Release, Crash
<1>5. CASE Reboot
  <2>1. /\ \A h \in Helpers : helper'[h] = Dead
        /\ \A u \in Users : lock'[u] = NoHelper
        /\ UNCHANGED disk
    BY <1>5 DEF Reboot
  <2> QED
    BY <1>2, <2>1, RestMoves
<1>6. CASE UNCHANGED <<disk, lock, helper>>
  BY <1>1, <1>6, RestMoves
<1> QED
  BY <1>4, <1>5, <1>6 DEF ForeignRoute, UserSetsDNS, vars

-----------------------------------------------------------------------------
(* The theorems.                                                           *)

\* Before any helper runs there is no operation and no journal.
THEOREM ContractInitial ==
    Init => ContractInv /\ \A u \in Users : Contract(u)!ContractInit
<1> SUFFICES ASSUME Init PROVE ContractInv /\ \A u \in Users : Contract(u)!ContractInit
  OBVIOUS
<1>1. EvidenceInv
  BY EvidenceInit
<1>2. LockOwned
  BY HelperAssumption DEF Init, LockOwned
<1>3. PhaseIsSet /\ MemoryInStep
  BY DEF Init, PhaseIsSet, MemoryInStep, AbsentJournal, Fresh, Dead, Critical
<1>4. ASSUME NEW u \in Users PROVE Contract(u)!ContractInit
  <2>1. WorkOf(u) = [by |-> NoHelper, sess |-> NoSession, stage |-> "clean"]
    BY DEF Init, WorkOf
  <2>2. RecordsOf(u) = [s \in SessionsOf(u) |-> "none"]
    BY DEF Init, RecordsOf, SessionsOf, RecordOf, Exists, AbsentJournal
  <2> QED
    BY <2>1, <2>2 DEF Contract!ContractInit, Contract!Unlocked
<1> QED
  BY <1>1, <1>2, <1>3, <1>4 DEF ContractInv

\* Every step keeps the invariant and every owner's contract, and moves the
\* journals on disk forward.
THEOREM ContractStep == ContractInv /\ [Next]_vars => Faithful
<1> SUFFICES ASSUME ContractInv, [Next]_vars PROVE Faithful
  OBVIOUS
<1>1. EvidenceInv'
  BY EvidenceStep DEF ContractInv
<1>2. ASSUME NEW h \in Helpers, Proceed(h) PROVE Faithful
  BY <1>1, <1>2, ConnectMoves, SetConnectedMoves, ApplyMoves, RollbackMoves, UndoMoves, SurroundingsMove
     DEF Proceed
<1>3. CASE UNCHANGED vars
  BY <1>1, <1>3, SurroundingsMove
<1>4. CASE Next
  BY <1>1, <1>2, <1>4, AcquireMoves, SurroundingsMove DEF Next
<1> QED
  BY <1>3, <1>4

\* Refinement: the controller keeps SessionContract for every owner, for every
\* number of sessions, helpers and users and both policies.
THEOREM KeepsContract == Spec => ImplementsContract
<1>1. Faithful => /\ ContractInv'
                  /\ \A u \in Users : Contract(u)!ContractNext \/ UNCHANGED Contract(u)!contract
  BY DEF Faithful
<1> QED
  BY <1>1, ContractInitial, ContractStep, PTL DEF Spec, ImplementsContract

\* No entry on disk ever goes back or is forgotten while its journal exists,
\* for every number of sessions and helpers.
THEOREM NoStepBack == Spec => EntriesMoveForward
<1>1. Faithful => /\ ContractInv'
                  /\ \A s \in Sessions : Exists(disk'[s]) => NotAhead(disk[s], disk'[s])
  BY DEF Faithful
<1> QED
  BY <1>1, ContractInitial, ContractStep, PTL DEF Spec, EntriesMoveForward

\* On disk phases move only along allowedTransition, and a journal disappears
\* only from the phase disconnected, for every number of sessions and helpers.
THEOREM TableIsFollowed == Spec => PhasesFollowTable
<1>1. Faithful => /\ ContractInv'
                  /\ \A s \in Sessions : PhaseMoves(disk[s], disk'[s])
  BY DEF Faithful
<1> QED
  BY <1>1, ContractInitial, ContractStep, PTL DEF Spec, PhasesFollowTable

-----------------------------------------------------------------------------
(* What a step does to the locals of its helper, without the calls it makes. *)

\* Journal k is j with one field changed: its phase, or the entry i.
WithPhase(j, k, phase) ==
    /\ k.phase = phase
    /\ k.device = j.device /\ k.dnsBefore = j.dnsBefore /\ k.entries = j.entries

WithEntry(j, k, i, status) ==
    /\ k.entries = [j.entries EXCEPT ![i] = status]
    /\ k.device = j.device /\ k.dnsBefore = j.dnsBefore /\ k.phase = j.phase

\* Connect, from locals a to locals b.
ConnectMove(a, b) ==
    LET j == a.journal
        k == b.journal
        i == a.index
    IN
    \/ a.pc = "check" /\ b.pc = "create" /\ k = NewJournal
    \/ a.pc = "check" /\ b.pc = "release" /\ k = j
    \/ a.pc = "create" /\ b.pc = "intent" /\ b.index = 1 /\ k = j
    \/ a.pc = "create" /\ b.pc = "release" /\ k = j
    \/ a.pc = "intent" /\ b.pc \in {"apply", "rollback"} /\ b.index = i /\ WithEntry(j, k, i, "planned")
    \/ a.pc = "apply" /\ b.pc \in {"mark", "rollback"} /\ b.index = i /\ k = j
    \/ /\ a.pc = "apply" /\ b.pc = "mark" /\ b.index = i /\ i = 2
       /\ k.device \in Helpers /\ k.entries = j.entries /\ k.phase = j.phase /\ k.dnsBefore = j.dnsBefore
    \/ /\ a.pc = "mark" /\ WithEntry(j, k, i, "applied")
       /\ \/ b.pc = "rollback"
          \/ i = NumSteps /\ b.pc = "verify"
          \/ i # NumSteps /\ b.pc = "intent" /\ b.index = i + 1
    \/ a.pc = "verify" /\ b.pc \in {"connect", "rollback"} /\ k = j
    \/ a.pc = "connect" /\ b.pc \in {"release", "rollback"} /\ WithPhase(j, k, "connected")

\* Rollback, from locals a to locals b, with journal d on disk.
RollbackMove(a, b, d) ==
    LET j == a.journal
        k == b.journal
        i == a.index
    IN
    \/ a.pc = "load" /\ b.pc \in {"rollback", "delete"} /\ k = d
    \/ a.pc = "load" /\ b.pc = "release" /\ k = j
    \/ a.pc = "rollback" /\ b.pc = "undo" /\ b.index = NumSteps /\ WithPhase(j, k, "disconnecting")
    \/ a.pc = "undo" /\ b.pc = "undo" /\ b.index = i - 1 /\ i > 0 /\ ~Live(j, i) /\ b.failed = a.failed /\ k = j
    \/ a.pc = "undo" /\ b.pc = "remove" /\ Live(j, i) /\ b.index = i /\ b.failed = a.failed /\ k = j
    \/ a.pc = "undo" /\ b.pc = "restore" /\ Live(j, i) /\ b.index = i /\ b.failed = a.failed /\ k = j
    \/ /\ a.pc \in {"undo", "remove", "restore"} /\ b.pc = "undone" /\ b.index = i /\ i > 0 /\ b.failed = a.failed
       /\ a.pc = "undo" => Live(j, i)
       /\ WithEntry(j, k, i, "rolled_back")
    \/ a.pc \in {"undo", "remove", "restore"} /\ b.pc = "undo" /\ b.index = i - 1 /\ b.failed /\ k = j
    \/ a.pc = "undone" /\ b.pc = "undo" /\ b.index = i - 1 /\ (a.failed => b.failed) /\ k = j
    \/ a.pc = "undo" /\ b.pc = "release" /\ WithPhase(j, k, "rollback_required")
    \/ /\ a.pc = "undo" /\ i = 0 /\ ~a.failed /\ b.pc \in {"delete", "release"}
       /\ WithPhase(j, k, "disconnected")
    \/ a.pc = "delete" /\ b.pc = "release" /\ k = j

\* What the step may have left on disk: the old journal, the one in memory
\* if it validates, or none.
Writes(a, b, old, new) ==
    \/ new = old
    \/ new = b.journal /\ Validate(new)
    \/ a.pc = "delete" /\ new = AbsentJournal

\* One step of the operation of h.
Moves(h) ==
    LET s == helper[h].sess IN
    /\ helper[h].pc \in Critical /\ helper'[h].pc \in Critical
    /\ helper'[h].sess = s
    /\ \A g \in Helpers \ {h} : helper'[g] = helper[g]
    /\ \A t \in Sessions \ {s} : disk'[t] = disk[t]
    /\ Writes(helper[h], helper'[h], disk[s], disk'[s])
    /\ ConnectMove(helper[h], helper'[h]) \/ RollbackMove(helper[h], helper'[h], disk[s])

\* What the types give of the locals of a helper in a transaction.
LEMMA OwnFacts ==
    ASSUME ContractInv, NEW h \in Helpers, helper[h].pc \in Critical
    PROVE  /\ helper[h].sess \in Sessions /\ disk[helper[h].sess] \in Journals
           /\ helper[h] \in HelperStates /\ helper[h].journal \in Journals
           /\ helper[h].index \in 0..NumSteps
           /\ InStep(helper[h], disk[helper[h].sess])
           /\ Positioned(helper[h])
  BY DEF ContractInv, EvidenceInv, LockHeld, TypeOK, HelperStates, MemoryInStep, LoopPosition

\* A step that only moves the locals of h on to hs.
LEMMA LocalShape ==
    ASSUME ContractInv, NEW h \in Helpers, NEW hs,
           helper[h].pc \in Critical, hs.pc \in Critical, hs.sess = helper[h].sess,
           Local(h, hs), UNCHANGED disk,
           ConnectMove(helper[h], hs) \/ RollbackMove(helper[h], hs, disk[helper[h].sess])
    PROVE  Moves(h)
<1>1. helper'[h] = hs /\ \A g \in Helpers \ {h} : helper'[g] = helper[g]
  BY DEF ContractInv, EvidenceInv, TypeOK, Local
<1> QED
  BY <1>1 DEF Moves, Writes

\* A step that writes outcome o to the file of h's session.
LEMMA StoreShape ==
    ASSUME ContractInv, NEW h \in Helpers, NEW hs, NEW o,
           helper[h].pc \in Critical, hs.pc \in Critical, hs.sess = helper[h].sess,
           Local(h, hs), Store(h, o),
           Writes(helper[h], hs, disk[helper[h].sess], o.journal),
           ConnectMove(helper[h], hs) \/ RollbackMove(helper[h], hs, disk[helper[h].sess])
    PROVE  Moves(h)
<1>1. helper'[h] = hs /\ \A g \in Helpers \ {h} : helper'[g] = helper[g]
  BY DEF ContractInv, EvidenceInv, TypeOK, Local
<1>2. /\ disk'[helper[h].sess] = o.journal
      /\ \A t \in Sessions \ {helper[h].sess} : disk'[t] = disk[t]
  BY OwnFacts DEF ContractInv, EvidenceInv, TypeOK, Store
<1> QED
  BY <1>1, <1>2 DEF Moves

\* The write of Connect.
LEMMA PersistOrRollBackShape ==
    ASSUME ContractInv, NEW h \in Helpers, NEW j, NEW ok \in HelperStates,
           helper[h].pc \in Critical, ok.pc \in Critical, ok.sess = helper[h].sess,
           PersistOrRollBack(h, j, ok),
           ConnectMove(helper[h], [ok EXCEPT !.journal = j]),
           ConnectMove(helper[h], [helper[h] EXCEPT !.pc = "rollback", !.journal = j])
    PROVE  Moves(h)
<1> DEFINE good == [ok EXCEPT !.journal = j]
           bad == [helper[h] EXCEPT !.pc = "rollback", !.journal = j]
<1>1. PICK o \in UpdateOutcomes(disk[helper[h].sess], j) : Store(h, o) /\ Local(h, IF o.ok THEN good ELSE bad)
  BY DEF PersistOrRollBack
<1>2. o.journal = disk[helper[h].sess] \/ (o.journal = j /\ Validate(j))
  BY <1>1, StoreFacts
<1>3. /\ good.pc = ok.pc /\ good.sess = helper[h].sess /\ good.journal = j
      /\ bad.pc = "rollback" /\ bad.sess = helper[h].sess /\ bad.journal = j
  BY OwnFacts DEF HelperStates
<1>4. bad.pc \in Critical
  BY <1>3 DEF Critical, ControlPoints
<1>5. ConnectMove(helper[h], good) /\ ConnectMove(helper[h], bad)
  OBVIOUS
<1> HIDE DEF good, bad
<1>6. PICK hs \in {good, bad} : Local(h, hs)
  BY <1>1
<1> QED
  BY <1>1, <1>2, <1>3, <1>4, <1>5, <1>6, StoreShape DEF Writes

\* The steps of Connect that read, or write the journal.
LEMMA ConnectShapes ==
    ASSUME ContractInv, NEW h \in Helpers,
           CheckAndSnapshot(h) \/ CreateJournal(h) \/ RecordIntent(h) \/ MarkApplied(h)
             \/ Verify(h) \/ SetConnected(h)
    PROVE  Moves(h)
<1> DEFINE s == helper[h].sess
           j == helper[h].journal
           i == helper[h].index
           stop == [helper[h] EXCEPT !.pc = "release", !.failed = TRUE]
<1>1. helper[h].pc \in {"check", "create", "intent", "mark", "verify", "connect"} /\ helper[h].pc \in Critical
  BY DEF CheckAndSnapshot, CreateJournal, RecordIntent, MarkApplied, Verify, SetConnected, At,
         Critical, ControlPoints
<1>2. s \in Sessions /\ helper[h] \in HelperStates /\ j \in Journals /\ i \in 0..NumSteps /\ Positioned(helper[h])
  BY <1>1, OwnFacts
<1>3. /\ stop.pc = "release" /\ stop.sess = s /\ stop.journal = j /\ stop.pc \in Critical
  BY <1>2 DEF HelperStates, Critical, ControlPoints
<1>4. CASE CheckAndSnapshot(h)
  <2> DEFINE go == [helper[h] EXCEPT !.pc = "create", !.journal = NewJournal]
  <2>1. helper[h].pc = "check" /\ (Local(h, go) \/ Local(h, stop)) /\ UNCHANGED disk
    BY <1>4 DEF CheckAndSnapshot, At
  <2>2. go.pc = "create" /\ go.sess = s /\ go.journal = NewJournal /\ go.pc \in Critical
    BY <1>2 DEF HelperStates, Critical, ControlPoints
  <2> HIDE DEF go, stop
  <2>3. ConnectMove(helper[h], go) /\ ConnectMove(helper[h], stop)
    BY <1>3, <2>1, <2>2 DEF ConnectMove
  <2> QED
    BY <1>1, <1>3, <2>1, <2>2, <2>3, LocalShape
<1>5. CASE CreateJournal(h)
  <2> DEFINE go == [helper[h] EXCEPT !.pc = "intent", !.index = 1]
  <2>1. helper[h].pc = "create"
    BY <1>5 DEF CreateJournal, At
  <2>2. PICK o \in CreateOutcomes(disk[s], j) : Store(h, o) /\ Local(h, IF o.ok THEN go ELSE stop)
    BY <1>5 DEF CreateJournal
  <2>3. o.journal = disk[s] \/ (o.journal = j /\ Validate(j))
    BY <2>2, StoreFacts
  <2>4. go.pc = "intent" /\ go.sess = s /\ go.journal = j /\ go.index = 1 /\ go.pc \in Critical
    BY <1>2 DEF HelperStates, Critical, ControlPoints
  <2> HIDE DEF go, stop
  <2>5. ConnectMove(helper[h], go) /\ ConnectMove(helper[h], stop)
    BY <1>3, <2>1, <2>4 DEF ConnectMove
  <2>6. PICK hs \in {go, stop} : Local(h, hs)
    BY <2>2, SMTT(60)
  <2> QED
    BY <1>1, <1>3, <2>2, <2>3, <2>4, <2>5, <2>6, StoreShape DEF Writes
<1>6. CASE RecordIntent(h)
  <2> DEFINE k == [j EXCEPT !.entries[i] = "planned"]
             go == [helper[h] EXCEPT !.pc = "apply"]
  <2>1. helper[h].pc = "intent" /\ PersistOrRollBack(h, k, go)
    BY <1>6 DEF RecordIntent, At
  <2>2. WithEntry(j, k, i, "planned")
    BY <1>2 DEF WithEntry, Journals
  <2> HIDE DEF k
  <2>3. /\ go \in HelperStates /\ go.sess = s /\ go.pc = "apply"
        /\ [go EXCEPT !.journal = k].pc = "apply" /\ [go EXCEPT !.journal = k].index = i
        /\ [go EXCEPT !.journal = k].journal = k
        /\ [helper[h] EXCEPT !.pc = "rollback", !.journal = k].pc = "rollback"
        /\ [helper[h] EXCEPT !.pc = "rollback", !.journal = k].index = i
        /\ [helper[h] EXCEPT !.pc = "rollback", !.journal = k].journal = k
    BY <1>2 DEF HelperStates, ControlPoints
  <2> HIDE DEF go
  <2>4. /\ ConnectMove(helper[h], [go EXCEPT !.journal = k])
        /\ ConnectMove(helper[h], [helper[h] EXCEPT !.pc = "rollback", !.journal = k])
    BY <2>1, <2>2, <2>3, SMTT(60) DEF ConnectMove
  <2> QED
    BY <1>1, <2>1, <2>3, <2>4, PersistOrRollBackShape DEF Critical, ControlPoints
<1>7. CASE MarkApplied(h)
  <2> DEFINE k == [j EXCEPT !.entries[i] = "applied"]
             go == IF i = NumSteps THEN [helper[h] EXCEPT !.pc = "verify"]
                                   ELSE [helper[h] EXCEPT !.pc = "intent", !.index = i + 1]
  <2>1. helper[h].pc = "mark" /\ PersistOrRollBack(h, k, go)
    BY <1>7 DEF MarkApplied, At
  <2>2. WithEntry(j, k, i, "applied") /\ i + 1 \in Nat /\ (i # NumSteps => i + 1 \in 0..NumSteps)
    BY <1>2, StepFacts DEF WithEntry, Journals
  <2> HIDE DEF k
  <2>3. /\ go \in HelperStates /\ go.sess = s /\ go.pc \in {"verify", "intent"}
        /\ i = NumSteps => [go EXCEPT !.journal = k].pc = "verify"
        /\ i # NumSteps => [go EXCEPT !.journal = k].pc = "intent" /\ [go EXCEPT !.journal = k].index = i + 1
        /\ [go EXCEPT !.journal = k].journal = k
        /\ [helper[h] EXCEPT !.pc = "rollback", !.journal = k].pc = "rollback"
        /\ [helper[h] EXCEPT !.pc = "rollback", !.journal = k].journal = k
    BY <1>2, <2>2 DEF HelperStates, ControlPoints
  <2> HIDE DEF go
  <2>4. /\ ConnectMove(helper[h], [go EXCEPT !.journal = k])
        /\ ConnectMove(helper[h], [helper[h] EXCEPT !.pc = "rollback", !.journal = k])
    BY <2>1, <2>2, <2>3 DEF ConnectMove
  <2> QED
    BY <1>1, <2>1, <2>3, <2>4, PersistOrRollBackShape DEF Critical, ControlPoints
<1>8. CASE Verify(h)
  <2> DEFINE go == [helper[h] EXCEPT !.pc = "connect"]
             back == [helper[h] EXCEPT !.pc = "rollback"]
  <2>1. helper[h].pc = "verify" /\ (Local(h, go) \/ Local(h, back)) /\ UNCHANGED disk
    BY <1>8 DEF Verify, At
  <2>2. /\ go.pc = "connect" /\ go.sess = s /\ go.journal = j /\ go.pc \in Critical
        /\ back.pc = "rollback" /\ back.sess = s /\ back.journal = j /\ back.pc \in Critical
    BY <1>2 DEF HelperStates, Critical, ControlPoints
  <2> HIDE DEF go, back
  <2>3. ConnectMove(helper[h], go) /\ ConnectMove(helper[h], back)
    BY <2>1, <2>2, SMTT(60) DEF ConnectMove
  <2> QED
    BY <1>1, <2>1, <2>2, <2>3, LocalShape
<1>9. CASE SetConnected(h)
  <2> DEFINE k == [j EXCEPT !.phase = "connected"]
             go == [helper[h] EXCEPT !.pc = "release", !.resident = TRUE]
  <2>1. helper[h].pc = "connect" /\ PersistOrRollBack(h, k, go)
    BY <1>9 DEF SetConnected, At
  <2>2. WithPhase(j, k, "connected")
    BY <1>2 DEF WithPhase, Journals
  <2> HIDE DEF k
  <2>3. /\ go \in HelperStates /\ go.sess = s /\ go.pc = "release"
        /\ [go EXCEPT !.journal = k].pc = "release" /\ [go EXCEPT !.journal = k].journal = k
        /\ [helper[h] EXCEPT !.pc = "rollback", !.journal = k].pc = "rollback"
        /\ [helper[h] EXCEPT !.pc = "rollback", !.journal = k].journal = k
    BY <1>2 DEF HelperStates, ControlPoints
  <2> HIDE DEF go
  <2>4. /\ ConnectMove(helper[h], [go EXCEPT !.journal = k])
        /\ ConnectMove(helper[h], [helper[h] EXCEPT !.pc = "rollback", !.journal = k])
    BY <2>1, <2>2, <2>3 DEF ConnectMove
  <2> QED
    BY <1>1, <2>1, <2>3, <2>4, PersistOrRollBackShape DEF Critical, ControlPoints
<1> QED
  BY <1>4, <1>5, <1>6, <1>7, <1>8, <1>9

\* The steps of Connect that change the machine.
LEMMA ApplyShapes ==
    ASSUME ContractInv, NEW h \in Helpers, AddRoute(h) \/ CreateDevice(h) \/ ApplyDNS(h)
    PROVE  Moves(h)
<1> DEFINE s == helper[h].sess
           j == helper[h].journal
           i == helper[h].index
           go(point) == [helper[h] EXCEPT !.pc = point]
           made == [helper[h] EXCEPT !.pc = "mark", !.journal.device = h]
<1>1. helper[h].pc = "apply" /\ helper[h].pc \in Critical /\ UNCHANGED disk
  BY DEF AddRoute, CreateDevice, ApplyDNS, At, Critical, ControlPoints
<1>2. s \in Sessions /\ helper[h] \in HelperStates /\ j \in Journals /\ i \in Steps
  BY <1>1, OwnFacts DEF Positioned
<1>3. ASSUME NEW point \in {"mark", "rollback"}, Local(h, go(point)) PROVE Moves(h)
  <2>1. go(point).pc = point /\ go(point).sess = s /\ go(point).journal = j /\ go(point).index = i
    BY <1>2 DEF HelperStates
  <2>2. go(point).pc \in Critical
    BY <2>1 DEF Critical, ControlPoints
  <2>3. Local(h, go(point))
    BY <1>3
  <2> HIDE DEF go
  <2>4. ConnectMove(helper[h], go(point))
    BY <1>1, <2>1 DEF ConnectMove
  <2> QED
    BY <1>1, <2>1, <2>2, <2>3, <2>4, LocalShape
<1>4. CASE CreateDevice(h) /\ Local(h, made)
  <2>1. /\ made.pc = "mark" /\ made.sess = s /\ made.index = i
        /\ made.journal.device = h /\ made.journal.entries = j.entries
        /\ made.journal.phase = j.phase /\ made.journal.dnsBefore = j.dnsBefore
    BY <1>2 DEF HelperStates, Journals
  <2>2. i = 2
    BY <1>2, <1>4, StepFacts DEF CreateDevice
  <2>3. Local(h, made)
    BY <1>4
  <2> HIDE DEF made
  <2>4. ConnectMove(helper[h], made) /\ made.pc \in Critical
    BY <1>1, <2>1, <2>2 DEF ConnectMove, Critical, ControlPoints
  <2> QED
    BY <1>1, <2>1, <2>3, <2>4, LocalShape
<1>5. CASE AddRoute(h)
  <2>1. \E point \in {"mark", "rollback"} : Local(h, go(point))
    BY <1>5 DEF AddRoute
  <2> QED
    BY <1>3, <2>1
<1>6. CASE ApplyDNS(h)
  <2>1. \E point \in {"mark", "rollback"} : Local(h, go(point))
    BY <1>6 DEF ApplyDNS
  <2> QED
    BY <1>3, <2>1
<1>7. CASE CreateDevice(h)
  BY <1>3, <1>4, <1>7 DEF CreateDevice
<1> QED
  BY <1>5, <1>6, <1>7

\* The write of rollback.
LEMMA PersistAndGoOnShape ==
    ASSUME ContractInv, NEW h \in Helpers, NEW k, NEW hs \in HelperStates,
           helper[h].pc \in Critical, hs.pc \in Critical, hs.sess = helper[h].sess,
           PersistAndGoOn(h, k, hs),
           \A b : /\ b.pc = hs.pc /\ b.index = hs.index /\ b.journal = k /\ (hs.failed => b.failed)
                  => RollbackMove(helper[h], b, disk[helper[h].sess])
    PROVE  Moves(h)
<1> DEFINE next(o) == [hs EXCEPT !.journal = k, !.failed = hs.failed \/ ~o.ok]
<1>1. PICK o \in UpdateOutcomes(disk[helper[h].sess], k) : Store(h, o) /\ Local(h, next(o))
  BY DEF PersistAndGoOn
<1>2. o.journal = disk[helper[h].sess] \/ (o.journal = k /\ Validate(k))
  BY <1>1, StoreFacts
<1>3. /\ next(o).pc = hs.pc /\ next(o).sess = helper[h].sess /\ next(o).journal = k
      /\ next(o).index = hs.index /\ (hs.failed => next(o).failed)
  BY DEF HelperStates
<1> HIDE DEF next
<1>4. RollbackMove(helper[h], next(o), disk[helper[h].sess])
  BY <1>3
<1> QED
  BY <1>1, <1>2, <1>3, <1>4, StoreShape DEF Writes

\* The steps of Disconnect and rollback that read, or write the journal.
LEMMA RollbackShapes ==
    ASSUME ContractInv, NEW h \in Helpers,
           LoadJournal(h) \/ BeginRollback(h) \/ UndoSkip(h) \/ PersistUndo(h)
             \/ FinishRollback(h) \/ DeleteJournal(h)
    PROVE  Moves(h)
<1> DEFINE s == helper[h].sess
           j == helper[h].journal
           i == helper[h].index
<1>1. helper[h].pc \in {"load", "rollback", "undo", "undone", "delete"} /\ helper[h].pc \in Critical
  BY DEF LoadJournal, BeginRollback, UndoSkip, PersistUndo, FinishRollback, DeleteJournal,
         At, Critical, ControlPoints
<1>2. s \in Sessions /\ helper[h] \in HelperStates /\ j \in Journals /\ i \in 0..NumSteps
  BY <1>1, OwnFacts
<1>3. InStep(helper[h], disk[s]) /\ Positioned(helper[h])
  BY <1>1, OwnFacts
<1>4. CASE LoadJournal(h)
  <2> DEFINE go(point) == [helper[h] EXCEPT !.pc = point, !.journal = disk[s]]
             stop == [helper[h] EXCEPT !.pc = "release"]
             fail == [helper[h] EXCEPT !.pc = "release", !.failed = TRUE]
  <2>1. /\ helper[h].pc = "load" /\ UNCHANGED disk
        /\ Local(h, go("rollback")) \/ Local(h, go("delete")) \/ Local(h, stop) \/ Local(h, fail)
    BY <1>4 DEF LoadJournal, At
  <2>2. /\ \A point \in {"rollback", "delete"} :
              go(point).pc = point /\ go(point).sess = s /\ go(point).journal = disk[s]
        /\ stop.pc = "release" /\ stop.sess = s /\ stop.journal = j
        /\ fail.pc = "release" /\ fail.sess = s /\ fail.journal = j
    BY <1>2 DEF HelperStates
  <2> HIDE DEF go, stop, fail
  <2>3. PICK hs \in {go("rollback"), go("delete"), stop, fail} : Local(h, hs)
    BY <2>1
  <2>4. hs.pc \in Critical /\ hs.sess = s /\ RollbackMove(helper[h], hs, disk[s])
    BY <2>1, <2>2 DEF RollbackMove, Critical, ControlPoints
  <2> QED
    BY <1>1, <2>1, <2>3, <2>4, LocalShape
<1>5. CASE BeginRollback(h)
  <2> DEFINE k == [j EXCEPT !.phase = "disconnecting"]
             undo == [helper[h] EXCEPT !.pc = "undo", !.index = NumSteps, !.failed = FALSE]
             again == [undo EXCEPT !.failed = j.phase # "disconnecting"]
  <2>1. helper[h].pc = "rollback" /\ j.phase \in Undoable
    BY <1>3, <1>5 DEF BeginRollback, At, InStep
  <2>2. WithPhase(j, k, "disconnecting") /\ NumSteps \in 0..NumSteps
    BY <1>2, StepFacts DEF WithPhase, Journals
  <2>3. /\ undo \in HelperStates /\ undo.pc = "undo" /\ undo.sess = s /\ undo.index = NumSteps
        /\ again.pc = "undo" /\ again.sess = s /\ again.index = NumSteps /\ again.journal = j
    BY <1>2, <2>2 DEF HelperStates, ControlPoints
  <2>4. CASE PersistAndGoOn(h, k, undo)
    <3> HIDE DEF k, undo
    <3>1. \A b : b.pc = "undo" /\ b.index = NumSteps /\ b.journal = k => RollbackMove(helper[h], b, disk[s])
      BY <2>1, <2>2 DEF RollbackMove
    <3> QED
      BY <1>1, <2>3, <2>4, <3>1, PersistAndGoOnShape DEF Critical, ControlPoints
  <2>5. CASE ~AllowedTransition(j.phase, "disconnecting") /\ Local(h, again) /\ UNCHANGED disk
    <3>1. j.phase = "disconnecting"
      BY <2>1, <2>5 DEF AllowedTransition, Undoable
    <3> HIDE DEF again
    <3>2. RollbackMove(helper[h], again, disk[s]) /\ again.pc \in Critical
      BY <2>1, <2>3, <3>1 DEF RollbackMove, WithPhase, Critical, ControlPoints
    <3> QED
      BY <1>1, <2>3, <2>5, <3>2, LocalShape
  <2> QED
    BY <1>5, <2>4, <2>5 DEF BeginRollback
<1>6. CASE UndoSkip(h)
  <2> DEFINE go == [helper[h] EXCEPT !.index = helper[h].index - 1]
  <2>1. helper[h].pc = "undo" /\ i > 0 /\ ~Live(j, i) /\ Local(h, go) /\ UNCHANGED disk
    BY <1>6 DEF UndoSkip, At
  <2>2. go.pc = "undo" /\ go.sess = s /\ go.journal = j /\ go.index = i - 1 /\ go.failed = helper[h].failed
    BY <1>2, <2>1 DEF HelperStates
  <2> HIDE DEF go
  <2>3. RollbackMove(helper[h], go, disk[s]) /\ go.pc \in Critical
    BY <2>1, <2>2 DEF RollbackMove, Critical, ControlPoints
  <2> QED
    BY <1>1, <2>1, <2>2, <2>3, LocalShape
<1>7. CASE PersistUndo(h)
  <2> DEFINE go == [helper[h] EXCEPT !.pc = "undo", !.index = helper[h].index - 1]
  <2>1. helper[h].pc = "undone" /\ PersistAndGoOn(h, j, go) /\ i - 1 \in 0..NumSteps
    BY <1>2, <1>3, <1>7, StepFacts DEF PersistUndo, At, Positioned
  <2>2. go \in HelperStates /\ go.pc = "undo" /\ go.sess = s /\ go.index = i - 1 /\ go.failed = helper[h].failed
    BY <1>2, <2>1 DEF HelperStates, ControlPoints
  <2> HIDE DEF go
  <2>3. \A b : /\ b.pc = go.pc /\ b.index = go.index /\ b.journal = j /\ (go.failed => b.failed)
               => RollbackMove(helper[h], b, disk[s])
    BY <2>1, <2>2 DEF RollbackMove
  <2> QED
    BY <1>1, <2>1, <2>2, <2>3, PersistAndGoOnShape DEF Critical, ControlPoints
<1>8. CASE FinishRollback(h) /\ helper[h].failed
  <2> DEFINE k == [j EXCEPT !.phase = "rollback_required"]
             go == [helper[h] EXCEPT !.pc = "release"]
  <2>1. helper[h].pc = "undo" /\ PersistAndGoOn(h, k, go)
    BY <1>8 DEF FinishRollback, At
  <2>2. WithPhase(j, k, "rollback_required")
    BY <1>2 DEF WithPhase, Journals
  <2>3. go \in HelperStates /\ go.pc = "release" /\ go.sess = s
    BY <1>2 DEF HelperStates, ControlPoints
  <2> HIDE DEF go, k
  <2>4. \A b : b.pc = "release" /\ b.journal = k => RollbackMove(helper[h], b, disk[s])
    BY <2>1, <2>2 DEF RollbackMove
  <2> QED
    BY <1>1, <2>1, <2>3, <2>4, PersistAndGoOnShape DEF Critical, ControlPoints
<1>9. CASE FinishRollback(h) /\ ~helper[h].failed
  <2> DEFINE k == [j EXCEPT !.phase = "disconnected"]
             next(o) == [helper[h] EXCEPT !.pc = IF o.ok THEN "delete" ELSE "release",
                                          !.journal.phase = "disconnected", !.failed = ~o.ok]
  <2>1. helper[h].pc = "undo" /\ i = 0
    BY <1>9 DEF FinishRollback, At
  <2>2. PICK o \in UpdateOutcomes(disk[s], k) : Store(h, o) /\ Local(h, next(o))
    BY <1>9 DEF FinishRollback
  <2>3. o.journal = disk[s] \/ (o.journal = k /\ Validate(k))
    BY <2>2, StoreFacts
  <2>4. /\ next(o).pc = IF o.ok THEN "delete" ELSE "release"
        /\ next(o).sess = s /\ next(o).journal = k /\ WithPhase(j, k, "disconnected")
    BY <1>2 DEF HelperStates, Journals, WithPhase
  <2> HIDE DEF next, k
  <2>5. RollbackMove(helper[h], next(o), disk[s]) /\ next(o).pc \in Critical
    BY <1>9, <2>1, <2>4 DEF RollbackMove, Critical, ControlPoints
  <2> QED
    BY <1>1, <2>2, <2>3, <2>4, <2>5, StoreShape DEF Writes
<1>10. CASE DeleteJournal(h)
  <2> DEFINE next(o) == [helper[h] EXCEPT !.pc = "release", !.failed = ~o.ok]
  <2>1. helper[h].pc = "delete"
    BY <1>10 DEF DeleteJournal, At
  <2>2. PICK o \in DeleteOutcomes(disk[s]) : Store(h, o) /\ Local(h, next(o))
    BY <1>10 DEF DeleteJournal
  <2>3. o.journal \in {disk[s], AbsentJournal}
    BY <2>2, StoreFacts
  <2>4. next(o).pc = "release" /\ next(o).sess = s /\ next(o).journal = j
    BY <1>2 DEF HelperStates
  <2> HIDE DEF next
  <2>5. RollbackMove(helper[h], next(o), disk[s]) /\ next(o).pc \in Critical
    BY <2>1, <2>4 DEF RollbackMove, Critical, ControlPoints
  <2> QED
    BY <1>1, <2>1, <2>2, <2>3, <2>4, <2>5, StoreShape DEF Writes
<1> QED
  BY <1>4, <1>5, <1>6, <1>7, <1>8, <1>9, <1>10

\* The steps of rollback that look at the machine or change it.
LEMMA UndoShapes ==
    ASSUME ContractInv, NEW h \in Helpers,
           InspectRoute(h) \/ RemoveRoute(h) \/ InspectDNS(h) \/ RestoreDNS(h) \/ DeleteDevice(h)
    PROVE  Moves(h)
<1> DEFINE s == helper[h].sess
           j == helper[h].journal
           i == helper[h].index
           done == UndoSucceeded(h)
           fail == UndoFailed(h)
           rem == [helper[h] EXCEPT !.pc = "remove"]
           rest == [helper[h] EXCEPT !.pc = "restore"]
<1>1. helper[h].pc \in {"undo", "remove", "restore"} /\ helper[h].pc \in Critical /\ UNCHANGED disk
  BY DEF InspectRoute, RemoveRoute, InspectDNS, RestoreDNS, DeleteDevice, Undoing, At,
         Critical, ControlPoints
<1>2. s \in Sessions /\ helper[h] \in HelperStates /\ j \in Journals /\ i \in Steps
  BY <1>1, OwnFacts, StepFacts DEF Positioned, InspectRoute, RemoveRoute, InspectDNS, RestoreDNS,
     DeleteDevice, Undoing, At
<1>3. /\ done.pc = "undone" /\ done.sess = s /\ done.index = i /\ done.failed = helper[h].failed
      /\ WithEntry(j, done.journal, i, "rolled_back")
  BY <1>2 DEF HelperStates, Journals, UndoSucceeded, WithEntry
<1>4. /\ fail.pc = "undo" /\ fail.sess = s /\ fail.index = i - 1 /\ fail.failed /\ fail.journal = j
      /\ rem.pc = "remove" /\ rem.sess = s /\ rem.index = i /\ rem.failed = helper[h].failed /\ rem.journal = j
      /\ rest.pc = "restore" /\ rest.sess = s /\ rest.index = i /\ rest.failed = helper[h].failed /\ rest.journal = j
  BY <1>2 DEF HelperStates, UndoFailed
<1>5. \/ Local(h, done)
      \/ Local(h, fail)
      \/ helper[h].pc = "undo" /\ (Local(h, rem) \/ Local(h, rest))
  BY DEF InspectRoute, RemoveRoute, InspectDNS, RestoreDNS, DeleteDevice, Undoing, At
<1> HIDE DEF done, fail, rem, rest
<1>6. i > 0 /\ (helper[h].pc = "undo" => Live(j, i))
  BY <1>2, StepFacts DEF InspectRoute, RemoveRoute, InspectDNS, RestoreDNS, DeleteDevice, Undoing, At
<1>7. PICK hs \in {done, fail, rem, rest} :
         Local(h, hs) /\ (hs \in {rem, rest} => hs \in {done, fail} \/ helper[h].pc = "undo")
  BY <1>5
<1>8. hs.pc \in Critical /\ hs.sess = s
  BY <1>3, <1>4 DEF Critical, ControlPoints
<1>9. RollbackMove(helper[h], hs, disk[s])
  BY <1>1, <1>3, <1>4, <1>6, <1>7 DEF RollbackMove
<1> QED
  BY <1>1, <1>7, <1>8, <1>9, LocalShape

\* Everything a helper does inside its transaction is such a move.
LEMMA ProceedMoves ==
    ASSUME ContractInv, NEW h \in Helpers, Proceed(h)
    PROVE  Moves(h) \/ Release(h)
  BY ConnectShapes, ApplyShapes, RollbackShapes, UndoShapes DEF Proceed

-----------------------------------------------------------------------------
(* Journals validate, and the loops are where the journal says.            *)

\* Connect keeps its journal valid, also when it turns back.
LEMMA ConnectProgress ==
    ASSUME JournalInv, NEW h \in Helpers, Moves(h), ConnectMove(helper[h], helper'[h])
    PROVE  /\ Exists(helper'[h].journal) => Validate(helper'[h].journal)
           /\ Progress(helper'[h])
<1> DEFINE a == helper[h]
           b == helper'[h]
           j == helper[h].journal
           k == helper'[h].journal
           i == helper[h].index
<1>1. /\ a \in HelperStates /\ j \in Journals /\ i \in 0..NumSteps
      /\ InStep(a, disk[a.sess]) /\ Positioned(a) /\ Progress(a)
      /\ Exists(j) => Validate(j)
  BY OwnFacts DEF JournalInv, Moves, LoopProgress, JournalsValidate
<1>2. NumSteps \in 3..7 /\ Steps = 1..NumSteps
  BY StepFacts
<1>3. j.entries \in [Steps -> Statuses \cup {"none"}]
  BY <1>1 DEF Journals
<1> HIDE DEF a, b, j, k, i
<1>4. CASE a.pc = "check" /\ b.pc = "create" /\ k = NewJournal
  <2>1. k.phase = "connecting" /\ k.device = NoHelper /\ \A n \in Steps : k.entries[n] = "none"
    BY <1>4 DEF NewJournal, AbsentJournal
  <2> QED
    BY <1>2, <1>4, <2>1 DEF Validate, Phases, Progress, Live, b, k
<1>5. CASE k = j /\ b.pc \in {"release", "rollback", "mark"} /\ (b.pc = "mark" => a.pc = "apply" /\ b.index = i)
  BY <1>1, <1>5 DEF Progress, a, b, j, k, i
<1>6. CASE a.pc = "create" /\ b.pc = "intent" /\ b.index = 1 /\ k = j
  BY <1>1, <1>2, <1>6 DEF Progress, a, b, j, k, i
<1>7. CASE a.pc = "intent" /\ b.pc \in {"apply", "rollback"} /\ b.index = i /\ WithEntry(j, k, i, "planned")
  <2>1. /\ Validate(j) /\ j.phase = "connecting" /\ i \in Steps
        /\ \A n \in Steps : n < i => j.entries[n] = "applied"
        /\ \A n \in Steps : n >= i => j.entries[n] = "none"
        /\ i > 2 => j.device \in Helpers
    BY <1>1, <1>2, <1>7 DEF InStep, Positioned, Progress, Exists, a, j, i
  <2>2. /\ k.phase = "connecting" /\ k.device = j.device
        /\ \A n \in Steps : k.entries[n] = IF n = i THEN "planned" ELSE j.entries[n]
    BY <1>3, <1>7, <2>1 DEF WithEntry
  <2>3. Validate(k)
    BY <1>2, <2>1, <2>2, HelperAssumption DEF Validate, Phases, Live
  <2>4. \A n \in Steps : n < i => k.entries[n] = "applied"
    BY <1>2, <2>1, <2>2
  <2> QED
    BY <1>7, <2>3, <2>4 DEF Progress, b, k, i
<1>8. CASE /\ a.pc = "apply" /\ b.pc = "mark" /\ b.index = i /\ i = 2
           /\ k.device \in Helpers /\ k.entries = j.entries /\ k.phase = j.phase
  <2>1. /\ Validate(j) /\ j.phase = "connecting"
        /\ \A n \in Steps : n < i => j.entries[n] = "applied"
        /\ j.entries[2] = "planned"
    BY <1>1, <1>2, <1>8 DEF InStep, Progress, Exists, a, j, i
  <2>2. Validate(k)
    BY <1>2, <1>8, <2>1, HelperAssumption DEF Validate, Phases, Live
  <2> QED
    BY <1>8, <2>1, <2>2 DEF Progress, b, k, i
<1>9. CASE /\ a.pc = "mark" /\ WithEntry(j, k, i, "applied")
           /\ \/ b.pc = "rollback"
              \/ i = NumSteps /\ b.pc = "verify"
              \/ i # NumSteps /\ b.pc = "intent" /\ b.index = i + 1
  <2>1. /\ Validate(j) /\ j.phase = "connecting" /\ i \in Steps
        /\ \A n \in Steps : n < i => j.entries[n] = "applied"
        /\ j.entries[i] = "planned"
        /\ i = 2 => j.device \in Helpers
    BY <1>1, <1>2, <1>9 DEF InStep, Positioned, Progress, Exists, a, j, i
  <2>2. /\ k.phase = "connecting" /\ k.device = j.device
        /\ \A n \in Steps : k.entries[n] = IF n = i THEN "applied" ELSE j.entries[n]
    BY <1>3, <1>9, <2>1 DEF WithEntry
  <2>3. Validate(k)
    BY <1>2, <2>1, <2>2, HelperAssumption DEF Validate, Phases, Live
  <2>4. \A n \in Steps : n < i + 1 => k.entries[n] = "applied"
    BY <1>2, <2>1, <2>2
  <2>5. i = NumSteps => \A n \in Steps : k.entries[n] = "applied"
    BY <1>2, <2>4
  <2> QED
    BY <1>9, <2>3, <2>4, <2>5 DEF Progress, b, k, i
<1>10. CASE a.pc = "verify" /\ b.pc \in {"connect", "rollback"} /\ k = j
  BY <1>1, <1>10 DEF Progress, a, b, j, k
<1>11. CASE a.pc = "connect" /\ b.pc \in {"release", "rollback"} /\ WithPhase(j, k, "connected")
  <2>1. Validate(j) /\ j.phase = "connecting" /\ \A n \in Steps : j.entries[n] = "applied"
    BY <1>1, <1>11 DEF InStep, Progress, Exists, a, j
  <2>2. k.phase = "connected" /\ k.device = j.device /\ k.entries = j.entries
    BY <1>11 DEF WithPhase
  <2>3. Validate(k)
    BY <1>2, <2>1, <2>2 DEF Validate, Phases, Live
  <2> QED
    BY <1>11, <2>3 DEF Progress, b, k
<1> QED
  BY <1>4, <1>5, <1>6, <1>7, <1>8, <1>9, <1>10, <1>11 DEF ConnectMove, a, b, j, k, i

\* Rollback keeps it valid, and calls it disconnected only when every entry
\* is undone.
LEMMA RollbackProgress ==
    ASSUME JournalInv, NEW h \in Helpers, Moves(h),
           RollbackMove(helper[h], helper'[h], disk[helper[h].sess])
    PROVE  /\ Exists(helper'[h].journal) => Validate(helper'[h].journal)
           /\ Progress(helper'[h])
<1> DEFINE a == helper[h]
           b == helper'[h]
           j == helper[h].journal
           k == helper'[h].journal
           i == helper[h].index
           d == disk[helper[h].sess]
<1>1. /\ a \in HelperStates /\ j \in Journals /\ i \in 0..NumSteps /\ a.failed \in BOOLEAN
      /\ InStep(a, d) /\ Positioned(a) /\ Progress(a)
      /\ Exists(j) => Validate(j)
      /\ Exists(d) => Validate(d)
  BY OwnFacts DEF JournalInv, Moves, LoopProgress, JournalsValidate, HelperStates
<1>2. NumSteps \in 3..7 /\ Steps = 1..NumSteps
  BY StepFacts
<1>3. j.entries \in [Steps -> Statuses \cup {"none"}]
  BY <1>1 DEF Journals
<1> HIDE DEF a, b, j, k, i, d
<1>4. a.pc \in {"rollback", "undo", "remove", "restore", "undone"} =>
         /\ Validate(j)
         /\ a.pc # "rollback" => j.phase = "disconnecting"
  BY <1>1 DEF InStep, Exists, Undoable, a, j, d
<1>5. CASE k \in {d, j} /\ b.pc \in {"rollback", "delete", "release"}
  BY <1>1, <1>5 DEF Progress, b, k
<1>6. ASSUME NEW phase \in {"disconnecting", "rollback_required"}, WithPhase(j, k, phase),
             a.pc \in {"rollback", "undo"}
      PROVE  Validate(k)
  <2>1. k.phase = phase /\ k.device = j.device /\ k.entries = j.entries
    BY <1>6 DEF WithPhase
  <2> QED
    BY <1>4, <1>6, <2>1 DEF Validate, Phases, Live
<1>7. CASE a.pc = "rollback" /\ b.pc = "undo" /\ b.index = NumSteps /\ WithPhase(j, k, "disconnecting")
  BY <1>2, <1>6, <1>7 DEF Progress, b, k
<1>8. CASE a.pc = "undo" /\ b.pc = "undo" /\ b.index = i - 1 /\ i > 0 /\ ~Live(j, i) /\ b.failed = a.failed /\ k = j
  <2>1. ~b.failed => \A n \in Steps : n > i - 1 => ~Live(j, n)
    BY <1>1, <1>2, <1>8 DEF Progress, a, j, i
  <2> QED
    BY <1>4, <1>8, <2>1 DEF Progress, b, k
<1>9. CASE a.pc = "undo" /\ b.pc \in {"remove", "restore"} /\ Live(j, i) /\ b.index = i /\ b.failed = a.failed /\ k = j
  <2>1. ~b.failed => \A n \in Steps : n > i => ~Live(j, n)
    BY <1>1, <1>9 DEF Progress, a, j, i
  <2> QED
    BY <1>4, <1>9, <2>1 DEF Progress, b, k, i
<1>10. CASE /\ a.pc \in {"undo", "remove", "restore"} /\ b.pc = "undone" /\ b.index = i /\ i > 0 /\ b.failed = a.failed
            /\ a.pc = "undo" => Live(j, i)
            /\ WithEntry(j, k, i, "rolled_back")
  <2>1. /\ k.phase = "disconnecting" /\ k.device = j.device /\ i \in Steps
        /\ \A n \in Steps : k.entries[n] = IF n = i THEN "rolled_back" ELSE j.entries[n]
    BY <1>1, <1>2, <1>3, <1>4, <1>10 DEF WithEntry
  <2>2. Live(j, i)
    BY <1>1, <1>10 DEF Progress, a, j, i
  <2>3. Validate(k)
    BY <1>2, <1>4, <1>10, <2>1, <2>2, SMTT(60) DEF Validate, Phases, Live
  <2>4. ~Live(k, i) /\ (~b.failed => \A n \in Steps : n > i => ~Live(k, n))
    <3>1. ~a.failed => \A n \in Steps : n > i => ~Live(j, n)
      BY <1>1, <1>10 DEF Progress, a, j, i
    <3> QED
      BY <1>2, <1>10, <2>1, <3>1 DEF Live
  <2> QED
    BY <1>10, <2>3, <2>4 DEF Progress, b, k, i
<1>11. CASE a.pc \in {"undo", "remove", "restore"} /\ b.pc = "undo" /\ b.index = i - 1 /\ b.failed /\ k = j
  BY <1>4, <1>11 DEF Progress, b, k
<1>12. CASE a.pc = "undone" /\ b.pc = "undo" /\ b.index = i - 1 /\ (a.failed => b.failed) /\ k = j
  <2>1. ~b.failed => \A n \in Steps : n > i - 1 => ~Live(j, n)
    BY <1>1, <1>2, <1>12 DEF Progress, a, j, i
  <2> QED
    BY <1>4, <1>12, <2>1 DEF Progress, b, k
<1>13. CASE a.pc = "undo" /\ b.pc = "release" /\ WithPhase(j, k, "rollback_required")
  BY <1>6, <1>13 DEF Progress, b, k
<1>14. CASE /\ a.pc = "undo" /\ i = 0 /\ ~a.failed /\ b.pc \in {"delete", "release"}
            /\ WithPhase(j, k, "disconnected")
  <2>1. \A n \in Steps : ~Live(j, n)
    BY <1>1, <1>2, <1>14 DEF Progress, a, j, i
  <2>2. k.phase = "disconnected" /\ k.device = j.device /\ k.entries = j.entries
    BY <1>14 DEF WithPhase
  <2>3. Validate(k)
    BY <1>4, <1>14, <2>1, <2>2 DEF Validate, Phases, Live
  <2> QED
    BY <1>14, <2>3 DEF Progress, b, k
<1> QED
  BY <1>5, <1>7, <1>8, <1>9, <1>10, <1>11, <1>12, <1>13, <1>14 DEF RollbackMove, a, b, j, k, i, d

\* A step leaves the table alone, or it is one of those that change it.
LEMMA RoutesExplained ==
    ASSUME JournalInv, [Next]_vars
    PROVE  RoutesAreExplained'
<1>1. /\ table \in [Dests -> {"none", "other", "physical", "lo0"} \cup Helpers]
      /\ installer \in [Dests -> Sessions \cup {NoSession}]
      /\ RoutesAreExplained
  BY DEF JournalInv, ContractInv, EvidenceInv, TypeOK
<1>2. CASE UNCHANGED routes
  BY <1>1, <1>2 DEF RoutesAreExplained, routes, Dest
<1>3. ASSUME NEW h \in Helpers, table' = WithoutVia(h), installer' = InstallerWithoutVia(h)
      PROVE  RoutesAreExplained'
  BY <1>1, <1>3 DEF RoutesAreExplained, WithoutVia, InstallerWithoutVia, Dest
<1>4. ASSUME NEW h \in Helpers, AddRoute(h) PROVE RoutesAreExplained'
  <2> DEFINE s == helper[h].sess
             i == helper[h].index
             d == Dest(s, i)
  <2>1. s \in Sessions /\ i \in RouteSteps
    BY <1>4, OwnFacts DEF AddRoute, At, Critical, ControlPoints, JournalInv
  <2>2. CASE UNCHANGED routes
    BY <1>2, <2>2
  <2>3. CASE /\ table' = [table EXCEPT ![d] = Via(helper[h].journal, i)]
             /\ installer' = [installer EXCEPT ![d] = s]
    <3>1. \A e \in Dests : e # d => table'[e] = table[e] /\ installer'[e] = installer[e]
      BY <1>1, <2>3
    <3>2. d \in Dests /\ installer'[d] = s
      BY <1>1, <2>1, <2>3, DestFacts
    <3> QED
      BY <1>1, <2>1, <3>1, <3>2 DEF RoutesAreExplained, Dest
  <2> QED
    BY <1>4, <2>2, <2>3 DEF AddRoute
<1>5. ASSUME NEW h \in Helpers, RemoveRoute(h) PROVE RoutesAreExplained'
  <2>1. CASE UNCHANGED routes
    BY <1>2, <2>1
  <2>2. CASE \E d : table' = [table EXCEPT ![d] = "none"] /\ installer' = [installer EXCEPT ![d] = NoSession]
    BY <1>1, <2>2 DEF RoutesAreExplained, Dest
  <2> QED
    BY <1>5, <2>1, <2>2 DEF RemoveRoute
<1>6. ASSUME NEW h \in Helpers, DeleteDevice(h) PROVE RoutesAreExplained'
  BY <1>2, <1>3, <1>6 DEF DeleteDevice
<1>7. ASSUME NEW h \in Helpers, Release(h) \/ Crash(h) PROVE RoutesAreExplained'
  BY <1>2, <1>3, <1>7 DEF Release, Crash, Ends
<1>8. CASE Reboot
  BY <1>8 DEF Reboot, RoutesAreExplained
<1>9. ASSUME NEW d \in Dests, ForeignRoute(d) PROVE RoutesAreExplained'
  <2>1. PICK via \in ForeignVias : table' = [table EXCEPT ![d] = via]
    BY <1>9 DEF ForeignRoute
  <2>2. installer' = [installer EXCEPT ![d] = NoSession]
    BY <1>9 DEF ForeignRoute
  <2> QED
    BY <1>1, <2>1, <2>2 DEF RoutesAreExplained, Dest
<1>10. ASSUME NEW h \in Helpers, Proceed(h) PROVE RoutesAreExplained'
  <2>1. AddRoute(h) \/ RemoveRoute(h) \/ DeleteDevice(h) \/ Release(h) \/ UNCHANGED routes
    BY <1>10 DEF Proceed, CheckAndSnapshot, CreateJournal, RecordIntent, CreateDevice, ApplyDNS, MarkApplied,
       Verify, SetConnected, LoadJournal, BeginRollback, UndoSkip, InspectRoute, InspectDNS, RestoreDNS,
       PersistUndo, FinishRollback, DeleteJournal, PersistOrRollBack, PersistAndGoOn, machine, routes
  <2> QED
    BY <1>2, <1>4, <1>5, <1>6, <1>7, <2>1
<1>11. CASE UNCHANGED vars
  BY <1>2, <1>11 DEF vars, routes
<1>12. CASE Next
  <2>1. ASSUME NEW h \in Helpers, NEW s \in Sessions, AcquireForConnect(h, s) \/ AcquireForDisconnect(h, s)
        PROVE  RoutesAreExplained'
    BY <1>2, <2>1 DEF AcquireForConnect, AcquireForDisconnect, machine, routes
  <2>2. CASE UserSetsDNS
    BY <1>2, <2>2 DEF UserSetsDNS, routes
  <2> QED
    BY <1>7, <1>8, <1>9, <1>10, <1>12, <2>1, <2>2 DEF Next
<1> QED
  BY <1>11, <1>12

\* What the steps outside a transaction do to locals and journals: helpers
\* rest, or start on an operation without a journal in memory.
LEMMA OutsideShape ==
    ASSUME ContractInv, [Next]_vars, \A h \in Helpers : Proceed(h) => Release(h)
    PROVE  /\ UNCHANGED disk
           /\ \A g \in Helpers :
                 \/ helper'[g] = helper[g]
                 \/ /\ helper'[g].pc \in {"idle", "serving", "check", "load"}
                    /\ helper'[g].journal = AbsentJournal
<1>1. helper \in [Helpers -> HelperStates] /\ \A g \in Helpers : Fresh(helper[g])
  BY DEF ContractInv, EvidenceInv, TypeOK, MemoryInStep
<1>2. Dead.pc = "idle" /\ Dead.journal = AbsentJournal
  BY DEF Dead
<1>3. ASSUME NEW h \in Helpers, Release(h) \/ Crash(h)
      PROVE  /\ UNCHANGED disk
             /\ \A g \in Helpers \ {h} : helper'[g] = helper[g]
             /\ helper'[h].pc \in {"idle", "serving"} /\ helper'[h].journal = AbsentJournal
  <2> DEFINE served == [Dead EXCEPT !.pc = "serving", !.sess = helper[h].sess, !.resident = TRUE]
  <2>1. served.pc = "serving" /\ served.journal = AbsentJournal
    BY SMTT(60) DEF Dead
  <2> HIDE DEF served
  <2>2. PICK hs \in {served, Dead} : helper' = [helper EXCEPT ![h] = hs]
    BY <1>3, ZenonT(60) DEF Release, Crash, Ends, Local, served
  <2>3. UNCHANGED disk
    BY <1>3 DEF Release, Crash
  <2> QED
    BY <1>1, <1>2, <2>1, <2>2, <2>3
<1>4. CASE Reboot
  BY <1>2, <1>4 DEF Reboot
<1>5. CASE UserSetsDNS \/ (\E d \in Dests : ForeignRoute(d)) \/ UNCHANGED vars
  BY <1>5 DEF UserSetsDNS, ForeignRoute, vars
<1>6. ASSUME NEW h \in Helpers, NEW s \in Sessions, AcquireForConnect(h, s) \/ AcquireForDisconnect(h, s)
      PROVE  /\ UNCHANGED disk
             /\ \A g \in Helpers \ {h} : helper'[g] = helper[g]
             /\ helper'[h].pc \in {"check", "load"} /\ helper'[h].journal = AbsentJournal
  <2>1. CASE AcquireForConnect(h, s)
    BY <1>1, <2>1 DEF AcquireForConnect, Local, Dead
  <2>2. CASE AcquireForDisconnect(h, s) /\ At(h, "idle")
    BY <1>1, <2>2 DEF AcquireForDisconnect, Local, Dead, At
  <2>3. CASE AcquireForDisconnect(h, s) /\ At(h, "serving")
    <3>1. helper[h].journal = AbsentJournal
      BY <1>1, <2>3 DEF Fresh, At
    <3>2. PICK stay \in BOOLEAN : Local(h, [helper[h] EXCEPT !.pc = "load", !.resident = stay])
      BY <2>3 DEF AcquireForDisconnect, At
    <3>3. UNCHANGED disk
      BY <2>3 DEF AcquireForDisconnect
    <3>4. helper[h] \in HelperStates
      BY <1>1
    <3> QED
      BY <1>1, <3>1, <3>2, <3>3, <3>4 DEF Local, HelperStates
  <2> QED
    BY <1>6, <2>1, <2>2, <2>3 DEF AcquireForConnect, AcquireForDisconnect
<1>7. CASE UNCHANGED vars
  BY <1>5, <1>7
<1>8. ASSUME NEW h \in Helpers, Proceed(h) \/ Crash(h)
      PROVE  /\ UNCHANGED disk
             /\ \A g \in Helpers :
                   \/ helper'[g] = helper[g]
                   \/ /\ helper'[g].pc \in {"idle", "serving", "check", "load"}
                      /\ helper'[g].journal = AbsentJournal
  <2>1. Release(h) \/ Crash(h)
    BY <1>8
  <2> QED
    BY <1>3, <2>1
<1>9. CASE Next
  BY <1>4, <1>5, <1>6, <1>8, <1>9 DEF Next
<1> QED
  BY <1>7, <1>9

\* The journals stay valid and the loops on track, whatever happens.
THEOREM JournalStep == JournalInv /\ [Next]_vars => JournalInv'
<1> SUFFICES ASSUME JournalInv, [Next]_vars PROVE JournalInv'
  OBVIOUS
<1>1. ContractInv /\ ContractInv' /\ RoutesAreExplained'
  BY ContractStep, RoutesExplained DEF JournalInv, Faithful
<1>2. /\ \A g \in Helpers : Exists(helper[g].journal) => Validate(helper[g].journal)
      /\ \A s \in Sessions : Exists(disk[s]) => Validate(disk[s])
      /\ \A g \in Helpers : Progress(helper[g])
  BY DEF JournalInv, JournalsValidate, LoopProgress
<1>3. ~Exists(AbsentJournal)
  BY DEF Exists, AbsentJournal
<1>4. ASSUME NEW h \in Helpers, Moves(h) PROVE JournalInv'
  <2>1. /\ Exists(helper'[h].journal) => Validate(helper'[h].journal)
        /\ Progress(helper'[h])
    BY <1>4, ConnectProgress, RollbackProgress DEF Moves
  <2>2. Exists(disk'[helper[h].sess]) => Validate(disk'[helper[h].sess])
    <3>1. helper[h].sess \in Sessions
      BY <1>1, <1>4, OwnFacts DEF Moves
    <3> QED
      BY <1>2, <1>3, <1>4, <3>1 DEF Moves, Writes
  <2>3. JournalsValidate'
    BY <1>2, <1>4, <2>1, <2>2 DEF JournalsValidate, Moves
  <2>4. LoopProgress'
    BY <1>2, <1>4, <2>1 DEF LoopProgress, Moves
  <2> QED
    BY <1>1, <2>3, <2>4 DEF JournalInv
<1>5. CASE \A h \in Helpers : Proceed(h) => Release(h)
  <2>1. /\ UNCHANGED disk
        /\ \A g \in Helpers :
              \/ helper'[g] = helper[g]
              \/ /\ helper'[g].pc \in {"idle", "serving", "check", "load"}
                 /\ helper'[g].journal = AbsentJournal
    BY <1>1, <1>5, OutsideShape
  <2>2. JournalsValidate'
    BY <1>2, <1>3, <2>1 DEF JournalsValidate
  <2>3. LoopProgress'
    BY <1>2, <2>1 DEF LoopProgress, Progress
  <2> QED
    BY <1>1, <2>2, <2>3 DEF JournalInv
<1> QED
  BY <1>1, <1>4, <1>5, ProceedMoves

\* Before any helper runs there is no journal.
THEOREM JournalInitial == Init => JournalInv
<1> SUFFICES ASSUME Init PROVE JournalInv
  OBVIOUS
<1>1. ContractInv
  BY ContractInitial
<1>2. JournalsValidate /\ LoopProgress
  BY DEF Init, JournalsValidate, LoopProgress, Progress, Dead, AbsentJournal, Exists
<1>3. RoutesAreExplained
  BY DEF Init, RoutesAreExplained
<1> QED
  BY <1>1, <1>2, <1>3 DEF JournalInv

\* Every journal the controller builds validates, and every one on disk can
\* be loaded, for every number of sessions, helpers and routes: no write is
\* ever refused by JournalStore for its content.
THEOREM JournalsAreValid == Spec => []JournalsValidate
<1>1. JournalInv => JournalsValidate
  BY DEF JournalInv
<1> QED
  BY <1>1, JournalInitial, JournalStep, PTL DEF Spec

-----------------------------------------------------------------------------
(* Rollback on the routing table.                                          *)

\* While rollback has met no error, every route after the one it stands at is
\* gone from the table, as far as this session installed it.
LEMMA LaterRoutesAreGone ==
    ASSUME JournalInv, NEW h \in Helpers, At(h, "remove"), ~helper[h].failed,
           NEW k \in RouteSteps, k > helper[h].index
    PROVE  installer[Dest(helper[h].sess, k)] # helper[h].sess
<1>1. ~Live(helper[h].journal, k)
  BY StepFacts DEF JournalInv, LoopProgress, Progress, At
<1>2. Covers(helper[h].journal, helper[h].sess)
  BY DEF JournalInv, ContractInv, EvidenceInv, MemoryHasEvidence, Holding, At
<1> QED
  BY <1>1, <1>2 DEF Covers

\* Rollback of the routes is in reverse order unless an error was recorded,
\* for any number of sessions and helpers and under both policies.
THEOREM RollbackGoesBack == Spec => RollbackIsReverse
<1>1. JournalInv =>
        \A h \in Helpers, i \in RouteSteps :
            Removes(h, i) =>
                \/ helper[h].failed
                \/ \A k \in RouteSteps : k > i => installer[Dest(helper[h].sess, k)] # helper[h].sess
  BY LaterRoutesAreGone DEF Removes
<1> QED
  BY <1>1, JournalInitial, JournalStep, PTL DEF Spec, RollbackIsReverse

\* Only the delete command itself takes a helper from "remove" on.
LEMMA OnlyRemoveRoute ==
    ASSUME ContractInv, [Next]_vars, NEW h \in Helpers, At(h, "remove"),
           helper'[h].pc \in {"undo", "undone"}
    PROVE  RemoveRoute(h)
<1>1. CASE \A g \in Helpers : Proceed(g) => Release(g)
  BY <1>1, OutsideShape DEF At
<1>2. ASSUME NEW g \in Helpers, g # h, Moves(g) PROVE FALSE
  BY <1>2 DEF Moves, At
<1>3. CASE Proceed(h)
  BY <1>3 DEF Proceed, At, Undoing, CheckAndSnapshot, CreateJournal, RecordIntent, AddRoute, CreateDevice,
     ApplyDNS, MarkApplied, Verify, SetConnected, LoadJournal, BeginRollback, UndoSkip, InspectRoute,
     InspectDNS, RestoreDNS, DeleteDevice, PersistUndo, FinishRollback, DeleteJournal, Release
<1> QED
  BY <1>1, <1>2, <1>3, ProceedMoves

\* A route that an entry of a valid journal names is none that the programs
\* in ForeignVias install.
LEMMA NamedViaIsOurs ==
    ASSUME ForeignVias \cap {"physical", "lo0"} = {},
           NEW j \in Journals, Validate(j), NEW i \in RouteSteps, Live(j, i)
    PROVE  Via(j, i) \notin ForeignVias \cup {"none"}
<1>1. i # 1 => j.device \in Helpers
  <2> SUFFICES ASSUME i # 1 PROVE j.device \in Helpers
    OBVIOUS
  <2>1. i \in 3..6 /\ 3..i \subseteq Steps /\ j.entries[i] # "none"
    BY StepFacts DEF RouteSteps, Live
  <2>2. \A k \in Steps : k > 1 /\ j.entries[k] # "none" => j.entries[k - 1] # "none"
    BY DEF Validate
  <2>3. CASE i = 3
    BY <2>1, <2>3 DEF Validate, Journals
  <2>4. CASE i = 4
    BY <2>1, <2>2, <2>4 DEF Validate, Journals
  <2>5. CASE i = 5
    <3>1. j.entries[4] # "none"
      BY <2>1, <2>2, <2>5
    <3> QED
      BY <2>1, <2>2, <2>5, <3>1 DEF Validate, Journals
  <2>6. CASE i = 6
    <3>1. j.entries[5] # "none"
      BY <2>1, <2>2, <2>6
    <3>2. j.entries[4] # "none"
      BY <2>1, <2>2, <2>6, <3>1
    <3> QED
      BY <2>1, <2>2, <2>6, <3>2 DEF Validate, Journals
  <2> QED
    BY <2>1, <2>3, <2>4, <2>5, <2>6
<1> QED
  BY <1>1, HelperAssumption, EnvironmentAssumption DEF Via

\* While one session is active at a time and no other program uses the
\* physical interface or lo0 for a planned destination, the delete command of
\* rollback removes only what its own session added, whoever died in between.
THEOREM OwnRoutesOnly ==
    ASSUME ForeignVias \cap {"physical", "lo0"} = {}
    PROVE  Spec /\ []OneAtATime => RemovesOnlyOwnRoutes
<1>1. JournalInv /\ OneAtATime /\ [Next]_vars =>
        \A h \in Helpers, i \in RouteSteps :
            Removes(h, i) => installer[Dest(helper[h].sess, i)] = helper[h].sess
  <2> SUFFICES ASSUME JournalInv, OneAtATime, [Next]_vars,
                      NEW h \in Helpers, NEW i \in RouteSteps, Removes(h, i)
               PROVE  installer[Dest(helper[h].sess, i)] = helper[h].sess
    OBVIOUS
  <2> DEFINE s == helper[h].sess
             j == helper[h].journal
             d == Dest(s, i)
  <2>1. ContractInv /\ helper[h].pc = "remove" /\ helper[h].index = i /\ helper[h].pc \in Critical
    BY DEF JournalInv, Removes, At, Critical, ControlPoints
  <2>2. s \in Sessions /\ j \in Journals /\ InStep(helper[h], disk[s])
    BY <2>1, OwnFacts
  <2>3. Exists(disk[s]) /\ Exists(j)
    BY <2>1, <2>2 DEF InStep, Exists, Undoable
  <2>4. Validate(j) /\ Live(j, i)
    BY <2>1, <2>3 DEF JournalInv, JournalsValidate, LoopProgress, Progress
  <2>5. RemoveRoute(h)
    BY <2>1, OnlyRemoveRoute DEF Removes
  <2>6. table[d] = Via(j, i) /\ d \in Dests
    BY <2>1, <2>2, <2>5, DestFacts DEF RemoveRoute, Removes, routes
  <2>7. PICK t \in Sessions, k \in RouteSteps : installer[d] = t /\ d = Dest(t, k)
    BY <2>2, <2>4, <2>6, NamedViaIsOurs DEF JournalInv, RoutesAreExplained
  <2>8. Live(disk[t], k) /\ Honest(disk[t]) /\ k \in Steps
    BY <2>7, StepFacts DEF JournalInv, ContractInv, EvidenceInv, RoutesHaveEvidence, Covers, DiskIsHonest
  <2>9. Exists(disk[t])
    BY <2>8 DEF Honest, Live
  <2> QED
    BY <2>2, <2>3, <2>7, <2>9 DEF OneAtATime, Active
<1> QED
  BY <1>1, JournalInitial, JournalStep, PTL DEF Spec, RemovesOnlyOwnRoutes

-----------------------------------------------------------------------------
(* DNS.                                                                    *)

\* The DNS step, where there is one, is the last.
LEMMA DNSStepFacts ==
    /\ \A i \in Steps : Kind(i) = "dns" => UsesDNS /\ i = NumSteps
    /\ UsesDNS => NumSteps \notin RouteSteps /\ Kind(NumSteps) = "dns"
    /\ NumSteps \in Steps
<1>1. NumTunnelRoutes \in 1..4 /\ Steps = 1..NumSteps /\ TunnelSteps = 3..(2 + NumTunnelRoutes)
  BY StepFacts
<1>2. UsesDNS => NumSteps = 3 + NumTunnelRoutes
  BY <1>1 DEF NumSteps
<1>3. ~UsesDNS => NumSteps = 2 + NumTunnelRoutes
  BY <1>1 DEF NumSteps
<1> QED
  BY <1>1, <1>2, <1>3 DEF Kind, RouteSteps

\* What the steps of an operation do to the servers: nothing, or they apply
\* the tunnel's, or they put the pre-image back.  The DNS entry is rolled back
\* only once the pre-image is there.
DNSEffect(a, b) ==
    /\ UNCHANGED <<userDns, started>>
    /\ a.pc \in {"check", "load"} => UNCHANGED disk
    /\ \/ dns' = dns
       \/ a.pc = "apply" /\ Kind(a.index) = "dns" /\ dns' = "tunnel"
       \/ a.pc = "restore" /\ dns' = a.journal.dnsBefore
    /\ b.pc = "restore" => dns = "tunnel" /\ dns' = dns
    /\ b.pc = "undone" /\ Kind(a.index) = "dns" => dns' = a.journal.dnsBefore

\* Every step of an operation has such an effect.
LEMMA ProceedDNS ==
    ASSUME ContractInv, NEW h \in Helpers, Proceed(h), ~Release(h)
    PROVE  DNSEffect(helper[h], helper'[h])
<1> DEFINE a == helper[h]
           b == helper'[h]
           i == helper[h].index
<1>1. helper \in [Helpers -> HelperStates] /\ a \in HelperStates
  BY DEF ContractInv, EvidenceInv, TypeOK
<1>2. Moves(h)
  BY ProceedMoves
<1>3. CASE \/ CheckAndSnapshot(h) \/ LoadJournal(h) \/ CreateJournal(h) \/ RecordIntent(h)
           \/ AddRoute(h) \/ CreateDevice(h) \/ MarkApplied(h) \/ Verify(h) \/ SetConnected(h)
           \/ BeginRollback(h) \/ PersistUndo(h) \/ DeleteJournal(h)
  <2>1. UNCHANGED <<userDns, started, dns>> /\ (a.pc \in {"check", "load"} => UNCHANGED disk)
    BY <1>3, ZenonT(60) DEF CheckAndSnapshot, LoadJournal, CreateJournal, RecordIntent, AddRoute, CreateDevice,
       MarkApplied, Verify, SetConnected, BeginRollback, PersistUndo, DeleteJournal,
       PersistOrRollBack, PersistAndGoOn, machine, At
  <2>2. a.pc \in {"check", "load", "create", "intent", "apply", "mark", "verify", "connect", "rollback", "undone", "delete"}
    BY <1>3 DEF CheckAndSnapshot, LoadJournal, CreateJournal, RecordIntent, AddRoute, CreateDevice,
       MarkApplied, Verify, SetConnected, BeginRollback, PersistUndo, DeleteJournal, At
  <2>3. b.pc \notin {"restore", "undone"}
    BY <1>2, <1>3, <2>2 DEF Moves, ConnectMove, RollbackMove
  <2> QED
    BY <2>1, <2>3, SMTT(60) DEF DNSEffect
<1>4. CASE FinishRollback(h)
  <2>1. UNCHANGED <<userDns, started, dns>> /\ a.pc = "undo"
    BY <1>4 DEF FinishRollback, PersistAndGoOn, machine, At
  <2> DEFINE go == [helper[h] EXCEPT !.pc = "release"]
             next(k, o) == [go EXCEPT !.journal = k, !.failed = go.failed \/ ~o.ok]
             last(o) == [helper[h] EXCEPT !.pc = IF o.ok THEN "delete" ELSE "release",
                                          !.journal.phase = "disconnected", !.failed = ~o.ok]
  <2>2. \A k, o : next(k, o).pc = "release" /\ last(o).pc \in {"release", "delete"}
    BY <1>1 DEF HelperStates
  <2>3. \E k, o : Local(h, next(k, o)) \/ Local(h, last(o))
    BY <1>4 DEF FinishRollback, PersistAndGoOn
  <2> HIDE DEF go, next, last
  <2>4. b.pc \in {"release", "delete"}
    BY <1>1, <2>2, <2>3 DEF Local
  <2> QED
    BY <2>1, <2>4 DEF DNSEffect
<1>5. CASE UndoSkip(h)
  BY <1>1, <1>5 DEF UndoSkip, Local, At, machine, DNSEffect, HelperStates
<1>6. ASSUME NEW hs \in {UndoSucceeded(h), UndoFailed(h)}, Local(h, hs)
      PROVE  b = hs /\ b.pc \in {"undone", "undo"} /\ (hs = UndoFailed(h) => b.pc = "undo")
  BY <1>1, <1>6 DEF UndoSucceeded, UndoFailed, Local, HelperStates
<1>7. CASE InspectRoute(h) \/ DeleteDevice(h)
  <2>1. UNCHANGED <<userDns, started, dns>> /\ a.pc = "undo" /\ Kind(i) # "dns"
    BY <1>7 DEF InspectRoute, DeleteDevice, Undoing, At, machine
  <2>2. b.pc \in {"undone", "undo", "remove"}
    BY <1>1, <1>6, <1>7 DEF InspectRoute, DeleteDevice, Local, HelperStates
  <2> QED
    BY <2>1, <2>2 DEF DNSEffect
<1>8. CASE RemoveRoute(h)
  <2>1. UNCHANGED <<userDns, started, dns>> /\ a.pc = "remove"
    BY <1>8 DEF RemoveRoute, At
  <2>2. i \in RouteSteps
    BY <2>1, OwnFacts DEF Positioned, Critical, ControlPoints
  <2>3. Kind(i) # "dns"
    BY <2>2, StepFacts
  <2>4. b.pc \in {"undone", "undo"}
    BY <1>6, <1>8 DEF RemoveRoute
  <2> QED
    BY <2>1, <2>3, <2>4 DEF DNSEffect
<1>9. CASE InspectDNS(h)
  <2>1. UNCHANGED <<userDns, started, dns>> /\ a.pc = "undo"
    BY <1>9 DEF InspectDNS, Undoing, At, machine
  <2>2. \/ b.pc = "undone" /\ dns = a.journal.dnsBefore
        \/ b.pc = "undo"
        \/ b.pc = "restore" /\ dns = "tunnel"
    BY <1>1, <1>6, <1>9 DEF InspectDNS, Local, HelperStates
  <2> QED
    BY <2>1, <2>2 DEF DNSEffect
<1>10. CASE RestoreDNS(h)
  <2>1. UNCHANGED <<userDns, started>> /\ a.pc = "restore"
    BY <1>10 DEF RestoreDNS, At
  <2>2. \/ b.pc \in {"undone", "undo"} /\ dns' = a.journal.dnsBefore
        \/ b.pc = "undo" /\ dns' = dns
    BY <1>6, <1>10 DEF RestoreDNS
  <2> QED
    BY <2>1, <2>2 DEF DNSEffect
<1>11. CASE ApplyDNS(h)
  <2>1. UNCHANGED <<userDns, started>> /\ a.pc = "apply" /\ Kind(i) = "dns" /\ dns' \in {dns, "tunnel"}
    BY <1>11 DEF ApplyDNS, At
  <2>2. b.pc \in {"mark", "rollback"}
    BY <1>1, <1>11 DEF ApplyDNS, Local, HelperStates
  <2> QED
    BY <2>1, <2>2 DEF DNSEffect
<1> QED
  BY <1>3, <1>4, <1>5, <1>7, <1>8, <1>9, <1>10, <1>11 DEF Proceed
\* Past "create", an operation works on a journal that is on disk; two
\* helpers are never in transactions of one session.
HoldsFile ==
    /\ \A h \in Helpers : helper[h].pc \in Holding =>
          helper[h].sess \in Sessions /\ Exists(disk[helper[h].sess])
    /\ \A g, h \in Helpers :
          helper[g].pc \in Critical /\ helper[h].pc \in Critical /\ helper[g].sess = helper[h].sess => g = h

\* Both follow from the lock and from InStep.
LEMMA HoldingFile == ContractInv => HoldsFile
<1> SUFFICES ASSUME ContractInv PROVE HoldsFile
  OBVIOUS
<1>1. ASSUME NEW h \in Helpers, helper[h].pc \in Holding
      PROVE  helper[h].sess \in Sessions /\ Exists(disk[helper[h].sess])
  <2>1. helper[h].pc \in Critical
    BY <1>1 DEF Holding, Critical, ControlPoints
  <2> QED
    BY <1>1, <2>1, OwnFacts DEF InStep, Exists, Undoable, Holding
<1>2. ASSUME NEW g \in Helpers, NEW h \in Helpers, helper[g].pc \in Critical, helper[h].pc \in Critical,
             helper[g].sess = helper[h].sess
      PROVE  g = h
  BY <1>2 DEF ContractInv, EvidenceInv, LockHeld
<1> QED
  BY <1>1, <1>2 DEF HoldsFile

\* A session found to have a journal entry has a journal.
LEMMA EvidenceExists ==
    ASSUME ContractInv, NEW s \in Sessions, NEW i \in Steps, Evidence(s, i)
    PROVE  Exists(disk[s])
  BY DEF ContractInv, EvidenceInv, DiskIsHonest, Honest, Evidence, Live

\* Session ids stay new until Connect uses them.
LEMMA MovesSessionsAreNew ==
    ASSUME JournalInv, JournalInv', DNSInv, NEW h \in Helpers, Moves(h), DNSEffect(helper[h], helper'[h])
    PROVE  SessionsAreNew'
<1> DEFINE s == helper[h].sess
           a == helper[h]
           b == helper'[h]
<1>1. ContractInv /\ HoldsFile /\ SessionsAreNew /\ s \in Sessions /\ started' = started
  BY HoldingFile, OwnFacts DEF JournalInv, DNSInv, Moves, DNSEffect
<1>2. ASSUME NEW t \in Sessions, Exists(disk'[t]) PROVE t \in started
  <2>1. CASE t # s
    BY <1>1, <1>2, <2>1 DEF Moves, SessionsAreNew
  <2>2. CASE a.pc \in Holding /\ t = s
    BY <1>1, <2>2 DEF HoldsFile, SessionsAreNew
  <2>3. CASE a.pc \in {"check", "create"} /\ t = s
    BY <1>1, <2>3 DEF SessionsAreNew
  <2>4. CASE a.pc = "load" /\ t = s
    BY <1>1, <1>2, <2>4 DEF SessionsAreNew, DNSEffect
  <2>5. a.pc # "release"
    BY DEF Moves, ConnectMove, RollbackMove
  <2>6. a.pc \in Critical
    BY DEF Moves
  <2> QED
    BY <2>1, <2>2, <2>3, <2>4, <2>5, <2>6 DEF Critical, ControlPoints, Holding
<1>3. ASSUME NEW g \in Helpers, helper'[g].pc \in {"check", "create"}
      PROVE  helper'[g].sess \in started /\ ~Exists(disk'[helper'[g].sess])
  <2>1. CASE g = h
    <3>1. a.pc = "check" /\ b.sess = s
      BY <1>3, <2>1 DEF Moves, ConnectMove, RollbackMove
    <3>2. disk' = disk
      BY <3>1 DEF DNSEffect
    <3> QED
      BY <1>1, <2>1, <3>1, <3>2 DEF SessionsAreNew
  <2>2. CASE g # h
    <3>1. helper'[g] = helper[g]
      BY <2>2 DEF Moves
    <3>2. helper[g].sess # s /\ helper[g].sess \in Sessions
      BY <1>1, <1>3, <2>2, <3>1, OwnFacts DEF HoldsFile, Moves, Critical, ControlPoints
    <3> QED
      BY <1>1, <1>3, <3>1, <3>2 DEF SessionsAreNew, Moves
  <2> QED
    BY <2>1, <2>2
<1> QED
  BY <1>1, <1>2, <1>3 DEF SessionsAreNew

\* Whoever takes the snapshot finds no servers of the tunnel: they would be
\* those of another session.
LEMMA SnapshotIsUsers ==
    ASSUME JournalInv, DNSInv, OneAtATime', NEW h \in Helpers, Moves(h), DNSEffect(helper[h], helper'[h]),
           helper'[h].pc = "create"
    PROVE  /\ helper[h].pc = "check" /\ helper'[h].journal = NewJournal
           /\ dns' = dns /\ dns # "tunnel"
<1>1. helper[h].pc = "check" /\ helper'[h].journal = NewJournal /\ helper'[h].sess = helper[h].sess
  BY DEF Moves, ConnectMove, RollbackMove
<1>2. disk' = disk /\ dns' = dns /\ helper[h].sess \in Sessions /\ ~Exists(disk[helper[h].sess])
  BY <1>1, OwnFacts DEF DNSEffect, DNSInv, SessionsAreNew, Moves, JournalInv
<1>3. ASSUME dns = "tunnel" PROVE FALSE
  <2>1. PICK t \in Sessions : Evidence(t, NumSteps)
    BY <1>3 DEF DNSInv, TunnelDNSIsRecorded
  <2>2. Exists(disk'[t])
    BY <1>2, <2>1, EvidenceExists, DNSStepFacts DEF JournalInv
  <2>3. PICK s \in Sessions : s = helper[h].sess
    BY <1>2
  <2>4. Active(s)' /\ Active(t)'
    BY <1>1, <2>2, <2>3 DEF Active, At
  <2>5. s = t
    BY <2>4 DEF OneAtATime
  <2> QED
    BY <1>2, <2>2, <2>3, <2>5
<1> QED
  BY <1>1, <1>2, <1>3
\* The pre-images stay those of the user, in memory and on disk.
LEMMA MovesPreImages ==
    ASSUME JournalInv, JournalInv', DNSInv, OneAtATime', NEW h \in Helpers, Moves(h),
           DNSEffect(helper[h], helper'[h])
    PROVE  PreImages'
<1> DEFINE s == helper[h].sess
           a == helper[h]
           b == helper'[h]
<1>1. /\ ContractInv /\ HoldsFile /\ SessionsAreNew /\ PreImages /\ s \in Sessions
      /\ disk \in [Sessions -> Journals] /\ a \in HelperStates
  BY HoldingFile, OwnFacts DEF JournalInv, DNSInv, Moves, ContractInv, EvidenceInv, TypeOK
<1>2. HoldsFile'
  BY HoldingFile, PTL DEF JournalInv
<1>3. AbsentJournal.dnsBefore = "original" /\ ~Exists(AbsentJournal)
  BY DEF AbsentJournal, Exists
<1>4. b.journal.dnsBefore # "tunnel"
  <2>1. CASE b.pc = "create"
    <3>1. b.journal = NewJournal /\ dns # "tunnel"
      BY <2>1, SnapshotIsUsers
    <3> QED
      BY <3>1 DEF NewJournal, AbsentJournal
  <2>2. CASE a.pc = "load"
    BY <1>1, <2>2 DEF Moves, ConnectMove, RollbackMove, PreImages
  <2>3. CASE a.pc # "load" /\ b.pc # "create"
    <3>1. b.journal.dnsBefore = a.journal.dnsBefore
      BY <2>3 DEF Moves, ConnectMove, RollbackMove, WithPhase, WithEntry
    <3> QED
      BY <1>1, <3>1, SMTT(60) DEF PreImages
  <2> QED
    BY <2>1, <2>2, <2>3
<1>5. \A t \in Sessions : disk'[t].dnsBefore # "tunnel"
  BY <1>1, <1>3, <1>4 DEF PreImages, Moves, Writes
<1>6. ASSUME b.pc \in Holding PROVE b.journal.dnsBefore = disk'[s].dnsBefore
  <2>1. CASE a.pc \in Holding
    <3>1. a.pc # "delete" /\ a.pc # "load"
      BY <1>6, <2>1 DEF Moves, ConnectMove, RollbackMove, Holding
    <3>2. b.pc # "create"
      BY <1>6, SMTT(60) DEF Holding
    <3>3. b.journal.dnsBefore = a.journal.dnsBefore
      BY <3>1, <3>2 DEF Moves, ConnectMove, RollbackMove, WithPhase, WithEntry
    <3> QED
      BY <1>1, <2>1, <3>1, <3>3 DEF PreImages, Moves, Writes
  <2>2. CASE a.pc = "create"
    <3>1. ~Exists(disk[s])
      BY <1>1, <2>2 DEF SessionsAreNew
    <3>2. Exists(disk'[s])
      BY <1>2, <1>6 DEF HoldsFile, Moves
    <3> QED
      BY <2>2, <3>1, <3>2 DEF Moves, Writes
  <2>3. CASE a.pc = "load"
    BY <1>6, <2>3 DEF Moves, ConnectMove, RollbackMove, DNSEffect, Holding
  <2>4. a.pc \in Holding \cup {"create", "load"}
    BY <1>6 DEF Moves, ConnectMove, RollbackMove, Holding
  <2> QED
    BY <2>1, <2>2, <2>3, <2>4
<1>7. ASSUME NEW g \in Helpers, g # h, helper[g].pc \in Holding
      PROVE  helper[g].sess # s /\ helper[g].sess \in Sessions
  BY <1>1, <1>7 DEF HoldsFile, Moves, Critical, ControlPoints, Holding
<1> QED
  BY <1>1, <1>4, <1>5, <1>6, <1>7 DEF PreImages, Moves
\* A move that leaves the tunnel's servers in place leaves the DNS entry live:
\* it becomes rolled_back only with the pre-image.
LEMMA MovesKeepEntry ==
    ASSUME JournalInv, DNSInv, NEW h \in Helpers, Moves(h), DNSEffect(helper[h], helper'[h]),
           UsesDNS, dns' = "tunnel", helper[h].pc \in Holding, Live(helper[h].journal, NumSteps)
    PROVE  Live(helper'[h].journal, NumSteps)
<1> DEFINE a == helper[h]
           j == helper[h].journal
           k == helper'[h].journal
           i == helper[h].index
<1>1. /\ a.pc \in Critical /\ a.journal.dnsBefore # "tunnel" /\ NumSteps \in Steps
      /\ a.pc # "load" /\ a.pc # "check"
  BY DNSStepFacts DEF DNSInv, PreImages, Moves, Holding
<1>2. j \in Journals /\ i \in 0..NumSteps
  BY <1>1, OwnFacts DEF JournalInv
<1>3. j.entries \in [Steps -> Statuses \cup {"none"}]
  BY <1>2, SMTT(60) DEF Journals
<1>4. \/ k.entries = j.entries
      \/ k.entries = [j.entries EXCEPT ![i] = "planned"]
      \/ k.entries = [j.entries EXCEPT ![i] = "applied"]
      \/ k.entries = [j.entries EXCEPT ![i] = "rolled_back"] /\ helper'[h].pc = "undone"
  BY <1>1 DEF Moves, ConnectMove, RollbackMove, WithEntry, WithPhase
<1>5. helper'[h].pc = "undone" => i # NumSteps
  BY <1>1, DNSStepFacts DEF DNSEffect
<1> QED
  BY <1>1, <1>3, <1>4, <1>5 DEF Live

\* The tunnel's servers stay recorded.
LEMMA MovesRecorded ==
    ASSUME JournalInv, JournalInv', DNSInv, OneAtATime, OneAtATime', NEW h \in Helpers, Moves(h),
           DNSEffect(helper[h], helper'[h])
    PROVE  TunnelDNSIsRecorded'
<1> SUFFICES ASSUME dns' = "tunnel"
             PROVE  /\ UsesDNS
                    /\ \E t \in Sessions : Live(disk'[t], NumSteps)
                    /\ \A g \in Helpers : helper'[g].pc \in Holding => Live(helper'[g].journal, NumSteps)
  BY DEF TunnelDNSIsRecorded, Evidence
<1> DEFINE a == helper[h]
           b == helper'[h]
<1>1. PICK s \in Sessions : s = helper[h].sess
  BY OwnFacts DEF JournalInv, Moves
<1>2. /\ ContractInv /\ HoldsFile /\ SessionsAreNew /\ PreImages /\ TunnelDNSIsRecorded
      /\ NumSteps \in Steps /\ a.pc \in Critical /\ b.sess = s
      /\ a.journal.dnsBefore # "tunnel" /\ Positioned(a)
  BY <1>1, HoldingFile, OwnFacts, DNSStepFacts DEF JournalInv, DNSInv, Moves, PreImages
<1>3. HoldsFile'
  BY HoldingFile, PTL DEF JournalInv
<1>4. ASSUME NEW g \in Helpers \ {h}, helper'[g].pc \in Holding
      PROVE  helper[g].pc \in Holding /\ helper'[g] = helper[g] /\ helper[g].sess # s
             /\ helper[g].sess \in Sessions /\ Exists(disk[helper[g].sess])
  BY <1>1, <1>2, <1>4 DEF Moves, HoldsFile, Holding, Critical, ControlPoints
<1>5. CASE dns = "tunnel"
  <2>1. PICK t \in Sessions : Live(disk[t], NumSteps)
    BY <1>2, <1>5 DEF TunnelDNSIsRecorded, Evidence
  <2>2. UsesDNS /\ \A g \in Helpers : helper[g].pc \in Holding => Live(helper[g].journal, NumSteps)
    BY <1>2, <1>5 DEF TunnelDNSIsRecorded
  <2>3. Exists(disk[t])
    BY <1>2, <2>1, EvidenceExists DEF Evidence
  <2>4. \A g \in Helpers \ {h} : helper'[g].pc \in Holding => Live(helper'[g].journal, NumSteps)
    BY <1>4, <2>2
  <2>5. CASE t # s
    <3>1. disk'[t] = disk[t]
      BY <1>1, <2>5 DEF Moves
    <3>2. b.pc \notin Holding
      <4> SUFFICES ASSUME b.pc \in Holding PROVE FALSE
        OBVIOUS
      <4>1. Exists(disk'[s])
        BY <1>2, <1>3 DEF HoldsFile
      <4>2. Active(s)' /\ Active(t)'
        BY <2>3, <3>1, <4>1 DEF Active
      <4> QED
        BY <2>5, <4>2 DEF OneAtATime
    <3> QED
      BY <2>1, <2>2, <2>4, <3>1, <3>2
  <2>6. CASE t = s /\ a.pc \in Holding
    <3>1. Live(a.journal, NumSteps) /\ Live(b.journal, NumSteps)
      BY <2>2, <2>6, MovesKeepEntry
    <3>2. a.pc # "delete"
      BY <1>2, <3>1 DEF Positioned
    <3>3. Live(disk'[s], NumSteps)
      BY <1>1, <2>1, <2>6, <3>1, <3>2 DEF Moves, Writes
    <3> QED
      BY <2>2, <2>4, <3>1, <3>3
  <2>7. CASE t = s /\ a.pc \in {"check", "create"}
    BY <1>1, <1>2, <2>3, <2>7 DEF SessionsAreNew
  <2>8. CASE t = s /\ a.pc = "load"
    <3>1. disk'[s] = disk[s]
      BY <2>8 DEF DNSEffect
    <3>2. b.pc \in Holding => b.journal = disk[s]
      BY <1>1, <2>8 DEF Moves, ConnectMove, RollbackMove, Holding
    <3> QED
      BY <2>1, <2>2, <2>4, <2>8, <3>1, <3>2
  <2>9. a.pc \in Holding \cup {"check", "create", "load"}
    BY DEF Moves, ConnectMove, RollbackMove, Holding
  <2> QED
    BY <2>5, <2>6, <2>7, <2>8, <2>9
<1>6. CASE dns # "tunnel"
  <2>1. a.pc = "apply" /\ Kind(a.index) = "dns"
    BY <1>2, <1>6 DEF DNSEffect
  <2>2. UsesDNS /\ a.index = NumSteps
    BY <1>2, <2>1, DNSStepFacts DEF Positioned
  <2>3. Live(a.journal, NumSteps) /\ Live(disk[s], NumSteps) /\ Exists(disk[s])
    BY <1>1, <1>2, <2>1, <2>2, EvidenceExists DEF Positioned, ContractInv, EvidenceInv, IntentOnDisk, At, Evidence
  <2>4. Live(b.journal, NumSteps)
    BY <2>1, <2>2, <2>3, MovesKeepEntry DEF Holding
  <2>5. Live(disk'[s], NumSteps)
    BY <1>1, <2>1, <2>3, <2>4 DEF Moves, Writes
  <2>6. \A g \in Helpers \ {h} : helper'[g].pc \notin Holding
    BY <1>4, <2>3 DEF OneAtATime, Active
  <2> QED
    BY <2>2, <2>4, <2>5, <2>6
<1> QED
  BY <1>5, <1>6
\* While the user edits the servers only outside the windows, the pre-image
\* is what the user wants.
LEMMA MovesUsers ==
    ASSUME JournalInv, JournalInv', DNSInv, OneAtATime, OneAtATime', NEW h \in Helpers, Moves(h),
           DNSEffect(helper[h], helper'[h]), ~EditsDuringWindows
    PROVE  PreImageIsUsers'
<1> DEFINE a == helper[h]
           b == helper'[h]
<1>1. PICK s \in Sessions : s = helper[h].sess
  BY OwnFacts DEF JournalInv, Moves
<1>2. /\ ContractInv /\ HoldsFile /\ SessionsAreNew /\ PreImages /\ TunnelDNSIsRecorded /\ PreImageIsUsers
      /\ NumSteps \in Steps /\ a.pc \in Critical /\ b.sess = s /\ userDns' = userDns /\ userDns # "tunnel"
      /\ a.journal.dnsBefore # "tunnel" /\ Positioned(a)
      /\ a.pc \in {"apply", "restore"} => InDNSWindow(h)
  BY <1>1, HoldingFile, OwnFacts, DNSStepFacts
     DEF JournalInv, DNSInv, Moves, PreImages, DNSEffect, InDNSWindow, At
<1>3. /\ a.pc \in {"apply", "restore"} /\ Kind(a.index) = "dns" => UsesDNS /\ a.index = NumSteps
      /\ a.pc = "restore" => UsesDNS
  BY <1>2, DNSStepFacts DEF Positioned
<1>4. dns' \in {"tunnel", userDns'}
  BY <1>2, <1>3 DEF DNSEffect, PreImageIsUsers
<1>5. ASSUME dns' = "tunnel", NEW t \in Sessions, Exists(disk'[t]) PROVE disk'[t].dnsBefore = userDns
  <2>1. CASE dns = "tunnel"
    <3>1. PICK w \in Sessions : Evidence(w, NumSteps)
      BY <1>2, <2>1 DEF TunnelDNSIsRecorded
    <3>2. Exists(disk[w]) /\ Active(w)
      BY <1>2, <3>1, EvidenceExists DEF Active
    <3>3. CASE Exists(disk[t]) /\ disk'[t] = disk[t]
      BY <1>2, <2>1, <3>3 DEF PreImageIsUsers
    <3>4. CASE t = s /\ disk'[s] # disk[s]
      <4>1. a.pc \notin {"check", "load"}
        BY <3>4 DEF DNSEffect
      <4>2. a.pc # "create"
        <5> SUFFICES ASSUME a.pc = "create" PROVE FALSE
          OBVIOUS
        <5>1. Active(s) /\ ~Exists(disk[s])
          BY <1>1, <1>2 DEF Active, At, SessionsAreNew
        <5> QED
          BY <3>2, <5>1 DEF OneAtATime
      <4>3. a.pc \in Holding
        BY <4>1, <4>2 DEF Moves, ConnectMove, RollbackMove, Holding
      <4>4. Exists(disk[s]) /\ a.journal.dnsBefore = disk[s].dnsBefore /\ disk[s].dnsBefore = userDns
        BY <1>1, <1>2, <2>1, <4>3, SMTT(60) DEF HoldsFile, PreImages, PreImageIsUsers
      <4>5. b.journal.dnsBefore = a.journal.dnsBefore
        BY <4>1 DEF Moves, ConnectMove, RollbackMove, WithPhase, WithEntry
      <4>6. disk'[s] # AbsentJournal
        BY <1>5, <3>4 DEF Exists, AbsentJournal
      <4> QED
        BY <1>1, <3>4, <4>4, <4>5, <4>6 DEF Moves, Writes
    <3> QED
      BY <1>1, <1>5, <3>3, <3>4 DEF Moves
  <2>2. CASE dns # "tunnel"
    <3>1. a.pc = "apply" /\ Kind(a.index) = "dns"
      BY <1>2, <1>5, <2>2 DEF DNSEffect
    <3>2. a.journal.dnsBefore = userDns /\ Exists(disk[s]) /\ disk[s].dnsBefore = userDns
      BY <1>1, <1>2, <1>3, <3>1 DEF PreImageIsUsers, PreImages, HoldsFile, Holding
    <3>3. b.journal.dnsBefore = userDns
      BY <3>1, <3>2 DEF Moves, ConnectMove, RollbackMove
    <3>4. t = s
      <4> SUFFICES ASSUME t # s PROVE FALSE
        OBVIOUS
      <4>1. Exists(disk[t])
        BY <1>1, <1>5 DEF Moves
      <4> QED
        BY <3>2, <4>1 DEF OneAtATime, Active
    <3> QED
      BY <1>1, <3>1, <3>2, <3>3, <3>4 DEF Moves, Writes
  <2> QED
    BY <2>1, <2>2
<1>6. ASSUME UsesDNS, InDNSWindow(h)' PROVE b.journal.dnsBefore = userDns
  <2>1. CASE b.pc = "create"
    <3>1. b.journal = NewJournal /\ dns # "tunnel"
      BY <2>1, SnapshotIsUsers
    <3> QED
      BY <1>2, <1>6, <3>1 DEF NewJournal, AbsentJournal, PreImageIsUsers
  <2>2. CASE b.pc = "restore"
    <3>1. dns = "tunnel" /\ a.pc \in Holding /\ b.journal = a.journal
      BY <2>2 DEF DNSEffect, Moves, ConnectMove, RollbackMove, Holding
    <3> QED
      BY <1>1, <1>2, <3>1 DEF HoldsFile, PreImages, PreImageIsUsers
  <2>3. CASE b.pc \in {"intent", "apply", "mark"}
    <3>1. InDNSWindow(h) /\ b.journal.dnsBefore = a.journal.dnsBefore
      <4>1. a.index \in 0..NumSteps /\ NumSteps \in Nat
        BY <1>2, OwnFacts, StepFacts
      <4>2. a.pc = "mark" => a.index # NumSteps
        BY <1>6, <2>3 DEF Moves, ConnectMove, RollbackMove, InDNSWindow, At
      <4>3. a.pc \in {"create", "intent", "apply", "mark"}
        BY <2>3 DEF Moves, ConnectMove, RollbackMove
      <4>4. InDNSWindow(h)
        BY <4>1, <4>2, <4>3 DEF InDNSWindow, At
      <4>5. b.journal.dnsBefore = a.journal.dnsBefore
        BY <2>3, <4>3 DEF Moves, ConnectMove, RollbackMove, WithEntry
      <4> QED
        BY <4>4, <4>5
    <3> QED
      BY <1>2, <1>6, <3>1 DEF PreImageIsUsers
  <2> QED
    BY <1>6, <2>1, <2>2, <2>3 DEF InDNSWindow, At
<1>7. ASSUME NEW g \in Helpers, helper'[g].pc = "restore" PROVE dns' = "tunnel"
  <2>1. CASE g = h
    BY <1>7, <2>1 DEF DNSEffect
  <2>2. CASE g # h
    <3>1. helper'[g] = helper[g]
      BY <2>2 DEF Moves
    <3>2. dns = "tunnel" /\ Exists(disk[helper[g].sess]) /\ helper[g].sess \in Sessions
      BY <1>2, <1>7, <3>1 DEF PreImageIsUsers, At, HoldsFile, Holding
    <3>3. a.pc # "restore"
      <4> SUFFICES ASSUME a.pc = "restore" PROVE FALSE
        OBVIOUS
      <4>1. Exists(disk[s])
        BY <1>1, <1>2 DEF HoldsFile, Holding
      <4>2. helper[g].sess = s
        BY <3>2, <4>1 DEF OneAtATime, Active
      <4> QED
        BY <1>1, <1>2, <1>7, <2>2, <3>1, <4>2 DEF HoldsFile, Critical, ControlPoints
    <3> QED
      BY <3>2, <3>3 DEF DNSEffect
  <2> QED
    BY <2>1, <2>2
<1>8. ASSUME NEW g \in Helpers \ {h}, UsesDNS, InDNSWindow(g)'
      PROVE  helper'[g].journal.dnsBefore = userDns
  <2>1. helper'[g] = helper[g]
    BY DEF Moves
  <2>2. InDNSWindow(g)
    BY <1>8, <2>1 DEF InDNSWindow, At
  <2> QED
    BY <1>2, <1>8, <2>1, <2>2 DEF PreImageIsUsers
<1> QED
  BY <1>2, <1>4, <1>5, <1>6, <1>7, <1>8 DEF PreImageIsUsers, At
\* The steps outside a transaction: only the user touches the servers, and
\* only a session id that is new enters Connect.
LEMMA OutsideDNS ==
    ASSUME ContractInv, [Next]_vars, \A h \in Helpers : Proceed(h) => Release(h)
    PROVE  /\ \/ UNCHANGED <<dns, userDns>>
              \/ UserSetsDNS
           /\ started \subseteq started'
           /\ \A g \in Helpers : helper'[g].pc = "check" =>
                 \/ helper'[g] = helper[g]
                 \/ /\ helper'[g].sess \in Sessions \ started
                    /\ helper'[g].sess \in started'
<1> DEFINE Good == /\ UNCHANGED <<dns, userDns>> \/ UserSetsDNS
                   /\ started \subseteq started'
                   /\ \A g \in Helpers : helper'[g].pc = "check" =>
                         \/ helper'[g] = helper[g]
                         \/ helper'[g].sess \in Sessions \ started /\ helper'[g].sess \in started'
<1> SUFFICES Good
  OBVIOUS
<1>1. helper \in [Helpers -> HelperStates]
  BY DEF ContractInv, EvidenceInv, TypeOK
<1>2. ASSUME NEW h \in Helpers, NEW hs, helper' = [helper EXCEPT ![h] = hs], hs.pc # "check",
             UNCHANGED <<dns, userDns, started>>
      PROVE  Good
  BY <1>1, <1>2
<1>3. ASSUME NEW h \in Helpers, Release(h) \/ Crash(h) PROVE Good
  <2> DEFINE served == [Dead EXCEPT !.pc = "serving", !.sess = helper[h].sess, !.resident = TRUE]
  <2>1. served.pc = "serving" /\ Dead.pc = "idle"
    BY SMTT(60) DEF Dead
  <2> HIDE DEF served
  <2>2. PICK hs \in {served, Dead} : helper' = [helper EXCEPT ![h] = hs]
    BY <1>3 DEF Release, Crash, Ends, Local, served
  <2>3. UNCHANGED <<dns, userDns, started>>
    BY <1>3 DEF Release, Crash
  <2> QED
    BY <1>2, <2>1, <2>2, <2>3
<1>4. ASSUME NEW h \in Helpers, NEW s \in Sessions, AcquireForConnect(h, s) PROVE Good
  <2> DEFINE hs == [Dead EXCEPT !.pc = "check", !.sess = s]
  <2>1. hs.sess = s
    BY DEF Dead
  <2> HIDE DEF hs
  <2>2. helper' = [helper EXCEPT ![h] = hs] /\ s \notin started /\ started' = started \cup {s}
        /\ UNCHANGED <<dns, userDns>>
    BY <1>4 DEF AcquireForConnect, Local, machine, hs
  <2> QED
    BY <1>1, <2>1, <2>2
<1>5. ASSUME NEW h \in Helpers, NEW s \in Sessions, AcquireForDisconnect(h, s) PROVE Good
  <2> DEFINE new == [Dead EXCEPT !.pc = "load", !.sess = s]
             old(stay) == [helper[h] EXCEPT !.pc = "load", !.resident = stay]
  <2>1. new.pc = "load" /\ \A stay : old(stay).pc = "load"
    BY <1>1 DEF Dead, HelperStates
  <2>2. (Local(h, new) \/ \E stay : Local(h, old(stay))) /\ UNCHANGED <<dns, userDns, started>>
    BY <1>5 DEF AcquireForDisconnect, machine
  <2> HIDE DEF new, old
  <2> QED
    BY <1>2, <2>1, <2>2 DEF Local
<1>6. CASE Reboot
  BY <1>6 DEF Reboot, Dead
<1>7. CASE UserSetsDNS \/ (\E d \in Dests : ForeignRoute(d))
  BY <1>7 DEF UserSetsDNS, ForeignRoute
<1>8. CASE UNCHANGED vars
  BY <1>8 DEF vars
<1>9. CASE Next
  <2>1. ASSUME NEW h \in Helpers, Proceed(h) \/ Crash(h) PROVE Good
    <3>1. Release(h) \/ Crash(h)
      BY <2>1
    <3> QED
      BY <1>3, <3>1
  <2> HIDE DEF Good
  <2> QED
    BY <1>4, <1>5, <1>6, <1>7, <1>9, <2>1 DEF Next
<1> QED
  BY <1>8, <1>9

\* With one session at a time every step keeps the servers recorded and the
\* pre-images the user's.
THEOREM DNSStep == JournalInv /\ DNSInv /\ OneAtATime /\ OneAtATime' /\ [Next]_vars => DNSInv'
<1> SUFFICES ASSUME JournalInv, DNSInv, OneAtATime, OneAtATime', [Next]_vars PROVE DNSInv'
  OBVIOUS
<1>1. JournalInv' /\ ContractInv
  BY JournalStep DEF JournalInv
<1>2. ASSUME NEW h \in Helpers, Proceed(h), ~Release(h) PROVE DNSInv'
  <2>1. Moves(h) /\ DNSEffect(helper[h], helper'[h])
    BY <1>1, <1>2, ProceedMoves, ProceedDNS
  <2>2. SessionsAreNew' /\ PreImages' /\ TunnelDNSIsRecorded'
    BY <1>1, <2>1, MovesSessionsAreNew, MovesPreImages, MovesRecorded
  <2>3. ~EditsDuringWindows => PreImageIsUsers'
    BY <1>1, <2>1, MovesUsers
  <2>4. userDns' # "tunnel"
    BY <2>1 DEF DNSInv, DNSEffect
  <2> QED
    BY <2>2, <2>3, <2>4 DEF DNSInv
<1>3. CASE \A h \in Helpers : Proceed(h) => Release(h)
  <2>1. /\ disk' = disk
        /\ \A g \in Helpers :
              \/ helper'[g] = helper[g]
              \/ /\ helper'[g].pc \in {"idle", "serving", "check", "load"}
                 /\ helper'[g].journal = AbsentJournal
    BY <1>1, <1>3, OutsideShape
  <2>2. /\ UNCHANGED <<dns, userDns>> \/ UserSetsDNS
        /\ started \subseteq started'
        /\ \A g \in Helpers : helper'[g].pc = "check" =>
              \/ helper'[g] = helper[g]
              \/ helper'[g].sess \in Sessions \ started /\ helper'[g].sess \in started'
    BY <1>1, <1>3, OutsideDNS
  <2>3. AbsentJournal.dnsBefore = "original"
    BY DEF AbsentJournal
  <2>4. SessionsAreNew'
    BY <2>1, <2>2 DEF DNSInv, SessionsAreNew
  <2>5. PreImages'
    BY <2>1, <2>3 DEF DNSInv, PreImages, Holding
  <2>6. ASSUME NEW g \in Helpers, InDNSWindow(g)' PROVE helper'[g] = helper[g] /\ InDNSWindow(g)
    <3>1. helper'[g].pc \notin {"idle", "serving", "check", "load"}
      BY <1>1, <2>6 DEF InDNSWindow, At
    <3>2. helper'[g] = helper[g]
      BY <2>1, <3>1
    <3> QED
      BY <2>6, <3>2 DEF InDNSWindow, At
  <2>7. ASSUME NEW g \in Helpers, helper'[g].pc = "restore" PROVE helper'[g] = helper[g]
    BY <2>1, <2>7
  <2>8. CASE UNCHANGED <<dns, userDns>>
    <3>1. TunnelDNSIsRecorded'
      BY <2>1, <2>8 DEF DNSInv, TunnelDNSIsRecorded, Evidence, Holding
    <3>2. ~EditsDuringWindows => PreImageIsUsers'
      BY <2>1, <2>6, <2>7, <2>8 DEF DNSInv, PreImageIsUsers, At
    <3> QED
      BY <2>4, <2>5, <2>8, <3>1, <3>2 DEF DNSInv
  <2>9. CASE UserSetsDNS
    <3>1. dns' = userDns' /\ userDns' # "tunnel"
      BY <2>9, EnvironmentAssumption DEF UserSetsDNS
    <3>2. ~EditsDuringWindows => \A g \in Helpers : ~InDNSWindow(g)'
      BY <2>6, <2>9 DEF UserSetsDNS
    <3>3. ~EditsDuringWindows => PreImageIsUsers'
      BY <3>1, <3>2 DEF PreImageIsUsers, InDNSWindow, At
    <3> QED
      BY <2>4, <2>5, <3>1, <3>3 DEF DNSInv, TunnelDNSIsRecorded
  <2> QED
    BY <2>2, <2>8, <2>9
<1> QED
  BY <1>2, <1>3

\* At the start the servers are the user's and there is no journal.
THEOREM DNSInitial == Init => DNSInv
  BY DEF Init, DNSInv, SessionsAreNew, PreImages, TunnelDNSIsRecorded, PreImageIsUsers, InDNSWindow, At,
     Dead, AbsentJournal, Exists, Holding

\* While one session is active at a time, the tunnel's DNS servers never stand
\* without a live journal entry on disk that says how to get back.
THEOREM DNSIsRecorded == Spec /\ []OneAtATime => []DNSHasEvidence
<1>1. DNSInv => DNSHasEvidence
  BY DEF DNSInv, TunnelDNSIsRecorded, DNSHasEvidence
<1> QED
  BY <1>1, JournalInitial, JournalStep, DNSInitial, DNSStep, PTL DEF Spec

\* If besides the user edits the servers only outside the windows, then
\* whenever no journal is left the servers are those the user chose last.
THEOREM CleanIsUsers ==
    ASSUME ~EditsDuringWindows
    PROVE  Spec /\ []OneAtATime => []CleanMeansUserDNS
<1>1. JournalInv /\ DNSInv => CleanMeansUserDNS
  <2> SUFFICES ASSUME JournalInv, DNSInv, \A s \in Sessions : ~Exists(disk[s]), dns # userDns PROVE FALSE
    BY DEF CleanMeansUserDNS
  <2>1. dns = "tunnel"
    BY DEF DNSInv, PreImageIsUsers
  <2>2. PICK s \in Sessions : Evidence(s, NumSteps)
    BY <2>1 DEF DNSInv, TunnelDNSIsRecorded
  <2> QED
    BY <2>2, EvidenceExists, DNSStepFacts DEF JournalInv
<1> QED
  BY <1>1, JournalInitial, JournalStep, DNSInitial, DNSStep, PTL DEF Spec

\* Under the same conditions a restore never replaces servers the user chose:
\* it finds those of the tunnel.
THEOREM RestoreIsOwn ==
    ASSUME ~EditsDuringWindows
    PROVE  Spec /\ []OneAtATime => RestoreRespectsUserDNS
<1>1. JournalInv /\ DNSInv =>
        \A h \in Helpers : At(h, "restore") /\ helper'[h].pc # "restore" /\ dns' # dns => dns # userDns
  BY DEF DNSInv, PreImageIsUsers
<1> QED
  BY <1>1, JournalInitial, JournalStep, DNSInitial, DNSStep, PTL DEF Spec, RestoreRespectsUserDNS

=============================================================================

------------------------- MODULE TunnelTransaction -------------------------
(***************************************************************************)
(* The journaled tunnel transaction: tunnel.Controller (Connect,           *)
(* Disconnect, rollback), the journal store and lock it persists through,  *)
(* and what its route, DNS and device managers do to the machine.          *)
(*                                                                         *)
(* A helper is one privileged process.  It runs Connect once and then      *)
(* stays resident, or it is started only to Disconnect a session whose     *)
(* first helper is gone or does not answer.  Every call that leaves the    *)
(* process (a journal write, a route, DNS or device command) is one step,  *)
(* with the outcomes the call can have: success, failure without effect,   *)
(* failure after the effect.  Between two steps any helper may die, the    *)
(* machine may reboot, and other programs or the user may change routes    *)
(* and DNS.                                                                *)
(***************************************************************************)
EXTENDS Integers

CONSTANTS
    Sessions,        \* session ids, each drawn at random for one Connect
    Helpers,         \* privileged helper processes
    Users,           \* owner uids; each has its own state directory and lock
    OwnerOf,         \* OwnerOf[s]: the uid that session s belongs to
    Servers,         \* VPN servers, i.e. endpoint addresses
    ServerOf,        \* ServerOf[s]: the server of session s's plan
    Policy,          \* plan.RoutePolicy
    ScopedRoutes,    \* len(plan.ScopedRoutes) under the scoped policy
    ForeignVias,     \* what other programs route a destination through
    UserDNSValues,   \* the DNS server lists the user may choose
    EditsDuringWindows, \* may the user edit DNS between a read and the write based on it?
    NoHelper,
    NoSession

ASSUME HelperAssumption == NoHelper \notin Helpers /\ Helpers \cap {"none", "other", "physical", "lo0"} = {}
ASSUME SessionAssumption == NoSession \notin Sessions
ASSUME PlanAssumption ==
    /\ OwnerOf \in [Sessions -> Users]
    /\ ServerOf \in [Sessions -> Servers]
    /\ Policy \in {"scoped_ipv4", "full_ipv4"}
    /\ ScopedRoutes \in 1..4
    /\ Servers \cap (3..6) = {}
ASSUME EnvironmentAssumption ==
    /\ ForeignVias \subseteq {"none", "other", "physical", "lo0"}
    /\ UserDNSValues \subseteq {"original", "user"}
    /\ EditsDuringWindows \in BOOLEAN

-----------------------------------------------------------------------------
(* The plan: which steps a transaction has, in which order.                *)

UsesDNS == Policy = "full_ipv4"

\* Plan.TunnelRoutes: the scoped prefixes, or two IPv4 halves through the
\* tunnel and two IPv6 halves rejected on lo0.
NumTunnelRoutes == IF Policy = "full_ipv4" THEN 4 ELSE ScopedRoutes

NumSteps == 2 + NumTunnelRoutes + (IF UsesDNS THEN 1 ELSE 0)

Steps == 1..NumSteps

\* Journal.expectedKinds, which is also the order in which Connect works.
Kind(i) ==
    CASE i = 1 -> "endpoint_route"
      [] i = 2 -> "device"
      [] i \in 3..(2 + NumTunnelRoutes) -> "tunnel_route"
      [] OTHER -> "dns"

TunnelSteps == {i \in Steps : Kind(i) = "tunnel_route"}
RouteSteps == {1} \cup TunnelSteps

\* The destination of a route step: the server's address, or a prefix that
\* every session of this policy shares.
Dest(s, i) == IF i = 1 THEN ServerOf[s] ELSE i

Dests == Servers \cup TunnelSteps

-----------------------------------------------------------------------------
(* Journals.                                                               *)

Phases == {"connecting", "connected", "degraded", "disconnecting",
           "disconnected", "rollback_required", "foreign_conflict"}

Statuses == {"planned", "applied", "rolled_back"}

DNSValues == {"original", "user", "tunnel"}

\* A journal; phase "absent" is a missing file, status "none" an index past
\* the end of Entries.
Journals ==
    [phase : Phases \cup {"absent"},
     device : Helpers \cup {NoHelper},
     dnsBefore : DNSValues,
     entries : [Steps -> Statuses \cup {"none"}]]

AbsentJournal ==
    [phase |-> "absent", device |-> NoHelper, dnsBefore |-> "original",
     entries |-> [i \in Steps |-> "none"]]

Exists(j) == j.phase # "absent"

\* The entry is recorded and not rolled back: recovery will look at it.
Live(j, i) == j.entries[i] \in {"planned", "applied"}

\* The interface a route entry names: EndpointRoute, and TunnelRoutes with
\* the device's interface filled in.  A utun is named by the helper it lives in.
Via(j, i) ==
    IF i = 1 THEN "physical"
    ELSE IF Policy = "full_ipv4" /\ i \in {5, 6} THEN "lo0"
    ELSE j.device

\* Journal.Validate, for what the controller can get wrong.  Connected and
\* degraded journals are complete, disconnected ones own nothing.
Validate(j) ==
    /\ j.phase \in Phases
    /\ \A i \in Steps : i > 1 /\ j.entries[i] # "none" => j.entries[i - 1] # "none"
    /\ j.phase = "connecting" => \A i \in Steps : j.entries[i] # "rolled_back"
    /\ j.entries[2] = "applied" => j.device # NoHelper
    /\ j.device # NoHelper => j.entries[2] # "none"
    /\ j.entries[3] # "none" => j.device # NoHelper
    /\ j.phase \in {"connected", "degraded"} =>
           j.device # NoHelper /\ \A i \in Steps : j.entries[i] = "applied"
    /\ j.phase = "disconnected" => \A i \in Steps : ~Live(j, i)

AllowedTransition(from, to) ==
    CASE from = "connecting" -> to \in {"connected", "disconnecting", "rollback_required"}
      [] from = "connected" -> to \in {"degraded", "disconnecting", "rollback_required"}
      [] from = "degraded" -> to \in {"disconnecting", "rollback_required"}
      [] from = "disconnecting" -> to \in {"disconnected", "rollback_required"}
      [] from = "rollback_required" -> to = "disconnecting"
      [] from = "foreign_conflict" -> to = "disconnected"
      [] OTHER -> FALSE

-----------------------------------------------------------------------------
(* State.                                                                  *)

VARIABLES
    disk,       \* disk[s]: the journal file of session s
    lock,       \* lock[u]: the helper holding the flock in u's state directory
    helper,     \* helper[h]: the control state and locals of process h
    dev,        \* dev[h]: the session whose utun lives in process h
    table,      \* table[d]: what the kernel routes destination d through
    installer,  \* history: the session whose Add put table[d] there
    dns,        \* the DNS servers of the physical network service
    userDns,    \* history: the servers the user last chose
    started,    \* history: session ids already used by a Connect
    calm        \* no more faults, deaths or outside changes (liveness only)

vars == <<disk, lock, helper, dev, table, installer, dns, userDns, started, calm>>
machine == <<dev, table, installer, dns, userDns>>
routes == <<table, installer>>

ControlPoints ==
    {"idle", "serving", "check", "create", "intent", "apply", "mark", "verify",
     "connect", "load", "rollback", "undo", "remove", "restore", "undone",
     "delete", "release"}

\* Inside the transaction lock.
Critical == ControlPoints \ {"idle", "serving"}

HelperStates ==
    [pc : ControlPoints, sess : Sessions \cup {NoSession}, journal : Journals,
     index : 0..NumSteps, failed : BOOLEAN, resident : BOOLEAN]

Dead == [pc |-> "idle", sess |-> NoSession, journal |-> AbsentJournal,
         index |-> 0, failed |-> FALSE, resident |-> FALSE]

\* Every journal on disk and in memory, every helper and the machine have
\* the shapes the code gives them; in particular the loop indices of Connect
\* and rollback stay within the entries.
TypeOK ==
    /\ disk \in [Sessions -> Journals]
    /\ lock \in [Users -> Helpers \cup {NoHelper}]
    /\ helper \in [Helpers -> HelperStates]
    /\ dev \in [Helpers -> Sessions \cup {NoSession}]
    /\ table \in [Dests -> {"none", "other", "physical", "lo0"} \cup Helpers]
    /\ installer \in [Dests -> Sessions \cup {NoSession}]
    /\ dns \in DNSValues
    /\ userDns \in DNSValues
    /\ started \subseteq Sessions
    /\ calm \in BOOLEAN

Init ==
    /\ disk = [s \in Sessions |-> AbsentJournal]
    /\ lock = [u \in Users |-> NoHelper]
    /\ helper = [h \in Helpers |-> Dead]
    /\ dev = [h \in Helpers |-> NoSession]
    /\ table = [d \in Dests |-> "none"]
    /\ installer = [d \in Dests |-> NoSession]
    /\ dns = "original"
    /\ userDns = "original"
    /\ started = {}
    /\ calm = FALSE

At(h, point) == helper[h].pc = point

\* Helper h moves on with locals hs, leaving the rest of the state alone.
Local(h, hs) == helper' = [helper EXCEPT ![h] = hs]

-----------------------------------------------------------------------------
(* JournalStore.  A write is atomic in the file's content (link, rename,   *)
(* remove) but may report an error after its effect, when the directory    *)
(* sync fails.                                                             *)

Outcome(ok, j) == [ok |-> ok, journal |-> j]

\* What a call may report instead of success: nothing happened, or it did.
Faults(before, after) ==
    IF calm THEN {} ELSE {Outcome(FALSE, before), Outcome(FALSE, after)}

\* Create publishes with an exclusive link, so an existing file refuses.
CreateOutcomes(old, j) ==
    IF ~Exists(old) /\ Validate(j)
    THEN {Outcome(TRUE, j)} \cup Faults(old, j)
    ELSE {Outcome(FALSE, old)}

\* Update needs an existing file and refuses a journal that does not validate.
UpdateOutcomes(old, j) ==
    IF Exists(old) /\ Validate(j)
    THEN {Outcome(TRUE, j)} \cup Faults(old, j)
    ELSE {Outcome(FALSE, old)}

DeleteOutcomes(old) ==
    IF Exists(old)
    THEN {Outcome(TRUE, AbsentJournal)} \cup Faults(old, AbsentJournal)
    ELSE {Outcome(FALSE, old)}

\* Write outcome o to the journal file of the session helper h works on.
Store(h, o) == disk' = [disk EXCEPT ![helper[h].sess] = o.journal]

-----------------------------------------------------------------------------
(* Connect.                                                                *)

\* Acquire never waits: when the lock is held, or the call fails, Connect
\* returns before anything has changed and the process exits.
AcquireForConnect(h, s) ==
    /\ At(h, "idle")
    /\ s \notin started
    /\ lock[OwnerOf[s]] = NoHelper
    /\ lock' = [lock EXCEPT ![OwnerOf[s]] = h]
    /\ started' = started \cup {s}
    /\ Local(h, [Dead EXCEPT !.pc = "check", !.sess = s])
    /\ UNCHANGED <<disk, machine, calm>>

\* ConflictChecker.Check, for the destinations the plan will use: the split
\* defaults are free.  It does not look at the endpoint's host route.
ConflictFree(s) == UsesDNS => \A i \in TunnelSteps : table[Dest(s, i)] = "none"

NewJournal == [AbsentJournal EXCEPT !.phase = "connecting", !.dnsBefore = IF UsesDNS THEN dns ELSE "original"]

\* The conflict check and the route and DNS pre-images, then the journal in
\* memory.  A read may fail, and the physical default route may have moved.
CheckAndSnapshot(h) ==
    /\ At(h, "check")
    /\ \/ /\ ConflictFree(helper[h].sess)
          /\ Local(h, [helper[h] EXCEPT !.pc = "create", !.journal = NewJournal])
       \/ /\ ~ConflictFree(helper[h].sess) \/ ~calm
          /\ Local(h, [helper[h] EXCEPT !.pc = "release", !.failed = TRUE])
    /\ UNCHANGED <<disk, lock, machine, started, calm>>

\* A Create that fails, even after publishing the file, returns without
\* rolling back.
CreateJournal(h) ==
    /\ At(h, "create")
    /\ \E o \in CreateOutcomes(disk[helper[h].sess], helper[h].journal) :
          /\ Store(h, o)
          /\ Local(h, IF o.ok THEN [helper[h] EXCEPT !.pc = "intent", !.index = 1]
                              ELSE [helper[h] EXCEPT !.pc = "release", !.failed = TRUE])
    /\ UNCHANGED <<lock, machine, started, calm>>

\* Persist j, then go on at point ok, or roll back when the write reports an error.
PersistOrRollBack(h, j, ok) ==
    /\ \E o \in UpdateOutcomes(disk[helper[h].sess], j) :
          /\ Store(h, o)
          /\ Local(h, IF o.ok THEN [ok EXCEPT !.journal = j]
                              ELSE [helper[h] EXCEPT !.pc = "rollback", !.journal = j])
    /\ UNCHANGED <<lock, machine, started, calm>>

\* Mutant of RecordIntent: the intent is kept in memory only.
RecordIntentInMemory(h) ==
    /\ At(h, "intent")
    /\ Local(h, [helper[h] EXCEPT !.pc = "apply", !.journal.entries[helper[h].index] = "planned"])
    /\ UNCHANGED <<disk, lock, machine, started, calm>>

\* Mutant of RecordIntent: the error of the journal write is dropped.
RecordIntentIgnoringError(h) ==
    LET j == [helper[h].journal EXCEPT !.entries[helper[h].index] = "planned"] IN
    /\ At(h, "intent")
    /\ \E o \in UpdateOutcomes(disk[helper[h].sess], j) : Store(h, o)
    /\ Local(h, [helper[h] EXCEPT !.pc = "apply", !.journal = j])
    /\ UNCHANGED <<lock, machine, started, calm>>

\* recordIntent, before the first attempt at each step.
RecordIntent(h) ==
    /\ At(h, "intent")
    /\ PersistOrRollBack(h,
          [helper[h].journal EXCEPT !.entries[helper[h].index] = "planned"],
          [helper[h] EXCEPT !.pc = "apply"])

\* RouteManager.Add: refuses a destination that is already routed; a failed
\* verification is an error after the route was added.
AddRoute(h) ==
    LET s == helper[h].sess
        i == helper[h].index
        d == Dest(s, i)
    IN
    /\ At(h, "apply")
    /\ i \in RouteSteps
    /\ \/ /\ table[d] = "none"
          /\ table' = [table EXCEPT ![d] = Via(helper[h].journal, i)]
          /\ installer' = [installer EXCEPT ![d] = s]
          /\ \E next \in {"mark"} \cup (IF calm THEN {} ELSE {"rollback"}) :
                Local(h, [helper[h] EXCEPT !.pc = next])
       \/ /\ table[d] # "none" \/ ~calm
          /\ Local(h, [helper[h] EXCEPT !.pc = "rollback"])
          /\ UNCHANGED routes
    /\ UNCHANGED <<disk, lock, dev, dns, userDns, started, calm>>

\* Manager.Create closes what it created when a later part of it fails, so a
\* failed call leaves no device.
CreateDevice(h) ==
    /\ At(h, "apply")
    /\ Kind(helper[h].index) = "device"
    /\ \/ /\ dev' = [dev EXCEPT ![h] = helper[h].sess]
          /\ Local(h, [helper[h] EXCEPT !.pc = "mark", !.journal.device = h])
       \/ /\ ~calm
          /\ Local(h, [helper[h] EXCEPT !.pc = "rollback"])
          /\ UNCHANGED dev
    /\ UNCHANGED <<disk, lock, table, installer, dns, userDns, started, calm>>

\* DNSManager.Apply sets the servers without looking at what they are now.
ApplyDNS(h) ==
    /\ At(h, "apply")
    /\ Kind(helper[h].index) = "dns"
    /\ \/ /\ dns' = "tunnel"
          /\ \E next \in {"mark"} \cup (IF calm THEN {} ELSE {"rollback"}) :
                Local(h, [helper[h] EXCEPT !.pc = next])
       \/ /\ ~calm
          /\ Local(h, [helper[h] EXCEPT !.pc = "rollback"])
          /\ UNCHANGED dns
    /\ UNCHANGED <<disk, lock, dev, table, installer, userDns, started, calm>>

MarkApplied(h) ==
    LET i == helper[h].index IN
    /\ At(h, "mark")
    /\ PersistOrRollBack(h,
          [helper[h].journal EXCEPT !.entries[i] = "applied"],
          IF i = NumSteps THEN [helper[h] EXCEPT !.pc = "verify"]
                          ELSE [helper[h] EXCEPT !.pc = "intent", !.index = i + 1])

\* fullVerifier.verifyOwnership: every planned route and the DNS servers are
\* what the journal says.
OwnershipHolds(s, j) ==
    /\ \A i \in RouteSteps : table[Dest(s, i)] = Via(j, i)
    /\ UsesDNS => dns = "tunnel"

\* Verify also waits for a handshake, and fails when none comes in time.
Verify(h) ==
    /\ At(h, "verify")
    /\ \/ /\ OwnershipHolds(helper[h].sess, helper[h].journal)
          /\ Local(h, [helper[h] EXCEPT !.pc = "connect"])
       \/ /\ ~OwnershipHolds(helper[h].sess, helper[h].journal) \/ ~calm
          /\ Local(h, [helper[h] EXCEPT !.pc = "rollback"])
    /\ UNCHANGED <<disk, lock, machine, started, calm>>

SetConnected(h) ==
    /\ At(h, "connect")
    /\ PersistOrRollBack(h,
          [helper[h].journal EXCEPT !.phase = "connected"],
          [helper[h] EXCEPT !.pc = "release", !.resident = TRUE])

-----------------------------------------------------------------------------
(* Disconnect and rollback.                                                *)

\* A fresh process is started to clean up session s, or the resident helper
\* of s is asked to (and then stays, or this is its clean-up before exiting).
AcquireForDisconnect(h, s) ==
    /\ lock[OwnerOf[s]] = NoHelper
    /\ lock' = [lock EXCEPT ![OwnerOf[s]] = h]
    /\ \/ /\ At(h, "idle")
          /\ Local(h, [Dead EXCEPT !.pc = "load", !.sess = s])
       \/ /\ At(h, "serving") /\ helper[h].sess = s
          /\ \E stay \in BOOLEAN :
                Local(h, [helper[h] EXCEPT !.pc = "load", !.resident = stay])
    /\ UNCHANGED <<disk, machine, started, calm>>

\* Mutant of LoadJournal: a failed rollback is reported and not tried again.
LoadJournalOnce(h) ==
    LET j == disk[helper[h].sess] IN
    /\ At(h, "load")
    /\ Local(h, [helper[h] EXCEPT !.journal = j,
          !.failed = j.phase = "rollback_required",
          !.pc = IF j.phase \in {"absent", "rollback_required"} THEN "release"
                 ELSE IF j.phase = "disconnected" THEN "delete" ELSE "rollback"])
    /\ UNCHANGED <<disk, lock, machine, started, calm>>

\* Load: a missing journal is success, a disconnected one is only deleted,
\* any other is rolled back.
LoadJournal(h) ==
    LET j == disk[helper[h].sess] IN
    /\ At(h, "load")
    /\ \/ /\ j.phase \notin {"absent", "disconnected"}
          /\ Local(h, [helper[h] EXCEPT !.pc = "rollback", !.journal = j])
       \/ /\ j.phase = "disconnected"
          /\ Local(h, [helper[h] EXCEPT !.pc = "delete", !.journal = j])
       \/ /\ j.phase = "absent"
          /\ Local(h, [helper[h] EXCEPT !.pc = "release"])
       \/ /\ ~calm
          /\ Local(h, [helper[h] EXCEPT !.pc = "release", !.failed = TRUE])
    /\ UNCHANGED <<disk, lock, machine, started, calm>>

\* Persist j and go on with locals hs; a failure is only remembered.
PersistAndGoOn(h, j, hs) ==
    /\ \E o \in UpdateOutcomes(disk[helper[h].sess], j) :
          /\ Store(h, o)
          /\ Local(h, [hs EXCEPT !.journal = j, !.failed = hs.failed \/ ~o.ok])
    /\ UNCHANGED <<lock, machine, started, calm>>

\* Mutant of BeginRollback: the phase is left as it was.
BeginRollbackKeepingPhase(h) ==
    /\ At(h, "rollback")
    /\ Local(h, [helper[h] EXCEPT !.pc = "undo", !.index = NumSteps, !.failed = FALSE])
    /\ UNCHANGED <<disk, lock, machine, started, calm>>

\* The start of rollback: the phase becomes disconnecting on disk first.
BeginRollback(h) ==
    LET j == helper[h].journal
        undo == [helper[h] EXCEPT !.pc = "undo", !.index = NumSteps, !.failed = FALSE]
    IN
    /\ At(h, "rollback")
    /\ \/ /\ AllowedTransition(j.phase, "disconnecting")
          /\ PersistAndGoOn(h, [j EXCEPT !.phase = "disconnecting"], undo)
       \/ /\ ~AllowedTransition(j.phase, "disconnecting")
          /\ Local(h, [undo EXCEPT !.failed = j.phase # "disconnecting"])
          /\ UNCHANGED <<disk, lock, machine, started, calm>>

\* Mutant of UndoFailed: the error is not joined to the others.
UndoFailedSilently(h) == [helper[h] EXCEPT !.pc = "undo", !.index = helper[h].index - 1]

\* The locals of h once entry i could not be rolled back: record it, go on with i - 1.
UndoFailed(h) ==
    [helper[h] EXCEPT !.pc = "undo", !.index = helper[h].index - 1, !.failed = TRUE]

\* Mutant of UndoSucceeded: the entry goes back to planned.
UndoSucceededAsPlanned(h) ==
    [helper[h] EXCEPT !.pc = "undone", !.journal.entries[helper[h].index] = "planned"]

\* The locals of h once entry i is rolled back in memory.
UndoSucceeded(h) ==
    [helper[h] EXCEPT !.pc = "undone", !.journal.entries[helper[h].index] = "rolled_back"]

\* The loop passes over entries that do not exist or are already rolled back.
UndoSkip(h) ==
    /\ At(h, "undo")
    /\ helper[h].index > 0
    /\ ~Live(helper[h].journal, helper[h].index)
    /\ Local(h, [helper[h] EXCEPT !.index = helper[h].index - 1])
    /\ UNCHANGED <<disk, lock, machine, started, calm>>

\* The entry the rollback loop stands at, when it has something to undo.
Undoing(h, kinds) ==
    /\ At(h, "undo")
    /\ helper[h].index > 0
    /\ Live(helper[h].journal, helper[h].index)
    /\ Kind(helper[h].index) \in kinds

\* RouteManager.Remove, inspection: a missing route is success, a changed
\* one is refused.
InspectRoute(h) ==
    LET i == helper[h].index
        current == table[Dest(helper[h].sess, i)]
        planned == Via(helper[h].journal, i)
    IN
    /\ Undoing(h, {"endpoint_route", "tunnel_route"})
    /\ \/ /\ current = "none"
          /\ Local(h, UndoSucceeded(h))
       \/ /\ current = planned
          /\ Local(h, [helper[h] EXCEPT !.pc = "remove"])
       \/ /\ current \notin {"none", planned} \/ ~calm
          /\ Local(h, UndoFailed(h))
    /\ UNCHANGED <<disk, lock, machine, started, calm>>

\* Mutant of RemoveRoute: the delete names only the destination.
RemoveRouteUnconstrained(h) ==
    LET d == Dest(helper[h].sess, helper[h].index) IN
    /\ At(h, "remove")
    /\ table' = [table EXCEPT ![d] = "none"]
    /\ installer' = [installer EXCEPT ![d] = NoSession]
    /\ Local(h, UndoSucceeded(h))
    /\ UNCHANGED <<disk, lock, dev, dns, userDns, started, calm>>

\* RouteManager.Remove, the delete command: its gateway or interface argument
\* constrains it, so it fails on a route that changed since the inspection.
RemoveRoute(h) ==
    LET i == helper[h].index
        d == Dest(helper[h].sess, i)
    IN
    /\ At(h, "remove")
    /\ \/ /\ table[d] = Via(helper[h].journal, i)
          /\ table' = [table EXCEPT ![d] = "none"]
          /\ installer' = [installer EXCEPT ![d] = NoSession]
          /\ \E hs \in {UndoSucceeded(h)} \cup (IF calm THEN {} ELSE {UndoFailed(h)}) :
                Local(h, hs)
       \/ /\ table[d] # Via(helper[h].journal, i) \/ ~calm
          /\ Local(h, UndoFailed(h))
          /\ UNCHANGED routes
    /\ UNCHANGED <<disk, lock, dev, dns, userDns, started, calm>>

\* Mutant of InspectDNS: the servers are not compared with the applied ones.
InspectDNSWithoutComparing(h) ==
    /\ Undoing(h, {"dns"})
    /\ Local(h, [helper[h] EXCEPT !.pc = "restore"])
    /\ UNCHANGED <<disk, lock, machine, started, calm>>

\* DNSManager.RestoreIfOwned, comparison: servers that are already the
\* pre-image stay, servers that are neither applied nor original are refused.
InspectDNS(h) ==
    LET before == helper[h].journal.dnsBefore IN
    /\ Undoing(h, {"dns"})
    /\ \/ /\ dns = before
          /\ Local(h, UndoSucceeded(h))
       \/ /\ dns = "tunnel" /\ dns # before
          /\ Local(h, [helper[h] EXCEPT !.pc = "restore"])
       \/ /\ dns \notin {"tunnel", before} \/ ~calm
          /\ Local(h, UndoFailed(h))
    /\ UNCHANGED <<disk, lock, machine, started, calm>>

\* Mutant of RestoreDNS: a failed set command counts as restored.
RestoreDNSIgnoringError(h) ==
    /\ At(h, "restore")
    /\ dns' \in {dns, helper[h].journal.dnsBefore}
    /\ Local(h, UndoSucceeded(h))
    /\ UNCHANGED <<disk, lock, dev, table, installer, userDns, started, calm>>

\* DNSManager.RestoreIfOwned, the set command, which is unconditional.
RestoreDNS(h) ==
    /\ At(h, "restore")
    /\ \/ /\ dns' = helper[h].journal.dnsBefore
          /\ \E hs \in {UndoSucceeded(h)} \cup (IF calm THEN {} ELSE {UndoFailed(h)}) :
                Local(h, hs)
       \/ /\ ~calm
          /\ Local(h, UndoFailed(h))
          /\ UNCHANGED dns
    /\ UNCHANGED <<disk, lock, dev, table, installer, userDns, started, calm>>

\* The kernel drops a utun's routes with the utun.
WithoutVia(h) == [d \in Dests |-> IF table[d] = h THEN "none" ELSE table[d]]
InstallerWithoutVia(h) == [d \in Dests |-> IF table[d] = h THEN NoSession ELSE installer[d]]

\* Manager.DeleteOwned: only this process's own device; a session that this
\* process does not know is success, a different handle is refused.
DeleteDevice(h) ==
    LET s == helper[h].sess IN
    /\ Undoing(h, {"device"})
    /\ \/ /\ dev[h] # s
          /\ Local(h, UndoSucceeded(h))
          /\ UNCHANGED <<dev, routes>>
       \/ /\ dev[h] = s /\ helper[h].journal.device \in {h, NoHelper}
          /\ dev' = [dev EXCEPT ![h] = NoSession]
          /\ table' = WithoutVia(h)
          /\ installer' = InstallerWithoutVia(h)
          /\ Local(h, UndoSucceeded(h))
       \/ /\ dev[h] = s /\ helper[h].journal.device \notin {h, NoHelper}
          /\ Local(h, UndoFailed(h))
          /\ UNCHANGED <<dev, routes>>
    /\ UNCHANGED <<disk, lock, dns, userDns, started, calm>>

\* Mutant of PersistUndo: the loop steps down by two.
PersistUndoByTwo(h) ==
    /\ At(h, "undone")
    /\ PersistAndGoOn(h, helper[h].journal,
          [helper[h] EXCEPT !.pc = "undo", !.index = helper[h].index - 2])

\* Each rolled back entry is persisted before the loop goes on.
PersistUndo(h) ==
    /\ At(h, "undone")
    /\ PersistAndGoOn(h, helper[h].journal,
          [helper[h] EXCEPT !.pc = "undo", !.index = helper[h].index - 1])

\* Mutant of FinishRollback: the journal is deleted whatever happened.
FinishRollbackRegardless(h) ==
    /\ At(h, "undo")
    /\ helper[h].index = 0
    /\ Local(h, [helper[h] EXCEPT !.pc = "delete"])
    /\ UNCHANGED <<disk, lock, machine, started, calm>>

\* The end of rollback.  After any error the journal stays, as
\* rollback_required; otherwise it becomes disconnected and is deleted.
FinishRollback(h) ==
    /\ At(h, "undo")
    /\ helper[h].index = 0
    /\ \/ /\ helper[h].failed
          /\ PersistAndGoOn(h, [helper[h].journal EXCEPT !.phase = "rollback_required"],
                [helper[h] EXCEPT !.pc = "release"])
       \/ /\ ~helper[h].failed
          /\ \E o \in UpdateOutcomes(disk[helper[h].sess],
                                     [helper[h].journal EXCEPT !.phase = "disconnected"]) :
                /\ Store(h, o)
                /\ Local(h, [helper[h] EXCEPT !.pc = IF o.ok THEN "delete" ELSE "release",
                                              !.journal.phase = "disconnected",
                                              !.failed = ~o.ok])
          /\ UNCHANGED <<lock, machine, started, calm>>

\* Mutant of DeleteJournal: the error of the delete is dropped.
DeleteJournalIgnoringError(h) ==
    /\ At(h, "delete")
    /\ \E o \in DeleteOutcomes(disk[helper[h].sess]) : Store(h, o)
    /\ Local(h, [helper[h] EXCEPT !.pc = "release", !.failed = FALSE])
    /\ UNCHANGED <<lock, machine, started, calm>>

\* The last step of rollback, and the only one for a disconnected journal.
DeleteJournal(h) ==
    /\ At(h, "delete")
    /\ \E o \in DeleteOutcomes(disk[helper[h].sess]) :
          /\ Store(h, o)
          /\ Local(h, [helper[h] EXCEPT !.pc = "release", !.failed = ~o.ok])
    /\ UNCHANGED <<lock, machine, started, calm>>

-----------------------------------------------------------------------------
(* Processes and their surroundings.                                       *)

\* A process ends: the kernel closes its utun and releases its flock.
Ends(h) ==
    /\ helper' = [helper EXCEPT ![h] = Dead]
    /\ lock' = [u \in Users |-> IF lock[u] = h THEN NoHelper ELSE lock[u]]
    /\ dev' = [dev EXCEPT ![h] = NoSession]
    /\ table' = WithoutVia(h)
    /\ installer' = InstallerWithoutVia(h)

\* The operation returns and its deferred release runs.  A helper that has
\* no serve loop to go back to exits.
Release(h) ==
    /\ At(h, "release")
    /\ \/ /\ helper[h].resident
          /\ lock' = [lock EXCEPT ![OwnerOf[helper[h].sess]] = NoHelper]
          /\ Local(h, [Dead EXCEPT !.pc = "serving", !.sess = helper[h].sess, !.resident = TRUE])
          /\ UNCHANGED <<dev, routes>>
       \/ /\ ~helper[h].resident
          /\ Ends(h)
    /\ UNCHANGED <<disk, dns, userDns, started, calm>>

Crash(h) ==
    /\ ~calm
    /\ ~At(h, "idle")
    /\ Ends(h)
    /\ UNCHANGED <<disk, dns, userDns, started, calm>>

\* The machine restarts: processes, locks, devices and routes are gone; the
\* journals and the DNS preferences are files and stay.
Reboot ==
    /\ ~calm
    /\ helper' = [h \in Helpers |-> Dead]
    /\ lock' = [u \in Users |-> NoHelper]
    /\ dev' = [h \in Helpers |-> NoSession]
    /\ table' = [d \in Dests |-> "none"]
    /\ installer' = [d \in Dests |-> NoSession]
    /\ UNCHANGED <<disk, dns, userDns, started, calm>>

\* Another program adds, replaces or deletes a route.
ForeignRoute(d) ==
    /\ ~calm
    /\ \E via \in ForeignVias :
          /\ table[d] # via
          /\ table' = [table EXCEPT ![d] = via]
    /\ installer' = [installer EXCEPT ![d] = NoSession]
    /\ UNCHANGED <<disk, lock, helper, dev, dns, userDns, started, calm>>

\* Helper h has read the DNS servers and will act on what it read.
InDNSWindow(h) ==
    \/ At(h, "restore")
    \/ helper[h].pc \in {"create", "intent", "apply"}
    \/ At(h, "mark") /\ helper[h].index < NumSteps

UserSetsDNS ==
    /\ ~calm
    /\ UsesDNS
    /\ EditsDuringWindows \/ \A h \in Helpers : ~InDNSWindow(h)
    /\ \E v \in UserDNSValues :
          /\ dns # v
          /\ dns' = v
          /\ userDns' = v
    /\ UNCHANGED <<disk, lock, helper, dev, table, installer, started, calm>>

CalmDown ==
    /\ ~calm
    /\ calm' = TRUE
    /\ UNCHANGED <<disk, lock, helper, dev, table, installer, dns, userDns, started>>

\* Everything a helper does once it has the lock.
Proceed(h) ==
    \/ CheckAndSnapshot(h) \/ CreateJournal(h) \/ RecordIntent(h)
    \/ AddRoute(h) \/ CreateDevice(h) \/ ApplyDNS(h)
    \/ MarkApplied(h) \/ Verify(h) \/ SetConnected(h)
    \/ LoadJournal(h) \/ BeginRollback(h)
    \/ UndoSkip(h) \/ InspectRoute(h) \/ RemoveRoute(h)
    \/ InspectDNS(h) \/ RestoreDNS(h) \/ DeleteDevice(h)
    \/ PersistUndo(h) \/ FinishRollback(h) \/ DeleteJournal(h)
    \/ Release(h)

Next ==
    \/ \E h \in Helpers, s \in Sessions : AcquireForConnect(h, s) \/ AcquireForDisconnect(h, s)
    \/ \E h \in Helpers : Proceed(h) \/ Crash(h)
    \/ Reboot
    \/ \E d \in Dests : ForeignRoute(d)
    \/ UserSetsDNS

Spec == Init /\ [][Next]_vars

\* A running helper keeps running (the calls have timeouts), the user keeps
\* asking for a session's disconnect until the lock is free when asked, and
\* faults end.
Fairness ==
    /\ \A h \in Helpers : WF_vars(Proceed(h))
    /\ \A s \in Sessions : SF_vars(\E h \in Helpers : AcquireForDisconnect(h, s))
    /\ WF_vars(CalmDown)

\* Faults, deaths and outside changes happen for a while and then stop.
FairSpec == Init /\ [][Next \/ CalmDown]_vars /\ Fairness

-----------------------------------------------------------------------------
(* Properties.                                                             *)

\* The journal on disk records a step of session s that is not rolled back.
Evidence(s, i) == Live(disk[s], i)

\* Journal j has a live entry for every route session s has in the table.
Covers(j, s) == \A i \in RouteSteps : installer[Dest(s, i)] = s => Live(j, i)

\* Write-ahead: every route a session put into the kernel's table, and that
\* is still there, is covered by an entry on disk that a later Disconnect
\* will roll back, whatever failed, died or was retried meanwhile
\* (recordIntent before Routes.Add, Routes.Remove before rolled_back).
RoutesHaveEvidence == \A s \in Sessions : Covers(disk[s], s)

\* The same for DNS: while the servers are the tunnel's, some journal on disk
\* says how to get back.
DNSHasEvidence ==
    UsesDNS /\ dns = "tunnel" => \E s \in Sessions : Evidence(s, NumSteps)

\* Every journal the controller builds passes Journal.Validate, so the store
\* never refuses to persist it, and every journal on disk can be loaded.
JournalsValidate ==
    /\ \A h \in Helpers : Exists(helper[h].journal) => Validate(helper[h].journal)
    /\ \A s \in Sessions : Exists(disk[s]) => Validate(disk[s])

\* When no session has a journal left, DNS is what the user chose last.
CleanMeansUserDNS ==
    (\A s \in Sessions : ~Exists(disk[s])) => dns = userDns

PhaseMoves(old, new) ==
    \/ old.phase = new.phase
    \/ old.phase = "absent" /\ new.phase = "connecting"
    \/ old.phase = "disconnected" /\ new.phase = "absent"
    \/ AllowedTransition(old.phase, new.phase)

\* On disk a session's phase moves only along allowedTransition, and its
\* journal disappears only from the phase disconnected: an incomplete
\* rollback always leaves its evidence.
PhasesFollowTable == [][\A s \in Sessions : PhaseMoves(disk[s], disk'[s])]_vars

\* The order in which an entry's status may change.
Rank(status) ==
    CASE status = "none" -> 0 [] status = "planned" -> 1
      [] status = "applied" -> 2 [] OTHER -> 3

\* No entry of journal j is further than that of journal k.
NotAhead(j, k) == \A i \in Steps : Rank(j.entries[i]) <= Rank(k.entries[i])

\* On disk an entry only moves planned, applied, rolled_back: no stale write
\* ever brings back an entry that was rolled back, or forgets one.
EntriesMoveForward ==
    [][\A s \in Sessions : Exists(disk'[s]) => NotAhead(disk[s], disk'[s])]_vars

\* This step is helper h's route delete command taking effect for entry i.
Removes(h, i) ==
    LET d == Dest(helper[h].sess, i) IN
    /\ At(h, "remove") /\ helper[h].index = i
    /\ helper'[h].pc \in {"undo", "undone"}
    /\ table'[d] # table[d]

\* Routes.Remove takes away only what this session's Routes.Add installed,
\* never a route of another program or another session.
RemovesOnlyOwnRoutes ==
    [][\A h \in Helpers, i \in RouteSteps :
        Removes(h, i) => installer[Dest(helper[h].sess, i)] = helper[h].sess]_vars

\* Rollback is in reverse order: the endpoint's pin, or an earlier tunnel
\* route, goes while a later route of the session still stands only after a
\* recorded failure, which keeps the journal.
RollbackIsReverse ==
    [][\A h \in Helpers, i \in RouteSteps :
        Removes(h, i) =>
            \/ helper[h].failed
            \/ \A k \in RouteSteps :
                  k > i => installer[Dest(helper[h].sess, k)] # helper[h].sess]_vars

\* DNS.RestoreIfOwned never replaces servers that the user chose after
\* nordmac applied its own.
RestoreRespectsUserDNS ==
    [][\A h \in Helpers :
        At(h, "restore") /\ helper'[h].pc # "restore" /\ dns' # dns => dns # userDns]_vars

\* A route or the DNS servers of an entry that is still to be rolled back
\* were changed by somebody else, which rollback must refuse to touch.
Conflicted(s) ==
    \/ \E i \in RouteSteps :
          Evidence(s, i) /\ table[Dest(s, i)] \notin {"none", Via(disk[s], i)}
    \/ UsesDNS /\ Evidence(s, NumSteps) /\ dns \notin {"tunnel", disk[s].dnsBefore}

\* Once faults stop, repeated Disconnects remove every journal and with it
\* everything the session did, except where somebody else's change must not
\* be touched.
CleanupCompletes ==
    \A s \in Sessions : calm ~> (~Exists(disk[s]) \/ Conflicted(s))

-----------------------------------------------------------------------------
(* The contract.                                                           *)

\* What SessionContract sees of a journal: its device entry.
RecordOf(j) ==
    IF ~Exists(j) THEN "none"
    ELSE CASE j.entries[2] = "none" -> "open"
           [] j.entries[2] \in {"planned", "applied"} -> "live"
           [] j.entries[2] = "rolled_back" -> "undone"

\* What it sees of the helper in the lock: the direction in which it works,
\* and what the operation returns.
StageOf(hs) ==
    IF hs.pc \in {"check", "create", "intent", "apply", "mark", "verify", "connect"} THEN "connect"
    ELSE IF hs.pc # "release" THEN "rollback"
    ELSE IF hs.failed THEN "failed"
    ELSE IF hs.journal.phase = "connected" THEN "connected"
    ELSE "clean"

SessionsOf(u) == {s \in Sessions : OwnerOf[s] = u}

RecordsOf(u) == [s \in SessionsOf(u) |-> RecordOf(disk[s])]

WorkOf(u) ==
    IF lock[u] = NoHelper THEN [by |-> NoHelper, sess |-> NoSession, stage |-> "clean"]
    ELSE [by |-> lock[u], sess |-> helper[lock[u]].sess, stage |-> StageOf(helper[lock[u]])]

Contract(u) == INSTANCE SessionContract WITH
    Sessions <- SessionsOf(u), record <- RecordsOf(u), work <- WorkOf(u)

\* For every owner the controller keeps the contract: only the operation in
\* the transaction lock touches a journal, and only that of its own session;
\* a journal goes only when the device is removed, and a rollback that
\* reports success has left none, whatever failed, died or was retried.
\* This is Contract(u)!ContractSpec for every u, with the quantifier inside.
ImplementsContract ==
    /\ \A u \in Users : Contract(u)!ContractInit
    /\ [][\A u \in Users : Contract(u)!ContractNext \/ UNCHANGED Contract(u)!contract]_vars

-----------------------------------------------------------------------------
(* The inductive invariant behind RoutesHaveEvidence.                      *)

\* Control points at which the in-memory journal is the session's truth.
Holding == {"intent", "apply", "mark", "verify", "connect", "rollback", "undo",
            "remove", "restore", "undone", "delete"}

\* A helper in a transaction holds the lock of its session's owner.
LockHeld ==
    \A h \in Helpers :
        helper[h].pc \in Critical =>
            helper[h].sess \in Sessions /\ lock[OwnerOf[helper[h].sess]] = h

\* A route that a session installed is in the table.
InstalledIsThere == \A d \in Dests : installer[d] # NoSession => table[d] # "none"

\* A missing journal file records nothing, a disconnected one owns nothing.
Honest(j) ==
    /\ ~Exists(j) => \A i \in Steps : j.entries[i] = "none"
    /\ j.phase = "disconnected" => \A i \in Steps : ~Live(j, i)

DiskIsHonest == \A s \in Sessions : Honest(disk[s])

\* The journal in memory covers the session's routes as well.
MemoryHasEvidence ==
    \A h \in Helpers :
        helper[h].pc \in Holding => Covers(helper[h].journal, helper[h].sess)

\* Where a helper stands in its loops, and that it has a device to route
\* through by the time it reaches the tunnel routes.
Positioned(hs) ==
    /\ hs.pc \in {"intent", "apply", "mark", "remove", "restore", "undone"} => hs.index \in Steps
    /\ hs.pc = "apply" => Live(hs.journal, hs.index)
    /\ hs.pc = "remove" => hs.index \in RouteSteps
    /\ hs.pc = "restore" => Kind(hs.index) = "dns"
    /\ hs.pc = "delete" => \A i \in Steps : ~Live(hs.journal, i)
    /\ hs.pc \in {"intent", "apply", "mark"} /\ hs.index > 2 => hs.journal.device \in Helpers
    /\ hs.pc = "mark" /\ hs.index = 2 => hs.journal.device \in Helpers

LoopPosition == \A h \in Helpers : Positioned(helper[h])

\* A step is applied only after its intent is on disk.
IntentOnDisk ==
    \A h \in Helpers : At(h, "apply") => Evidence(helper[h].sess, helper[h].index)

\* RoutesHaveEvidence strengthened until every step preserves it.
EvidenceInv ==
    /\ TypeOK
    /\ LockHeld
    /\ InstalledIsThere
    /\ DiskIsHonest
    /\ MemoryHasEvidence
    /\ LoopPosition
    /\ IntentOnDisk
    /\ RoutesHaveEvidence

-----------------------------------------------------------------------------
(* The inductive invariant behind ImplementsContract, EntriesMoveForward   *)
(* and PhasesFollowTable.                                                  *)

\* Only a helper in a transaction holds a lock, that of its session's owner.
LockOwned ==
    \A u \in Users :
        lock[u] \in Helpers =>
            helper[lock[u]].pc \in Critical /\ OwnerOf[helper[lock[u]].sess] = u

\* The phases from which rollback starts.
Undoable == {"connecting", "connected", "degraded", "disconnecting", "rollback_required"}

\* No journal on disk has the phase foreign_conflict, which nothing sets.
PhaseIsSet == \A s \in Sessions : disk[s].phase # "foreign_conflict"

\* An operation starts without a journal in memory and without an error.
Fresh(hs) ==
    hs.pc \in {"idle", "serving", "check", "load"} => ~hs.failed /\ hs.journal = AbsentJournal

\* Where the helper with locals hs stands with respect to the journal j of its
\* session on disk.  While Connect goes forward the two agree; rollback may be
\* ahead of the disk, never behind it.
InStep(hs, j) ==
    /\ hs.pc = "create" => ~hs.failed /\ hs.journal.phase = "connecting"
                          /\ \A i \in Steps : hs.journal.entries[i] = "none"
    /\ hs.pc \in {"intent", "apply", "mark", "verify", "connect"} =>
          ~hs.failed /\ hs.journal.phase = "connecting" /\ j.phase = "connecting"
                     /\ hs.journal.entries = j.entries
    /\ hs.pc \in {"intent", "apply", "mark"} => \A i \in Steps : i > hs.index => hs.journal.entries[i] = "none"
    /\ hs.pc = "intent" => hs.journal.entries[hs.index] = "none"
    /\ hs.pc \in {"apply", "mark"} => hs.journal.entries[hs.index] = "planned"
    /\ hs.pc = "rollback" =>
          hs.journal.phase \in Undoable /\ (hs.journal.phase = "disconnecting" => j.phase = "disconnecting")
    /\ hs.pc \in {"undo", "remove", "restore", "undone"} =>
          hs.journal.phase = "disconnecting" /\ (~hs.failed => j.phase = "disconnecting")
    /\ hs.pc \in {"rollback", "undo", "remove", "restore", "undone"} =>
          j.phase \in Undoable /\ NotAhead(j, hs.journal)
    /\ hs.pc = "delete" => hs.journal.phase = "disconnected" /\ j.phase = "disconnected"

MemoryInStep ==
    \A h \in Helpers :
        /\ Fresh(helper[h])
        /\ helper[h].pc \in Critical => InStep(helper[h], disk[helper[h].sess])

\* EvidenceInv strengthened until every step keeps the contract.
ContractInv ==
    /\ EvidenceInv
    /\ LockOwned
    /\ PhaseIsSet
    /\ MemoryInStep

-----------------------------------------------------------------------------
(* The inductive invariant behind JournalsValidate, RollbackIsReverse and  *)
(* RemovesOnlyOwnRoutes.                                                   *)

\* What the locals of a helper say of its loop.  Going forward, everything
\* before the index is applied; going back without an error, everything after
\* it is undone.
Progress(hs) ==
    /\ hs.pc \in {"intent", "apply", "mark"} =>
          \A i \in Steps : i < hs.index => hs.journal.entries[i] = "applied"
    /\ hs.pc \in {"verify", "connect"} => \A i \in Steps : hs.journal.entries[i] = "applied"
    /\ hs.pc \in {"undo", "remove", "restore", "undone"} /\ ~hs.failed =>
          \A i \in Steps : i > hs.index => ~Live(hs.journal, i)
    /\ hs.pc \in {"remove", "restore"} => Live(hs.journal, hs.index)
    /\ hs.pc = "undone" => ~Live(hs.journal, hs.index)

LoopProgress == \A h \in Helpers : Progress(helper[h])

\* Whatever no other program could have put into the table was put there by
\* a session, for one of its routes.
RoutesAreExplained ==
    \A d \in Dests :
        table[d] \notin ForeignVias \cup {"none"} =>
            \E s \in Sessions, i \in RouteSteps : installer[d] = s /\ d = Dest(s, i)

\* ContractInv strengthened until every step builds valid journals.
JournalInv ==
    /\ ContractInv
    /\ JournalsValidate
    /\ LoopProgress
    /\ RoutesAreExplained

-----------------------------------------------------------------------------
(* The inductive invariant behind DNSHasEvidence, CleanMeansUserDNS and    *)
(* RestoreRespectsUserDNS.  The DNS servers are shared by all sessions, and *)
(* a session that finds another one's servers there takes them for the     *)
(* user's; connection.Service starts no session while it knows of one.     *)

\* The session has a journal, or has read what the journal will say.
Active(s) ==
    \/ Exists(disk[s])
    \/ \E h \in Helpers : At(h, "create") /\ helper[h].sess = s

OneAtATime == \A s, t \in Sessions : Active(s) /\ Active(t) => s = t

\* A session id is used once, so Connect finds no journal of its session.
SessionsAreNew ==
    /\ \A s \in Sessions : Exists(disk[s]) => s \in started
    /\ \A h \in Helpers : helper[h].pc \in {"check", "create"} =>
          helper[h].sess \in started /\ ~Exists(disk[helper[h].sess])

\* No journal takes the tunnel's servers for the pre-image, and the one in
\* memory has the pre-image of the one on disk.
PreImages ==
    /\ \A s \in Sessions : disk[s].dnsBefore # "tunnel"
    /\ \A h \in Helpers : helper[h].journal.dnsBefore # "tunnel"
    /\ \A h \in Helpers : helper[h].pc \in Holding =>
          helper[h].journal.dnsBefore = disk[helper[h].sess].dnsBefore

\* While the servers are the tunnel's, disk and memory say so.
TunnelDNSIsRecorded ==
    dns = "tunnel" =>
        /\ UsesDNS
        /\ \E s \in Sessions : Evidence(s, NumSteps)
        /\ \A h \in Helpers : helper[h].pc \in Holding => Live(helper[h].journal, NumSteps)

\* The servers are the user's, or will be when the pre-image is restored.
PreImageIsUsers ==
    /\ dns \in {"tunnel", userDns}
    /\ dns = "tunnel" => \A s \in Sessions : Exists(disk[s]) => disk[s].dnsBefore = userDns
    /\ \A h \in Helpers : UsesDNS /\ InDNSWindow(h) => helper[h].journal.dnsBefore = userDns
    /\ \A h \in Helpers : At(h, "restore") => dns = "tunnel"

DNSInv ==
    /\ SessionsAreNew
    /\ userDns # "tunnel"
    /\ PreImages
    /\ TunnelDNSIsRecorded
    /\ ~EditsDuringWindows => PreImageIsUsers

=============================================================================

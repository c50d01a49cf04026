# nordmac: TLA+ models, checks and proofs

nordmac is a command line VPN client for macOS. An unprivileged command starts
a privileged helper with sudo; the helper creates a userspace WireGuard `utun`,
changes routes and DNS under a journal, and stays resident to serve a socket.
Everything it changes must be undone by a later command, whatever fails or dies
in between, and nothing that somebody else changed may be touched.

This directory models that system from its source, checks the models with TLC
on small instances, and proves the most important invariants for every instance
with TLAPS. `PROJECT.json` maps each definition to the lines it models, and
lists runs, mutants (plausible bugs that each property must catch), hazards,
findings and theorems.

    tlc -workers 2 -config TunnelScoped.cfg MCTunnelTransaction
    tlapm TunnelTransactionProofs.tla

The eight modules that end in `Proofs` are checked by `tlapm`, each in at most a few
minutes.

## 1. Inventory

| Part of the system | Source (under `src/internal/`) | State it keeps | Operations | Module |
|---|---|---|---|---|
| Tunnel controller | `tunnel/controller.go` | journal in memory, loop position | Connect, Disconnect, rollback | `TunnelTransaction`, its promise in `SessionContract` |
| Plan and journal model | `tunnel/model.go` | phases, entries, statuses | Validate, TunnelRoutes, expectedKinds, transitions | `TunnelTransaction`, `RoutePlan` |
| Journal store, transaction lock | `state/journal.go`, `state/lock.go` | a file per session, an flock per user | Create, Update, Load, Delete, Acquire | `TunnelTransaction` |
| Route, DNS, conflict managers | `darwinnet/` | none; the kernel's table and the network service | Add, Remove, Snapshot, Apply, RestoreIfOwned, Check | `TunnelTransaction`, `RoutePlan`, `RouteText` |
| WireGuard backend | `wgbackend/` | devices of this process | Create, DeleteOwned | `TunnelTransaction` (ownership only) |
| Helper daemon | `helperdaemon/` | listener, session, failed health checks | connectAndServe, serve, handle, recoverSession | `ConnectionLifecycle` |
| Helper client | `helperclient/` | none | Connect, Disconnect, Status over socket or sudo | `ConnectionLifecycle` |
| Helper protocol | `helperproto/` | a position in a frame | encode, decode, requireEOF | `HelperExchange` |
| Connection service, metadata | `connection/`, `state/` | `connection-v1.json` | Connect, Disconnect, Reconnect, Status | `ConnectionLifecycle`, `CommandLine` |
| Login, logout, status | `loginflow/`, `authstate/` | the Keychain pair, `credentials.lock` | Login, LogoutLocal, Inspect | `CredentialTransaction` |
| Country cache | `cache/`, `command/` | one file with the time it was fetched | Countries, Read, Write | `CountryCache` |
| Recommendation | `recommend/`, `nordapi/` | none | ResolveCountry, ResolveCity, Recommend, Select | `Recommendation` |
| Token input, provisioning | `tokeninput/`, `nordauth/` | none | ReadStdin, ReadHidden, Provision | `Provisioning` |
| Command line | `command/run.go`, `connectplan/`, `../cmd/nordmac` | none | parse, dispatch, call, report | `CommandLine` |

How they interact. The command takes `credentials.lock` (shared by connection,
login, logout and status, so there is one such command at a time), saves
metadata naming a new session, and starts a helper over a pipe, or dials the
resident helper's socket. The helper runs the tunnel controller, which writes
the journal before and after every change it makes. A disconnect whose socket
does not answer starts a second helper that recovers the session from its
journal. Several privileged processes may therefore work on one session; the
transaction lock, the journal and the metadata are what coordinates them.

The modules follow these seams. `CommandLine` composes `Recommendation` and
`Provisioning`. `ConnectionLifecycle` composes the command, the helpers and
`SessionContract`; `TunnelTransaction` implements `SessionContract`, so that
what the lifecycle assumes of the controller is what the controller is shown
to do. `RoutePlan` takes the same controller from the side of the traffic.

What is hard here, in the order of how much depends on it:

1. a helper that dies, fails or times out between the intent on disk, the change
   of the machine and the mark on disk (`tunnel/controller.go:260`);
2. calls that report an error after their effect (a directory sync after a
   rename, a route verified after it was added, a Keychain helper killed late);
3. two processes that recover, connect and exit around the same journal, socket
   and metadata, where the command that started one has given up;
4. windows between a comparison and an unconditional command (DNS restore) in
   which the user or another program acts;
5. waiting: exchanges in which both sides wait for the other, helpers that must
   notice that their session is gone or that nobody waits for their answer,
   rollbacks that must complete on a retry;
6. the routes themselves: packets to the server must never enter the tunnel
   that they carry, at any moment of Connect or rollback;
7. limits at which an input is used whole or refused, and errors of which
   several arrive at once and one is reported.

The full list, each at its line with the properties that cover it, is
`hazards` in `PROJECT.json`.

## 2. Modules

### TunnelTransaction: the journaled transaction

State: `disk[s]` (the journal file of a session), `lock[u]` (the flock in a
user's state directory), `helper[h]` (a process: program counter, session,
journal in memory, loop index, `errors.Join` reduced to "something failed",
and whether it has a serve loop), `dev[h]` (the utun living in the process),
`table[d]` (what the kernel routes a destination through), `dns`. History
variables, which no guard of the program reads, say who installed a route
(`installer`), what the user last chose (`userDns`) and which ids are used
(`started`).

Each journal write and each manager call is a step with its outcomes: success,
failure without effect, failure after the effect. `Connect` is
`AcquireForConnect`, `CheckAndSnapshot`, `CreateJournal`, then for each entry
`RecordIntent`, `AddRoute`/`CreateDevice`/`ApplyDNS`, `MarkApplied`, and finally
`Verify`, `SetConnected`, `Release`. `Disconnect` is `AcquireForDisconnect`,
`LoadJournal`, and the rollback that a failing Connect runs as well:
`BeginRollback`, per entry `UndoSkip` or `InspectRoute`/`RemoveRoute`,
`InspectDNS`/`RestoreDNS`, `DeleteDevice`, then `PersistUndo`, and at the end
`FinishRollback`, `DeleteJournal`. Around them: `Crash`, `Reboot`,
`ForeignRoute`, `UserSetsDNS`.

Abstractions worth knowing:

- a utun is named by the process it lives in, so a later helper of the same id
  reuses the name, as macOS reuses `utunN`;
- an entry's kind is a function of its index (`expectedKinds`), so only the
  statuses are state; a plan that fails validation changes nothing and is no
  step; the owner-uid comparison of Load is a failure without effect;
- the delete command is constrained by gateway or interface, as the comment in
  `darwinnet/route.go:174-176` explains, so it fails on a route that changed
  since the inspection; the DNS set command is not constrained by anything;
- the conflict check and the snapshots are one step;
- search domains are always nil in a plan, so only DNS servers are modelled;
- a reboot keeps files as they were last written: loss of writes that were not
  yet flushed at a power failure is not modelled;
- Acquire on a held lock returns without a change and is therefore no step.

### SessionContract: what the controller promises

The abstract specification of a user's journals and transaction lock. A
session's journal is one of four `Records`: none, open (no device recorded yet),
live, undone. `work` is the operation in the lock: who, on which session, and
its stage (connect, rollback, and then connected, clean or failed). One
operation at a time; only its own session's journal changes, only forward
(`Later`), and it goes only from open or undone; a Connect that succeeds leaves
a live journal, a rollback that succeeds leaves none; whoever dies drops the
lock and leaves the record.

`TunnelTransaction` implements it for every owner, with a refinement mapping
that reads the record off the device's entry on disk (`RecordOf`) and the stage
off the control point of the lock's holder (`StageOf`): property
`ImplementsContract`, run `scoped`, theorem `KeepsContract`. The property is
the contract's specification for each user with the quantifier inside the box,
since TLC takes no quantified specification.

### RoutePlan: where packets go

The kernel's table as a function from prefixes to next hops, forwarding by the
longest prefix, over addresses that are short but keep their width. Plans are
validated as `Plan.Validate` does (`ValidPlan`, `ValidScoped`), the conflict
check looks at the default route and the split defaults, `AddRoute` refuses an
exact match, `UndoRoute` compares before it removes, `UndoDevice` takes the
utun's routes along if this process has the utun. Others set routes and the
machine joins other networks at any time (`OthersRoute`, `DefaultMoves`), and
`ambient` records what the table would be without the session. Two things to
know: others' routes have an interface of their own, so the identical foreign
pin described in section 3 is left to `TunnelTransaction`; and a route of
others that is more specific than the split defaults keeps its traffic out of
the tunnel, which `TrafficAsPlanned` counts as planned. `Lan[g]` is the on-link
prefix around router g. Others' changes of the plan's own prefixes excuse
`TrafficAsPlanned` (`Undisturbed`) and nothing else: `UnderlayNeverLoops` and
`RestoredExactly` hold whatever others do.

### ConnectionLifecycle: command, metadata, helpers, socket

State: `meta` (the metadata file), `cli` (the command holding the lock),
`helper[h]` (control point, session, utun, failed health checks, and whether
a request waits whose sender is gone), `record` and `work` of `SessionContract`
and `socket` (which helper created the file at the path). The controller's
steps are the contract's (`Operate`), bound to the helper that runs it; the utun
goes when the rollback of its own process undoes it. A release of the lock that
fails turns a success into an error (`Returns`).

Actions follow `connectLocked`, `disconnectLocked`, `statusLocked`, the client's
socket-then-sudo fallback and the daemon's functions: `StartConnect`,
`StartDisconnect`, `StartStatus`, the steps from `Dial` to an answer in
`CLIStep`, `Cancel`, `CLIDies`; `BeginConnect` to `Ack`, `HandleStatus`,
`BeginHandle` to `EndHandle`, `BeginLate` (a request handled after its client
left), `HealthCheck`, `CloseListener`, `RemoveSocket`, `BeginFinal`,
`BeginRecover`, `Sweep` and so on. `Save(session, phase)` and `Delete` are the
metadata writes. Reconnect is a disconnect followed by a connect.

A cancelled command kills only sudo, which it may not signal either: the helper
runs on, or the command blocks in Wait. A helper whose standard output is
broken may fail to write or be killed by SIGPIPE; both are outcomes of `Ack`.

### HelperExchange: one request and its answer

A stream is the number of bytes written to it and whether it is closed. The
frame has a length prefix, a body, and for a connect the secret frame; the
decoder then waits for the end of the stream. Either side may stop at every
byte. A disconnect stands for recover and status as well, which have the same
frames. A connect may also end without an answer, when the helper finds no
state directory or cannot listen. JSON and what its validation refuses are left
out, and trailing data is never written by this client.

On the pipe the command does not leave at once: after an error or a
cancellation it kills sudo and waits for it (`kill`, `cancelled`), and after an
answer it waits for every helper but one that connected (`wait`). The kill ends
the wait (`Killed`) or is refused, as by a sudo that runs as root; then only the
end of the helper does (`WaitEnds`). So the command of a cancelled connect may
block as long as its helper serves, which `ExchangeEnds` excepts and
`ConnectionLifecycle` has as well.

### CredentialTransaction: the Keychain pair

`item[k]` is the token or key by the login it came from, `client[c]` a command
with its snapshot. Each Put, Get and Delete is a step that may fail before or
after its effect. `late` holds the calls of killed commands whose Keychain
helper process still runs: it does not hold the lock, so its write can land
after a later command. The deferred release of the lock may fail, which takes
the result away and joins its error to whatever the command returns, a success
included (`Replies`).

### CommandLine, Recommendation, Provisioning: one invocation after another

`CommandLine` is `RunWithInput`: the arguments are parsed (`ParseRecommend` and
`ParseSimple`), required flags looked for, the backend asked for its interface
(`Wirings` are the three builds that `cmd/nordmac` makes), and only then
something is read or called. An argument is a flag, a word or an option with
its value, never text. A joined error is a set of errors and each `fail...`
function a table whose first matching row decides. What the credential
transactions may return is what `FailureRestores` and `SuccessSettles` show;
the tunnel succeeds or fails as `ConnectionLifecycle` has it. `recorded` is
what the metadata keep of a session's place, which Reconnect asks for again.

`Recommendation`: the resolution of the user's words to a country and city and
the choice of a server. Texts are their letters after `normalize`, and a blank
server text is no server, as `normalizeServer` trims it; the order of
the catalogue matters to nothing; a cached catalogue may have ids the API no
longer uses. `Select`'s loop is compared with a definition that has no loop.

`Provisioning`: a token and an answer are sequences of kinds of bytes, read
through a limit. An input longer than the limit must be refused, not cut.

### CountryCache, RouteText

`CountryCache`: any number of commands read, fetch and replace the cache file
without a lock, at a clock that only moves forward. The replacement is atomic
(rename); a slow writer may put an older catalogue over a newer one.

`RouteText`: what `inspectExact` makes of the addresses and masks that
`route(8)` prints, for every prefix and every covering route it may answer
with, in the family that it asks for. In `inet` addresses may be shortened or
`default`, masks dotted or hexadecimal; in `inet6` addresses and masks are
whole, and the hexadecimal mask and the destination `default` are errors
(`darwinnet/route.go:203`, `:247`). Both have masks with holes and the
`prefixlen` form. `ShortDefault` says whether `default` is printed for the
address 0.0.0.0 whatever the length. It is FALSE in the run: the repository's
tests have `0.0.0.0` with the mask `128.0.0.0`, and `::` with `8000::`
(`darwinnet/conflict_test.go:49`, `:68`).

## 3. Runs

Runs that hold:

| Run | Bounds | What it shows |
|---|---|---|
| `scoped` | 1 session, 2 helpers, 2 scoped routes, foreign routes, fairness | every route a session owns is covered by its journal on disk; phases and entries move only forward; rollback removes only what the session installed; the controller implements `SessionContract`; once faults stop, repeated disconnects leave no journal unless somebody else's change is in the way |
| `full` | 1 session, full tunnel with DNS the user may edit | every journal the controller builds validates; rollback is in reverse over all seven entries; the tunnel's DNS is always recoverable, never restored over the user's choice, and is the user's when no journal is left |
| `route_plan` | 3-bit IPv4 and 2-bit IPv6 addresses, 2 routers, plans of both policies with up to 2 prefixes, one change by others | packets to the server and the router never enter the tunnel; a connected machine sends everything where the plan says; a complete rollback leaves the table as if the session had never been |
| `route_text` | both families, 6-bit addresses, 3 octets of 2 bits | exactly the destination is recognised; masks with holes, and in `inet6` what only `inet` may say, are refused; the two comparison loops agree |
| `lifecycle` | 2 sessions, 3 helpers, 1 health failure | what a session left behind is named by the metadata, or its command left early; a request over the shared socket path reaches the helper of its own session |
| `lifecycle_devices` | 1 session, 2 helpers, 3 health failures, fairness | a helper whose session was rolled back elsewhere exits with its utun; a helper whose command left before the answer exits |
| `exchange` | prefix 2, requests of limit-1, limit, limit+1 bytes, fairness | no half request is acted on, no whole one refused, no answer made up, nobody waits for ever but the command of a cancelled connect that is being served |
| `credentials` | 2 commands, 2 logins | commands are all or nothing, but for a failing release after all was done; success is real; status reports one moment; every mixed pair has an explanation |
| `cache` | 2 commands, TTL 1, clock 3, sizes up to the read limit | what is served as fresh is fresh; once cached, countries never fails |
| `commands` | every command with up to 3 arguments, tokens and answers up to two bytes over their limits, small catalogues and replies | arguments mean what is written; refusals touch nothing; tokens and answers are whole; the first wanted server is chosen, where the user asked; a reconnect stays in its country and city |

Why the bounds are enough. One session with two helpers is the smallest
instance in which a recovery runs beside the process it recovers from; that
several sessions and users neither lose nor revive each other's evidence is
proved for every number of them (`WriteAhead`, `NoStepBack`). Widths, numbers of
sessions, helpers, routers and commands do not limit any property that section 5
proves. Two
tunnel routes, the endpoint route and the device give rollback an order to keep
on both sides of the device; the full policy brings all seven entries.
Three helpers in `lifecycle` are a resident, its recoverer and the next
session's. Its limit of one failed health check, instead of the code's three,
bounds the states: the helper gives up at the first failure instead of the
third, which the properties of this run do not tell apart;
where the counter matters
(`lifecycle_devices`) it is three. Two clock ticks beyond the TTL make every
age from 0 to expired happen. Six-bit addresses have every prefix length that
ends inside, at the start and at the end of an octet. Three-bit addresses have
both halves of the split defaults, a network around each router and prefixes
longer and shorter than it. The limits of `commands` are two bytes, since
only the lengths around a limit differ; its countries share a name, its cities
a name with different slugs, and an id of one country was another's. Helpers, sessions,
clients and processes are interchangeable and are symmetry sets in runs of
safety properties only;
no liveness run uses symmetry.

Two runs show a disagreement between the code and its documentation, which is
quoted under `findings`:

| Run | What happens |
|---|---|
| `lifecycle_abandoned` | a disconnect after a cancelled connect finds no journal yet and forgets a session that then connects (`EvidenceIsNamed`) |
| `credentials_mixed_pair` | after a login died between its writes, status reports the mixed pair as `logged_in` (`StatusDetectsMixedPair`) |

Where the properties that hold end. Some depend on a constant of their run or
name an exception; changing that gives a counterexample that is a behaviour of
the code:

- `RemovesOnlyOwnRoutes` with `ForeignVias = {"physical"}`: Connect records the
  endpoint route as planned before Add, and Add refuses a destination that is
  already routed (`darwinnet/route.go:53`). The rollback compares only interface
  and gateway (`route.go:84`), so another program's host route for the server
  through the same gateway is deleted.
- `RemovesOnlyOwnRoutes` with two sessions of one server: Connect does not look
  for journals of earlier sessions, and the recovery of an old session deletes
  the endpoint route of the new one (`tunnel/controller.go:94`).
- `RestoreRespectsUserDNS` with `EditsDuringWindows = TRUE`: an edit between the
  comparison of RestoreIfOwned and its unconditional set command is overwritten
  (`darwinnet/dns.go:85`). `full` keeps edits out of the windows between a read
  of the servers and the write based on it.
- `OnceCachedNeverFails` with a size above `ReadLimit`: Write stores a catalogue
  of any size, the API client accepts 8 MiB, Read decodes at most 4 MiB
  (`cache/countries.go:40`).

- `UnderlayNeverLoops` without its exception for rollbacks that failed: when
  Remove fails for a tunnel route the loop continues (`tunnel/controller.go:326`)
  and takes the server's pin away, so that packets to the server may follow the
  remaining route until the retry.
- `FoundIsExact` with `ShortDefault = TRUE`: a route for 0.0.0.0/1 that is printed
  as `default` with its mask is taken for 0.0.0.0/0, since the mask is not looked
  at (`darwinnet/route.go:203`).

One more sentence of the documentation does not hold:
`docs/validation/auth-commands-2026-08-28.md:17` says that an incomplete rollback
of a local logout is returned as `credential_recovery_required`. `CommandLine`
states it as `RecoveryIsReported`. Added to `Commands.cfg`, it fails in four
states: a logout finds its rollback incomplete, the deferred release of the lock
fails too, and `failAuthentication` looks for the lock's error first
(`command/run.go:362`), so that the user reads `busy`, "another credential
transaction is active". No property of a run excuses that report.

Things one might expect of the helpers, and that do not hold: a helper that
serves keeps its socket (an exiting helper unlinks the path twice, whoever's
socket is there, `helperdaemon/daemon.go:105`), and the utun is gone when a
disconnect returns (a recovering helper has no devices, `daemon.go:202`). What
holds in their place is `RequestsReachTheirSession` and `DevicesGoAway`. Nor
does `SuccessRepairs` of `CredentialTransaction`: a killed login's write may
land after the command that repaired the pair (`nativekeychain/store.go:25`);
`SuccessSettles` excludes exactly that.

## 4. Fairness

- `scoped`, for `CleanupCompletes`: weak fairness of each helper's own steps
  (every external call has a timeout, so a live helper goes on); strong fairness
  of a disconnect, i.e. the user retries until one finds the lock free; and
  faults stop eventually (`CalmDown`). Without the last, a fault at every attempt refutes the claim,
  rightly.
- `lifecycle_devices`: weak fairness of helper steps for the same reason (which
  is all that `UnansweredHelpersLeave` needs), and
  strong fairness of the health check: the listener's deadline is absolute, so
  requests cannot postpone it for ever.
- `exchange`: weak fairness of both sides only, which includes the return of Wait
  once the helper has ended (`WaitEnds`). That a deadline passes, a user gives up
  or the kill of sudo is allowed (`Killed`) is not assumed, so the property says
  the protocol itself does not block.

## 5. Proofs

Each proof module rests on one inductive invariant, checked with TLC before it
was proved (add `EvidenceInv`, `ContractInv` or `JournalInv` to
`TunnelScoped.cfg`, `DNSInv` to `TunnelFull.cfg`, `LifecycleInv` and
`OneSessionAtATime` to `Lifecycle.cfg`, `ExchangeInv` to `Exchange.cfg`, `RouteInv` and `TrafficInv` to
`RoutePlan.cfg`, `CredentialInv` to `Credentials.cfg`, `CacheInv` and
`FallbackInv` to `Cache.cfg`, `CommandInv` to `Commands.cfg`, `TextInv` to
`RouteText.cfg`), and has the theorems that follow from it. There is
one step per action. The invariants stand at the end of the module they are
about, the proofs in modules of their own.

**TunnelTransactionProofs**, first part, the evidence: `TypeCorrect` and `WriteAhead`
(`Spec => []RoutesHaveEvidence`), for any number of sessions, helpers, users and
servers, either policy and all environment choices; the runs have one user, the
theorem covers users with separate locks who share the kernel's table.
"Every installed route has a live entry on disk" is not inductive: the next
write comes from a helper's memory. `EvidenceInv` adds that a helper in a
transaction holds its owner's lock (`LockHeld`, so no other helper writes this
session's journal or routes), that its memory covers the routes as well
(`MemoryHasEvidence`), that an intent is on disk before its step
(`IntentOnDisk`), that installed routes exist (`InstalledIsThere`, so that a
missing route may be marked rolled back), where the loops stand
(`LoopPosition`) and that absent and disconnected journals own nothing
(`DiskIsHonest`). Assumptions: `HelperAssumption`, `SessionAssumption`,
`PlanAssumption`, `EnvironmentAssumption`, which only give the constants their
types and keep names apart.

Its second part, the contract: `KeepsContract` (`Spec => ImplementsContract`, the
refinement), `NoStepBack` (`Spec => EntriesMoveForward`) and `TableIsFollowed`
(`Spec => PhasesFollowTable`), with the same generality and assumptions. All
three are about writes that take a journal from a helper's memory to the disk,
so none follows from what is on disk alone. `ContractInv` adds to `EvidenceInv`
that a lock belongs to a helper in a transaction of that owner (`LockOwned`), so
that the mapping of `work` is well defined, and that memory is in step with the
disk (`MemoryInStep`): equal while Connect goes forward, possibly ahead of the
disk in a rollback whose writes have failed, never behind it. The theorem
`ContractStep` then shows, action by action, that a step is one of the
contract's or none.

Its third part, the journals: what `ContractInv` does not carry. `JournalsAreValid`
(`Spec => []JournalsValidate`) and `RollbackGoesBack`
(`Spec => RollbackIsReverse`) hold for all constants. `JournalInv` adds where the
loops stand relative to the statuses (`LoopProgress`: forward, everything before
the index is applied; back without an error, everything after it is undone) and
that a route no other program can have put there is some session's
(`RoutesAreExplained`).
The other four need what the controller does not ensure by itself, and say so in
their statements:

- `[]OneAtATime`: no two sessions have a journal, or are about to create one, at
  the same time. The kernel's table and the DNS servers are shared by all
  sessions; the controller looks for no journal but its own.
  `connection.Service` refuses to start a session while the metadata name one
  (`connectLocked`). That this is enough for the commands of one user, whatever
  fails or dies, is `SessionsTakeTurns` below, except after the abandoned connect
  of `lifecycle_abandoned`; two users can violate it (a listed hazard), and so
  could another caller of the controller. It is a hypothesis about the
  behaviour, not about constants, and the runs satisfy it with one session.
- `OwnRoutesOnly` (`RemovesOnlyOwnRoutes`): also that no other program routes a
  planned destination through the physical gateway or `lo0`, the case that
  section 3 shows to be real.
- `DNSIsRecorded` (`DNSHasEvidence`): nothing else; edits by the user in the
  windows are included.
- `CleanIsUsers` (`CleanMeansUserDNS`) and `RestoreIsOwn`
  (`RestoreRespectsUserDNS`): also that the user does not edit the servers in
  the windows (`~EditsDuringWindows`), as in section 3.

`DNSInv` says that a session is new when its journal is created
(`SessionsAreNew`), that no journal takes the tunnel's servers for the user's
(`PreImages`), that the entry on disk and in memory are live while the tunnel's
servers stand (`TunnelDNSIsRecorded`), and that the pre-image is the user's
choice (`PreImageIsUsers`).

**RoutePlanProofs**: `RollbackRestores` (`RestoredExactly`), `UnderlayIsPinned`
(`UnderlayNeverLoops`) and `TrafficIsAsPlanned` (`TrafficAsPlanned`), for
addresses of every width, every set of plans, any number of routers and of
changes by others. What rollback compares before it deletes cannot see whose
route it is; `RouteInv` says why it is right all the same. The table is what
others routed plus what entries not yet rolled back account for (`TableInv`),
others never route through a utun and use a router only for the default
(`AmbientInv`), and the pin is there as long as a later entry is to be undone
(`PinInv`). `TrafficInv` adds that, until something fails or others interfere,
each route of the plan is there and nobody had one for its prefix. The rest is
arithmetic on prefixes: among canonical prefixes of one length only one contains
an address (`SamePrefix`), so the longest is unique; the pin contains the server
alone; the halves cover a family. Powers of two are a recursive function, and
that it doubles is proved from the well-foundedness of the numbers
(`PowerDefined`, `PowerFacts`). Assumptions: `WidthAssumption`; `LanAssumption`
(a router is on its own network, which is smaller than half of the addresses);
`PrefixAssumption` (the kernel masks what it is given); `PlanAssumption` (types).

**ConnectionLifecycleProofs**: `SessionsStayNamed` (`SessionsAreNamed`),
`SessionsTakeTurns` (`OneSessionAtATime`) and `RequestsArrive`
(`RequestsReachTheirSession`), for any number of sessions and
helpers and any limit of health failures. A journal and the metadata are related
only through who waits for whom: the metadata go when a command believes an
answer, so `LifecycleInv` has to say what a helper at the other end of the pipe
may be doing (`PipeInv`), that a helper which may still create a journal has its
command waiting or was abandoned by it (`ConnectIsAwaited`), that a session has
one helper that connected it (`OwnersInv`), who serves at the shared path
(`SocketInv`), whose operation is in the lock (`WorkInv`), and what is left when
the command forgets the session (`ForgetInv`). Assumptions: `IdAssumption`,
`HealthAssumption`.

**HelperExchangeProofs**: `WholeRequestsOnly`, `LimitsAgree` and
`ReportsAreReal`, for every size of request, prefix and secret, every answer that
fits and every limit. `ExchangeInv` relates what each side has written to its control point
(`CommandWrote`, `HelperRead`). Assumption: `SizeAssumption`.

**CredentialTransactionProofs**: `AllOrNothing`, `SuccessIsReal`,
`InspectIsCurrent` and `MixedPairsAreExplained`, for any number of processes and accounts.
`AllOrNothing` is about every reply a command may give (`Replies`): the release
of the lock may fail after the whole change, and only then does a failure that
is no incomplete rollback leave something new.
`CredentialInv` joins the properties with: only the lock holder is in
a command (`HolderOnly`), a command that began alone stays so
(`AloneMeansAlone`), left-behind calls keep the pair unsettled
(`LateIsUnsettled`), and what each control point has already done to the two
items relative to the snapshot (`CommandsProgress`). Assumptions:
`ClientAssumption`, `LoginAssumption`.

**CountryCacheProofs**: `Recency` (`Spec => []CacheAnswersAreRecent`), for any
number of commands, any TTL and any sizes, because a writer dates the catalogue
no later than it was sent (`DatedNoLaterThanSent`) and no command began in the
future (`BegunBefore`). `Fallback` (`Spec => []OnceCachedNeverFails`), for
catalogues within the read limit, because whatever is at the path or on its way
there can be read (`FallbackInv`); section 3 says what a larger one does.
Assumption: `CacheAssumption`.

**CommandLineProofs**, for every catalogue, reply, number of arguments and limit
on tokens and answers: `ArgumentsAreReadAsWritten` (`ParsedAsWritten`),
`RefusedCommandsTouchNothing` (`RefusalsTouchNothing`), `TokensAreWhole`
(`TokenIsWhole`), `AnswersAreWhole` (`AnswerIsWhole`),
`SelectFindsTheFirstWanted` (`SelectIsFirstWanted`),
`ServersAreWhereAsked` (`ServerIsWhereAsked`) and `ReconnectsStayInPlace`
(`ReconnectStaysInPlace`). `CommandInv` gives an invocation its shape
(`CommandTypeOK`), says what may have been called at a stage (`StagesInOrder`),
that a reconnect asks for the place it has left (`ReconnectAsks`), and of
Recommend, at each of its points, which country and city the query has been
resolved to and where the result comes from (`RecommendationInv`).

The loops of parseRecommend and Select are recursive functions. That such a
function exists and satisfies its recursion (`Iteration`, `ParseLoopDefined`,
`SelectLoopDefined`), and that what holds at each turn holds at the end
(`Induction`), is proved from the well-foundedness of the numbers. The loop's
invariant for the arguments is `AsRead`: after i of them it has gone on exactly
if they are well formed, but for an option that waits for its value, has
collected what they give, and has stopped for help exactly if one of them is
help after a well-formed beginning.

`ReconnectsStayInPlace` has a hypothesis about what Nord's API sends,
`NamesAgree`: a country that a server is in has no namesake with servers, and its
list of cities calls the server's city as the server does. Without it a
reconnect, which has kept only names, may find no match, an ambiguous one or
another place; the code cannot know. `MCCommandLine` assumes it of its instance,
where cities without a name and a country with a namesake occur. Assumptions:
`APIAssumption` (what nordapi lets through is whole, and the ids of cities, of a
server or in a catalogue, are positive: what is cached has passed it too) and
`FullNameAssumption` (types).

**RouteTextProofs**: `FoundExactly` (`FoundIsExact`), `OddMasksAreRefused`
(`OddMasksRefused`) and `BothLoopsAgree` (`LoopsAgree`), for both families and
any number of octets of any number of bits, so for `inet` with 4 octets of 8 and
for `inet6` with 16. `FoundExactly` has the hypothesis `~ShortDefault` (section
2). The states are
few, and `TextInv` only says what they are; the work is in the arithmetic. An
address is what its octets make, since dividing by a product divides twice
(`ValueOfOctets`). A mask of b ones has the b highest bits (`BitsOfMask`), and
only such masks are read as a length (`MaskBitsAre`). The loop over the bits
that `inet6` has keeps `BitsSeen`: the bits so far are ones and then zeros, or make no mask
of any length. Assumption: `WidthAssumption`.

Only model-checked: the liveness properties (`CleanupCompletes`,
`DevicesGoAway`, `UnansweredHelpersLeave`, `ExchangeEnds`), which the prover does
not reach, and the two counterexamples.

## 6. Not modelled

Output formatting, build information, the harnesses under `cmd/` and the
scripts: pure I/O, or manual programs around components that are modelled. Of
modelled parts: validation of names, ids and MTUs in a plan, the UAPI text and
statistics of the WireGuard device, the parsing of networksetup's lists, file
ownership and permission checks (failures without effect), locating and
authenticating the Keychain helper, a cache file that is there and cannot be
opened (`cache/countries.go:34`), the URL and headers of requests, HTTP and
JSON, the fields of what commands print. Timestamps of journals are left out:
`nextTime` only keeps them monotone.

## 7. Plan

Done: every module of the inventory with its runs; and proofs of every safety
and action property that a run shows to hold, of the refinement of
`SessionContract`, and of the lemmas on loops, powers of two and division that
they rest on.

Next, in this order:

1. the hypothesis `OneAtATime` of the DNS theorems discharged inside one module
   that composes `ConnectionLifecycle` with `TunnelTransaction`, in place of the
   argument from `SessionsTakeTurns`;
2. the reading of networksetup's lists, and the statistics that feed `Verify`;
3. loss of unflushed writes at a power failure.

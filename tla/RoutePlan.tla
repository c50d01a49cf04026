----------------------------- MODULE RoutePlan -----------------------------
(***************************************************************************)
(* What a plan's routes do to traffic: tunnel.Plan with its validation and *)
(* its routes, the conflict check, RouteManager.Add and Remove, and the    *)
(* order in which Connect and rollback use them, over a kernel table that  *)
(* forwards by the longest prefix.  Addresses are short and keep their     *)
(* width.  The journal and its writes are TunnelTransaction's subject;     *)
(* here an entry is a status.                                              *)
(***************************************************************************)
EXTENDS Integers, Sequences, FiniteSets, Functions

CONSTANTS
    Bits4, Bits6,    \* width of an IPv4 and an IPv6 address; 32 and 128 in the code
    MinScopedBits,   \* the shortest scoped prefix; 16 in the code
    Gateways,        \* routers of the physical network
    Lan,             \* Lan[g]: the on-link prefix around router g
    Plans,           \* plans that callers may propose
    OtherPrefixes,   \* what other programs route
    MaxChanges       \* bound on route changes by others

ASSUME WidthAssumption ==
    /\ Bits4 \in Nat \ {0, 1} /\ Bits6 \in Nat \ {0}
    /\ MinScopedBits \in 1..Bits4 /\ MaxChanges \in Nat

VARIABLES
    plan,
    table,     \* the kernel's routes: prefix -> hop
    ambient,   \* history: what the table would be without this session
    entries,   \* the status of each step recorded so far
    index,     \* rollback's loop
    pc,
    device,    \* is there a utun?
    own,       \* does the process at work have that utun?
    failed,    \* history: has rollback ever failed to undo an entry?
    changes    \* history: the prefixes that others set, for each change

vars == <<plan, table, ambient, entries, index, pc, device, own, failed, changes>>
histories == <<failed, changes>>

-----------------------------------------------------------------------------
(* Addresses, prefixes and the kernel's table.                             *)

\* Powers of two.
Power[k \in Nat] == IF k = 0 THEN 1 ELSE 2 * Power[k - 1]

Address(family, n) == [family |-> family, n |-> n]
Prefix(family, n, bits) == [family |-> family, n |-> n, bits |-> bits]
Width(family) == IF family = "inet" THEN Bits4 ELSE Bits6

Addresses ==
    {Address("inet", n) : n \in 0..(Power[Bits4] - 1)} \cup {Address("inet6", n) : n \in 0..(Power[Bits6] - 1)}

\* netip.Prefix.Masked leaves it alone, and netip.Prefix.Contains.
Canonical(p) == p.n % Power[Width(p.family) - p.bits] = 0
Contains(p, a) ==
    LET low == Power[Width(p.family) - p.bits]
    IN  a.family = p.family /\ a.n \div low = p.n \div low

Prefixes ==
    {p \in [family : {"inet", "inet6"}, n : Nat, bits : Nat] : p.bits <= Width(p.family)}

\* A router is on its own network, which is smaller than half of the addresses.
ASSUME LanAssumption ==
    \A g \in Gateways :
        /\ g \in Nat /\ Lan[g] \in Prefixes /\ Canonical(Lan[g])
        /\ Lan[g].bits > 1 /\ Contains(Lan[g], Address("inet", g))

\* The kernel masks what it is given.
ASSUME PrefixAssumption == \A p \in OtherPrefixes : p \in Prefixes /\ Canonical(p)

ASSUME PlanAssumption ==
    \A p \in Plans :
        p \in [policy : {"full_ipv4", "scoped_ipv4"}, endpoint : Nat, gateway : Nat,
               scoped : Seq(Prefixes), dns : Seq(Nat), service : BOOLEAN]

NoGateway == -1

Hop(interface, gateway, reject) == [interface |-> interface, gateway |-> gateway, reject |-> reject]
Direct(interface) == Hop(interface, NoGateway, FALSE)
Via(gateway) == Hop("en0", gateway, FALSE)
Rejected == Hop("lo0", NoGateway, TRUE)

Unreachable == Hop("none", NoGateway, FALSE)

\* The kernel forwards by the longest prefix that contains the address.
Matching(t, a) == {p \in DOMAIN t : Contains(p, a)}
Best(t, a) == CHOOSE p \in Matching(t, a) : \A q \in Matching(t, a) : q.bits <= p.bits
Resolve(t, a) == IF Matching(t, a) = {} THEN Unreachable ELSE t[Best(t, a)]

Default4 == Prefix("inet", 0, 0)
Default6 == Prefix("inet6", 0, 0)

\* A host on one network: its default routes and the network around gateway g.
Before(g) ==
    [p \in {Default4, Default6, Lan[g]} |-> IF p = Default4 THEN Via(g) ELSE Direct("en0")]

\* Routes that replace what there is for their prefixes.
Over(routes, t) ==
    [p \in DOMAIN routes \cup DOMAIN t |-> IF p \in DOMAIN routes THEN routes[p] ELSE t[p]]

Only(p, hop) == [q \in {p} |-> hop]
Without(t, ps) == Restrict(t, DOMAIN t \ ps)

\* The kernel drops a utun's routes with the utun.
WithoutUtun == Without(table, {p \in DOMAIN table : table[p].interface = "utun"})

-----------------------------------------------------------------------------
(* tunnel.Plan.                                                            *)

Endpoint == Address("inet", plan.endpoint)
Gateway == Address("inet", plan.gateway)

\* netip.Addr.IsGlobalUnicast and IsPrivate, for a space whose last address
\* is for broadcast and whose upper half is private.
GlobalUnicast(n) == n \in 1..(Power[Bits4] - 2)
Private(n) == n \div Power[Bits4 - 1] = 1

\* Mutant of ValidScoped: the router may be inside.
ValidScopedAnyGateway(p) ==
    /\ p.family = "inet" /\ Canonical(p)
    /\ Private(p.n) /\ p.bits \in MinScopedBits..Bits4
    /\ ~Contains(p, Endpoint)

ValidScoped(p) ==
    /\ p.family = "inet" /\ Canonical(p)
    /\ Private(p.n) /\ p.bits \in MinScopedBits..Bits4
    /\ ~Contains(p, Endpoint) /\ ~Contains(p, Gateway)

ValidPolicy ==
    \/ /\ plan.policy = "full_ipv4"
       /\ plan.scoped = <<>>
       /\ Len(plan.dns) \in 1..4
       /\ plan.service
    \/ /\ plan.policy = "scoped_ipv4"
       /\ plan.dns = <<>> /\ ~plan.service
       /\ Len(plan.scoped) \in 1..4
       /\ \A i \in DOMAIN plan.scoped : ValidScoped(plan.scoped[i])
       /\ IsInjective(plan.scoped)

\* Plan.Validate.  What it asks of ids, MTU and names never depends on addresses.
ValidPlan ==
    /\ GlobalUnicast(plan.endpoint)
    /\ plan.gateway # 0
    /\ ValidPolicy
    /\ \A i \in DOMAIN plan.dns : plan.dns[i] # 0
    /\ IsInjective(plan.dns)

Route(destination, hop) == [kind |-> "route", destination |-> destination, hop |-> hop]
Device == [kind |-> "device"]

EndpointRoute == Route(Prefix("inet", plan.endpoint, Bits4), Via(plan.gateway))

\* Mutant of TunnelRoutes: one half of IPv6 is forgotten.
TunnelRoutesOneHalf ==
    IF plan.policy = "scoped_ipv4"
    THEN [i \in DOMAIN plan.scoped |-> Route(plan.scoped[i], Direct("utun"))]
    ELSE <<Route(Prefix("inet", 0, 1), Direct("utun")),
           Route(Prefix("inet", Power[Bits4 - 1], 1), Direct("utun")),
           Route(Prefix("inet6", 0, 1), Rejected)>>

\* Plan.TunnelRoutes, with the device's interface filled in.
TunnelRoutes ==
    IF plan.policy = "scoped_ipv4"
    THEN [i \in DOMAIN plan.scoped |-> Route(plan.scoped[i], Direct("utun"))]
    ELSE <<Route(Prefix("inet", 0, 1), Direct("utun")),
           Route(Prefix("inet", Power[Bits4 - 1], 1), Direct("utun")),
           Route(Prefix("inet6", 0, 1), Rejected),
           Route(Prefix("inet6", Power[Bits6 - 1], 1), Rejected)>>

\* The steps of Connect that concern routes, in their order.
Steps == <<EndpointRoute, Device>> \o TunnelRoutes

-----------------------------------------------------------------------------
Init ==
    /\ plan \in Plans
    /\ \E g \in Gateways : ambient = Before(g)
    /\ table = ambient
    /\ entries = <<>>
    /\ index = 0
    /\ pc = "validate"
    /\ device = FALSE
    /\ own = TRUE
    /\ failed = FALSE
    /\ changes = <<>>

Goes(point) == pc' = point /\ index' = Len(entries')

Validate ==
    /\ pc = "validate"
    /\ pc' = IF ValidPlan THEN "check" ELSE "refused"
    /\ UNCHANGED <<plan, table, ambient, entries, index, device, own, histories>>

\* ConflictChecker.Check and validatePhysicalPreimage: the default route is
\* the one that was planned for, and the split defaults are free.
DefaultAsPlanned == Default4 \in DOMAIN table /\ table[Default4] = Via(plan.gateway)

SplitDefaults ==
    {Prefix("inet", 0, 1), Prefix("inet", Power[Bits4 - 1], 1)}
    \cup (IF plan.policy = "full_ipv4" THEN {Prefix("inet6", 0, 1), Prefix("inet6", Power[Bits6 - 1], 1)}
          ELSE {})

Check ==
    /\ pc = "check"
    /\ pc' = IF DefaultAsPlanned /\ SplitDefaults \cap DOMAIN table = {} THEN "apply" ELSE "refused"
    /\ UNCHANGED <<plan, table, ambient, entries, index, device, own, histories>>

NextStep == Steps[Len(entries) + 1]
Applying(kind) == pc = "apply" /\ Len(entries) < Len(Steps) /\ NextStep.kind = kind

\* RouteManager.Add refuses an exact match, and may fail before or after the
\* route is there; then the entry stays planned and Connect rolls back.
AddRoute ==
    /\ Applying("route")
    /\ \/ /\ NextStep.destination \notin DOMAIN table
          /\ table' = Over(Only(NextStep.destination, NextStep.hop), table)
          /\ \/ entries' = Append(entries, "applied") /\ Goes("apply")
             \/ entries' = Append(entries, "planned") /\ Goes("rollback")
       \/ /\ entries' = Append(entries, "planned") /\ Goes("rollback")
          /\ UNCHANGED table
    /\ UNCHANGED <<plan, ambient, device, own, histories>>

CreateDevice ==
    /\ Applying("device")
    /\ \/ device' = TRUE /\ entries' = Append(entries, "applied") /\ Goes("apply")
       \/ device' = FALSE /\ entries' = Append(entries, "planned") /\ Goes("rollback")
    /\ UNCHANGED <<plan, table, ambient, own, histories>>

\* The comparison of Remove and of verifyOwnership: interface and reject flag,
\* and the gateway where the planned route has one.
AsPlanned(r) ==
    /\ r.destination \in DOMAIN table
    /\ LET current == table[r.destination] IN
         /\ current.interface = r.hop.interface
         /\ current.reject = r.hop.reject
         /\ r.hop.gateway # NoGateway => current.gateway = r.hop.gateway

\* fullVerifier.Verify, which also fails when no handshake comes.
Verify ==
    /\ pc = "apply"
    /\ Len(entries) = Len(Steps)
    /\ UNCHANGED entries
    /\ \/ /\ DefaultAsPlanned
          /\ \A i \in DOMAIN Steps : Steps[i].kind = "route" => AsPlanned(Steps[i])
          /\ Goes("connected")
       \/ Goes("rollback")
    /\ UNCHANGED <<plan, table, ambient, device, own, histories>>

\* By the helper itself, or by another one beside it.
Disconnect ==
    /\ pc = "connected"
    /\ own' \in BOOLEAN
    /\ UNCHANGED entries
    /\ Goes("rollback")
    /\ UNCHANGED <<plan, table, ambient, device, histories>>

-----------------------------------------------------------------------------
(* Rollback.                                                               *)

Undoing(kind) ==
    /\ pc = "rollback" /\ index > 0
    /\ entries[index] # "rolled_back"
    /\ Steps[index].kind = kind

\* The loop goes on with the entry before, whatever happened to this one.
Undone(ok) ==
    /\ entries' = IF ok THEN [entries EXCEPT ![index] = "rolled_back"] ELSE entries
    /\ index' = index - 1
    /\ failed' = (failed \/ ~ok)
    /\ UNCHANGED pc

\* Mutant of UndoRoute: an entry that was never marked applied is passed over.
UndoRouteApplied ==
    LET r == Steps[index] IN
    /\ Undoing("route")
    /\ \/ /\ r.destination \notin DOMAIN table \/ entries[index] = "planned"
          /\ Undone(TRUE)
          /\ UNCHANGED table
       \/ /\ AsPlanned(r) /\ entries[index] = "applied"
          /\ table' = Without(table, {r.destination})
          /\ Undone(TRUE)
    /\ UNCHANGED <<plan, ambient, device, own, changes>>

\* RouteManager.Remove: a missing route is success, a changed one is refused,
\* and the command may fail before or after its effect.
UndoRoute ==
    LET r == Steps[index] IN
    /\ Undoing("route")
    /\ \/ /\ r.destination \notin DOMAIN table
          /\ Undone(TRUE)
          /\ UNCHANGED table
       \/ /\ AsPlanned(r)
          /\ table' = Without(table, {r.destination})
          /\ \E ok \in BOOLEAN : Undone(ok)
       \/ /\ Undone(FALSE)
          /\ UNCHANGED table
    /\ UNCHANGED <<plan, ambient, device, own, changes>>

\* Manager.DeleteOwned: a process that does not have the device succeeds
\* without touching it.
UndoDevice ==
    /\ Undoing("device")
    /\ \/ own /\ device' = FALSE /\ table' = WithoutUtun
       \/ ~own /\ UNCHANGED <<device, table>>
    /\ Undone(TRUE)
    /\ UNCHANGED <<plan, ambient, own, changes>>

UndoSkip ==
    /\ pc = "rollback" /\ index > 0
    /\ entries[index] = "rolled_back"
    /\ index' = index - 1
    /\ UNCHANGED <<plan, table, ambient, entries, pc, device, own, histories>>

FinishRollback ==
    /\ pc = "rollback" /\ index = 0
    /\ pc' = "done"
    /\ UNCHANGED <<plan, table, ambient, entries, index, device, own, histories>>

RolledBack == \A i \in DOMAIN entries : entries[i] = "rolled_back"

\* A later Disconnect starts again from the journal.
Retry ==
    /\ pc = "done"
    /\ ~RolledBack
    /\ own' = FALSE
    /\ UNCHANGED entries
    /\ Goes("rollback")
    /\ UNCHANGED <<plan, table, ambient, device, histories>>

\* The process with the utun ends; another one recovers the session.
HelperDies ==
    /\ pc \in {"apply", "connected", "rollback", "done"}
    /\ own \/ device
    /\ device' = FALSE
    /\ table' = WithoutUtun
    /\ own' = FALSE
    /\ UNCHANGED entries
    /\ IF own /\ pc # "done" THEN Goes("rollback") ELSE UNCHANGED <<index, pc>>
    /\ UNCHANGED <<plan, ambient, histories>>

\* Somebody else sets routes, and would without this session.
Sets(routes) ==
    /\ Len(changes) < MaxChanges
    /\ table' = Over(routes, table)
    /\ ambient' = Over(routes, ambient)
    /\ changes' = Append(changes, DOMAIN routes)
    /\ UNCHANGED <<plan, entries, index, pc, device, own, failed>>

OthersRoute == \E p \in OtherPrefixes : Sets(Only(p, Direct("other")))

\* The machine joins another network, which becomes the primary one.
DefaultMoves == \E g \in Gateways : table[Default4] # Via(g) /\ Sets(Before(g))

Next ==
    \/ Validate \/ Check \/ AddRoute \/ CreateDevice \/ Verify
    \/ Disconnect \/ UndoRoute \/ UndoDevice \/ UndoSkip \/ FinishRollback \/ Retry
    \/ HelperDies \/ OthersRoute \/ DefaultMoves

Spec == Init /\ [][Next]_vars

-----------------------------------------------------------------------------
(* Properties.                                                             *)

OwnDestinations == {Steps[i].destination : i \in {k \in DOMAIN Steps : Steps[k].kind = "route"}}
Undisturbed == \A i \in DOMAIN changes : changes[i] \cap OwnDestinations = {}

\* WireGuard's own packets never enter the tunnel: at every moment of Connect
\* and rollback, for every plan that validates, neither the server nor the
\* router is reached through the utun (the order of EndpointRoute, the checks
\* of validatePolicy, the reverse order of rollback), whatever routes others
\* set.  A rollback that fails to remove a tunnel route goes on to remove the pin.
UnderlayNeverLoops ==
    ~failed => \A a \in {Endpoint, Gateway} : Resolve(table, a).interface # "utun"

\* Where traffic to a should go once connected, said without the list of routes.
Planned(a) ==
    LET length == IF Matching(ambient, a) = {} THEN 0 ELSE Best(ambient, a).bits IN
    CASE a = Endpoint -> Via(plan.gateway)
      [] a # Endpoint /\ plan.policy = "full_ipv4" /\ length = 0 ->
            IF a.family = "inet" THEN Direct("utun") ELSE Rejected
      [] a # Endpoint /\ \E i \in DOMAIN plan.scoped :
                            Contains(plan.scoped[i], a) /\ plan.scoped[i].bits > length ->
            Direct("utun")
      [] OTHER -> Resolve(ambient, a)

\* A connected session moves exactly the traffic it is for.  Under the full
\* policy everything that took a default route goes into the tunnel or, for
\* IPv6, nowhere; under the scoped policy the prefixes do; everything else
\* goes where it went, whatever others change meanwhile.
TrafficAsPlanned ==
    pc = "connected" /\ Undisturbed => \A a \in Addresses : Resolve(table, a) = Planned(a)

\* A rollback that is complete, at once or after failures and retries, by this
\* process or another, leaves the table as if the session had never been.
RestoredExactly == pc = "done" /\ RolledBack => table = ambient

-----------------------------------------------------------------------------
(* Why they hold: RouteInv is kept by every step.                          *)

Pin == Prefix("inet", plan.endpoint, Bits4)
Prepared == pc \notin {"validate", "check", "refused"}

PlanInv ==
    /\ plan \in Plans
    /\ pc \in {"validate", "check", "refused", "apply", "connected", "rollback", "done"}
    /\ entries \in Seq({"planned", "applied", "rolled_back"})
    /\ index \in 0..Len(entries)
    /\ failed \in BOOLEAN
    /\ pc \notin {"validate", "refused"} => ValidPlan
    /\ ~Prepared => entries = <<>>
    /\ Prepared => Len(entries) <= Len(Steps)

\* What others routed: never into a utun, and with a router only for the
\* default.  The network of the plan's router stays.
AmbientInv ==
    /\ ambient = [p \in DOMAIN ambient |-> ambient[p]]
    /\ \A p \in DOMAIN ambient :
          \/ ambient[p] \in {Direct("en0"), Direct("other")}
          \/ /\ p = Default4
             /\ \E g \in Gateways : ambient[p] = Via(g) /\ Lan[g] \in DOMAIN ambient
    /\ Prepared => plan.gateway \in Gateways /\ Lan[plan.gateway] \in DOMAIN ambient

\* The table has all of that, and beyond it only what the journal accounts for.
TableInv ==
    /\ table = [p \in DOMAIN table |-> table[p]]
    /\ DOMAIN table \subseteq Prefixes
    /\ \A p \in DOMAIN ambient : p \in DOMAIN table /\ table[p] = ambient[p]
    /\ \A p \in DOMAIN table \ DOMAIN ambient :
          \E i \in DOMAIN entries :
              /\ Steps[i].kind = "route" /\ Steps[i].destination = p /\ Steps[i].hop = table[p]
              /\ entries[i] # "rolled_back"

\* The pin is there before the device and the tunnel routes are, and as long
\* as one of them is to be undone: rollback goes backwards.
PinInv ==
    /\ pc = "apply" /\ Len(entries) > 0 => Pin \in DOMAIN table
    /\ ~failed => \A i \in DOMAIN entries : i > 1 /\ entries[i] # "rolled_back" => Pin \in DOMAIN table
    /\ ~failed /\ pc = "rollback" => \A i \in DOMAIN entries : i > index => entries[i] = "rolled_back"
    /\ ~failed /\ pc = "done" => RolledBack

RouteInv == PlanInv /\ AmbientInv /\ TableInv /\ PinInv

\* Until something fails or others interfere, each route of the plan is there,
\* and nobody else had one for its prefix.
TrafficInv ==
    /\ changes \in Seq(SUBSET Prefixes)
    /\ \A p \in DOMAIN ambient : Canonical(p)
    /\ pc \in {"validate", "check", "apply", "connected"} => own
    /\ pc = "connected" => Len(entries) = Len(Steps)
    /\ pc \in {"apply", "connected"} /\ Undisturbed =>
          \A i \in DOMAIN entries : Steps[i].kind = "route" =>
              /\ Steps[i].destination \in DOMAIN table \ DOMAIN ambient
              /\ table[Steps[i].destination] = Steps[i].hop

=============================================================================

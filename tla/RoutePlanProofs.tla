-------------------------- MODULE RoutePlanProofs --------------------------
(***************************************************************************)
(* WireGuard's packets stay out of the tunnel, and a complete rollback     *)
(* restores the table, for every width of addresses, every plan that       *)
(* validates and any number of changes by others.                          *)
(***************************************************************************)
EXTENDS RoutePlan, TLAPS, WellFoundedInduction

-----------------------------------------------------------------------------
(* The kernel's table.                                                     *)

\* A set of natural numbers has a least element.
LEMMA LeastNumber ==
    ASSUME NEW T, T \subseteq Nat, T # {}
    PROVE  \E x \in T : \A y \in T : ~(y < x)
<1>1. \E x \in T : \A y \in T : <<y, x>> \notin OpToRel(<, Nat)
  BY WFMin, NatLessThanWellFounded
<1>2. \A x \in T, y \in T : y < x => <<y, x>> \in OpToRel(<, Nat)
  BY DEF OpToRel
<1>3. QED
  BY <1>1, <1>2

\* Among the prefixes that contain an address there is a longest one, and the
\* kernel forwards by it.
LEMMA BestIsLongest ==
    ASSUME NEW t, DOMAIN t \subseteq Prefixes, NEW a, Matching(t, a) # {}
    PROVE  /\ Best(t, a) \in Matching(t, a)
           /\ \A q \in Matching(t, a) : q.bits <= Best(t, a).bits
<1> DEFINE T == {Bits4 + Bits6 - p.bits : p \in Matching(t, a)}
<1>1. \A p \in Matching(t, a) : p.bits \in Nat /\ p.bits <= Bits4 + Bits6
  BY WidthAssumption DEF Matching, Prefixes, Width
<1>2. T \subseteq Nat /\ T # {}
  BY <1>1, WidthAssumption
<1>3. PICK x \in T : \A y \in T : ~(y < x)
  <2> HIDE DEF T
  <2>1. QED
    BY <1>2, LeastNumber
<1>4. PICK p \in Matching(t, a) : x = Bits4 + Bits6 - p.bits
  BY <1>3
<1>5. ASSUME NEW q \in Matching(t, a)
      PROVE  q.bits <= p.bits
  <2>1. Bits4 + Bits6 - q.bits \in T
    OBVIOUS
  <2>2. ~(Bits4 + Bits6 - q.bits < Bits4 + Bits6 - p.bits)
    BY <1>3, <1>4, <2>1
  <2>3. q.bits \in Nat /\ p.bits \in Nat /\ Bits4 \in Nat /\ Bits6 \in Nat
    BY <1>1, WidthAssumption
  <2>4. QED
    BY <2>2, <2>3
<1>6. QED
  BY <1>5 DEF Best

\* A table of one route.
LEMMA OnlyFacts ==
    ASSUME NEW p, NEW hop
    PROVE  DOMAIN Only(p, hop) = {p} /\ Only(p, hop)[p] = hop
BY DEF Only

\* The network of router g.
LEMMA BeforeFacts ==
    ASSUME NEW g \in Gateways
    PROVE  /\ Before(g) = [p \in DOMAIN Before(g) |-> Before(g)[p]]
           /\ DOMAIN Before(g) \subseteq Prefixes /\ Default4 \in DOMAIN Before(g) /\ Lan[g] \in DOMAIN Before(g)
           /\ Before(g)[Default4] = Via(g)
           /\ \A p \in DOMAIN Before(g) : p # Default4 => Before(g)[p] = Direct("en0")
<1>1. Default4 \in Prefixes /\ Default6 \in Prefixes /\ Lan[g] \in Prefixes
  BY WidthAssumption, LanAssumption DEF Default4, Default6, Prefix, Prefixes, Width
<1>2. QED
  BY <1>1 DEF Before

-----------------------------------------------------------------------------
(* The plan.                                                               *)

\* A plan's fields.
LEMMA PlanTyped ==
    ASSUME plan \in Plans
    PROVE  /\ plan.endpoint \in Nat /\ plan.gateway \in Nat /\ plan.scoped \in Seq(Prefixes)
           /\ plan.policy \in {"full_ipv4", "scoped_ipv4"}
BY PlanAssumption

\* f doubles from 1 up to n.
Doubles(f, n) == f[0] = 1 /\ \A i \in 0..n : i > 0 => f[i] = 2 * f[i - 1]

\* Power, a recursive function, satisfies its recursion: finite pieces of it
\* exist up to every number, and agree.
LEMMA PowerDefined == Power = [k \in Nat |-> IF k = 0 THEN 1 ELSE 2 * Power[k - 1]]
<1> DEFINE D(n) == {g \in [0..n -> Nat] : Doubles(g, n)}
<1>1. \A n \in Nat : D(n) # {}
  <2> DEFINE T == {n \in Nat : D(n) = {}}
  <2> SUFFICES ASSUME T # {} PROVE FALSE
    OBVIOUS
  <2> HIDE DEF T
  <2>1. T \subseteq Nat
    BY DEF T
  <2>2. PICK x \in T : \A y \in T : ~(y < x)
    BY <2>1, LeastNumber
  <2>3. x \in Nat /\ D(x) = {}
    BY DEF T
  <2>4. CASE x = 0
    <3> DEFINE g == [i \in 0..0 |-> 1]
    <3>1. g \in D(0)
      BY DEF Doubles
    <3>2. QED
      BY <2>3, <2>4, <3>1
  <2>5. CASE x # 0
    <3>1. x - 1 \in Nat /\ x - 1 \notin T
      BY <2>2, <2>3, <2>5
    <3>2. PICK f \in D(x - 1) : TRUE
      BY <3>1 DEF T
    <3> DEFINE g == [i \in 0..x |-> IF i = x THEN 2 * f[x - 1] ELSE f[i]]
    <3>3. f \in [0..(x - 1) -> Nat] /\ Doubles(f, x - 1)
      BY <3>2
    <3>4. g \in [0..x -> Nat]
      <4>1. \A i \in 0..x : i # x => i \in 0..(x - 1)
        BY <2>3
      <4>2. 2 * f[x - 1] \in Nat
        BY <3>1, <3>3
      <4>3. \A i \in 0..x : i # x => f[i] \in Nat
        BY <3>3, <4>1
      <4>4. QED
        BY <4>2, <4>3
    <3>5. g[0] = 1
      BY <2>3, <2>5, <3>3 DEF Doubles
    <3>6. ASSUME NEW i \in 0..x, i > 0
          PROVE  g[i] = 2 * g[i - 1]
      BY <2>3, <3>3, <3>6 DEF Doubles
    <3>7. g \in D(x)
      BY <3>4, <3>5, <3>6 DEF Doubles
    <3>8. QED
      BY <2>3, <3>7
  <2>6. QED
    BY <2>4, <2>5
<1>2. ASSUME NEW n \in Nat, NEW m \in Nat, m <= n, NEW f \in D(n), NEW g \in D(m)
      PROVE  \A i \in 0..m : f[i] = g[i]
  <2> DEFINE T == {i \in 0..m : f[i] # g[i]}
  <2> SUFFICES ASSUME T # {} PROVE FALSE
    OBVIOUS
  <2>0. f[0] = 1 /\ g[0] = 1 /\ (\A i \in 0..n : i > 0 => f[i] = 2 * f[i - 1]) /\ (\A i \in 0..m : i > 0 => g[i] = 2 * g[i - 1])
    BY <1>2 DEF Doubles
  <2> HIDE DEF T
  <2>1. T \subseteq Nat
    BY DEF T
  <2>2. PICK x \in T : \A y \in T : ~(y < x)
    BY <2>1, LeastNumber
  <2>3. x \in 0..m /\ f[x] # g[x]
    BY DEF T
  <2>4. x # 0
    BY <2>0, <2>3
  <2>5. x - 1 \in 0..m /\ x - 1 \notin T
    BY <2>2, <2>3, <2>4
  <2>6. f[x - 1] = g[x - 1]
    BY <2>5 DEF T
  <2>7. x \in 0..n /\ x > 0
    BY <1>2, <2>3, <2>4
  <2>8. QED
    BY <2>0, <2>3, <2>6, <2>7
<1> DEFINE h(n) == CHOOSE g \in D(n) : TRUE
<1>3. \A n \in Nat : h(n) \in D(n)
  BY <1>1
<1> DEFINE F == [n \in Nat |-> h(n)[n]]
<1>4. ASSUME NEW n \in Nat
      PROVE  F[n] = IF n = 0 THEN 1 ELSE 2 * F[n - 1]
  <2>1. h(n) \in [0..n -> Nat] /\ h(n)[0] = 1 /\ \A i \in 0..n : i > 0 => h(n)[i] = 2 * h(n)[i - 1]
    BY <1>3 DEF Doubles
  <2>2. CASE n = 0
    BY <2>1, <2>2
  <2>3. CASE n # 0
    <3>0. n - 1 \in Nat /\ n - 1 <= n
      BY <2>3
    <3>1. n - 1 \in Nat /\ n - 1 <= n /\ h(n) \in D(n) /\ h(n - 1) \in D(n - 1)
      <4> HIDE DEF D, h
      <4>1. QED
        BY <1>3, <3>0
    <3> DEFINE f == h(n)
               g == h(n - 1)
    <3> HIDE DEF D, f, g
    <3>2. \A i \in 0..(n - 1) : f[i] = g[i]
      BY <1>2, <3>1 DEF f, g
    <3>3. f[n - 1] = g[n - 1] /\ f[n] = 2 * f[n - 1]
      BY <2>1, <2>3, <3>1, <3>2 DEF f
    <3>4. F[n] = f[n] /\ F[n - 1] = g[n - 1]
      BY <3>1 DEF f, g
    <3>5. QED
      BY <2>3, <3>3, <3>4
  <2>4. QED
    BY <2>2, <2>3
<1> HIDE DEF h
<1>5. F = [k \in Nat |-> IF k = 0 THEN 1 ELSE 2 * F[k - 1]]
  BY <1>4
<1> HIDE DEF F
<1>6. QED
  BY <1>5 DEF Power

\* Powers of two are positive, and double.
LEMMA PowerFacts ==
   /\ \A k \in Nat : Power[k] \in Nat /\ Power[k] > 0
   /\ Power[0] = 1
   /\ \A k \in Nat : k > 0 => Power[k] = 2 * Power[k - 1]
<1>1. Power[0] = 1 /\ \A k \in Nat : k > 0 => Power[k] = 2 * Power[k - 1]
  BY PowerDefined
<1> DEFINE T == {k \in Nat : ~(Power[k] \in Nat /\ Power[k] > 0)}
<1>2. T = {}
  <2> SUFFICES ASSUME T # {} PROVE FALSE
    OBVIOUS
  <2> HIDE DEF T
  <2>1. T \subseteq Nat
    BY DEF T
  <2>2. PICK x \in T : \A y \in T : ~(y < x)
    BY <2>1, LeastNumber
  <2>3. x \in Nat /\ ~(Power[x] \in Nat /\ Power[x] > 0)
    BY DEF T
  <2>4. x # 0
    BY <1>1, <2>3
  <2>5. x - 1 \in Nat /\ x - 1 \notin T
    BY <2>2, <2>3, <2>4
  <2>6. Power[x - 1] \in Nat /\ Power[x - 1] > 0
    BY <2>5 DEF T
  <2>7. QED
    BY <1>1, <2>3, <2>4, <2>6
<1>3. QED
  BY <1>1, <1>2

\* The pin, the device and the tunnel routes: no tunnel route is the pin, and
\* one into the utun avoids the server and the router or is half of all
\* addresses.
LEMMA StepFacts ==
    ASSUME plan \in Plans, ValidPlan
    PROVE  /\ Steps \in Seq({EndpointRoute, Device} \cup
                   {Route(p, hop) : p \in Prefixes, hop \in {Direct("utun"), Rejected}})
           /\ Len(Steps) >= 2
           /\ Steps[1] = EndpointRoute /\ Steps[2] = Device
           /\ \A i \in DOMAIN Steps : i > 2 =>
                 \E p \in Prefixes, hop \in {Direct("utun"), Rejected} :
                    /\ Steps[i] = Route(p, hop)
                    /\ p.bits >= 1 /\ p # Pin
                    /\ hop = Direct("utun") =>
                          p.bits = 1 \/ (~Contains(p, Endpoint) /\ ~Contains(p, Gateway))
<1> DEFINE R == {Route(p, hop) : p \in Prefixes, hop \in {Direct("utun"), Rejected}}
<1> DEFINE Good(s) == \E p \in Prefixes, hop \in {Direct("utun"), Rejected} :
                    /\ s = Route(p, hop)
                    /\ p.bits >= 1 /\ p # Pin
                    /\ hop = Direct("utun") =>
                          p.bits = 1 \/ (~Contains(p, Endpoint) /\ ~Contains(p, Gateway))
<1>1. TunnelRoutes \in Seq(R) /\ \A i \in DOMAIN TunnelRoutes : Good(TunnelRoutes[i])
  <2>1. CASE plan.policy = "scoped_ipv4"
    <3>1. /\ plan.scoped \in Seq(Prefixes)
          /\ TunnelRoutes = [i \in DOMAIN plan.scoped |-> Route(plan.scoped[i], Direct("utun"))]
      BY <2>1, PlanTyped DEF TunnelRoutes
    <3>2. \A i \in DOMAIN plan.scoped : plan.scoped[i] \in Prefixes /\ ValidScoped(plan.scoped[i])
      BY <2>1, <3>1 DEF ValidPlan, ValidPolicy
    <3>3. TunnelRoutes \in Seq(R)
      BY <3>1, <3>2
    <3>4. ASSUME NEW i \in DOMAIN TunnelRoutes
          PROVE  Good(TunnelRoutes[i])
      <4> DEFINE p == plan.scoped[i]
      <4>1. p \in Prefixes /\ ValidScoped(p) /\ TunnelRoutes[i] = Route(p, Direct("utun"))
        BY <3>1, <3>2
      <4>2. p.bits >= 1 /\ ~Contains(p, Endpoint) /\ ~Contains(p, Gateway)
        BY <4>1, WidthAssumption DEF ValidScoped, Prefixes
      <4>3. Contains(Pin, Endpoint)
        BY DEF Contains, Pin, Prefix, Endpoint, Address
      <4> HIDE DEF p
      <4>4. QED
        BY <4>1, <4>2, <4>3
    <3>5. QED
      BY <3>3, <3>4
  <2>2. CASE plan.policy = "full_ipv4"
    <3> DEFINE q1 == Prefix("inet", 0, 1)
               q2 == Prefix("inet", Power[Bits4 - 1], 1)
               q3 == Prefix("inet6", 0, 1)
               q4 == Prefix("inet6", Power[Bits6 - 1], 1)
    <3>1. TunnelRoutes = <<Route(q1, Direct("utun")), Route(q2, Direct("utun")), Route(q3, Rejected), Route(q4, Rejected)>>
      BY <2>2 DEF TunnelRoutes
    <3>2. /\ q1 \in Prefixes /\ q2 \in Prefixes /\ q3 \in Prefixes /\ q4 \in Prefixes
          /\ q1.bits = 1 /\ q2.bits = 1 /\ q3.bits = 1 /\ q4.bits = 1
      <4>1. Power[Bits4 - 1] \in Nat /\ Power[Bits6 - 1] \in Nat
        BY PowerFacts, WidthAssumption
      <4>2. QED
        BY <4>1, WidthAssumption DEF Prefix, Prefixes, Width
    <3>3. q1 # Pin /\ q2 # Pin /\ q3 # Pin /\ q4 # Pin
      <4>1. Pin.bits = Bits4 /\ Pin.family = "inet" /\ q3.family = "inet6" /\ q4.family = "inet6"
        BY DEF Pin, Prefix
      <4>2. QED
        BY <3>2, <4>1, WidthAssumption
    <3> HIDE DEF q1, q2, q3, q4
    <3>4. QED
      BY <3>1, <3>2, <3>3
  <2>3. QED
    BY <2>1, <2>2, PlanTyped
<1>2. Steps = <<EndpointRoute, Device>> \o TunnelRoutes
  BY DEF Steps
<1> HIDE DEF R
<1>3. /\ Steps \in Seq({EndpointRoute, Device} \cup R) /\ Len(Steps) = 2 + Len(TunnelRoutes)
      /\ Steps[1] = EndpointRoute /\ Steps[2] = Device
      /\ \A i \in DOMAIN Steps : i > 2 => i - 2 \in DOMAIN TunnelRoutes /\ Steps[i] = TunnelRoutes[i - 2]
  BY <1>1, <1>2
<1> HIDE DEF Good
<1>4. \A i \in DOMAIN Steps : i > 2 => Good(Steps[i])
  BY <1>1, <1>3
<1>5. QED
  BY <1>1, <1>3, <1>4 DEF Good, R

-----------------------------------------------------------------------------
(* The invariant.                                                          *)

\* Routes into the utun are this session's, and are held by an entry that is
\* not the pin's.
LEMMA UtunIsOwn ==
    ASSUME RouteInv, NEW p \in DOMAIN table, table[p].interface = "utun"
    PROVE  /\ p \notin DOMAIN ambient
           /\ \E i \in DOMAIN entries :
                 /\ i > 2 /\ entries[i] # "rolled_back" /\ Steps[i] = Route(p, Direct("utun"))
                 /\ p.bits = 1 \/ (~Contains(p, Endpoint) /\ ~Contains(p, Gateway))
<1>1. p \notin DOMAIN ambient
  BY DEF RouteInv, AmbientInv, TableInv, Direct, Via, Hop
<1>2. PICK i \in DOMAIN entries :
         /\ Steps[i].kind = "route" /\ Steps[i].destination = p /\ Steps[i].hop = table[p]
         /\ entries[i] # "rolled_back"
  BY <1>1 DEF RouteInv, TableInv
<1>3. plan \in Plans /\ ValidPlan /\ entries \in Seq({"planned", "applied", "rolled_back"}) /\ Len(entries) <= Len(Steps)
  BY DEF RouteInv, PlanInv, Prepared
<1>4. i \in DOMAIN Steps
  BY <1>3, StepFacts
<1>5. i > 2
  <2>1. EndpointRoute.hop.interface # "utun" /\ Device.kind # "route"
    BY DEF EndpointRoute, Route, Via, Hop, Device
  <2>2. i \in Nat \ {0} /\ i # 1 /\ i # 2
    BY <1>2, <1>3, <1>4, <2>1, StepFacts
  <2>3. QED
    BY <2>2
<1>6. PICK q \in Prefixes, hop \in {Direct("utun"), Rejected} :
         /\ Steps[i] = Route(q, hop)
         /\ hop = Direct("utun") => q.bits = 1 \/ (~Contains(q, Endpoint) /\ ~Contains(q, Gateway))
  BY <1>3, <1>4, <1>5, StepFacts
<1>7. q = p /\ hop = Direct("utun")
  BY <1>2, <1>6 DEF Route, Direct, Rejected, Hop
<1>8. QED
  BY <1>1, <1>2, <1>5, <1>6, <1>7

\* A route that Remove takes for this session's is nobody else's.
LEMMA OwnIsNotAmbient ==
    ASSUME RouteInv, NEW i \in DOMAIN Steps, Prepared, Steps[i].kind = "route", AsPlanned(Steps[i])
    PROVE  Steps[i].destination \notin DOMAIN ambient
<1>1. plan \in Plans /\ ValidPlan /\ plan.gateway \in Nat
  BY PlanTyped DEF RouteInv, PlanInv, Prepared
<1> DEFINE p == Steps[i].destination
<1>2. /\ p \in DOMAIN table /\ table[p].interface = Steps[i].hop.interface /\ table[p].reject = Steps[i].hop.reject
      /\ Steps[i].hop.gateway # NoGateway => table[p].gateway = Steps[i].hop.gateway
  BY DEF AsPlanned
<1>3. /\ p # Default4
      /\ Steps[i].hop \in {Via(plan.gateway), Direct("utun"), Rejected}
  <2>1. CASE i = 1
    BY <2>1, <1>1, StepFacts, WidthAssumption DEF EndpointRoute, Route, Default4, Prefix
  <2>2. CASE i > 2
    <3>1. PICK q \in Prefixes, hop \in {Direct("utun"), Rejected} : Steps[i] = Route(q, hop) /\ q.bits >= 1
      BY <1>1, <2>2, StepFacts
    <3>2. Steps[i].destination = q /\ Steps[i].hop = hop /\ Default4.bits = 0
      BY <3>1 DEF Route, Default4, Prefix
    <3>3. QED
      BY <3>1, <3>2
  <2>3. i # 2
    BY <1>1, StepFacts DEF Device
  <2>4. i \in Nat /\ i > 0
    BY <1>1, StepFacts
  <2>5. QED
    BY <2>1, <2>2, <2>3, <2>4
<1>4. ASSUME p \in DOMAIN ambient
      PROVE  FALSE
  <2>1. table[p] \in {Direct("en0"), Direct("other")}
    BY <1>3, <1>4 DEF RouteInv, AmbientInv, TableInv
  <2>2. QED
    BY <1>1, <1>2, <1>3, <2>1 DEF Direct, Via, Rejected, Hop, NoGateway
<1>5. QED
  BY <1>4

\* What is said of the plan stays true of it.
LEMMA PlanFixed ==
    ASSUME plan' = plan
    PROVE  /\ Steps' = Steps /\ Pin' = Pin /\ Endpoint' = Endpoint /\ Gateway' = Gateway
           /\ ValidPlan' <=> ValidPlan
<1>1. Endpoint' = Endpoint /\ Gateway' = Gateway /\ EndpointRoute' = EndpointRoute /\ Pin' = Pin
  BY DEF Endpoint, Gateway, EndpointRoute, Pin
<1>2. Steps' = Steps
  BY <1>1 DEF Steps, TunnelRoutes
<1>3. ValidPlan' <=> ValidPlan
  BY <1>1 DEF ValidPlan, ValidPolicy, ValidScoped
<1>4. QED
  BY <1>1, <1>2, <1>3

\* At first the table is what others routed.
LEMMA RouteInitial == Init => RouteInv
<1> SUFFICES ASSUME Init PROVE RouteInv
  OBVIOUS
<1>1. PICK g \in Gateways : ambient = Before(g)
  BY DEF Init
<1>2. PlanInv
  <2>1. entries = <<>> /\ index = 0 /\ pc = "validate" /\ plan \in Plans /\ failed = FALSE
    BY DEF Init
  <2>2. entries \in Seq({"planned", "applied", "rolled_back"}) /\ Len(entries) = 0
    BY <2>1
  <2>3. index \in 0..Len(entries)
    BY <2>1, <2>2
  <2>4. failed \in BOOLEAN
    BY <2>1
  <2>5. QED
    BY <2>1, <2>2, <2>3, <2>4 DEF PlanInv, Prepared
<1>3. AmbientInv
  BY <1>1, BeforeFacts DEF Init, AmbientInv, Prepared
<1>4. TableInv
  BY <1>1, BeforeFacts DEF Init, TableInv
<1>5. PinInv
  BY DEF Init, PinInv
<1>6. QED
  BY <1>2, <1>3, <1>4, <1>5 DEF RouteInv

\* A plan is applied only if it validates, and its router is the one in use.
LEMMA ValidateKeeps ==
    ASSUME RouteInv, Validate \/ Check
    PROVE  RouteInv'
<1>1. /\ UNCHANGED <<plan, table, ambient, entries, index, device, own, failed, changes>>
      /\ \/ pc = "validate" /\ pc' = IF ValidPlan THEN "check" ELSE "refused"
         \/ pc = "check" /\ (pc' = "refused" \/ (pc' = "apply" /\ DefaultAsPlanned))
  BY DEF Validate, Check, histories
<1>2. entries = <<>> /\ (pc = "check" => ValidPlan) /\ plan \in Plans
  BY <1>1 DEF RouteInv, PlanInv, Prepared
<1>3. pc' = "apply" => Len(Steps) >= 2
  BY <1>1, <1>2, StepFacts
<1>4. PlanInv'
  BY <1>1, <1>2, <1>3, PlanFixed DEF RouteInv, PlanInv, Prepared
<1>5. AmbientInv'
  <2>1. CASE pc' = "apply"
    <3>1. table[Default4] = Via(plan.gateway) /\ Default4 \in DOMAIN table
      BY <1>1, <2>1 DEF DefaultAsPlanned
    <3>2. Default4 \in DOMAIN ambient
      BY <1>2, <3>1 DEF RouteInv, TableInv
    <3>3. ambient[Default4] = Via(plan.gateway)
      BY <3>1, <3>2 DEF RouteInv, TableInv
    <3>4. PICK g \in Gateways : ambient[Default4] = Via(g) /\ Lan[g] \in DOMAIN ambient
      <4>1. plan.gateway # NoGateway
        BY <1>2, PlanTyped DEF NoGateway
      <4>2. ambient[Default4] \notin {Direct("en0"), Direct("other")}
        BY <3>3, <4>1 DEF Direct, Via, Hop
      <4>3. QED
        BY <3>2, <4>2 DEF RouteInv, AmbientInv
    <3>5. g = plan.gateway
      BY <3>3, <3>4 DEF Via, Hop
    <3>6. QED
      BY <1>1, <3>4, <3>5 DEF RouteInv, AmbientInv, Prepared
  <2>2. CASE pc' # "apply"
    BY <1>1, <2>2 DEF RouteInv, AmbientInv, Prepared
  <2>3. QED
    BY <2>1, <2>2
<1>6. TableInv'
  BY <1>1, PlanFixed DEF RouteInv, TableInv
<1>7. PinInv'
  BY <1>1, <1>2, PlanFixed DEF RouteInv, PinInv, RolledBack
<1>8. QED
  BY <1>4, <1>5, <1>6, <1>7 DEF RouteInv

\* What a step of Connect starts from.
LEMMA ApplyingFacts ==
    ASSUME RouteInv, NEW kind, Applying(kind)
    PROVE  /\ plan \in Plans /\ ValidPlan /\ Prepared /\ pc = "apply"
           /\ entries \in Seq({"planned", "applied", "rolled_back"})
           /\ Len(entries) + 1 \in DOMAIN Steps
           /\ Steps[Len(entries) + 1].kind = kind /\ NextStep = Steps[Len(entries) + 1]
BY StepFacts DEF RouteInv, PlanInv, Applying, NextStep, Prepared

\* A journal that grows by one entry.
LEMMA AppendFacts ==
    ASSUME entries \in Seq({"planned", "applied", "rolled_back"}), NEW s \in {"planned", "applied"},
           entries' = Append(entries, s)
    PROVE  /\ entries' \in Seq({"planned", "applied", "rolled_back"})
           /\ Len(entries') = Len(entries) + 1
           /\ \A i \in DOMAIN entries : i \in DOMAIN entries' /\ entries'[i] = entries[i]
           /\ \A i \in DOMAIN entries' : i \in DOMAIN entries \/ i = Len(entries) + 1
           /\ Len(entries) + 1 \in DOMAIN entries' /\ entries'[Len(entries) + 1] = s
OBVIOUS

\* A route of the plan is added, and its entry accounts for it.
LEMMA AddRouteKeeps ==
    ASSUME RouteInv, AddRoute
    PROVE  RouteInv'
<1> DEFINE n == Len(entries) + 1
<1> DEFINE r == Steps[n]
<1>1. /\ plan \in Plans /\ ValidPlan /\ Prepared /\ pc = "apply"
      /\ entries \in Seq({"planned", "applied", "rolled_back"})
      /\ n \in DOMAIN Steps /\ r.kind = "route" /\ NextStep = r
  BY ApplyingFacts DEF AddRoute
<1>2. PICK s \in {"planned", "applied"} :
         /\ entries' = Append(entries, s)
         /\ pc' = IF s = "applied" THEN "apply" ELSE "rollback"
         /\ index' = Len(entries')
         /\ \/ r.destination \notin DOMAIN table /\ table' = Over(Only(r.destination, r.hop), table)
            \/ s = "planned" /\ table' = table
  BY <1>1 DEF AddRoute, Goes
<1>3. UNCHANGED <<plan, ambient, failed>>
  BY DEF AddRoute, histories
<1>4. /\ entries' \in Seq({"planned", "applied", "rolled_back"})
      /\ Len(entries') = n
      /\ \A i \in DOMAIN entries : i \in DOMAIN entries' /\ entries'[i] = entries[i]
      /\ \A i \in DOMAIN entries' : i \in DOMAIN entries \/ i = n
      /\ n \in DOMAIN entries' /\ entries'[n] = s
  BY <1>1, <1>2, AppendFacts
<1>5. r.destination \in Prefixes /\ (n = 1 => r.destination = Pin) /\ n \in Nat /\ n > 0
  <2>1. CASE n = 1
    BY <1>1, <2>1, StepFacts, PlanTyped, WidthAssumption DEF EndpointRoute, Route, Prefix, Prefixes, Width, Pin
  <2>2. CASE n # 1
    <3>1. n > 2
      BY <1>1, <2>2, StepFacts DEF Device
    <3>2. QED
      BY <1>1, <2>2, <3>1, StepFacts DEF Route
  <2>3. QED
    BY <1>1, <2>1, <2>2
<1>6. PlanInv'
  BY <1>1, <1>2, <1>3, <1>4, PlanFixed, StepFacts DEF RouteInv, PlanInv, Prepared
<1>7. AmbientInv'
  BY <1>1, <1>2, <1>3 DEF RouteInv, AmbientInv, Prepared
<1>8. /\ table' = [p \in DOMAIN table' |-> table'[p]]
      /\ \A p \in DOMAIN table : p \in DOMAIN table' /\ table'[p] = table[p]
      /\ \A p \in DOMAIN table' : p \in DOMAIN table \/ (p = r.destination /\ table'[p] = r.hop)
      /\ s = "applied" => r.destination \in DOMAIN table'
  <2> HIDE DEF r
  <2>1. CASE table' = table /\ s = "planned"
    BY <2>1 DEF RouteInv, TableInv
  <2>2. CASE r.destination \notin DOMAIN table /\ table' = Over(Only(r.destination, r.hop), table)
    <3> DEFINE new == Only(r.destination, r.hop)
    <3>1. DOMAIN new = {r.destination} /\ new[r.destination] = r.hop
      BY OnlyFacts
    <3>2. table' = Over(new, table)
      BY <2>2
    <3> HIDE DEF new
    <3>3. /\ table' = [p \in DOMAIN table' |-> table'[p]]
          /\ DOMAIN table' = DOMAIN new \cup DOMAIN table
          /\ \A p \in DOMAIN new : table'[p] = new[p]
          /\ \A p \in DOMAIN table : p \notin DOMAIN new => table'[p] = table[p]
      BY <3>2 DEF Over
    <3>4. QED
      BY <2>2, <3>1, <3>3
  <2>3. QED
    BY <1>2, <2>1, <2>2
<1>9. TableInv'
  <2>1. ASSUME NEW p \in DOMAIN table' \ DOMAIN ambient'
        PROVE  \E i \in DOMAIN entries' :
                  /\ Steps[i].kind = "route" /\ Steps[i].destination = p /\ Steps[i].hop = table'[p]
                  /\ entries'[i] # "rolled_back"
    <3>1. CASE p \in DOMAIN table
      <4>1. PICK i \in DOMAIN entries :
              /\ Steps[i].kind = "route" /\ Steps[i].destination = p /\ Steps[i].hop = table[p]
              /\ entries[i] # "rolled_back"
        BY <1>3, <2>1, <3>1 DEF RouteInv, TableInv
      <4>2. QED
        BY <1>4, <1>8, <3>1, <4>1
    <3>2. CASE p \notin DOMAIN table
      BY <1>1, <1>4, <1>8, <3>2
    <3>3. QED
      BY <3>1, <3>2
  <2>2. \A p \in DOMAIN ambient' : p \in DOMAIN table' /\ table'[p] = ambient'[p]
    BY <1>3, <1>8 DEF RouteInv, TableInv
  <2>3. DOMAIN table' \subseteq Prefixes
    BY <1>5, <1>8 DEF RouteInv, TableInv
  <2>4. Steps' = Steps
    BY <1>3, PlanFixed
  <2>5. QED
    BY <1>8, <2>1, <2>2, <2>3, <2>4 DEF TableInv
<1>10. PinInv'
  <2>1. Pin' = Pin
    BY <1>3, PlanFixed
  <2>2. n > 1 => Pin \in DOMAIN table'
    BY <1>1, <1>5, <1>8 DEF RouteInv, PinInv
  <2>3. n = 1 /\ s = "applied" => Pin \in DOMAIN table'
    BY <1>5, <1>8
  <2>4. pc' # "done" /\ index' = n /\ (pc' = "apply" => s = "applied")
    BY <1>2, <1>4
  <2>5. \A i \in DOMAIN entries' : i \in 1..n
    BY <1>4
  <2> HIDE DEF n
  <2>6. QED
    BY <1>3, <1>4, <1>5, <2>1, <2>2, <2>3, <2>4, <2>5 DEF PinInv
<1>11. QED
  BY <1>6, <1>7, <1>9, <1>10 DEF RouteInv

\* The device's entry accounts for no route.
LEMMA CreateDeviceKeeps ==
    ASSUME RouteInv, CreateDevice
    PROVE  RouteInv'
<1> DEFINE n == Len(entries) + 1
<1>1. /\ plan \in Plans /\ ValidPlan /\ Prepared /\ pc = "apply"
      /\ entries \in Seq({"planned", "applied", "rolled_back"})
      /\ n \in DOMAIN Steps /\ Steps[n].kind = "device"
  BY ApplyingFacts DEF CreateDevice
<1>2. PICK s \in {"planned", "applied"} :
         /\ entries' = Append(entries, s)
         /\ pc' = IF s = "applied" THEN "apply" ELSE "rollback"
         /\ index' = Len(entries')
  BY DEF CreateDevice, Goes
<1>3. UNCHANGED <<plan, table, ambient, failed>>
  BY DEF CreateDevice, histories
<1>4. /\ entries' \in Seq({"planned", "applied", "rolled_back"})
      /\ Len(entries') = n
      /\ \A i \in DOMAIN entries : i \in DOMAIN entries' /\ entries'[i] = entries[i]
      /\ \A i \in DOMAIN entries' : i \in DOMAIN entries \/ i = n
  BY <1>1, <1>2, AppendFacts
<1>5. n \in Nat /\ n > 1
  <2>1. Steps[1].kind = "route"
    BY <1>1, StepFacts DEF EndpointRoute, Route
  <2>2. QED
    BY <1>1, <2>1
<1>6. PlanInv'
  BY <1>1, <1>2, <1>3, <1>4, PlanFixed, StepFacts DEF RouteInv, PlanInv, Prepared
<1>7. AmbientInv'
  BY <1>1, <1>2, <1>3 DEF RouteInv, AmbientInv, Prepared
<1>8. TableInv'
  <2>1. Steps' = Steps
    BY <1>3, PlanFixed
  <2>2. QED
    BY <1>3, <1>4, <2>1 DEF RouteInv, TableInv
<1>9. PinInv'
  <2>1. Pin' = Pin /\ Pin \in DOMAIN table
    BY <1>1, <1>3, <1>5, PlanFixed DEF RouteInv, PinInv
  <2>2. pc' # "done" /\ index' = n
    BY <1>2, <1>4
  <2>3. \A i \in DOMAIN entries' : i \in 1..n
    BY <1>4
  <2> HIDE DEF n
  <2>4. QED
    BY <1>3, <1>4, <1>5, <2>1, <2>2, <2>3 DEF PinInv
<1>10. QED
  BY <1>6, <1>7, <1>8, <1>9 DEF RouteInv

\* A rollback starts at the end of the journal, by whoever starts it.
LEMMA StartKeeps ==
    ASSUME RouteInv, Prepared,
           UNCHANGED <<plan, table, ambient, entries, failed>>,
           \/ pc' = "rollback" /\ index' = Len(entries)
           \/ pc' = "connected" /\ index' = Len(entries)
    PROVE  RouteInv'
<1>1. /\ plan \in Plans /\ ValidPlan
      /\ entries \in Seq({"planned", "applied", "rolled_back"})
      /\ Len(entries) <= Len(Steps)
  BY DEF RouteInv, PlanInv, Prepared
<1>2. Len(entries) \in Nat /\ \A i \in DOMAIN entries : i \in 1..Len(entries)
  BY <1>1
<1>3. PlanInv'
  BY <1>1, <1>2, PlanFixed DEF RouteInv, PlanInv, Prepared
<1>4. AmbientInv'
  BY DEF RouteInv, AmbientInv, Prepared
<1>5. TableInv'
  BY PlanFixed DEF RouteInv, TableInv
<1>6. PinInv'
  BY <1>2, PlanFixed DEF RouteInv, PinInv
<1>7. QED
  BY <1>3, <1>4, <1>5, <1>6 DEF RouteInv

\* What a step of rollback starts from.
LEMMA UndoingFacts ==
    ASSUME RouteInv, pc = "rollback", index > 0
    PROVE  /\ plan \in Plans /\ ValidPlan /\ Prepared
           /\ entries \in Seq({"planned", "applied", "rolled_back"})
           /\ index \in DOMAIN entries /\ index \in DOMAIN Steps
<1>1. /\ plan \in Plans /\ ValidPlan /\ Prepared
      /\ entries \in Seq({"planned", "applied", "rolled_back"})
      /\ index \in 0..Len(entries) /\ Len(entries) <= Len(Steps)
  BY DEF RouteInv, PlanInv, Prepared
<1>2. QED
  BY <1>1, StepFacts

\* A step of rollback, given what becomes of the table: routes go that are
\* this session's, and those of the entry if it is rolled back, and the pin
\* last.
LEMMA UndoKeeps ==
    ASSUME RouteInv, pc = "rollback", index > 0, UNCHANGED <<plan, ambient>>,
           NEW ok \in BOOLEAN, Undone(ok),
           table' = [p \in DOMAIN table' |-> table'[p]],
           DOMAIN table' \subseteq DOMAIN table,
           \A p \in DOMAIN table' : table'[p] = table[p],
           DOMAIN ambient \subseteq DOMAIN table',
           ok /\ Steps[index].kind = "route" =>
              Steps[index].destination \notin DOMAIN table' \/ Steps[index].destination \in DOMAIN ambient,
           Pin \in DOMAIN table => Pin \in DOMAIN table' \/ index = 1
    PROVE  RouteInv'
<1>1. /\ plan \in Plans /\ ValidPlan /\ Prepared
      /\ entries \in Seq({"planned", "applied", "rolled_back"})
      /\ index \in DOMAIN entries /\ index \in DOMAIN Steps
  BY UndoingFacts
<1>2. /\ entries' \in Seq({"planned", "applied", "rolled_back"})
      /\ Len(entries') = Len(entries) /\ DOMAIN entries' = DOMAIN entries
      /\ \A i \in DOMAIN entries : i # index => entries'[i] = entries[i]
      /\ ok => entries'[index] = "rolled_back"
      /\ ~ok => entries' = entries
  BY <1>1 DEF Undone
<1>3. index' = index - 1 /\ pc' = pc /\ (failed' <=> failed \/ ~ok) /\ failed' \in BOOLEAN
  BY DEF Undone
<1>4. Steps' = Steps /\ Pin' = Pin
  BY PlanFixed
<1>5. PlanInv'
  <2>1. index - 1 \in 0..Len(entries')
    BY <1>1, <1>2
  <2>2. QED
    BY <1>1, <1>2, <1>3, <1>4, <2>1, PlanFixed DEF RouteInv, PlanInv, Prepared
<1>6. AmbientInv'
  BY <1>1, <1>3 DEF RouteInv, AmbientInv, Prepared
<1>7. TableInv'
  <2>1. ASSUME NEW p \in DOMAIN table' \ DOMAIN ambient'
        PROVE  \E i \in DOMAIN entries' :
                  /\ Steps[i].kind = "route" /\ Steps[i].destination = p /\ Steps[i].hop = table'[p]
                  /\ entries'[i] # "rolled_back"
    <3>1. PICK i \in DOMAIN entries :
            /\ Steps[i].kind = "route" /\ Steps[i].destination = p /\ Steps[i].hop = table[p]
            /\ entries[i] # "rolled_back"
      BY <2>1 DEF RouteInv, TableInv
    <3>2. i = index => ~ok
      BY <2>1, <3>1
    <3>3. entries'[i] # "rolled_back"
      BY <1>2, <3>1, <3>2
    <3>4. QED
      BY <1>2, <2>1, <3>1, <3>3
  <2>2. \A p \in DOMAIN ambient' : p \in DOMAIN table' /\ table'[p] = ambient'[p]
    BY DEF RouteInv, TableInv
  <2>3. DOMAIN table' \subseteq Prefixes
    BY DEF RouteInv, TableInv
  <2>4. QED
    BY <1>4, <2>1, <2>2, <2>3 DEF TableInv
<1>8. PinInv'
  <2>1. ~failed' => ok /\ ~failed
    BY <1>3
  <2>2. ~failed' => \A i \in DOMAIN entries : i > index - 1 => entries'[i] = "rolled_back"
    <3> SUFFICES ASSUME ~failed', NEW i \in DOMAIN entries, i > index - 1
                 PROVE  entries'[i] = "rolled_back"
      OBVIOUS
    <3>1. CASE i = index
      BY <1>2, <2>1, <3>1
    <3>2. CASE i # index
      <4>1. i > index
        BY <1>1, <3>2
      <4>2. entries[i] = "rolled_back"
        BY <2>1, <4>1 DEF RouteInv, PinInv
      <4>3. QED
        BY <1>2, <3>2, <4>2
    <3>3. QED
      BY <3>1, <3>2
  <2>3. ASSUME ~failed', NEW i \in DOMAIN entries', i > 1, entries'[i] # "rolled_back"
        PROVE  Pin \in DOMAIN table'
    <3>1. i \in DOMAIN entries /\ ~(i > index - 1) /\ index # 1
      BY <1>1, <1>2, <2>2, <2>3
    <3>2. entries[i] # "rolled_back"
      BY <1>1, <1>2, <2>3, <3>1
    <3>3. Pin \in DOMAIN table
      BY <2>1, <2>3, <3>1, <3>2 DEF RouteInv, PinInv
    <3>4. QED
      BY <3>1, <3>3
  <2>4. QED
    BY <1>2, <1>3, <1>4, <2>2, <2>3 DEF PinInv
<1>9. QED
  BY <1>5, <1>6, <1>7, <1>8 DEF RouteInv

\* RouteManager.Remove takes only what is this session's, and the pin at the
\* first entry only.
LEMMA UndoRouteKeeps ==
    ASSUME RouteInv, UndoRoute
    PROVE  RouteInv'
<1> DEFINE r == Steps[index]
<1>1. pc = "rollback" /\ index > 0 /\ r.kind = "route" /\ UNCHANGED <<plan, ambient>>
  BY DEF UndoRoute, Undoing
<1>2. /\ plan \in Plans /\ ValidPlan /\ Prepared
      /\ entries \in Seq({"planned", "applied", "rolled_back"})
      /\ index \in DOMAIN entries /\ index \in DOMAIN Steps
  BY <1>1, UndoingFacts
<1>3. r.destination = Pin => index = 1
  <2>1. CASE index > 2
    <3>1. PICK q \in Prefixes, hop \in {Direct("utun"), Rejected} : Steps[index] = Route(q, hop) /\ q # Pin
      BY <1>2, <2>1, StepFacts
    <3>2. QED
      BY <3>1 DEF Route
  <2>2. index # 2
    BY <1>1, <1>2, StepFacts DEF Device
  <2>3. QED
    BY <1>2, <2>1, <2>2
<1>4. /\ table = [p \in DOMAIN table |-> table[p]]
      /\ DOMAIN ambient \subseteq DOMAIN table
  BY DEF RouteInv, TableInv
<1>5. CASE table' = table /\ r.destination \notin DOMAIN table /\ Undone(TRUE)
  BY <1>1, <1>4, <1>5, UndoKeeps
<1>6. CASE table' = table /\ Undone(FALSE)
  BY <1>1, <1>4, <1>6, UndoKeeps
<1>7. ASSUME AsPlanned(r), table' = Without(table, {r.destination}), NEW ok \in BOOLEAN, Undone(ok)
      PROVE  RouteInv'
  <2>1. r.destination \notin DOMAIN ambient
    BY <1>1, <1>2, <1>7, OwnIsNotAmbient
  <2>2. /\ table' = [p \in DOMAIN table' |-> table'[p]]
        /\ DOMAIN table' = DOMAIN table \ {r.destination}
        /\ \A p \in DOMAIN table' : table'[p] = table[p]
    BY <1>7 DEF Without, Restrict
  <2>3. QED
    BY <1>1, <1>3, <1>4, <1>7, <2>1, <2>2, UndoKeeps
<1>8. QED
  BY <1>5, <1>6, <1>7 DEF UndoRoute

\* The routes that go with a utun are this session's, and not the pin.
LEMMA UtunGoes ==
    ASSUME RouteInv
    PROVE  /\ WithoutUtun = [p \in DOMAIN WithoutUtun |-> WithoutUtun[p]]
           /\ DOMAIN WithoutUtun = {p \in DOMAIN table : table[p].interface # "utun"}
           /\ \A p \in DOMAIN WithoutUtun : WithoutUtun[p] = table[p]
           /\ DOMAIN ambient \subseteq DOMAIN WithoutUtun
           /\ Pin \in DOMAIN table => Pin \in DOMAIN WithoutUtun
<1>1. /\ WithoutUtun = [p \in DOMAIN WithoutUtun |-> WithoutUtun[p]]
      /\ DOMAIN WithoutUtun = {p \in DOMAIN table : table[p].interface # "utun"}
      /\ \A p \in DOMAIN WithoutUtun : WithoutUtun[p] = table[p]
  BY DEF WithoutUtun, Without, Restrict
<1>2. \A p \in DOMAIN ambient : p \in DOMAIN table /\ table[p].interface # "utun"
  BY UtunIsOwn DEF RouteInv, TableInv
<1>3. ASSUME Pin \in DOMAIN table, table[Pin].interface = "utun"
      PROVE  FALSE
  <2>1. PICK i \in DOMAIN entries : i > 2 /\ Steps[i] = Route(Pin, Direct("utun"))
    BY <1>3, UtunIsOwn
  <2>2. plan \in Plans /\ ValidPlan /\ entries \in Seq({"planned", "applied", "rolled_back"}) /\ Len(entries) <= Len(Steps)
    BY DEF RouteInv, PlanInv, Prepared
  <2>3. i \in DOMAIN Steps
    BY <2>2, StepFacts
  <2>4. PICK q \in Prefixes, hop \in {Direct("utun"), Rejected} : Steps[i] = Route(q, hop) /\ q # Pin
    BY <2>1, <2>2, <2>3, StepFacts
  <2>5. QED
    BY <2>1, <2>4 DEF Route
<1>4. QED
  BY <1>1, <1>2, <1>3

\* The device's step of rollback.
LEMMA UndoDeviceKeeps ==
    ASSUME RouteInv, UndoDevice
    PROVE  RouteInv'
<1>1. /\ pc = "rollback" /\ index > 0 /\ Steps[index].kind = "device" /\ UNCHANGED <<plan, ambient>>
      /\ Undone(TRUE)
      /\ table' = WithoutUtun \/ table' = table
  BY DEF UndoDevice, Undoing
<1>2. CASE table' = table
  <2>1. table = [p \in DOMAIN table |-> table[p]] /\ DOMAIN ambient \subseteq DOMAIN table
    BY DEF RouteInv, TableInv
  <2>2. QED
    BY <1>1, <1>2, <2>1, UndoKeeps
<1>3. CASE table' = WithoutUtun
  <2>1. /\ table' = [p \in DOMAIN table' |-> table'[p]]
        /\ DOMAIN table' \subseteq DOMAIN table
        /\ \A p \in DOMAIN table' : table'[p] = table[p]
        /\ DOMAIN ambient \subseteq DOMAIN table'
        /\ Pin \in DOMAIN table => Pin \in DOMAIN table'
    BY <1>3, UtunGoes
  <2>2. QED
    BY <1>1, <2>1, UndoKeeps
<1>4. QED
  BY <1>1, <1>2, <1>3

\* Rollback passes over what is undone, and ends after the first entry.
LEMMA SkipKeeps ==
    ASSUME RouteInv, UndoSkip \/ FinishRollback
    PROVE  RouteInv'
<1>1. /\ UNCHANGED <<plan, table, ambient, entries, failed>> /\ pc = "rollback"
      /\ \/ index > 0 /\ entries[index] = "rolled_back" /\ index' = index - 1 /\ pc' = "rollback"
         \/ index = 0 /\ index' = 0 /\ pc' = "done"
  BY DEF UndoSkip, FinishRollback, histories
<1>2. /\ plan \in Plans /\ ValidPlan /\ index \in 0..Len(entries)
      /\ entries \in Seq({"planned", "applied", "rolled_back"})
  BY <1>1 DEF RouteInv, PlanInv
<1>3. \A i \in DOMAIN entries : i \in Nat /\ i > 0
  BY <1>2
<1>4. index' \in 0..Len(entries)
  BY <1>1, <1>2
<1>5. PlanInv'
  BY <1>1, <1>4, PlanFixed DEF RouteInv, PlanInv, Prepared
<1>6. AmbientInv'
  BY <1>1 DEF RouteInv, AmbientInv, Prepared
<1>7. TableInv'
  BY <1>1, PlanFixed DEF RouteInv, TableInv
<1>8. PinInv'
  <2>1. ~failed => \A i \in DOMAIN entries : i > index' => entries[i] = "rolled_back"
    <3> SUFFICES ASSUME ~failed, NEW i \in DOMAIN entries, i > index'
                 PROVE  entries[i] = "rolled_back"
      OBVIOUS
    <3>1. i > index => entries[i] = "rolled_back"
      BY <1>1 DEF RouteInv, PinInv
    <3>2. i > index \/ (i = index /\ entries[index] = "rolled_back")
      BY <1>1, <1>2, <1>3
    <3>3. QED
      BY <3>1, <3>2
  <2>2. pc' = "done" /\ ~failed => RolledBack'
    BY <1>1, <1>3, <2>1 DEF RolledBack
  <2>3. QED
    BY <1>1, <2>1, <2>2, PlanFixed DEF RouteInv, PinInv
<1>9. QED
  BY <1>5, <1>6, <1>7, <1>8 DEF RouteInv

\* A helper that dies takes its utun's routes along and leaves the pin.
LEMMA HelperDiesKeeps ==
    ASSUME RouteInv, HelperDies
    PROVE  RouteInv'
<1>1. /\ UNCHANGED <<plan, ambient, entries, failed>> /\ pc \in {"apply", "connected", "rollback", "done"}
      /\ table' = WithoutUtun
      /\ \/ pc' = "rollback" /\ index' = Len(entries)
         \/ pc' = pc /\ index' = index
  BY DEF HelperDies, Goes, histories
<1>2. /\ plan \in Plans /\ ValidPlan /\ index \in 0..Len(entries)
      /\ entries \in Seq({"planned", "applied", "rolled_back"})
  BY <1>1 DEF RouteInv, PlanInv
<1>3. /\ table' = [p \in DOMAIN table' |-> table'[p]]
      /\ DOMAIN table' \subseteq DOMAIN table
      /\ \A p \in DOMAIN table' : table'[p] = table[p]
      /\ DOMAIN ambient \subseteq DOMAIN table'
      /\ Pin \in DOMAIN table => Pin \in DOMAIN table'
  BY <1>1, UtunGoes
<1>4. index' \in 0..Len(entries) /\ \A i \in DOMAIN entries : i \in 1..Len(entries)
  BY <1>1, <1>2
<1>5. PlanInv'
  BY <1>1, <1>4, PlanFixed DEF RouteInv, PlanInv, Prepared
<1>6. AmbientInv'
  BY <1>1 DEF RouteInv, AmbientInv, Prepared
<1>7. TableInv'
  BY <1>1, <1>3, PlanFixed DEF RouteInv, TableInv
<1>8. PinInv'
  BY <1>1, <1>3, <1>4, PlanFixed DEF RouteInv, PinInv, RolledBack
<1>9. QED
  BY <1>5, <1>6, <1>7, <1>8 DEF RouteInv

\* Others change what there would be without this session, too.
LEMMA SetsKeeps ==
    ASSUME RouteInv, NEW routes, Sets(routes),
           DOMAIN routes \subseteq Prefixes,
           \A p \in DOMAIN routes :
              \/ routes[p] \in {Direct("en0"), Direct("other")}
              \/ p = Default4 /\ \E g \in Gateways : routes[p] = Via(g) /\ Lan[g] \in DOMAIN routes
    PROVE  RouteInv'
<1>1. /\ UNCHANGED <<plan, entries, index, pc, failed>>
      /\ table' = Over(routes, table) /\ ambient' = Over(routes, ambient)
  BY DEF Sets
<1>2. /\ table' = [p \in DOMAIN table' |-> table'[p]]
      /\ DOMAIN table' = DOMAIN routes \cup DOMAIN table
      /\ \A p \in DOMAIN routes : table'[p] = routes[p]
      /\ \A p \in DOMAIN table : p \notin DOMAIN routes => table'[p] = table[p]
  BY <1>1 DEF Over
<1>3. /\ ambient' = [p \in DOMAIN ambient' |-> ambient'[p]]
      /\ DOMAIN ambient' = DOMAIN routes \cup DOMAIN ambient
      /\ \A p \in DOMAIN routes : ambient'[p] = routes[p]
      /\ \A p \in DOMAIN ambient : p \notin DOMAIN routes => ambient'[p] = ambient[p]
  BY <1>1 DEF Over
<1>4. PlanInv'
  BY <1>1, PlanFixed DEF RouteInv, PlanInv, Prepared
<1>5. AmbientInv'
  BY <1>1, <1>3 DEF RouteInv, AmbientInv, Prepared
<1>6. TableInv'
  BY <1>1, <1>2, <1>3, PlanFixed DEF RouteInv, TableInv
<1>7. PinInv'
  BY <1>1, <1>2, PlanFixed DEF RouteInv, PinInv, RolledBack
<1>8. QED
  BY <1>4, <1>5, <1>6, <1>7 DEF RouteInv

\* Every step keeps RouteInv.
THEOREM RouteStep == RouteInv /\ [Next]_vars => RouteInv'
<1> SUFFICES ASSUME RouteInv, [Next]_vars PROVE RouteInv'
  OBVIOUS
<1>1. CASE Validate \/ Check
  BY <1>1, ValidateKeeps
<1>2. CASE AddRoute \/ CreateDevice
  BY <1>2, AddRouteKeeps, CreateDeviceKeeps
<1>3. CASE Verify \/ Disconnect \/ Retry
  <2>1. /\ Prepared
        /\ UNCHANGED <<plan, table, ambient, entries, failed>>
        /\ \/ pc' = "rollback" /\ index' = Len(entries)
           \/ pc' = "connected" /\ index' = Len(entries)
    BY <1>3 DEF Verify, Disconnect, Retry, Goes, Prepared, histories
  <2>2. QED
    BY <2>1, StartKeeps
<1>4. CASE UndoRoute \/ UndoDevice
  BY <1>4, UndoRouteKeeps, UndoDeviceKeeps
<1>5. CASE UndoSkip \/ FinishRollback
  BY <1>5, SkipKeeps
<1>6. CASE HelperDies
  BY <1>6, HelperDiesKeeps
<1>7. CASE OthersRoute
  <2>1. PICK p \in OtherPrefixes : Sets(Only(p, Direct("other")))
    BY <1>7 DEF OthersRoute
  <2> DEFINE routes == Only(p, Direct("other"))
  <2>2. Sets(routes) /\ DOMAIN routes = {p} /\ routes[p] = Direct("other") /\ p \in Prefixes
    BY <2>1, OnlyFacts, PrefixAssumption
  <2> HIDE DEF routes
  <2>3. QED
    BY <2>2, SetsKeeps
<1>8. CASE DefaultMoves
  <2>1. PICK g \in Gateways : Sets(Before(g))
    BY <1>8 DEF DefaultMoves
  <2>2. QED
    BY <2>1, BeforeFacts, SetsKeeps
<1>9. CASE UNCHANGED vars
  <2>1. UNCHANGED <<plan, table, ambient, entries, index, pc, failed>>
    BY <1>9 DEF vars
  <2>2. QED
    BY <2>1, PlanFixed DEF RouteInv, PlanInv, AmbientInv, TableInv, PinInv, Prepared, RolledBack
<1>10. QED
  BY <1>1, <1>2, <1>3, <1>4, <1>5, <1>6, <1>7, <1>8, <1>9 DEF Next

-----------------------------------------------------------------------------
(* The routes of the plan, until something fails or others interfere.      *)

\* What others route is canonical.
LEMMA OthersCanonical ==
    /\ \A g \in Gateways : \A p \in DOMAIN Before(g) : p \in Prefixes /\ Canonical(p)
    /\ \A p \in OtherPrefixes : p \in Prefixes /\ Canonical(p)
<1>1. ASSUME NEW w \in Nat
      PROVE  0 % Power[w] = 0
  BY PowerFacts
<1>2. Canonical(Default4) /\ Canonical(Default6)
  BY <1>1, WidthAssumption DEF Canonical, Default4, Default6, Prefix, Width
<1>3. QED
  BY <1>2, BeforeFacts, LanAssumption, PrefixAssumption DEF Before

\* At first nobody has changed anything.
LEMMA TrafficInitial == Init => TrafficInv
<1> SUFFICES ASSUME Init PROVE TrafficInv
  OBVIOUS
<1>1. \A p \in DOMAIN ambient : Canonical(p)
  BY OthersCanonical DEF Init
<1>2. changes = <<>> /\ entries = <<>> /\ pc = "validate" /\ own
  BY DEF Init
<1>3. QED
  BY <1>1, <1>2 DEF TrafficInv

\* Steps that end a session's work on its routes have nothing to show.
LEMMA LeavingKeeps ==
    ASSUME TrafficInv, UNCHANGED <<ambient, changes>>, pc' \in {"refused", "rollback", "done"}
    PROVE  TrafficInv'
BY DEF TrafficInv

\* A route of the plan is added where nobody had one.
LEMMA AddRouteShows ==
    ASSUME RouteInv, TrafficInv, AddRoute
    PROVE  TrafficInv'
<1> DEFINE n == Len(entries) + 1
<1> DEFINE r == Steps[n]
<1>1. /\ plan \in Plans /\ ValidPlan /\ Prepared /\ pc = "apply"
      /\ entries \in Seq({"planned", "applied", "rolled_back"})
      /\ n \in DOMAIN Steps /\ r.kind = "route" /\ NextStep = r
  BY ApplyingFacts DEF AddRoute
<1>2. UNCHANGED <<plan, ambient, own, changes>>
  BY DEF AddRoute, histories
<1>3. \/ pc' = "rollback"
      \/ /\ pc' = "apply" /\ entries' = Append(entries, "applied")
         /\ r.destination \notin DOMAIN table /\ table' = Over(Only(r.destination, r.hop), table)
  BY <1>1 DEF AddRoute, Goes
<1>4. CASE pc' = "rollback"
  BY <1>2, <1>4, LeavingKeeps
<1>5. CASE pc' = "apply" /\ entries' = Append(entries, "applied")
           /\ r.destination \notin DOMAIN table /\ table' = Over(Only(r.destination, r.hop), table)
  <2>1. \A i \in DOMAIN entries' : i \in DOMAIN entries \/ i = n
    BY <1>1, <1>5, AppendFacts
  <2> HIDE DEF r
  <2> DEFINE new == Only(r.destination, r.hop)
  <2>2. DOMAIN new = {r.destination} /\ new[r.destination] = r.hop /\ table' = Over(new, table)
    BY <1>5, OnlyFacts
  <2> HIDE DEF new
  <2>3. /\ DOMAIN table' = DOMAIN new \cup DOMAIN table
        /\ \A p \in DOMAIN new : table'[p] = new[p]
        /\ \A p \in DOMAIN table : p \notin DOMAIN new => table'[p] = table[p]
    BY <2>2 DEF Over
  <2>4. r.destination \notin DOMAIN ambient
    BY <1>5 DEF RouteInv, TableInv
  <2>5. Steps' = Steps /\ (Undisturbed' <=> Undisturbed)
    BY <1>2, PlanFixed DEF Undisturbed, OwnDestinations
  <2>6. ASSUME Undisturbed, NEW i \in DOMAIN entries', Steps[i].kind = "route"
        PROVE  /\ Steps[i].destination \in DOMAIN table' \ DOMAIN ambient
               /\ table'[Steps[i].destination] = Steps[i].hop
    <3>1. CASE i = n
      BY <2>2, <2>3, <2>4, <3>1 DEF r
    <3>2. CASE i \in DOMAIN entries
      <4>1. /\ Steps[i].destination \in DOMAIN table \ DOMAIN ambient
            /\ table[Steps[i].destination] = Steps[i].hop
        BY <1>1, <2>6, <3>2 DEF TrafficInv
      <4>2. QED
        BY <1>5, <2>2, <2>3, <4>1
    <3>3. QED
      BY <2>1, <3>1, <3>2
  <2>7. QED
    BY <1>1, <1>2, <1>5, <2>5, <2>6 DEF TrafficInv
<1>6. QED
  BY <1>3, <1>4, <1>5

\* The device's entry is about no route.
LEMMA CreateDeviceShows ==
    ASSUME RouteInv, TrafficInv, CreateDevice
    PROVE  TrafficInv'
<1>1. /\ pc = "apply" /\ entries \in Seq({"planned", "applied", "rolled_back"})
      /\ Steps[Len(entries) + 1].kind = "device"
  BY ApplyingFacts DEF CreateDevice
<1>2. UNCHANGED <<plan, table, ambient, own, changes>>
  BY DEF CreateDevice, histories
<1>3. pc' = "rollback" \/ (pc' = "apply" /\ entries' = Append(entries, "applied"))
  BY DEF CreateDevice, Goes
<1>4. CASE pc' = "rollback"
  BY <1>2, <1>4, LeavingKeeps
<1>5. CASE pc' = "apply" /\ entries' = Append(entries, "applied")
  <2>1. \A i \in DOMAIN entries' : i \in DOMAIN entries \/ i = Len(entries) + 1
    BY <1>1, <1>5, AppendFacts
  <2>2. Steps' = Steps /\ (Undisturbed' <=> Undisturbed)
    BY <1>2, PlanFixed DEF Undisturbed, OwnDestinations
  <2>3. QED
    BY <1>1, <1>2, <1>5, <2>1, <2>2 DEF TrafficInv
<1>6. QED
  BY <1>3, <1>4, <1>5

\* Others either leave the plan's prefixes alone or disturb the session.
LEMMA SetsShows ==
    ASSUME RouteInv, TrafficInv, NEW routes, Sets(routes),
           \A p \in DOMAIN routes : p \in Prefixes /\ Canonical(p)
    PROVE  TrafficInv'
<1>1. /\ UNCHANGED <<plan, entries, pc, own>>
      /\ table' = Over(routes, table) /\ ambient' = Over(routes, ambient)
      /\ changes' = Append(changes, DOMAIN routes)
  BY DEF Sets
<1>2. changes \in Seq(SUBSET Prefixes) /\ DOMAIN routes \in SUBSET Prefixes
  BY DEF TrafficInv
<1>3. /\ changes' \in Seq(SUBSET Prefixes)
      /\ \A i \in DOMAIN changes : i \in DOMAIN changes' /\ changes'[i] = changes[i]
      /\ Len(changes) + 1 \in DOMAIN changes' /\ changes'[Len(changes) + 1] = DOMAIN routes
  BY <1>1, <1>2
<1>4. Steps' = Steps /\ OwnDestinations' = OwnDestinations
  BY <1>1, PlanFixed DEF OwnDestinations
<1>5. Undisturbed' => Undisturbed /\ DOMAIN routes \cap OwnDestinations = {}
  BY <1>3, <1>4 DEF Undisturbed
<1>6. \A p \in DOMAIN ambient' : Canonical(p)
  BY <1>1 DEF TrafficInv, Over
<1>7. ASSUME pc' \in {"apply", "connected"}, Undisturbed', NEW i \in DOMAIN entries', Steps[i].kind = "route"
      PROVE  /\ Steps[i].destination \in DOMAIN table' \ DOMAIN ambient'
             /\ table'[Steps[i].destination] = Steps[i].hop
  <2>1. /\ Steps[i].destination \in DOMAIN table \ DOMAIN ambient
        /\ table[Steps[i].destination] = Steps[i].hop
    BY <1>1, <1>5, <1>7 DEF TrafficInv
  <2>2. i \in DOMAIN Steps
    <3>1. /\ plan \in Plans /\ ValidPlan /\ entries \in Seq({"planned", "applied", "rolled_back"})
          /\ Len(entries) <= Len(Steps)
      BY <1>1, <1>7 DEF RouteInv, PlanInv, Prepared
    <3>2. QED
      BY <1>1, <3>1, StepFacts
  <2>3. Steps[i].destination \notin DOMAIN routes
    BY <1>5, <1>7, <2>2 DEF OwnDestinations
  <2>4. QED
    BY <1>1, <2>1, <2>3 DEF Over
<1>8. QED
  BY <1>1, <1>3, <1>4, <1>6, <1>7 DEF TrafficInv

\* Every step keeps TrafficInv.
THEOREM TrafficStep == RouteInv /\ TrafficInv /\ [Next]_vars => TrafficInv'
<1> SUFFICES ASSUME RouteInv, TrafficInv, [Next]_vars PROVE TrafficInv'
  OBVIOUS
<1>1. CASE Validate \/ Check
  <2>1. /\ UNCHANGED <<plan, table, ambient, entries, own, changes>> /\ pc \in {"validate", "check"}
        /\ pc' \in {"check", "refused", "apply"}
    BY <1>1 DEF Validate, Check, histories
  <2>2. entries = <<>>
    BY <2>1 DEF RouteInv, PlanInv, Prepared
  <2>3. QED
    BY <2>1, <2>2 DEF TrafficInv
<1>2. CASE AddRoute \/ CreateDevice
  BY <1>2, AddRouteShows, CreateDeviceShows
<1>3. CASE Verify
  <2>1. /\ UNCHANGED <<plan, table, ambient, entries, own, changes>> /\ pc = "apply"
        /\ pc' = "rollback" \/ (pc' = "connected" /\ Len(entries) = Len(Steps))
    BY <1>3 DEF Verify, Goes, histories
  <2>2. Steps' = Steps /\ (Undisturbed' <=> Undisturbed)
    BY <2>1, PlanFixed DEF Undisturbed, OwnDestinations
  <2>3. QED
    BY <2>1, <2>2 DEF TrafficInv
<1>4. CASE Disconnect \/ Retry \/ UndoRoute \/ UndoDevice \/ UndoSkip \/ FinishRollback
  <2>1. UNCHANGED <<ambient, changes>> /\ pc' \in {"rollback", "done"}
    BY <1>4 DEF Disconnect, Retry, UndoRoute, UndoDevice, UndoSkip, FinishRollback, Goes, Undoing, Undone, histories
  <2>2. QED
    BY <2>1, LeavingKeeps
<1>5. CASE HelperDies
  <2>1. UNCHANGED <<ambient, changes>> /\ pc' \in {"rollback", "done"}
    BY <1>5 DEF HelperDies, Goes, TrafficInv, histories
  <2>2. QED
    BY <2>1, LeavingKeeps
<1>6. CASE OthersRoute
  <2>1. PICK p \in OtherPrefixes : Sets(Only(p, Direct("other")))
    BY <1>6 DEF OthersRoute
  <2> DEFINE routes == Only(p, Direct("other"))
  <2>2. Sets(routes) /\ \A q \in DOMAIN routes : q \in Prefixes /\ Canonical(q)
    BY <2>1, OnlyFacts, OthersCanonical
  <2> HIDE DEF routes
  <2>3. QED
    BY <2>2, SetsShows
<1>7. CASE DefaultMoves
  <2>1. PICK g \in Gateways : Sets(Before(g))
    BY <1>7 DEF DefaultMoves
  <2>2. QED
    BY <2>1, OthersCanonical, SetsShows
<1>8. CASE UNCHANGED vars
  <2>1. UNCHANGED <<plan, table, ambient, entries, pc, own, changes>>
    BY <1>8 DEF vars
  <2>2. Steps' = Steps /\ (Undisturbed' <=> Undisturbed)
    BY <2>1, PlanFixed DEF Undisturbed, OwnDestinations
  <2>3. QED
    BY <2>1, <2>2 DEF TrafficInv
<1>9. QED
  BY <1>1, <1>2, <1>3, <1>4, <1>5, <1>6, <1>7, <1>8 DEF Next

-----------------------------------------------------------------------------
(* Where traffic goes.                                                     *)

\* Of one length, one canonical prefix contains an address.
LEMMA SamePrefix ==
    ASSUME NEW p \in Prefixes, NEW q \in Prefixes, Canonical(p), Canonical(q),
           NEW a, Contains(p, a), Contains(q, a), p.bits = q.bits
    PROVE  p = q
<1> DEFINE low == Power[Width(p.family) - p.bits]
<1>1. p.family = q.family
  BY DEF Contains
<1>2. /\ p.n \in Nat /\ q.n \in Nat /\ Width(p.family) - p.bits \in Nat
      /\ p \in [family : {"inet", "inet6"}, n : Nat, bits : Nat]
      /\ q \in [family : {"inet", "inet6"}, n : Nat, bits : Nat]
  BY WidthAssumption DEF Prefixes, Width
<1>3. low \in Nat /\ low > 0
  BY <1>2, PowerFacts
<1>4. p.n % low = 0 /\ q.n % low = 0 /\ p.n \div low = q.n \div low
  BY <1>1 DEF Canonical, Contains
<1> HIDE DEF low
<1>5. p.n = q.n
  BY <1>2, <1>3, <1>4
<1>6. QED
  BY <1>1, <1>2, <1>5

\* The pin is for the server alone.
LEMMA PinIsEndpoint ==
    ASSUME plan \in Plans, NEW a \in Addresses
    PROVE  /\ Pin \in Prefixes /\ Canonical(Pin)
           /\ Contains(Pin, a) <=> a = Endpoint
<1>1. plan.endpoint \in Nat /\ Bits4 - Bits4 = 0 /\ Power[0] = 1
  BY PlanTyped, PowerFacts, WidthAssumption
<1>2. Pin \in Prefixes /\ Canonical(Pin)
  BY <1>1, WidthAssumption DEF Pin, Prefix, Prefixes, Canonical, Width
<1>3. PICK f \in {"inet", "inet6"}, n \in Int : a = Address(f, n)
  BY DEF Addresses
<1>4. Contains(Pin, a) <=> f = "inet" /\ n \div 1 = plan.endpoint \div 1
  BY <1>1, <1>3 DEF Contains, Pin, Prefix, Address, Width
<1>5. n \div 1 = n /\ plan.endpoint \div 1 = plan.endpoint
  BY <1>1
<1>6. QED
  BY <1>2, <1>3, <1>4, <1>5 DEF Endpoint, Address

\* The two halves of a family's addresses.
Halves(family) == {Prefix(family, 0, 1), Prefix(family, Power[Width(family) - 1], 1)}

\* The split defaults cover every address.
LEMMA HalvesCover ==
    ASSUME NEW a \in Addresses
    PROVE  /\ a.family \in {"inet", "inet6"}
           /\ \E h \in Halves(a.family) : Contains(h, a)
<1>1. PICK f \in {"inet", "inet6"}, n \in Int :
        a = Address(f, n) /\ n \in 0..(Power[Width(f)] - 1)
  BY DEF Addresses, Width
<1> DEFINE low == Power[Width(f) - 1]
<1>2. low \in Nat /\ low > 0 /\ Power[Width(f)] = 2 * low
  BY <1>1, PowerFacts, WidthAssumption DEF Width
<1>3. a.family = f /\ a.n = n
  BY <1>1 DEF Address
<1>4. \A m \in Nat : Contains(Prefix(f, m, 1), a) <=> n \div low = m \div low
  BY <1>3 DEF Contains, Prefix
<1>5. n \in Nat /\ n < 2 * low
  BY <1>1, <1>2
<1>6. Halves(f) = {Prefix(f, 0, 1), Prefix(f, low, 1)}
  BY DEF Halves
<1> HIDE DEF low
<1>7. (n \div low = 0 \/ n \div low = 1) /\ 0 \div low = 0 /\ low \div low = 1
  BY <1>2, <1>5
<1>8. QED
  BY <1>1, <1>2, <1>3, <1>4, <1>6, <1>7

\* The halves are canonical prefixes.
LEMMA HalvesTyped ==
    ASSUME NEW f \in {"inet", "inet6"}, NEW h \in Halves(f)
    PROVE  h \in Prefixes /\ Canonical(h) /\ h.bits = 1 /\ h.family = f
<1> DEFINE low == Power[Width(f) - 1]
<1>1. low \in Nat /\ low > 0 /\ Width(f) >= 1 /\ Width(f) \in Nat
  BY PowerFacts, WidthAssumption DEF Width
<1>2. h.family = f /\ h.bits = 1 /\ (h.n = 0 \/ h.n = low)
      /\ h \in [family : {f}, n : {0, low}, bits : {1}]
  BY DEF Halves, Prefix
<1>3. Canonical(h) <=> h.n % low = 0
  BY <1>2 DEF Canonical
<1> HIDE DEF low
<1>4. 0 % low = 0 /\ low % low = 0
  BY <1>1
<1>5. h \in Prefixes
  BY <1>1, <1>2 DEF Prefixes
<1>6. QED
  BY <1>2, <1>3, <1>4, <1>5

\* The routes of each policy, by their entries.
LEMMA PolicyRoutes ==
    ASSUME plan \in Plans, ValidPlan
    PROVE  /\ plan.policy = "full_ipv4" =>
                 /\ plan.scoped = <<>>
                 /\ \A h \in Halves("inet") : \E i \in DOMAIN Steps : Steps[i] = Route(h, Direct("utun"))
                 /\ \A h \in Halves("inet6") : \E i \in DOMAIN Steps : Steps[i] = Route(h, Rejected)
                 /\ \A i \in DOMAIN Steps : i > 2 =>
                       \/ \E h \in Halves("inet") : Steps[i] = Route(h, Direct("utun"))
                       \/ \E h \in Halves("inet6") : Steps[i] = Route(h, Rejected)
           /\ plan.policy = "scoped_ipv4" =>
                 /\ \A k \in DOMAIN plan.scoped :
                       /\ plan.scoped[k] \in Prefixes /\ Canonical(plan.scoped[k]) /\ plan.scoped[k].bits >= 1
                       /\ \E i \in DOMAIN Steps : Steps[i] = Route(plan.scoped[k], Direct("utun"))
                 /\ \A i \in DOMAIN Steps : i > 2 =>
                       \E k \in DOMAIN plan.scoped : Steps[i] = Route(plan.scoped[k], Direct("utun"))
<1>1. CASE plan.policy = "full_ipv4"
  <2>1. TunnelRoutes = <<Route(Prefix("inet", 0, 1), Direct("utun")),
                         Route(Prefix("inet", Power[Bits4 - 1], 1), Direct("utun")),
                         Route(Prefix("inet6", 0, 1), Rejected),
                         Route(Prefix("inet6", Power[Bits6 - 1], 1), Rejected)>>
    BY <1>1 DEF TunnelRoutes
  <2>2. /\ Halves("inet") = {Prefix("inet", 0, 1), Prefix("inet", Power[Bits4 - 1], 1)}
        /\ Halves("inet6") = {Prefix("inet6", 0, 1), Prefix("inet6", Power[Bits6 - 1], 1)}
    BY DEF Halves, Width
  <2>3. DOMAIN Steps = 1..6 /\ Steps[3] = TunnelRoutes[1] /\ Steps[4] = TunnelRoutes[2]
        /\ Steps[5] = TunnelRoutes[3] /\ Steps[6] = TunnelRoutes[4]
    BY <2>1 DEF Steps
  <2>4. plan.scoped = <<>>
    BY <1>1 DEF ValidPlan, ValidPolicy
  <2>5. QED
    BY <1>1, <2>1, <2>2, <2>3, <2>4
<1>2. CASE plan.policy = "scoped_ipv4"
  <2>1. /\ plan.scoped \in Seq(Prefixes)
        /\ TunnelRoutes = [i \in DOMAIN plan.scoped |-> Route(plan.scoped[i], Direct("utun"))]
    BY <1>2, PlanTyped DEF TunnelRoutes
  <2>2. \A k \in DOMAIN plan.scoped :
           plan.scoped[k] \in Prefixes /\ Canonical(plan.scoped[k]) /\ plan.scoped[k].bits >= 1
    BY <1>2, <2>1, WidthAssumption DEF ValidPlan, ValidPolicy, ValidScoped, Prefixes
  <2> DEFINE T == TunnelRoutes
             S == Steps
  <2>3. /\ S = <<EndpointRoute, Device>> \o T
        /\ T \in Seq({Route(q, Direct("utun")) : q \in Prefixes}) /\ DOMAIN T = DOMAIN plan.scoped
        /\ \A k \in DOMAIN T : T[k] = Route(plan.scoped[k], Direct("utun"))
    BY <2>1, <2>2 DEF Steps
  <2> HIDE DEF T, S
  <2>4. /\ \A i \in DOMAIN S : i > 2 => i - 2 \in DOMAIN T /\ S[i] = T[i - 2]
        /\ \A k \in DOMAIN T : k + 2 \in DOMAIN S /\ S[k + 2] = T[k]
    BY <2>3
  <2>5. QED
    BY <1>2, <2>2, <2>3, <2>4 DEF S
<1>3. QED
  BY <1>1, <1>2, PlanTyped

\* A connected session that nobody disturbed has its routes beside what others
\* routed.
LEMMA ConnectedTable ==
    ASSUME RouteInv, TrafficInv, pc = "connected", Undisturbed
    PROVE  /\ plan \in Plans /\ ValidPlan
           /\ \A p \in DOMAIN table : p \in Prefixes /\ Canonical(p)
           /\ DOMAIN ambient \subseteq DOMAIN table
           /\ \A p \in DOMAIN ambient : table[p] = ambient[p]
           /\ Pin \in DOMAIN table \ DOMAIN ambient /\ table[Pin] = Via(plan.gateway)
           /\ \A i \in DOMAIN Steps : \A q, hop : Steps[i] = Route(q, hop) =>
                 q \in DOMAIN table \ DOMAIN ambient /\ table[q] = hop
           /\ \A p \in DOMAIN table \ DOMAIN ambient : p # Pin =>
                 \E i \in DOMAIN Steps : i > 2 /\ Steps[i] = Route(p, table[p])
<1>1. /\ plan \in Plans /\ ValidPlan /\ entries \in Seq({"planned", "applied", "rolled_back"})
      /\ Len(entries) = Len(Steps)
  BY DEF RouteInv, PlanInv, TrafficInv
<1>2. DOMAIN entries = DOMAIN Steps
  BY <1>1, StepFacts
<1>3. \A i \in DOMAIN Steps : \A q, hop : Steps[i] = Route(q, hop) =>
         q \in DOMAIN table \ DOMAIN ambient /\ table[q] = hop
  BY <1>2 DEF TrafficInv, Route
<1>4. 1 \in DOMAIN Steps /\ Steps[1] = Route(Pin, Via(plan.gateway)) /\ Steps[2] = Device
  BY <1>1, StepFacts DEF EndpointRoute, Pin
<1>5. ASSUME NEW p \in DOMAIN table \ DOMAIN ambient, p # Pin
      PROVE  \E i \in DOMAIN Steps : i > 2 /\ Steps[i] = Route(p, table[p])
  <2>1. PICK i \in DOMAIN Steps : Steps[i].kind = "route" /\ Steps[i].destination = p /\ Steps[i].hop = table[p]
    BY <1>2 DEF RouteInv, TableInv
  <2>2. i # 1 /\ i # 2
    BY <1>4, <1>5, <2>1 DEF Route, Device
  <2>3. i > 2
    BY <1>1, <2>2, StepFacts
  <2>4. PICK q \in Prefixes, hop \in {Direct("utun"), Rejected} : Steps[i] = Route(q, hop)
    BY <1>1, <2>3, StepFacts
  <2>5. QED
    BY <2>1, <2>3, <2>4 DEF Route
<1>6. /\ DOMAIN ambient \subseteq DOMAIN table /\ DOMAIN table \subseteq Prefixes
      /\ \A p \in DOMAIN ambient : table[p] = ambient[p] /\ Canonical(p)
  BY DEF RouteInv, TableInv, TrafficInv
<1>7. ASSUME NEW p \in DOMAIN table \ DOMAIN ambient
      PROVE  Canonical(p)
  <2>1. CASE p = Pin
    <3>1. Power[0] = 1 /\ plan.endpoint \in Nat
      BY <1>1, PlanTyped, PowerFacts
    <3>2. QED
      BY <2>1, <3>1, WidthAssumption DEF Canonical, Pin, Prefix, Width
  <2>2. CASE p # Pin
    <3>1. PICK i \in DOMAIN Steps : i > 2 /\ Steps[i] = Route(p, table[p])
      BY <1>5, <2>2
    <3>2. \A q, hop : Steps[i] = Route(q, hop) => p = q
      BY <3>1 DEF Route
    <3>3. CASE plan.policy = "full_ipv4"
      BY <1>1, <3>1, <3>2, <3>3, PolicyRoutes, HalvesTyped
    <3>4. CASE plan.policy = "scoped_ipv4"
      BY <1>1, <3>1, <3>2, <3>4, PolicyRoutes
    <3>5. QED
      BY <1>1, <3>3, <3>4, PlanTyped
  <2>3. QED
    BY <2>1, <2>2
<1>8. QED
  BY <1>1, <1>3, <1>4, <1>5, <1>6, <1>7

\* The longest prefix decides, and no two in the table are equally long.
LEMMA BestIs ==
    ASSUME NEW t, \A p \in DOMAIN t : p \in Prefixes /\ Canonical(p),
           NEW a, NEW p \in Matching(t, a), \A q \in Matching(t, a) : q.bits <= p.bits
    PROVE  Best(t, a) = p /\ Resolve(t, a) = t[p]
<1>1. /\ Best(t, a) \in Matching(t, a)
      /\ p.bits <= Best(t, a).bits
  BY BestIsLongest
<1>2. Best(t, a).bits = p.bits
  BY <1>1 DEF Matching, Prefixes
<1>3. Best(t, a) = p
  BY <1>1, <1>2, SamePrefix DEF Matching
<1>4. QED
  BY <1>3 DEF Resolve

\* The length that ambient traffic is routed by.
Length(a) == IF Matching(ambient, a) = {} THEN 0 ELSE Best(ambient, a).bits

\* Where none of the session's routes is longer than what others routed, the
\* traffic goes where it went.
LEMMA AmbientDecides ==
    ASSUME RouteInv, TrafficInv, pc = "connected", Undisturbed, NEW a,
           \A p \in DOMAIN table \ DOMAIN ambient :
              Contains(p, a) => p.bits >= 1 /\ p.bits <= Length(a)
    PROVE  Resolve(table, a) = Resolve(ambient, a)
<1>1. /\ \A p \in DOMAIN table : p \in Prefixes /\ Canonical(p) /\ p.bits \in Nat
      /\ DOMAIN ambient \subseteq DOMAIN table
      /\ \A p \in DOMAIN ambient : table[p] = ambient[p]
  BY ConnectedTable DEF Prefixes
<1>2. CASE Matching(ambient, a) = {}
  <2>1. Matching(table, a) = {}
    BY <1>1, <1>2 DEF Matching, Length
  <2>2. QED
    BY <1>2, <2>1 DEF Resolve
<1>3. CASE Matching(ambient, a) # {}
  <2> DEFINE b == Best(ambient, a)
  <2>1. b \in Matching(ambient, a) /\ \A q \in Matching(ambient, a) : q.bits <= b.bits
    BY <1>1, <1>3, BestIsLongest
  <2>2. Length(a) = b.bits /\ Resolve(ambient, a) = ambient[b]
    BY <1>3 DEF Length, Resolve
  <2> HIDE DEF b
  <2>3. b \in Matching(table, a) /\ ambient[b] = table[b]
    BY <1>1, <2>1 DEF Matching
  <2>4. \A q \in Matching(table, a) : q.bits <= b.bits
    BY <2>1, <2>2 DEF Matching
  <2>5. Resolve(table, a) = table[b]
    BY <1>1, <2>3, <2>4, BestIs
  <2>6. QED
    BY <2>2, <2>3, <2>5
<1>4. QED
  BY <1>2, <1>3

-----------------------------------------------------------------------------
(* The theorems.                                                           *)

\* A complete rollback leaves the table as if the session had never been,
\* whoever rolled back, however often it failed first and whatever routes others
\* set meanwhile: RouteManager.Remove and DeleteOwned take nothing else.
THEOREM RollbackRestores == Spec => []RestoredExactly
<1>1. RouteInv => RestoredExactly
  <2> SUFFICES ASSUME RouteInv, RolledBack PROVE table = ambient
    BY DEF RestoredExactly
  <2>1. DOMAIN table = DOMAIN ambient
    BY DEF RouteInv, TableInv, RolledBack
  <2>2. \A p \in DOMAIN table : table[p] = ambient[p]
    BY <2>1 DEF RouteInv, TableInv
  <2>3. /\ table = [p \in DOMAIN table |-> table[p]]
        /\ ambient = [p \in DOMAIN ambient |-> ambient[p]]
    BY DEF RouteInv, TableInv, AmbientInv
  <2>4. QED
    BY <2>1, <2>2, <2>3
<1>2. QED
  BY <1>1, RouteInitial, RouteStep, PTL DEF Spec

\* At every moment of Connect and of a rollback that has not failed, the server
\* and the router are reached outside the tunnel: the pin is added first and
\* removed last, and validatePolicy keeps both out of the scoped prefixes.
THEOREM UnderlayIsPinned == Spec => []UnderlayNeverLoops
<1>1. RouteInv => UnderlayNeverLoops
  <2> SUFFICES ASSUME RouteInv, ~failed, NEW a \in {Endpoint, Gateway}, Resolve(table, a).interface = "utun"
               PROVE  FALSE
    BY DEF UnderlayNeverLoops
  <2>1. Matching(table, a) # {} /\ Resolve(table, a) = table[Best(table, a)]
    BY DEF Resolve, Unreachable, Hop
  <2> DEFINE p == Best(table, a)
  <2>2. /\ p \in Matching(table, a)
        /\ \A q \in Matching(table, a) : q.bits <= p.bits
    BY <2>1, BestIsLongest DEF RouteInv, TableInv
  <2>3. p \in DOMAIN table /\ table[p].interface = "utun" /\ Contains(p, a)
    BY <2>1, <2>2 DEF Matching
  <2> HIDE DEF p
  <2>4. PICK i \in DOMAIN entries :
           /\ i > 2 /\ entries[i] # "rolled_back"
           /\ p.bits = 1 \/ (~Contains(p, Endpoint) /\ ~Contains(p, Gateway))
    BY <2>3, UtunIsOwn
  <2>5. p.bits = 1
    BY <2>3, <2>4
  <2>6. plan \in Plans /\ Prepared /\ entries \in Seq({"planned", "applied", "rolled_back"})
    BY <2>4 DEF RouteInv, PlanInv
  <2>7. CASE a = Endpoint
    <3>1. i > 1
      BY <2>4, <2>6
    <3>2. Pin \in DOMAIN table
      BY <2>4, <3>1 DEF RouteInv, PinInv
    <3>3. Contains(Pin, a) /\ Pin.bits = Bits4
      BY <2>7 DEF Contains, Pin, Prefix, Endpoint, Address
    <3>4. QED
      BY <2>2, <2>5, <3>2, <3>3, WidthAssumption DEF Matching
  <2>8. CASE a = Gateway
    <3>1. plan.gateway \in Gateways /\ Lan[plan.gateway] \in DOMAIN table
      BY <2>6 DEF RouteInv, AmbientInv, TableInv
    <3>2. Contains(Lan[plan.gateway], a) /\ Lan[plan.gateway].bits > 1 /\ Lan[plan.gateway].bits \in Nat
      BY <2>8, <3>1, LanAssumption DEF Gateway, Prefixes
    <3>3. QED
      BY <2>2, <2>5, <3>1, <3>2 DEF Matching
  <2>9. QED
    BY <2>7, <2>8
<1>2. QED
  BY <1>1, RouteInitial, RouteStep, PTL DEF Spec

\* A connected session moves exactly the traffic it is for, for every plan that
\* Validate accepts and whatever others change beside its prefixes: the pin is
\* the server's alone, the halves cover a family and give way to any other
\* route, and no route of TunnelRoutes was there before.
THEOREM TrafficIsAsPlanned == Spec => []TrafficAsPlanned
<1>1. RouteInv /\ TrafficInv => TrafficAsPlanned
  <2> SUFFICES ASSUME RouteInv, TrafficInv, pc = "connected", Undisturbed, NEW a \in Addresses
               PROVE  Resolve(table, a) = Planned(a)
    BY DEF TrafficAsPlanned
  <2>1. /\ plan \in Plans /\ ValidPlan
        /\ \A p \in DOMAIN table : p \in Prefixes /\ Canonical(p) /\ p.bits \in Nat
        /\ DOMAIN ambient \subseteq DOMAIN table
        /\ Pin \in DOMAIN table \ DOMAIN ambient /\ table[Pin] = Via(plan.gateway)
        /\ \A i \in DOMAIN Steps : \A q, hop : Steps[i] = Route(q, hop) =>
              q \in DOMAIN table \ DOMAIN ambient /\ table[q] = hop
        /\ \A p \in DOMAIN table \ DOMAIN ambient : p # Pin =>
              \E i \in DOMAIN Steps : i > 2 /\ Steps[i] = Route(p, table[p])
    BY ConnectedTable DEF Prefixes
  <2>2. \A p \in Matching(ambient, a) : p.bits <= Length(a)
    <3>1. DOMAIN ambient \subseteq Prefixes
      BY <2>1
    <3>2. QED
      BY <3>1, BestIsLongest DEF Length
  <2>3. Length(a) \in Nat
    BY <2>1, BestIsLongest DEF Length, Matching
  <2>4. \A q1, q2, h1, h2 : Route(q1, h1) = Route(q2, h2) => q1 = q2 /\ h1 = h2
    BY DEF Route
  <2>5. CASE a = Endpoint
    <3>1. Pin \in Matching(table, a) /\ a.family = "inet" /\ Pin.bits = Bits4
      BY <2>1, <2>5, PinIsEndpoint DEF Matching, Endpoint, Address, Pin, Prefix
    <3>2. \A q \in Matching(table, a) : q.bits <= Pin.bits
      BY <2>1, <3>1 DEF Matching, Contains, Prefixes, Width
    <3>3. Resolve(table, a) = Via(plan.gateway)
      BY <2>1, <3>1, <3>2, BestIs
    <3>4. Planned(a) = Via(plan.gateway)
      BY <2>5 DEF Planned
    <3>5. QED
      BY <3>3, <3>4
  <2>6. CASE a # Endpoint /\ plan.policy = "full_ipv4"
    <3>1. PICK h \in Halves(a.family) : Contains(h, a)
      BY HalvesCover
    <3>2. a.family \in {"inet", "inet6"} /\ h \in Prefixes /\ Canonical(h) /\ h.bits = 1
      BY <3>1, HalvesCover, HalvesTyped
    <3>3. /\ h \in DOMAIN table \ DOMAIN ambient
          /\ table[h] = IF a.family = "inet" THEN Direct("utun") ELSE Rejected
      BY <2>1, <2>6, <3>1, <3>2, PolicyRoutes
    <3>4. ASSUME NEW p \in DOMAIN table \ DOMAIN ambient, Contains(p, a)
          PROVE  p.bits = 1
      <4>1. PICK i \in DOMAIN Steps : i > 2 /\ Steps[i] = Route(p, table[p])
        BY <2>1, <2>6, <3>4, PinIsEndpoint
      <4>2. p \in Halves("inet") \/ p \in Halves("inet6")
        BY <2>1, <2>4, <2>6, <4>1, PolicyRoutes
      <4>3. QED
        BY <4>2, HalvesTyped
    <3>5. CASE Length(a) = 0
      <4>1. \A q \in Matching(table, a) : q.bits <= h.bits
        BY <2>1, <2>2, <3>2, <3>4, <3>5 DEF Matching
      <4>2. Resolve(table, a) = table[h]
        BY <2>1, <3>1, <3>3, <4>1, BestIs DEF Matching
      <4>3. Planned(a) = IF a.family = "inet" THEN Direct("utun") ELSE Rejected
        BY <2>1, <2>6, <3>5, PolicyRoutes DEF Planned, Length
      <4>4. QED
        BY <3>3, <4>2, <4>3
    <3>6. CASE Length(a) # 0
      <4>1. Resolve(table, a) = Resolve(ambient, a)
        BY <2>3, <3>4, <3>6, AmbientDecides
      <4>2. Planned(a) = Resolve(ambient, a)
        BY <2>1, <2>6, <3>6, PolicyRoutes DEF Planned, Length
      <4>3. QED
        BY <4>1, <4>2
    <3>7. QED
      BY <3>5, <3>6
  <2>7. CASE a # Endpoint /\ plan.policy = "scoped_ipv4"
    <3>1. ASSUME NEW p \in DOMAIN table \ DOMAIN ambient, Contains(p, a)
          PROVE  table[p] = Direct("utun") /\ p.bits >= 1 /\ \E k \in DOMAIN plan.scoped : p = plan.scoped[k]
      <4>1. PICK i \in DOMAIN Steps : i > 2 /\ Steps[i] = Route(p, table[p])
        BY <2>1, <2>7, <3>1, PinIsEndpoint
      <4>2. PICK k \in DOMAIN plan.scoped : Steps[i] = Route(plan.scoped[k], Direct("utun"))
        BY <2>1, <2>7, <4>1, PolicyRoutes
      <4>3. p = plan.scoped[k] /\ table[p] = Direct("utun")
        BY <4>1, <4>2 DEF Route
      <4>4. QED
        BY <2>1, <2>7, <4>3, PolicyRoutes
    <3>2. CASE \E k \in DOMAIN plan.scoped : Contains(plan.scoped[k], a) /\ plan.scoped[k].bits > Length(a)
      <4>1. PICK k \in DOMAIN plan.scoped : Contains(plan.scoped[k], a) /\ plan.scoped[k].bits > Length(a)
        BY <3>2
      <4>2. plan.scoped[k] \in Matching(table, a)
        BY <2>1, <2>7, <4>1, PolicyRoutes DEF Matching
      <4> DEFINE b == Best(table, a)
      <4>3. b \in Matching(table, a) /\ plan.scoped[k].bits <= b.bits /\ Resolve(table, a) = table[b]
        BY <2>1, <4>2, BestIsLongest DEF Resolve
      <4> HIDE DEF b
      <4>4. b \in DOMAIN table /\ Contains(b, a) /\ b.bits > Length(a)
        BY <2>1, <2>3, <4>1, <4>2, <4>3 DEF Matching
      <4>5. b \notin DOMAIN ambient
        BY <2>1, <2>2, <2>3, <4>4 DEF Matching
      <4>6. Resolve(table, a) = Direct("utun")
        BY <3>1, <4>3, <4>4, <4>5
      <4>7. Planned(a) = Direct("utun")
        BY <2>7, <3>2 DEF Planned, Length
      <4>8. QED
        BY <4>6, <4>7
    <3>3. CASE ~\E k \in DOMAIN plan.scoped : Contains(plan.scoped[k], a) /\ plan.scoped[k].bits > Length(a)
      <4>1. \A p \in DOMAIN table \ DOMAIN ambient : Contains(p, a) => p.bits >= 1 /\ p.bits <= Length(a)
        BY <2>1, <2>3, <3>1, <3>3
      <4>2. Resolve(table, a) = Resolve(ambient, a)
        BY <4>1, AmbientDecides
      <4>3. Planned(a) = Resolve(ambient, a)
        BY <2>7, <3>3 DEF Planned, Length
      <4>4. QED
        BY <4>2, <4>3
    <3>4. QED
      BY <3>2, <3>3
  <2>8. QED
    BY <2>1, <2>5, <2>6, <2>7, PlanTyped
<1>2. QED
  BY <1>1, RouteInitial, RouteStep, TrafficInitial, TrafficStep, PTL DEF Spec

=============================================================================

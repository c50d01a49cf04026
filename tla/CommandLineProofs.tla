------------------------- MODULE CommandLineProofs -------------------------
(***************************************************************************)
(* Proofs about CommandLine, and about Recommendation and Provisioning as  *)
(* it uses them: for every catalogue, every answer of the API, every       *)
(* number of arguments and every limit on the token and the answer.        *)
(***************************************************************************)
EXTENDS CommandLine, TLAPS, WellFoundedInduction, SequenceTheorems

-----------------------------------------------------------------------------
(* Loops.                                                                  *)

\* A set of natural numbers has a least element.
LEMMA LeastNumber ==
    ASSUME NEW T, T \subseteq Nat, T # {}
    PROVE  \E x \in T : \A y \in T : ~(y < x)
<1>1. \E x \in T : \A y \in T : <<y, x>> \notin OpToRel(<, Nat)
  BY WFMin, NatLessThanWellFounded
<1>2. \A x \in T, y \in T : y < x => <<y, x>> \in OpToRel(<, Nat)
  BY DEF OpToRel
<1>3. QED
  BY <1>1, <1>2

\* What holds at 0 and goes from i - 1 to i holds up to n: how a loop's
\* invariant, the set of the turns at which it holds, is used below.
LEMMA Induction ==
    ASSUME NEW n \in Nat, NEW P, 0 \in P, \A i \in 1..n : i - 1 \in P => i \in P
    PROVE  0..n \subseteq P
<1> DEFINE T == (0..n) \ P
<1> SUFFICES ASSUME T # {} PROVE FALSE
  OBVIOUS
<1>1. T \subseteq Nat
  OBVIOUS
<1> HIDE DEF T
<1>2. PICK x \in T : \A y \in T : ~(y < x)
  BY <1>1, LeastNumber
<1>3. x \in 0..n /\ x \notin P
  BY DEF T
<1>4. x \in 1..n /\ x - 1 \in 0..n /\ x - 1 < x
  BY <1>3
<1>5. x - 1 \notin T
  BY <1>2, <1>4
<1>6. x - 1 \in P
  BY <1>4, <1>5 DEF T
<1> QED
  BY <1>3, <1>4, <1>6

\* The turns of a loop over n elements, whose states are in S, and how it
\* goes from one state to the next.
Turns(n, S) == [S \X (1..n) -> S]
Goes(f, n, S, base, turn) ==
    f \in [0..n -> S] /\ f[0] = base /\ \A i \in 1..n : f[i] = turn[<<f[i - 1], i>>]

\* A loop over n elements has a state after each of its turns.
LEMMA Iteration ==
    ASSUME NEW n \in Nat, NEW S, NEW base \in S, NEW turn \in Turns(n, S)
    PROVE  \E f : Goes(f, n, S, base, turn)
<1> USE DEF Turns
<1> DEFINE F(m) == {f \in [0..m -> S] : f[0] = base /\ \A i \in 1..m : f[i] = turn[<<f[i - 1], i>>]}
           P == {m \in Nat : F(m) # {}}
<1>1. 0 \in P
  <2>1. [i \in 0..0 |-> base] \in F(0)
    OBVIOUS
  <2> QED
    BY <2>1
<1>2. ASSUME NEW m \in 1..n, m - 1 \in P
      PROVE  m \in P
  <2>1. PICK f \in [0..(m - 1) -> S] : f[0] = base /\ \A i \in 1..(m - 1) : f[i] = turn[<<f[i - 1], i>>]
    BY <1>2
  <2> DEFINE g == [i \in 0..m |-> IF i = m THEN turn[<<f[m - 1], m>>] ELSE f[i]]
  <2>2. f[m - 1] \in S /\ turn[<<f[m - 1], m>>] \in S
    OBVIOUS
  <2>3. \A i \in 0..m : i # m => i \in 0..(m - 1) /\ f[i] \in S
    OBVIOUS
  <2>4. g \in [0..m -> S]
    BY <2>2, <2>3
  <2>5. g[0] = base
    BY <2>1
  <2>6. ASSUME NEW i \in 1..m
        PROVE  g[i] = turn[<<g[i - 1], i>>]
    <3>1. i - 1 \in 0..m /\ i - 1 # m /\ g[i - 1] = f[i - 1]
      OBVIOUS
    <3>2. i # m => i \in 1..(m - 1)
      OBVIOUS
    <3> QED
      BY <2>1, <3>1, <3>2
  <2>7. g \in F(m)
    BY <2>4, <2>5, <2>6
  <2> HIDE DEF F, g
  <2> QED
    BY <2>7
<1> HIDE DEF P
<1>3. 0..n \subseteq P
  BY <1>1, <1>2, Induction
<1>4. n \in P
  BY <1>3
<1> QED
  BY <1>4 DEF P, Goes

-----------------------------------------------------------------------------
(* Select.                                                                 *)

\* A server is not the error that no server matches.
LEMMA ServerIsNoError ==
    ASSUME NEW server \in Servers
    PROVE  server # NoMatch /\ IsHost(server.host)
<1>1. PICK d \in DTOs : server = Convert(d)
  BY DEF Servers
<1>2. server.host = d.host
  BY <1>1 DEF Convert
<1>3. "host" \in DOMAIN server
  BY <1>1 DEF Convert
<1>4. DOMAIN NoMatch = {"error"}
  BY DEF NoMatch, Error
<1> QED
  BY <1>2, <1>3, <1>4, APIAssumption

\* A loop over the servers that takes the turns of Select.
Considers(loop, servers, c, cityID, wantHost) ==
    /\ loop[0] = [seen |-> {}, found |-> NoMatch]
    /\ \A i \in 1..Len(servers) : loop[i] = Consider(loop[i - 1], servers[i], c, cityID, wantHost)

\* Select's loop satisfies its recursion.
LEMMA SelectLoopDefined ==
    ASSUME NEW servers \in Seq(Servers), NEW c, NEW cityID, NEW wantHost
    PROVE  Considers(SelectLoop(servers, c, cityID, wantHost), servers, c, cityID, wantHost)
<1> DEFINE n == Len(servers)
           S == [seen : SUBSET {servers[i].host : i \in 1..n}, found : Servers \cup {NoMatch}]
           base == [seen |-> {}, found |-> NoMatch]
           next(p) == Consider(p[1], servers[p[2]], c, cityID, wantHost)
           turn == [p \in S \X (1..n) |-> next(p)]
<1>1. n \in Nat /\ base \in S
  OBVIOUS
<1>2. ASSUME NEW s \in S, NEW i \in 1..n
      PROVE  Consider(s, servers[i], c, cityID, wantHost) \in S
  <2>1. servers[i] \in Servers /\ servers[i].host \in {servers[k].host : k \in 1..n}
    OBVIOUS
  <2> QED
    BY <2>1 DEF Consider
<1>3. turn \in Turns(n, S)
  <2>1. ASSUME NEW p \in S \X (1..n)
        PROVE  next(p) \in S
    <3>1. p[1] \in S /\ p[2] \in 1..n
      OBVIOUS
    <3> HIDE DEF S, n
    <3> QED
      BY <1>2, <3>1
  <2> HIDE DEF S, next
  <2> QED
    BY <2>1 DEF Turns
<1> HIDE DEF S, turn, base, n
<1>4. PICK f : Goes(f, n, S, base, turn)
  BY <1>1, <1>3, Iteration
<1>5. ASSUME NEW i \in 1..n
      PROVE  f[i] = Consider(f[i - 1], servers[i], c, cityID, wantHost)
  <2>1. i - 1 \in 0..n /\ f[i - 1] \in S
    BY <1>1, <1>4 DEF Goes
  <2>2. turn[<<f[i - 1], i>>] = Consider(f[i - 1], servers[i], c, cityID, wantHost)
    BY <2>1 DEF turn
  <2> QED
    BY <1>4, <2>2 DEF Goes
<1>6. f = [i \in 0..n |-> IF i = 0 THEN base ELSE Consider(f[i - 1], servers[i], c, cityID, wantHost)]
  <2>1. \A i \in 0..n : i # 0 => i \in 1..n
    BY <1>1
  <2> QED
    BY <1>4, <1>5, <2>1 DEF Goes
<1> DEFINE loop == SelectLoop(servers, c, cityID, wantHost)
<1>7. loop = [i \in 0..n |-> IF i = 0 THEN base ELSE Consider(loop[i - 1], servers[i], c, cityID, wantHost)]
  BY <1>6 DEF SelectLoop, n, base
<1> HIDE DEF loop
<1>8. loop[0] = base /\ \A i \in 1..n : loop[i] = Consider(loop[i - 1], servers[i], c, cityID, wantHost)
  <2>1. 0 \in 0..n /\ \A i \in 1..n : i \in 0..n /\ i # 0
    BY <1>1
  <2> QED
    BY <1>7, <2>1
<1> QED
  BY <1>8 DEF loop, n, base, Considers

\* The condition of Select's loop on a server whose host is new to it.
Qualifies(server, c, cityID, wantHost) ==
    /\ InPlace(server, c, cityID)
    /\ wantHost # NoHost => server.host = wantHost
    /\ Usable(server)

\* Among the first i servers, those with a new host that qualify.
Candidates(servers, i, c, cityID, wantHost) ==
    {k \in 1..i : /\ \A j \in 1..(k - 1) : servers[j].host # servers[k].host
                  /\ Qualifies(servers[k], c, cityID, wantHost)}

\* Select returns the first candidate, and no_match only if there is none.
\* Until it has found one, its loop has seen the hosts of all servers so far.
LEMMA SelectFindsFirst ==
    ASSUME NEW servers \in Seq(Servers), NEW c, NEW cityID, NEW wantHost
    PROVE  LET all == Candidates(servers, Len(servers), c, cityID, wantHost)
               found == SelectLoop(servers, c, cityID, wantHost)[Len(servers)].found
           IN  IF all = {} THEN found = NoMatch
               ELSE \E k \in all : found = servers[k] /\ \A m \in all : k <= m
<1> DEFINE n == Len(servers)
           loop == SelectLoop(servers, c, cityID, wantHost)
           C(i) == Candidates(servers, i, c, cityID, wantHost)
           seen(i) == {servers[k].host : k \in 1..i}
           good(i) == IF C(i) = {} THEN loop[i] = [seen |-> seen(i), found |-> NoMatch]
                      ELSE \E k \in C(i) : loop[i].found = servers[k] /\ \A m \in C(i) : k <= m
           P == {i \in 0..n : good(i)}
<1>0. n \in Nat
  OBVIOUS
<1>1. /\ loop[0] = [seen |-> {}, found |-> NoMatch]
      /\ \A i \in 1..n : loop[i] = Consider(loop[i - 1], servers[i], c, cityID, wantHost)
  <2>1. Considers(loop, servers, c, cityID, wantHost)
    BY SelectLoopDefined
  <2> HIDE DEF loop
  <2> QED
    BY <2>1 DEF Considers
<1> HIDE DEF loop
<1>2. 0 \in P
  <2>1. C(0) = {} /\ seen(0) = {}
    BY DEF Candidates
  <2> HIDE DEF C, seen
  <2>2. good(0)
    BY <1>1, <2>1
  <2> HIDE DEF good
  <2> QED
    BY <1>0, <2>2
<1>3. ASSUME NEW i \in 1..n, i - 1 \in P
      PROVE  i \in P
  <2> DEFINE s == servers[i]
             new == s.host \notin seen(i - 1)
             fits == Qualifies(s, c, cityID, wantHost)
  <2>0. s \in Servers /\ i \in 0..n /\ i - 1 \in 0..n
    BY <1>0
  <2>1. s # NoMatch /\ \A k \in 1..n : servers[k] # NoMatch
    BY ServerIsNoError
  <2>2. \A k : k \in C(i) <=> k \in C(i - 1) \/ (k = i /\ new /\ fits)
    <3>1. \A k \in 1..i : k \in 1..(i - 1) \/ k = i
      OBVIOUS
    <3>2. new <=> \A j \in 1..(i - 1) : servers[j].host # s.host
      OBVIOUS
    <3>3. \A k \in 1..(i - 1) : k \in 1..i
      OBVIOUS
    <3>4. i \in 1..i /\ i \notin 1..(i - 1)
      OBVIOUS
    <3> HIDE DEF new
    <3> QED
      BY <3>1, <3>2, <3>3, <3>4 DEF Candidates
  <2>3. seen(i) = seen(i - 1) \cup {s.host}
    <3>1. \A k \in 1..i : k \in 1..(i - 1) \/ k = i
      OBVIOUS
    <3>2. i \in 1..i /\ \A k \in 1..(i - 1) : k \in 1..i
      OBVIOUS
    <3> QED
      BY <3>1, <3>2
  <2>4. C(i - 1) \subseteq 1..n /\ C(i - 1) \subseteq 1..(i - 1)
    BY <1>0 DEF Candidates
  <2>5. loop[i] = Consider(loop[i - 1], s, c, cityID, wantHost) /\ good(i - 1)
    BY <1>1, <1>3
  <2> HIDE DEF seen, C
  <2>6. CASE C(i - 1) # {}
    <3>1. PICK k \in C(i - 1) : loop[i - 1].found = servers[k] /\ \A m \in C(i - 1) : k <= m
      BY <2>5, <2>6
    <3>2. loop[i] = loop[i - 1]
      BY <2>1, <2>4, <2>5, <3>1 DEF Consider
    <3>3. k \in C(i) /\ \A m \in C(i) : k <= m
      BY <2>2, <2>4, <3>1
    <3> QED
      BY <2>0, <3>1, <3>2, <3>3
  <2>7. CASE C(i - 1) = {} /\ ~new
    <3>1. loop[i - 1] = [seen |-> seen(i - 1), found |-> NoMatch]
      BY <2>5, <2>7
    <3>2. loop[i] = loop[i - 1] /\ seen(i) = seen(i - 1)
      BY <2>3, <2>5, <2>7, <3>1 DEF Consider
    <3>3. C(i) = {}
      BY <2>2, <2>7
    <3> QED
      BY <2>0, <3>1, <3>2, <3>3
  <2>8. CASE C(i - 1) = {} /\ new
    <3>1. loop[i - 1] = [seen |-> seen(i - 1), found |-> NoMatch]
      BY <2>5, <2>8
    <3>2. loop[i] = [seen |-> seen(i), found |-> IF fits THEN s ELSE NoMatch]
      BY <2>3, <2>5, <2>8, <3>1 DEF Consider, Qualifies
    <3>3. C(i) = IF fits THEN {i} ELSE {}
      BY <2>2, <2>8
    <3> HIDE DEF fits
    <3>4. good(i)
      <4>1. CASE fits
        BY <3>2, <3>3, <4>1, <2>0
      <4>2. CASE ~fits
        BY <3>2, <3>3, <4>2
      <4> QED
        BY <4>1, <4>2
    <3> HIDE DEF good
    <3> QED
      BY <2>0, <3>4
  <2> QED
    BY <2>6, <2>7, <2>8
<1> HIDE DEF P
<1>4. 0..n \subseteq P
  BY <1>0, <1>2, <1>3, Induction
<1>5. n \in P
  BY <1>0, <1>4
<1>6. good(n)
  BY <1>5 DEF P
<1>7. C(n) = {} => loop[n].found = NoMatch
  BY <1>6
<1> QED
  BY <1>6, <1>7 DEF loop

\* What normalizeServer makes of a server's name, compared with a host.
LEMMA NormalizedHost ==
    ASSUME NEW want, NEW host, IsHost(want), IsHost(host)
    PROVE  LET named == want.label \notin {"", " "} \/ want.domain # ""
           IN  /\ NormalizeServer(want) # NoHost <=> named
               /\ named => (host = NormalizeServer(want) <=>
                             /\ host.label = want.label
                             /\ host.domain = IF want.domain = "" THEN "nordvpn.com" ELSE want.domain)
<1>1. PICK l, d : want = [label |-> l, domain |-> d]
  BY DEF IsHost
<1>2. PICK m, e : host = [label |-> m, domain |-> e]
  BY DEF IsHost
<1>3. \A x : [want EXCEPT !.domain = x] = [label |-> l, domain |-> x]
  BY <1>1
<1>4. \A x, y, v, w : [label |-> x, domain |-> y] = [label |-> v, domain |-> w] <=> x = v /\ y = w
  <2>1. \A x, y : [label |-> x, domain |-> y].label = x /\ [label |-> x, domain |-> y].domain = y
    OBVIOUS
  <2> QED
    BY <2>1
<1>5. want.label = l /\ want.domain = d /\ host.label = m /\ host.domain = e
  BY <1>1, <1>2
<1>6. Letters(l) = "" <=> l \in {"", " "}
  BY DEF Letters
<1> DEFINE made == NormalizeServer(want)
           dd == IF d = "" THEN "nordvpn.com" ELSE d
<1>7. CASE l \in {"", " "} /\ d = ""
  <2>1. made = NoHost
    BY <1>5, <1>6, <1>7 DEF NormalizeServer
  <2> QED
    BY <1>5, <1>7, <2>1
<1>8. CASE ~(l \in {"", " "} /\ d = "")
  <2>1. made = [label |-> l, domain |-> dd]
    BY <1>1, <1>3, <1>5, <1>6, <1>8 DEF NormalizeServer
  <2>2. dd # ""
    OBVIOUS
  <2> HIDE DEF made, dd
  <2>3. made # NoHost
    BY <1>4, <2>1, <2>2 DEF NoHost
  <2>4. host = made <=> m = l /\ e = dd
    BY <1>2, <1>4, <2>1
  <2> QED
    BY <1>5, <1>8, <2>3, <2>4 DEF made, dd
<1> QED
  BY <1>7, <1>8

-----------------------------------------------------------------------------
(* Service.Recommend.                                                      *)

\* A country is asked for, and only one matches.
OnlyMatch(list, matches, text) ==
    text # "" /\ \E i \in matches : matches = {i} /\ Resolve(list, matches, text) = list[i]

\* A result that is no error is the only match.
LEMMA ResolvedIsOnly ==
    ASSUME NEW list, NEW matches, NEW text, Resolve(list, matches, text) \notin Errors
    PROVE  OnlyMatch(list, matches, text)
<1>1. Invalid \in Errors /\ NoMatch \in Errors /\ Ambiguous \in Errors
  BY DEF Errors
<1> HIDE DEF Errors, Invalid, NoMatch, Ambiguous
<1>2. text # ""
  BY <1>1 DEF Resolve
<1>3. matches # {}
  BY <1>1, <1>2 DEF Resolve
<1>4. \A i, j \in matches : i = j
  BY <1>1, <1>2, <1>3 DEF Resolve
<1>5. Resolve(list, matches, text) = list[CHOOSE i \in matches : TRUE]
  BY <1>2, <1>3, <1>4 DEF Resolve
<1> DEFINE one == CHOOSE i \in matches : TRUE
<1>6. one \in matches
  BY <1>3
<1> HIDE DEF one
<1>7. matches = {one}
  BY <1>4, <1>6
<1> QED
  BY <1>2, <1>5, <1>6, <1>7 DEF one, OnlyMatch

\* A bounded sequence is a sequence.
LEMMA SeqOfIsSeq ==
    ASSUME NEW S, NEW n, NEW s \in SeqOf(S, n)
    PROVE  s \in Seq(S)
<1>1. PICK m \in 0..n : s \in [1..m -> S]
  BY DEF SeqOf
<1>2. m \in Nat
  OBVIOUS
<1> QED
  BY <1>1, <1>2

\* Before a reply there is little to be said of a call.
LEMMA NoReplyYet ==
    ASSUME IsHost(query.host), catalogue \in Seq(Countries), city = 0, reply = <<>>,
           pc \in {"idle", "country"} \/ (pc = "done" /\ result \in Errors)
    PROVE  RecommendationInv
<1>1. SelectIsFirstWanted
  BY DEF SelectIsFirstWanted, Selected
<1>2. reply \in Seq(Servers)
  OBVIOUS
<1> QED
  BY <1>1, <1>2 DEF RecommendationInv, CallIsInOrder, Recommended

\* No host has the shape of a host.
LEMMA NoQueryIsQuery == IsHost(NoHost) /\ IsHost(NoQuery.host)
BY DEF IsHost, NoHost, NoQuery

\* A call that rests is in order.
LEMMA RestingIsInOrder == Resting => RecommendationInv
BY NoQueryIsQuery, NoReplyYet DEF Resting

\* So is what the end of an invocation leaves of it.
LEMMA RestIsInOrder == Rest => RecommendationInv'
<1> SUFFICES ASSUME Rest PROVE RecommendationInv'
  OBVIOUS
<1>2. IsHost(query'.host) /\ catalogue' \in Seq(Countries) /\ reply' = <<>> /\ pc' = "idle"
  BY NoQueryIsQuery DEF Rest
<1>3. SelectIsFirstWanted'
  BY <1>2 DEF SelectIsFirstWanted, Selected
<1> QED
  BY <1>2, <1>3 DEF RecommendationInv, CallIsInOrder, Recommended

\* A call that begins is in order.
LEMMA RecommendIsInOrder ==
    ASSUME NEW q, IsHost(q.host), Recommend(q)
    PROVE  RecommendationInv'
<1>1. query' = q /\ reply' = <<>> /\ country' = None /\ city' = 0
  BY DEF Recommend
<1>2. catalogue' \in Seq(Countries)
  <2>1. \A s \in SeqOf(Countries, MaxCountries) : s \in Seq(Countries)
    BY SeqOfIsSeq
  <2>2. <<>> \in Seq(Countries)
    OBVIOUS
  <2> QED
    BY <2>1, <2>2 DEF Recommend
<1>3. pc' = "country" \/ (pc' = "done" /\ result' \in Errors)
  BY DEF Recommend, Errors
<1>4. SelectIsFirstWanted'
  BY <1>1 DEF SelectIsFirstWanted, Selected
<1> QED
  BY <1>1, <1>2, <1>3, <1>4 DEF RecommendationInv, CallIsInOrder, Recommended

\* A step that does not touch the call leaves it in order.
LEMMA CallUntouched ==
    ASSUME RecommendationInv, UNCHANGED recommendation
    PROVE  RecommendationInv'
<1>1. /\ query' = query /\ catalogue' = catalogue /\ country' = country /\ city' = city
      /\ reply' = reply /\ result' = result /\ pc' = pc
  BY DEF recommendation
<1>2. CountryIsResolved' = CountryIsResolved
  BY <1>1 DEF CountryIsResolved
<1>3. CityIsResolved' = CityIsResolved
  BY <1>1 DEF CityIsResolved
<1>4. SelectIsFirstWanted' = SelectIsFirstWanted
  BY <1>1 DEF SelectIsFirstWanted, Selected, Wanted
<1> QED
  BY <1>1, <1>2, <1>3, <1>4 DEF RecommendationInv, CallIsInOrder, Recommended

\* A call that fails before it has a reply is in order.
LEMMA FailIsInOrder ==
    ASSUME NEW e \in Errors, RecommendationInv, reply = <<>>, Fail(e)
    PROVE  RecommendationInv'
<1>1. IsHost(query'.host) /\ catalogue' \in Seq(Countries) /\ reply' = <<>> /\ pc' = "done" /\ result' \in Errors
  BY DEF Fail, RecommendationInv, CallIsInOrder
<1>2. SelectIsFirstWanted'
  BY <1>1 DEF SelectIsFirstWanted, Selected
<1> QED
  BY <1>1, <1>2 DEF RecommendationInv, CallIsInOrder, Recommended

\* ResolveCountry.
LEMMA FindCountryIsInOrder ==
    ASSUME RecommendationInv, FindCountry
    PROVE  RecommendationInv'
<1> DEFINE text == Letters(query.country)
           matches == {i \in DOMAIN catalogue : Matches(catalogue[i], text)}
           c == Resolve(catalogue, matches, text)
<1>1. c = ResolveCountry(catalogue, query.country)
  BY DEF ResolveCountry
<1>2. pc = "country" /\ reply = <<>>
  BY DEF FindCountry, RecommendationInv, CallIsInOrder
<1>3. CASE c \in Errors /\ Fail(c)
  BY <1>2, <1>3, FailIsInOrder
<1>4. CASE /\ c \notin Errors
           /\ country' = c
           /\ pc' = IF query.city = "" THEN "ask" ELSE "city"
           /\ UNCHANGED <<query, catalogue, city, reply, result>>
  <2>1. text # "" /\ \E i \in matches : matches = {i} /\ c = catalogue[i]
    <3> DEFINE l == catalogue
    <3>1. Resolve(l, matches, text) \notin Errors
      BY <1>4
    <3> HIDE DEF text, matches, l
    <3>2. OnlyMatch(l, matches, text)
      BY <3>1, ResolvedIsOnly
    <3> QED
      BY <3>2 DEF l, OnlyMatch
  <2>2. text = query.country
    BY <2>1 DEF Letters
  <2>3. PICK i \in DOMAIN catalogue : matches = {i} /\ country' = catalogue[i]
    BY <1>4, <2>1
  <2>4. \A j \in DOMAIN catalogue : Matches(catalogue[j], query.country) <=> j = i
    BY <2>2, <2>3
  <2>5. CountryIsResolved'
    BY <1>4, <2>3, <2>4 DEF CountryIsResolved
  <2>6. query.city = "" => CityIsResolved'
    BY <1>2, <1>4 DEF RecommendationInv, CallIsInOrder, CityIsResolved
  <2> QED
    BY <1>2, <1>4, <2>5, <2>6
       DEF RecommendationInv, CallIsInOrder, SelectIsFirstWanted, Selected, Recommended
<1> QED
  BY <1>1, <1>3, <1>4 DEF FindCountry

\* ResolveCity.
LEMMA FindCityIsInOrder ==
    ASSUME RecommendationInv, FindCity
    PROVE  RecommendationInv'
<1> DEFINE text == Letters(query.city)
           matches == Named(country, text)
           t == Resolve(country.cities, matches, text)
<1>1. t = ResolveCity(country, query.city)
  BY DEF ResolveCity
<1>2. pc = "city" /\ reply = <<>> /\ CountryIsResolved
  BY DEF FindCity, RecommendationInv, CallIsInOrder
<1>3. CASE t \in Errors /\ Fail(t)
  BY <1>2, <1>3, FailIsInOrder
<1>4. CASE /\ t \notin Errors
           /\ city' = t.id
           /\ pc' = "ask"
           /\ UNCHANGED <<query, catalogue, country, reply, result>>
  <2>1. text # "" /\ \E i \in matches : matches = {i} /\ t = country.cities[i]
    <3> DEFINE l == country.cities
    <3>1. Resolve(l, matches, text) \notin Errors
      BY <1>4
    <3> HIDE DEF text, matches, l
    <3>2. OnlyMatch(l, matches, text)
      BY <3>1, ResolvedIsOnly
    <3> QED
      BY <3>2 DEF l, OnlyMatch
  <2>2. text = query.city
    BY <2>1 DEF Letters
  <2>3. PICK i \in DOMAIN country.cities : Named(country, query.city) = {i} /\ city' = country.cities[i].id
    BY <1>4, <2>1, <2>2 DEF Named
  <2>4. CityIsResolved'
    BY <1>4, <2>1, <2>2, <2>3 DEF CityIsResolved, Named
  <2>5. CountryIsResolved'
    BY <1>2, <1>4 DEF CountryIsResolved
  <2> QED
    BY <1>2, <1>4, <2>4, <2>5
       DEF RecommendationInv, CallIsInOrder, SelectIsFirstWanted, Selected, Recommended
<1> QED
  BY <1>1, <1>3, <1>4 DEF FindCity

\* The API's answer.
LEMMA AskIsInOrder ==
    ASSUME RecommendationInv, Ask \/ AskFails
    PROVE  RecommendationInv'
<1>1. pc = "ask" /\ reply = <<>> /\ CountryIsResolved /\ CityIsResolved
  BY DEF Ask, AskFails, RecommendationInv, CallIsInOrder
<1>2. NoMatch \in Errors /\ Invalid \in Errors /\ Network \in Errors
  BY DEF Errors
<1>3. CASE Fail(NoMatch) \/ Fail(Invalid) \/ Fail(Network)
  <2> HIDE DEF NoMatch, Invalid, Network, Errors
  <2> QED
    BY <1>1, <1>2, <1>3, FailIsInOrder
<1>4. ASSUME NEW answer \in SeqOf(DTOs \cup {Malformed}, MaxReply),
             answer # <<>>,
             \A i \in DOMAIN answer : answer[i].whole,
             reply' = [i \in DOMAIN answer |-> Convert(answer[i])],
             pc' = "select",
             UNCHANGED <<query, catalogue, country, city, result>>
      PROVE  RecommendationInv'
  <2>1. answer \in Seq(DTOs \cup {Malformed})
    BY SeqOfIsSeq
  <2>2. ~Malformed.whole
    BY DEF Malformed
  <2> HIDE DEF Malformed
  <2>3. \A i \in DOMAIN answer : answer[i] \in DTOs
    BY <1>4, <2>1, <2>2
  <2>4. DOMAIN answer = 1..Len(answer) /\ Len(answer) \in Nat /\ Len(answer) # 0
    BY <1>4, <2>1
  <2>5. \A i \in 1..Len(answer) : Convert(answer[i]) \in Servers
    BY <2>3, <2>4 DEF Servers
  <2>6. reply' \in [1..Len(answer) -> Servers]
    BY <1>4, <2>4, <2>5
  <2>7. reply' \in Seq(Servers)
    BY <2>4, <2>6
  <2>8. reply' # <<>>
    BY <2>4, <2>6
  <2>9. CountryIsResolved' /\ CityIsResolved'
    BY <1>1, <1>4 DEF CountryIsResolved, CityIsResolved
  <2> QED
    BY <1>1, <1>4, <2>7, <2>8, <2>9
       DEF RecommendationInv, CallIsInOrder, SelectIsFirstWanted, Selected, Recommended
<1> QED
  BY <1>3, <1>4 DEF Ask, AskFails

\* Select.
LEMMA SelectIsInOrder ==
    ASSUME RecommendationInv, SelectServer
    PROVE  RecommendationInv'
<1> DEFINE want == NormalizeServer(query.host)
           all == Candidates(reply, Len(reply), country, city, want)
           first == {i \in DOMAIN reply : \A j \in 1..(i - 1) : reply[j].host # reply[i].host}
           wanted == {i \in first : Wanted(reply[i])}
<1>1. /\ pc = "select" /\ pc' = "done" /\ reply # <<>> /\ reply \in Seq(Servers) /\ IsHost(query.host)
      /\ UNCHANGED <<query, catalogue, country, city, reply>>
      /\ CountryIsResolved /\ CityIsResolved
  BY DEF SelectServer, RecommendationInv, CallIsInOrder
<1>2. result' = SelectLoop(reply, country, city, want)[Len(reply)].found
  BY DEF SelectServer, Select
<1>3. IF all = {} THEN result' = NoMatch
      ELSE \E k \in all : result' = reply[k] /\ \A m \in all : k <= m
  <2> HIDE DEF all, want
  <2> QED
    BY <1>1, <1>2, SelectFindsFirst DEF all
<1>4. ASSUME NEW i \in DOMAIN reply
      PROVE  Qualifies(reply[i], country, city, want) <=> Wanted(reply[i])
  <2>1. IsHost(reply[i].host)
    BY <1>1, ServerIsNoError
  <2> DEFINE h == reply[i].host
  <2> DEFINE named == query.host.label \notin {"", " "} \/ query.host.domain # ""
  <2>2. /\ want # NoHost <=> named
        /\ named => (h = want <=>
                      /\ h.label = query.host.label
                      /\ h.domain = IF query.host.domain = "" THEN "nordvpn.com" ELSE query.host.domain)
    <3> HIDE DEF h
    <3> QED
      BY <1>1, <2>1, NormalizedHost DEF h
  <2> HIDE DEF want
  <2> QED
    BY <2>2 DEF Qualifies, Wanted, InPlace, Usable
<1>5. all = wanted
  <2>1. DOMAIN reply = 1..Len(reply)
    BY <1>1
  <2> QED
    BY <1>4, <2>1 DEF Candidates
<1>6. SelectIsFirstWanted'
  <2>1. \A s : Wanted(s)' = Wanted(s)
    BY <1>1 DEF Wanted
  <2>2. IF wanted = {} THEN result' = NoMatch
        ELSE \E i \in wanted : result' = reply[i] /\ \A k \in wanted : i <= k
    BY <1>3, <1>5
  <2>3. wanted' = wanted
    BY <1>1, <2>1
  <2>4. SelectIsFirstWanted' <=>
            (Selected' => IF wanted' = {} THEN result' = NoMatch
                          ELSE \E i \in wanted' : result' = reply'[i] /\ \A k \in wanted' : i <= k)
    BY DEF SelectIsFirstWanted
  <2> HIDE DEF wanted
  <2> QED
    BY <1>1, <2>2, <2>3, <2>4
<1>7. CountryIsResolved' /\ CityIsResolved'
  BY <1>1 DEF CountryIsResolved, CityIsResolved
<1> QED
  BY <1>1, <1>6, <1>7 DEF RecommendationInv, CallIsInOrder, Recommended

\* Every step of a call keeps it in order.
LEMMA RecommendingKeepsOrder ==
    ASSUME RecommendationInv, Recommending
    PROVE  RecommendationInv'
BY FindCountryIsInOrder, FindCityIsInOrder, AskIsInOrder, SelectIsInOrder DEF Recommending

\* A server that is recommended is one of the reply that the query wants.
LEMMA RecommendedIsWanted ==
    ASSUME RecommendationInv, Recommended
    PROVE  result \in Servers /\ Wanted(result)
<1>1. reply # <<>> /\ reply \in Seq(Servers) /\ Selected
  BY DEF RecommendationInv, CallIsInOrder, Recommended, Selected
<1>2. PICK i \in DOMAIN reply : result = reply[i] /\ Wanted(reply[i])
  <2>1. result # NoMatch
    BY DEF Recommended, Errors
  <2> QED
    BY <1>1, <2>1 DEF RecommendationInv, SelectIsFirstWanted
<1> QED
  BY <1>1, <1>2

\* What Select returns lies in the country that ResolveCountry found and in the
\* city that ResolveCity found there, each the only one that the query names.
LEMMA FoundWhereAsked == RecommendationInv => ServerIsWhereAsked
<1> SUFFICES ASSUME RecommendationInv, Recommended
             PROVE  ServerIsWhereAsked
  BY DEF ServerIsWhereAsked
<1>1. CountryIsResolved /\ CityIsResolved /\ catalogue \in Seq(Countries)
  BY DEF RecommendationInv, CallIsInOrder
<1>2. result.countryCode = country.code /\ (city # 0 => result.cityID = city)
  BY RecommendedIsWanted DEF Wanted
<1>3. PICK k \in DOMAIN catalogue :
          /\ country = catalogue[k]
          /\ \A j \in DOMAIN catalogue : Matches(catalogue[j], query.country) <=> j = k
  BY <1>1 DEF CountryIsResolved
<1>4. country \in Countries
  BY <1>1, <1>3
<1>5. ASSUME query.city # ""
      PROVE  \E i \in DOMAIN country.cities :
                 country.cities[i].id = result.cityID /\ Named(country, query.city) = {i}
  <2>1. PICK i \in DOMAIN country.cities :
            city = country.cities[i].id /\ Named(country, query.city) = {i}
    BY <1>1, <1>5 DEF CityIsResolved
  <2>2. city # 0
    BY <1>4, <2>1, APIAssumption
  <2> QED
    BY <1>2, <2>1, <2>2
<1> QED
  BY <1>2, <1>3, <1>5 DEF ServerIsWhereAsked

-----------------------------------------------------------------------------
(* Token input and provisioning.                                           *)

\* Trimming a suffix takes away one byte at most, and it is that byte.
LEMMA TrimmedOnce ==
    ASSUME NEW s \in Seq(TokenBytes), NEW byte \in TokenBytes
    PROVE  LET t == TrimSuffix(s, byte)
           IN  /\ t \in Seq(TokenBytes)
               /\ \/ t = s
                  \/ s = t \o <<byte>> /\ Len(s) = Len(t) + 1
<1>1. CASE ~(s # <<>> /\ Last(s) = byte)
  BY <1>1 DEF TrimSuffix
<1>2. CASE s # <<>> /\ Last(s) = byte
  <2> DEFINE n == Len(s)
             t == SubSeq(s, 1, n - 1)
  <2>0. n \in Nat /\ n \in 1..Len(s) /\ 1 \in 1..Len(s) /\ n \in 1..n
    BY <1>2
  <2>1. TrimSuffix(s, byte) = t /\ s[n] = byte
    BY <1>2 DEF TrimSuffix, Front, Last
  <2>2. SubSeq(s, 1, n) = t \o <<s[n]>>
    BY <2>0, SubSeqRecursiveSecond
  <2>3. SubSeq(s, 1, n) = s
    BY SubSeqFull
  <2>4. t \in Seq(TokenBytes) /\ Len(t) = n - 1
    <3>1. \A i \in 1..(n - 1) : s[i] \in TokenBytes
      BY <2>0
    <3> HIDE DEF TokenBytes
    <3>2. t \in Seq(TokenBytes) /\ Len(t) = IF 1 <= n - 1 THEN n - 1 - 1 + 1 ELSE 0
      BY <2>0, <3>1, SubSeqProperties
    <3>3. n >= 1
      BY <2>0
    <3> HIDE DEF t, n
    <3> QED
      BY <2>0, <3>2, <3>3
  <2>5. s = t \o <<byte>> /\ Len(s) = Len(t) + 1 /\ t \in Seq(TokenBytes)
    <3>1. s = t \o <<byte>>
      BY <2>1, <2>2, <2>3
    <3> HIDE DEF t
    <3>2. Len(s) = Len(t) + 1
      BY <2>0, <2>4
    <3> QED
      BY ONLY <2>4, <3>1, <3>2, ZenonT(60)
  <2> HIDE DEF t
  <2> QED
    BY <2>1, <2>5
<1> QED
  BY <1>1, <1>2

\* Two sequences of one element each make one of two.
LEMMA PairOfSingles ==
    ASSUME NEW S, NEW a \in S, NEW b \in S
    PROVE  <<a>> \o <<b>> = <<a, b>>
<1> DEFINE s == <<a>>
           t == <<b>>
           u == s \o t
           v == <<a, b>>
<1>1. /\ s \in Seq(S) /\ Len(s) = 1 /\ s[1] = a
      /\ t \in Seq(S) /\ Len(t) = 1 /\ t[1] = b
      /\ v \in Seq(S) /\ Len(v) = 2 /\ v[1] = a /\ v[2] = b
  OBVIOUS
<1> HIDE DEF s, t, v
<1>2. /\ u \in Seq(S) /\ Len(u) = Len(s) + Len(t)
      /\ \A i \in 1..(Len(s) + Len(t)) : u[i] = IF i <= Len(s) THEN s[i] ELSE t[i - Len(s)]
  BY <1>1, ConcatProperties
<1> HIDE DEF u
<1>3. Len(u) = 2 /\ u[1] = a /\ u[2] = b
  BY <1>1, <1>2
<1>4. \A i \in 1..2 : u[i] = v[i]
  <2>1. \A i \in 1..2 : i = 1 \/ i = 2
    OBVIOUS
  <2> QED
    BY <1>1, <1>3, <2>1
<1> QED
  BY <1>1, <1>2, <1>3, <1>4, SeqEqual DEF s, t, u, v

\* A token that tokeninput.ReadStdin accepts is the input but for a line ending:
\* the limit lets one byte more through than a token with its line ending has.
LEMMA PipedTokenIsWhole ==
    ASSUME NEW input \in Seq(TokenBytes)
    PROVE  WholeToken(input, ReadStdin(input)) /\ ReadStdin(input) \in Seq(TokenBytes)
<1> DEFINE m == IF Len(input) < MaxTokenBytes + 3 THEN Len(input) ELSE MaxTokenBytes + 3
           raw == SubSeq(input, 1, m)
           t1 == TrimSuffix(raw, "lf")
           t2 == TrimSuffix(t1, "cr")
<1>0. "lf" \in TokenBytes /\ "cr" \in TokenBytes
  BY DEF TokenBytes
<1>1. Len(input) \in Nat /\ m \in Nat /\ m <= Len(input)
  BY LimitAssumption
<1>2. raw \in Seq(TokenBytes) /\ Len(raw) = m
  <2>1. \A i \in 1..m : input[i] \in TokenBytes
    BY <1>1
  <2> HIDE DEF TokenBytes, m
  <2>2. SubSeq(input, 1, m) \in Seq(TokenBytes) /\ Len(SubSeq(input, 1, m)) = IF 1 <= m THEN m - 1 + 1 ELSE 0
    BY <1>1, <2>1, SubSeqProperties
  <2> QED
    BY <1>1, <2>2
<1> HIDE DEF raw
<1>3. t1 \in Seq(TokenBytes) /\ (t1 = raw \/ (raw = t1 \o <<"lf">> /\ Len(raw) = Len(t1) + 1))
  BY <1>0, <1>2, TrimmedOnce
<1> HIDE DEF t1
<1>4. t2 \in Seq(TokenBytes) /\ (t2 = t1 \/ (t1 = t2 \o <<"cr">> /\ Len(t1) = Len(t2) + 1))
  BY <1>0, <1>3, TrimmedOnce
<1>5. ReadStdin(input) = IF ValidToken(t2) THEN t2 ELSE Refused
  BY DEF ReadStdin, Normalize, Limited, raw, t1
<1> HIDE DEF t2
<1>10. ReadStdin(input) \in Seq(TokenBytes)
  BY <1>4, <1>5 DEF Refused
<1> SUFFICES ASSUME ValidToken(t2)
             PROVE  \E e \in LineEndings : input = t2 \o e
  BY <1>5, <1>10 DEF WholeToken
<1>6. Len(t2) <= MaxTokenBytes
  BY DEF ValidToken
<1>7. m = Len(input)
  BY <1>1, <1>2, <1>3, <1>4, <1>6, LimitAssumption
<1>8. raw = input
  BY <1>7, SubSeqFull DEF raw
<1>9. input = t2 \o <<>> \/ input = t2 \o <<"lf">> \/ input = t2 \o <<"cr">> \/ input = t2 \o <<"cr", "lf">>
  <2>1. t2 \o <<>> = t2
    BY <1>4, ConcatEmptySeq
  <2>2. (t2 \o <<"cr">>) \o <<"lf">> = t2 \o (<<"cr">> \o <<"lf">>)
    <3>1. <<"cr">> \in Seq(TokenBytes) /\ <<"lf">> \in Seq(TokenBytes)
      BY <1>0
    <3> QED
      BY <1>4, <3>1, ConcatAssociative
  <2>3. <<"cr">> \o <<"lf">> = <<"cr", "lf">>
    <3> HIDE DEF TokenBytes
    <3> QED
      BY <1>0, PairOfSingles
  <2> QED
    BY <1>3, <1>4, <1>8, <2>1, <2>2, <2>3
<1> QED
  BY <1>9 DEF LineEndings

\* A token that was typed is all of the line.
LEMMA TypedTokenIsWhole ==
    ASSUME NEW input \in Seq(TokenBytes)
    PROVE  WholeToken(input, ReadHidden(input)) /\ ReadHidden(input) \in Seq(TokenBytes)
<1>1. input = input \o <<>>
  BY ConcatEmptySeq
<1> QED
  BY <1>1 DEF ReadHidden, Normalize, WholeToken, LineEndings, Refused

\* An answer without an error is one document, within the limit.
LEMMA AcceptedAnswerIsWhole ==
    ASSUME NEW token, NEW r \in Replies, Provision(token, r) = {}
    PROVE  WholeAnswer(r)
<1>1. r.status = 200 /\ ReadAnswer(r) = {}
  BY DEF Provision
<1>2. r.body \in Seq(BodyBytes)
  <2> DEFINE texts == SeqOf(BodyBytes, MaxBodyBytes + 2)
  <2> HIDE DEF texts
  <2>0. r \in [status : {0, 401, 403, 429, 500}, json : {TRUE}, body : {<<>>}]
             \/ r \in [status : {200}, json : BOOLEAN, body : texts]
    BY ONLY r \in Replies, ZenonT(60) DEF Replies, texts
  <2>1. r.body \in SeqOf(BodyBytes, MaxBodyBytes + 2)
    <3>1. CASE r \in [status : {0, 401, 403, 429, 500}, json : {TRUE}, body : {<<>>}]
      <4>1. r.status # 200
        BY ONLY <3>1
      <4> QED
        BY <1>1, <4>1
    <3>2. CASE r \in [status : {200}, json : BOOLEAN, body : texts]
      <4>1. r.body \in texts
        BY ONLY <3>2
      <4> QED
        BY <4>1 DEF texts
    <3> QED
      BY ONLY <2>0, <3>1, <3>2, ZenonT(60)
  <2> DEFINE top == MaxBodyBytes + 2
          body == r.body
  <2>2. body \in SeqOf(BodyBytes, top)
    BY <2>1
  <2> HIDE DEF BodyBytes, top, body
  <2>3. body \in Seq(BodyBytes)
    BY <2>2, SeqOfIsSeq
  <2> QED
    BY <2>3 DEF body
<1> DEFINE m == IF Len(r.body) < MaxBodyBytes + 1 THEN Len(r.body) ELSE MaxBodyBytes + 1
           body == SubSeq(r.body, 1, m)
<1>3. r.json /\ ~(Len(body) > MaxBodyBytes) /\ Decode(body) = {}
  BY <1>1 DEF ReadAnswer, Limited
<1>4. Len(r.body) \in Nat /\ m \in Nat /\ m <= Len(r.body)
  BY <1>2, LimitAssumption
<1>5. Len(body) = m
  <2>1. \A i \in 1..m : r.body[i] \in BodyBytes
    BY <1>2, <1>4
  <2> HIDE DEF BodyBytes, m
  <2>2. Len(SubSeq(r.body, 1, m)) = IF 1 <= m THEN m - 1 + 1 ELSE 0
    BY <1>4, <2>1, SubSeqProperties
  <2> QED
    BY <1>4, <2>2
<1>6. m = Len(r.body) /\ m <= MaxBodyBytes
  BY <1>3, <1>4, <1>5, LimitAssumption
<1>7. body = r.body
  BY <1>2, <1>6, SubSeqFull
<1> HIDE DEF body
<1>8. PICK i \in DOMAIN r.body :
          {k \in DOMAIN r.body : r.body[k] # "space"} = {i} /\ r.body[i] = "account"
  <2> DEFINE text == {k \in DOMAIN r.body : r.body[k] # "space"}
  <2>1. IF \E i \in text : text = {i} /\ r.body[i] = "account" THEN TRUE ELSE FALSE
    BY <1>3, <1>7 DEF Decode
  <2> QED
    BY <2>1
<1>9. \A k \in DOMAIN r.body : r.body[k] = IF k = i THEN "account" ELSE "space"
  BY <1>8
<1> QED
  BY <1>1, <1>3, <1>6, <1>9 DEF WholeAnswer

-----------------------------------------------------------------------------
(* Errors.                                                                 *)

\* A set of natural numbers has a minimum.
LEMMA MinIsLeast ==
    ASSUME NEW T, T \subseteq Nat, T # {}
    PROVE  Min(T) \in T /\ \A k \in T : Min(T) <= k
<1>1. PICK x \in T : \A y \in T : ~(y < x)
  BY LeastNumber
<1>2. \A y \in T : x <= y
  BY <1>1
<1> QED
  BY <1>2 DEF Min

\* The first row that has one of the errors decides, if there is one.
LEMMA FirstRowDecides ==
    ASSUME NEW table, NEW default, NEW errs, DOMAIN table \subseteq Nat
    PROVE  LET row == Classify(table, default, errs)
           IN  \/ row = default /\ \A i \in DOMAIN table : table[i].err \notin errs
               \/ \E i \in DOMAIN table :
                     /\ row = table[i] /\ table[i].err \in errs
                     /\ \A k \in DOMAIN table : table[k].err \in errs => i <= k
<1> DEFINE hits == {i \in DOMAIN table : table[i].err \in errs}
<1>1. hits # {} => Min(hits) \in hits /\ \A k \in hits : Min(hits) <= k
  <2>1. hits \subseteq Nat
    OBVIOUS
  <2> HIDE DEF hits
  <2> QED
    BY <2>1, MinIsLeast
<1>2. CASE hits = {}
  BY <1>2 DEF Classify
<1>3. CASE hits # {}
  <2>1. Classify(table, default, errs) = table[Min(hits)]
    BY <1>3 DEF Classify
  <2> QED
    BY <1>1, <1>3, <2>1
<1> QED
  BY <1>2, <1>3

\* What failAuthentication may report.
LEMMA AuthenticationRows ==
    ASSUME NEW errs
    PROVE  LET row == FailAuthentication(errs)
           IN  /\ row.exit \in 0..ExitBusy
               /\ row.code \in {"unauthorized", "forbidden", "rate_limited", "busy", "credential_recovery_required",
                                "credential_transaction", "credential_read", "authentication"}
<1> DEFINE table ==
               <<Row("unauthorized", ExitAuth, "unauthorized"), Row("forbidden", ExitAuth, "forbidden"),
                 Row("rate_limited", ExitNetwork, "rate_limited"), Row("lock", ExitBusy, "busy"),
                 Row("incomplete", ExitNetwork, "credential_recovery_required"),
                 Row("transaction", ExitNetwork, "credential_transaction"),
                 Row("read", ExitNetwork, "credential_read")>>
           default == Row("any", ExitNetwork, "authentication")
           row == FailAuthentication(errs)
<1>1. row = Classify(table, default, errs)
  BY DEF FailAuthentication
<1>2. DOMAIN table = 1..7
  OBVIOUS
<1>3. /\ table[1].err = "unauthorized" /\ table[1].exit = ExitAuth /\ table[1].code = "unauthorized"
      /\ table[2].err = "forbidden" /\ table[2].exit = ExitAuth /\ table[2].code = "forbidden"
      /\ table[3].err = "rate_limited" /\ table[3].exit = ExitNetwork /\ table[3].code = "rate_limited"
      /\ table[4].err = "lock" /\ table[4].exit = ExitBusy /\ table[4].code = "busy"
      /\ table[5].err = "incomplete" /\ table[5].exit = ExitNetwork
      /\ table[5].code = "credential_recovery_required"
      /\ table[6].err = "transaction" /\ table[6].exit = ExitNetwork
      /\ table[6].code = "credential_transaction"
      /\ table[7].err = "read" /\ table[7].exit = ExitNetwork /\ table[7].code = "credential_read"
  BY DEF Row
<1>4. default.exit = ExitNetwork /\ default.code = "authentication"
  BY DEF Row
<1>5. ExitNetwork \in 0..ExitBusy /\ ExitAuth \in 0..ExitBusy /\ ExitBusy \in 0..ExitBusy
  BY DEF ExitNetwork, ExitAuth, ExitBusy
<1> HIDE DEF table, default, row
<1>6. \/ row = default /\ \A i \in DOMAIN table : table[i].err \notin errs
      \/ \E i \in DOMAIN table :
            /\ row = table[i] /\ table[i].err \in errs
            /\ \A k \in DOMAIN table : table[k].err \in errs => i <= k
  BY <1>1, <1>2, FirstRowDecides
<1>7. CASE row = default /\ \A i \in DOMAIN table : table[i].err \notin errs
  BY <1>4, <1>5, <1>7 DEF row
<1>8. CASE \E i \in DOMAIN table :
            /\ row = table[i] /\ table[i].err \in errs
            /\ \A k \in DOMAIN table : table[k].err \in errs => i <= k
  <2>1. PICK i \in 1..7 : /\ row = table[i] /\ table[i].err \in errs
                          /\ \A k \in 1..7 : table[k].err \in errs => i <= k
    BY <1>2, <1>8
  <2>2. i \in {1, 2, 3, 4, 5, 6, 7}
    OBVIOUS
  <2> HIDE DEF ExitNetwork, ExitAuth, ExitBusy
  <2> QED
    BY <1>3, <1>5, <2>1, <2>2 DEF row
<1> QED
  BY <1>6, <1>7, <1>8

\* What failConnection and the catalogue's errors may report.
ConnectionCodes == {"not_authenticated", "already_connected", "busy", "helper", "connection"}
CatalogCodes == {"no_match", "ambiguous", "invalid_data", "network"}

\* failConnection.
LEMMA ConnectionRows ==
    ASSUME NEW errs
    PROVE  FailConnection(errs).exit \in 0..ExitBusy /\ FailConnection(errs).code \in ConnectionCodes
<1> DEFINE table ==
               <<Row("not_authenticated", ExitAuth, "not_authenticated"),
                 Row("already_connected", ExitBusy, "already_connected"),
                 Row("busy", ExitBusy, "busy"), Row("helper", ExitPrivilege, "helper")>>
           default == Row("any", ExitNetwork, "connection")
           row == FailConnection(errs)
<1>1. row = Classify(table, default, errs)
  BY DEF FailConnection
<1>2. DOMAIN table = 1..4
  OBVIOUS
<1>3. /\ table[1].exit = ExitAuth /\ table[1].code = "not_authenticated"
      /\ table[2].exit = ExitBusy /\ table[2].code = "already_connected"
      /\ table[3].exit = ExitBusy /\ table[3].code = "busy"
      /\ table[4].exit = ExitPrivilege /\ table[4].code = "helper"
      /\ default.exit = ExitNetwork /\ default.code = "connection"
  BY DEF Row
<1>4. /\ ExitNetwork \in 0..ExitBusy /\ ExitAuth \in 0..ExitBusy /\ ExitBusy \in 0..ExitBusy
      /\ ExitPrivilege \in 0..ExitBusy
  BY DEF ExitNetwork, ExitAuth, ExitBusy, ExitPrivilege
<1> HIDE DEF table, default, row
<1>5. row = default \/ \E i \in 1..4 : row = table[i]
  BY <1>1, <1>2, FirstRowDecides
<1>6. \A i \in 1..4 : i \in {1, 2, 3, 4}
  OBVIOUS
<1> QED
  BY <1>3, <1>4, <1>5, <1>6 DEF row, ConnectionCodes

\* classify and errorCode.
LEMMA CatalogRows ==
    ASSUME NEW errs
    PROVE  FailCatalog(errs).exit \in 0..ExitBusy /\ FailCatalog(errs).code \in CatalogCodes
<1> DEFINE table ==
               <<Row("no_match", ExitNoMatch, "no_match"), Row("ambiguous", ExitNoMatch, "ambiguous"),
                 Row("invalid", ExitNetwork, "invalid_data")>>
           default == Row("any", ExitNetwork, "network")
           row == FailCatalog(errs)
<1>1. row = Classify(table, default, errs)
  BY DEF FailCatalog
<1>2. DOMAIN table = 1..3
  OBVIOUS
<1>3. /\ table[1].exit = ExitNoMatch /\ table[1].code = "no_match"
      /\ table[2].exit = ExitNoMatch /\ table[2].code = "ambiguous"
      /\ table[3].exit = ExitNetwork /\ table[3].code = "invalid_data"
      /\ default.exit = ExitNetwork /\ default.code = "network"
  BY DEF Row
<1>4. ExitNetwork \in 0..ExitBusy /\ ExitNoMatch \in 0..ExitBusy
  BY DEF ExitNetwork, ExitNoMatch, ExitBusy
<1> HIDE DEF table, default, row
<1>5. row = default \/ \E i \in 1..3 : row = table[i]
  BY <1>1, <1>2, FirstRowDecides
<1>6. \A i \in 1..3 : i \in {1, 2, 3}
  OBVIOUS
<1> QED
  BY <1>3, <1>4, <1>5, <1>6 DEF row, CatalogCodes

-----------------------------------------------------------------------------
(* parseRecommend.                                                         *)

Fields == {"country", "city", "server"}
Arguments == [flag : Flags, text : Said]

\* The states of parseRecommend's loop.
ParseStates == [status : {"go", "help", "usage"}, texts : [Fields -> Said], waits : {"", "--city", "--server"}]

\* Nothing is given at the start.
LEMMA TextsFacts == Texts \in [Fields -> Said] /\ DOMAIN Texts = Fields /\ \A f \in Fields : Texts[f] = ""
<1>1. DOMAIN Texts = Fields
  BY DEF Texts, Fields
<1>2. \A f \in Fields : Texts[f] = ""
  <2>1. Texts["country"] = "" /\ Texts["city"] = "" /\ Texts["server"] = ""
    BY DEF Texts
  <2> QED
    BY <2>1 DEF Fields
<1>3. Texts = [f \in Fields |-> Texts[f]]
  BY <1>1 DEF Texts
<1>4. "" \in Said
  BY DEF Said
<1> HIDE DEF Texts, Fields, Said
<1> QED
  BY <1>1, <1>2, <1>3, <1>4

\* The state at the start, and those at the end of a loop that has stopped.
LEMMA StatesFacts ==
    /\ Parsing(Texts, "") \in ParseStates
    /\ Parsed("help") \in ParseStates /\ Parsed("usage") \in ParseStates
<1>1. \A s \in {"go", "help", "usage"}, texts \in [Fields -> Said], w \in {"", "--city", "--server"} :
          [status |-> s, texts |-> texts, waits |-> w] \in ParseStates
  BY DEF ParseStates
<1>2. Texts \in [Fields -> Said]
  BY TextsFacts
<1>3. /\ "" \in {"", "--city", "--server"}
      /\ "go" \in {"go", "help", "usage"} /\ "help" \in {"go", "help", "usage"}
      /\ "usage" \in {"go", "help", "usage"}
  OBVIOUS
<1> QED
  BY <1>1, <1>2, <1>3 DEF Parsing, Parsed

\* A turn of the loop leads from state to state.
LEMMA TurnIsTyped ==
    ASSUME NEW s \in ParseStates, NEW arg \in Arguments
    PROVE  ParseArgument(s, arg) \in ParseStates
<1>1. s.texts \in [Fields -> Said] /\ s.waits \in {"", "--city", "--server"} /\ arg.text \in Said
  BY DEF ParseStates, Arguments
<1>2. \A status \in {"help", "usage"} : Parsed(status) \in ParseStates
  BY TextsFacts DEF Parsed, ParseStates
<1>3. \A texts \in [Fields -> Said], w \in {"", "--city", "--server"} : Parsing(texts, w) \in ParseStates
  BY DEF Parsing, ParseStates
<1>4. \A f \in Fields : SetOnce(s.texts, f, arg.text) \in ParseStates
  <2>1. \A f \in Fields : [s.texts EXCEPT ![f] = arg.text] \in [Fields -> Said]
    BY <1>1
  <2> QED
    BY <1>2, <1>3, <2>1 DEF SetOnce
<1>5. \A flag : FieldOf(flag) \in Fields
  BY DEF FieldOf, Fields
<1>6. "country" \in Fields
  BY DEF Fields
<1> HIDE DEF Fields, Said
<1>7. s \in ParseStates
  OBVIOUS
<1> QED
  BY <1>1, <1>2, <1>3, <1>4, <1>5, <1>6 DEF ParseArgument

\* A loop over the arguments that takes the turns of parseRecommend.
Parses(loop, args) ==
    /\ loop[0] = Parsing(Texts, "")
    /\ \A i \in 1..Len(args) : loop[i] = ParseArgument(loop[i - 1], args[i])
    /\ \A i \in 0..Len(args) : loop[i] \in ParseStates

\* parseRecommend's loop satisfies its recursion.
LEMMA ParseLoopDefined ==
    ASSUME NEW args \in Seq(Arguments)
    PROVE  Parses(ParseLoop(args), args)
<1> DEFINE n == Len(args)
           base == Parsing(Texts, "")
           next(p) == ParseArgument(p[1], args[p[2]])
           turn == [p \in ParseStates \X (1..n) |-> next(p)]
<1>1. n \in Nat /\ base \in ParseStates
  <2>1. n \in Nat
    OBVIOUS
  <2>2. base \in ParseStates
    BY StatesFacts
  <2> QED
    BY <2>1, <2>2
<1>2. turn \in Turns(n, ParseStates)
  <2>1. ASSUME NEW p \in ParseStates \X (1..n)
        PROVE  next(p) \in ParseStates
    <3>1. p[1] \in ParseStates /\ args[p[2]] \in Arguments
      OBVIOUS
    <3> QED
      BY <3>1, TurnIsTyped
  <2> HIDE DEF next
  <2> QED
    BY <2>1 DEF Turns
<1> HIDE DEF turn, base, n
<1>3. PICK f : Goes(f, n, ParseStates, base, turn)
  BY <1>1, <1>2, Iteration
<1>4. ASSUME NEW i \in 1..n
      PROVE  f[i] = ParseArgument(f[i - 1], args[i])
  <2>1. i - 1 \in 0..n /\ f[i - 1] \in ParseStates
    BY <1>1, <1>3 DEF Goes
  <2>2. turn[<<f[i - 1], i>>] = ParseArgument(f[i - 1], args[i])
    BY <2>1 DEF turn
  <2> QED
    BY <1>3, <2>2 DEF Goes
<1>5. f = [i \in 0..n |-> IF i = 0 THEN base ELSE ParseArgument(f[i - 1], args[i])]
  <2>1. \A i \in 0..n : i # 0 => i \in 1..n
    BY <1>1
  <2> QED
    BY <1>3, <1>4, <2>1 DEF Goes
<1> DEFINE loop == ParseLoop(args)
<1>6. loop = [i \in 0..n |-> IF i = 0 THEN base ELSE ParseArgument(loop[i - 1], args[i])]
  BY <1>5 DEF ParseLoop, n, base
<1> HIDE DEF loop
<1>7. loop[0] = base /\ \A i \in 1..n : loop[i] = ParseArgument(loop[i - 1], args[i])
  <2>1. 0 \in 0..n /\ \A i \in 1..n : i \in 0..n /\ i # 0
    BY <1>1
  <2> QED
    BY <1>6, <2>1
<1> DEFINE P == {i \in 0..n : loop[i] \in ParseStates}
<1>8. 0 \in P
  BY <1>1, <1>7
<1>9. ASSUME NEW i \in 1..n, i - 1 \in P
      PROVE  i \in P
  <2>1. i \in 0..n /\ args[i] \in Arguments
    BY <1>1 DEF n
  <2> QED
    BY <1>7, <1>9, <2>1, TurnIsTyped
<1> HIDE DEF P
<1>10. 0..n \subseteq P
  BY <1>1, <1>8, <1>9, Induction
<1>11. \A i \in 0..n : loop[i] \in ParseStates
  BY <1>10 DEF P
<1> QED
  BY <1>7, <1>11 DEF loop, n, base, Parses

\* What parseRecommend returns has the shape of a query.
LEMMA ParsedIsTyped ==
    ASSUME NEW args \in Seq(Arguments)
    PROVE  ParseRecommend(args) \in ParseStates /\ QueryOf(args) \in Queries
<1> DEFINE end == ParseLoop(args)[Len(args)]
<1>1. end \in ParseStates
  <2>1. Parses(ParseLoop(args), args)
    BY ParseLoopDefined
  <2>2. Len(args) \in 0..Len(args)
    OBVIOUS
  <2> QED
    BY <2>1, <2>2 DEF Parses
<1>2. Parsed("usage") \in ParseStates
  BY StatesFacts
<1> HIDE DEF end
<1>3. ParseRecommend(args) \in ParseStates
  BY <1>1, <1>2 DEF ParseRecommend, end
<1> DEFINE texts == ParseRecommend(args).texts
<1>4. texts \in [Fields -> Said]
  BY <1>3 DEF ParseStates
<1>5. texts.country \in Said /\ texts.city \in Said /\ texts.server \in Said
  BY <1>4 DEF Fields
<1>6. QueryOf(args) = [country |-> texts.country, city |-> texts.city, host |-> HostOf(texts.server)]
  BY DEF QueryOf
<1> HIDE DEF texts
<1> QED
  BY <1>3, <1>5, <1>6 DEF Queries

-----------------------------------------------------------------------------
(* parseRecommend against the usage line.                                  *)

\* The argument at i may stand there, as far as the one before it and the
\* flag it has go.
Stands(args, i) ==
    /\ i > 1 /\ args[i - 1].flag \in Options => ~HasDash(args[i])
    /\ args[i].flag \in {"--city=", "--server="} => args[i].text # ""
    /\ args[i].flag \in Options \cup {"", "--json", "--city=", "--server="}

\* The first i arguments are well formed, but that an option at i may wait for
\* its value.
Sound(args, i) ==
    /\ \A k \in 1..i : Stands(args, k)
    /\ \A f \in Fields : \A j, k \in Givers(args, f) : j < k /\ k <= i => args[j].text = ""

Waits(args, i) == i > 0 /\ args[i].flag \in Options

\* t is the text that the first i arguments give for a field.
Collected(args, i, f, t) ==
    /\ \A j \in Givers(args, f) : j <= i /\ args[j].text # "" => args[j].text = t
    /\ t # "" => \E j \in Givers(args, f) : j <= i /\ args[j].text = t

\* One of the first i arguments is help, and well formed is what comes before it.
Helped(args, i) ==
    \E k \in 1..i : Helps(args[k]) /\ Sound(args, k - 1) /\ ~Waits(args, k - 1)

\* What parseRecommend's loop has found out after i arguments.
AsRead(s, args, i) ==
    /\ s.status = "go" <=> Sound(args, i)
    /\ s.status = "help" <=> Helped(args, i)
    /\ s.status = "go" => /\ s.waits = IF Waits(args, i) THEN args[i].flag ELSE ""
                          /\ \A f \in Fields : Collected(args, i, f, s.texts[f])

\* Well formed is what is sound and waits for nothing, also of a prefix.
LEMMA SoundIsWellFormed ==
    ASSUME NEW args \in Seq(Arguments), NEW i \in 0..Len(args),
           NEW s \in Seq(Arguments), Len(s) = i, \A j \in 1..i : s[j] = args[j]
    PROVE  WellFormed(s) <=> Sound(args, i) /\ ~Waits(args, i)
<1>1. DOMAIN s = 1..i /\ DOMAIN args = 1..Len(args) /\ i \in Nat /\ Len(args) \in Nat
  OBVIOUS
<1>2. \A j \in 1..i : j \in 1..Len(args) /\ (j > 1 => j - 1 \in 1..i) /\ (j < i => j + 1 \in 1..i)
  BY <1>1
<1>3. \A f \in Fields : \A j : j \in Givers(s, f) <=> j \in Givers(args, f) /\ j <= i
  <2>1. \A j \in 1..i : IsValue(s, j) <=> IsValue(args, j)
    BY <1>1, <1>2 DEF IsValue
  <2>2. \A j \in 1..i : j > 1 => s[j - 1] = args[j - 1]
    BY <1>1, <1>2
  <2>3. \A j \in 1..i : IsValue(s, j) => j > 1
    BY DEF IsValue
  <2>4. \A f \in Fields : \A j \in 1..i : j \in Givers(s, f) <=> j \in Givers(args, f)
    BY <1>1, <1>2, <2>1, <2>2, <2>3 DEF Givers
  <2>5. \A f \in Fields : \A j : j \in Givers(s, f) => j \in 1..i
    BY <1>1 DEF Givers
  <2>6. \A f \in Fields : \A j : j \in Givers(args, f) => j \in 1..Len(args)
    BY <1>1 DEF Givers
  <2>7. \A j : j \in 1..Len(args) /\ j <= i => j \in 1..i
    BY <1>1
  <2>8. \A j \in 1..i : j <= i
    BY <1>1
  <2> QED
    BY <2>4, <2>5, <2>6, <2>7, <2>8
<1>4. (\A f \in Fields : \A j, k \in Givers(s, f) : j < k => s[j].text = "")
      <=> (\A f \in Fields : \A j, k \in Givers(args, f) : j < k /\ k <= i => args[j].text = "")
  <2>1. \A f \in Fields : \A j \in Givers(args, f) : j \in 1..Len(args)
    BY <1>1 DEF Givers
  <2>2. \A j, k \in 1..Len(args) : j < k /\ k <= i => j <= i /\ j \in 1..i
    BY <1>1
  <2>3. \A f \in Fields : \A j \in Givers(s, f) : j \in 1..i /\ s[j] = args[j]
    BY <1>1 DEF Givers
  <2> QED
    BY <1>3, <2>1, <2>2, <2>3
<1>5. (\A j \in 1..i : /\ s[j].flag \in Options => j < i /\ ~HasDash(s[j + 1])
                       /\ s[j].flag \in {"--city=", "--server="} => s[j].text # ""
                       /\ s[j].flag \in Options \cup {"", "--json", "--city=", "--server="})
      <=> (\A j \in 1..i : Stands(args, j)) /\ ~Waits(args, i)
  <2> DEFINE known(a) == /\ a.flag \in {"--city=", "--server="} => a.text # ""
                         /\ a.flag \in Options \cup {"", "--json", "--city=", "--server="}
             option(a) == a.flag \in Options
             dash(a) == HasDash(a)
  <2>1. \A j \in 1..i : Stands(args, j) <=> (j > 1 /\ option(args[j - 1]) => ~dash(args[j])) /\ known(args[j])
    BY DEF Stands
  <2>2. Waits(args, i) <=> i > 0 /\ option(args[i])
    BY DEF Waits
  <2> SUFFICES (\A j \in 1..i : (option(s[j]) => j < i /\ ~dash(s[j + 1])) /\ known(s[j]))
               <=> (\A j \in 1..i : Stands(args, j)) /\ ~Waits(args, i)
    OBVIOUS
  <2> HIDE DEF known, option, dash
  <2>3. ASSUME \A j \in 1..i : (option(s[j]) => j < i /\ ~dash(s[j + 1])) /\ known(s[j])
        PROVE  (\A j \in 1..i : Stands(args, j)) /\ ~Waits(args, i)
    <3>1. ASSUME NEW j \in 1..i, j > 1, option(args[j - 1])
          PROVE  ~dash(args[j])
      <4>1. j - 1 \in 1..i /\ j - 1 + 1 = j
        BY <1>1, <3>1
      <4>2. s[j - 1] = args[j - 1] /\ s[j] = args[j]
        BY <4>1
      <4> QED
        BY <2>3, <3>1, <4>1, <4>2
    <3>2. \A j \in 1..i : known(args[j])
      BY <2>3
    <3>3. i > 0 => i \in 1..i /\ ~(i < i)
      BY <1>1
    <3>4. ~(i > 0 /\ option(args[i]))
      BY <2>3, <3>3
    <3> QED
      BY <2>1, <2>2, <3>1, <3>2, <3>4
  <2>4. ASSUME \A j \in 1..i : Stands(args, j), ~Waits(args, i), NEW j \in 1..i
        PROVE  (option(s[j]) => j < i /\ ~dash(s[j + 1])) /\ known(s[j])
    <3>1. known(s[j])
      BY <2>1, <2>4
    <3>2. ASSUME option(s[j])
          PROVE  j < i /\ ~dash(s[j + 1])
      <4>1. option(args[j])
        BY <3>2
      <4>2. j # i
        BY <1>1, <2>2, <2>4, <4>1
      <4>3. j < i /\ j + 1 \in 1..i /\ j + 1 > 1 /\ j + 1 - 1 = j
        BY <1>1, <4>2
      <4>4. ~dash(args[j + 1])
        BY <2>1, <2>4, <4>1, <4>3
      <4> QED
        BY <4>3, <4>4
    <3> QED
      BY <3>1, <3>2
  <2> QED
    BY <2>3, <2>4
<1>6. DOMAIN Texts = Fields
  BY TextsFacts
<1> QED
  BY <1>1, <1>4, <1>5, <1>6 DEF WellFormed, Sound

\* What the argument at i gives, if it may stand there.
LEMMA GiversAre ==
    ASSUME NEW args \in Seq(Arguments), NEW i \in 1..Len(args), NEW f \in Fields
    PROVE  /\ Waits(args, i - 1) /\ ~HasDash(args[i]) =>
                (i \in Givers(args, f) <=> f = FieldOf(args[i - 1].flag))
           /\ ~Waits(args, i - 1) =>
                /\ args[i].flag = "" => (i \in Givers(args, f) <=> f = "country")
                /\ args[i].flag \in {"--city=", "--server="} =>
                       (i \in Givers(args, f) <=> f = FieldOf(args[i].flag))
                /\ args[i].flag \notin {"", "--city=", "--server="} => i \notin Givers(args, f)
<1>1. i \in DOMAIN args /\ i > 0 /\ (i > 1 <=> i - 1 > 0)
  OBVIOUS
<1>2. IsValue(args, i) <=> Waits(args, i - 1) /\ ~HasDash(args[i])
  BY <1>1 DEF IsValue, Waits
<1>3. i \in Givers(args, f) <=>
        \/ IsValue(args, i) /\ FieldOf(args[i - 1].flag) = f
        \/ args[i].flag \in {"--city=", "--server="} /\ FieldOf(args[i].flag) = f
        \/ f = "country" /\ ~HasDash(args[i]) /\ ~IsValue(args, i)
  BY <1>1 DEF Givers
<1>4. \A flag : FieldOf(flag) # "country"
  BY DEF FieldOf
<1> QED
  BY <1>2, <1>3, <1>4 DEF HasDash

\* The argument at i is allowed after i - 1 that are sound.
Fits(args, i) ==
    /\ Stands(args, i)
    /\ \A f \in Fields : i \in Givers(args, f) =>
          \A j \in Givers(args, f) : j < i => args[j].text = ""

LEMMA SoundStep ==
    ASSUME NEW args \in Seq(Arguments), NEW i \in 1..Len(args)
    PROVE  /\ Sound(args, i) <=> Sound(args, i - 1) /\ Fits(args, i)
           /\ Helped(args, i) <=> \/ Helped(args, i - 1)
                                  \/ Helps(args[i]) /\ Sound(args, i - 1) /\ ~Waits(args, i - 1)
<1>1. i \in Nat /\ i - 1 \in Nat /\ DOMAIN args = 1..Len(args)
  OBVIOUS
<1>2. \A k : k \in 1..i <=> k \in 1..(i - 1) \/ k = i
  BY <1>1
<1>3. \A f \in Fields : \A j \in Givers(args, f) : j \in Nat
  BY <1>1 DEF Givers
<1>4. \A j, k \in Nat : j < k /\ k <= i <=> (j < k /\ k <= i - 1) \/ (j < i /\ k = i)
  BY <1>1
<1>5. (\A f \in Fields : \A j, k \in Givers(args, f) : j < k /\ k <= i => args[j].text = "")
      <=> /\ \A f \in Fields : \A j, k \in Givers(args, f) : j < k /\ k <= i - 1 => args[j].text = ""
          /\ \A f \in Fields : i \in Givers(args, f) =>
                \A j \in Givers(args, f) : j < i => args[j].text = ""
  BY <1>3, <1>4
<1>6. (\A k \in 1..i : Stands(args, k)) <=> (\A k \in 1..(i - 1) : Stands(args, k)) /\ Stands(args, i)
  BY <1>2
<1> QED
  BY <1>2, <1>5, <1>6 DEF Sound, Fits, Helped

\* An argument that gives a field something gives what may be set once.
LEMMA GivenOnce ==
    ASSUME NEW args \in Seq(Arguments), NEW i \in 1..Len(args), NEW f \in Fields, NEW texts \in [Fields -> Said],
           \A g \in Fields : Collected(args, i - 1, g, texts[g]),
           \A g \in Fields : i \in Givers(args, g) <=> g = f,
           Stands(args, i)
    PROVE  /\ Fits(args, i) <=> texts[f] = ""
           /\ texts[f] = "" => \A g \in Fields : Collected(args, i, g, [texts EXCEPT ![f] = args[i].text][g])
<1>1. i \in Nat /\ \A g \in Fields : \A j \in Givers(args, g) : j \in Nat
  BY DEF Givers
<1>2. \A j \in Nat : (j < i <=> j <= i - 1) /\ (j <= i <=> j <= i - 1 \/ j = i)
  BY <1>1
<1>3. Fits(args, i) <=> \A j \in Givers(args, f) : j < i => args[j].text = ""
  BY DEF Fits
<1>4. texts[f] = "" <=> \A j \in Givers(args, f) : j <= i - 1 => args[j].text = ""
  BY DEF Collected
<1>5. Fits(args, i) <=> texts[f] = ""
  BY <1>1, <1>2, <1>3, <1>4
<1>6. ASSUME texts[f] = "", NEW g \in Fields
      PROVE  Collected(args, i, g, [texts EXCEPT ![f] = args[i].text][g])
  <2>1. CASE g = f
    <3>1. [texts EXCEPT ![f] = args[i].text][g] = args[i].text
      BY <2>1
    <3>2. i \in Givers(args, g)
      BY <2>1
    <3>3. \A j \in Givers(args, g) : j <= i - 1 => args[j].text = ""
      BY <1>4, <1>6, <2>1
    <3>4. i <= i
      BY <1>1
    <3> QED
      BY <1>1, <1>2, <3>1, <3>2, <3>3, <3>4 DEF Collected
  <2>2. CASE g # f
    <3>1. [texts EXCEPT ![f] = args[i].text][g] = texts[g]
      BY <2>2
    <3>2. \A j \in Givers(args, g) : j <= i <=> j <= i - 1
      BY <1>1, <1>2, <2>2
    <3> QED
      BY <3>1, <3>2 DEF Collected
  <2> QED
    BY <2>1, <2>2
<1> QED
  BY <1>5, <1>6

\* One that gives nothing leaves what has been collected.
LEMMA NothingGiven ==
    ASSUME NEW args \in Seq(Arguments), NEW i \in 1..Len(args), NEW texts \in [Fields -> Said],
           \A g \in Fields : Collected(args, i - 1, g, texts[g]),
           \A g \in Fields : i \notin Givers(args, g)
    PROVE  /\ Fits(args, i) <=> Stands(args, i)
           /\ \A g \in Fields : Collected(args, i, g, texts[g])
<1>1. i \in Nat /\ \A g \in Fields : \A j \in Givers(args, g) : j \in Nat
  BY DEF Givers
<1>2. \A j \in Nat : j <= i <=> j <= i - 1 \/ j = i
  BY <1>1
<1>3. \A g \in Fields : \A j \in Givers(args, g) : j <= i <=> j <= i - 1
  BY <1>1, <1>2
<1> QED
  BY <1>3 DEF Fits, Collected

\* A turn of the loop finds out what there is to find out about its argument.
LEMMA TurnReads ==
    ASSUME NEW args \in Seq(Arguments), NEW i \in 1..Len(args), NEW s \in ParseStates, AsRead(s, args, i - 1)
    PROVE  AsRead(ParseArgument(s, args[i]), args, i)
<1> DEFINE arg == args[i]
           next == ParseArgument(s, args[i])
<1>1. arg \in Arguments /\ s.texts \in [Fields -> Said]
  <2>1. arg \in Arguments
    OBVIOUS
  <2>2. s.texts \in [Fields -> Said]
    BY DEF ParseStates
  <2> QED
    BY <2>1, <2>2
<1>2. i > 0 /\ (Waits(args, i) <=> arg.flag \in Options)
  BY DEF Waits
<1>3. /\ Sound(args, i) <=> Sound(args, i - 1) /\ Fits(args, i)
      /\ Helped(args, i) <=> \/ Helped(args, i - 1)
                             \/ Helps(arg) /\ Sound(args, i - 1) /\ ~Waits(args, i - 1)
  BY SoundStep
<1>4. Parsed("usage").status = "usage" /\ Parsed("help").status = "help"
      /\ \A texts, w : LET p == Parsing(texts, w) IN p.status = "go" /\ p.texts = texts /\ p.waits = w
  BY DEF Parsed, Parsing
<1>5. Stands(args, i) <=> /\ Waits(args, i - 1) => ~HasDash(arg)
                          /\ arg.flag \in {"--city=", "--server="} => arg.text # ""
                          /\ arg.flag \in Options \cup {"", "--json", "--city=", "--server="}
  <2>1. Waits(args, i - 1) <=> i > 1 /\ args[i - 1].flag \in Options
    BY DEF Waits
  <2> QED
    BY <2>1 DEF Stands
\* A field is set, or was set already.
<1>6. ASSUME s.status = "go", NEW f \in Fields, \A g \in Fields : i \in Givers(args, g) <=> g = f,
             Stands(args, i), ~Helps(arg), ~Waits(args, i), next = SetOnce(s.texts, f, arg.text)
      PROVE  AsRead(next, args, i)
  <2>1. \A g \in Fields : Collected(args, i - 1, g, s.texts[g])
    BY <1>6 DEF AsRead
  <2>2. /\ Fits(args, i) <=> s.texts[f] = ""
        /\ s.texts[f] = "" => \A g \in Fields : Collected(args, i, g, [s.texts EXCEPT ![f] = arg.text][g])
    BY <1>1, <1>6, <2>1, GivenOnce
  <2>3. Sound(args, i - 1) /\ ~Helped(args, i - 1)
    BY <1>6 DEF AsRead
  <2>4. CASE s.texts[f] # ""
    <3>1. next.status = "usage"
      BY <1>4, <1>6, <2>4 DEF SetOnce
    <3> QED
      BY <1>3, <1>6, <2>2, <2>3, <2>4, <3>1 DEF AsRead
  <2>5. CASE s.texts[f] = ""
    <3>1. next.status = "go" /\ next.texts = [s.texts EXCEPT ![f] = arg.text] /\ next.waits = ""
      <4>1. next = Parsing([s.texts EXCEPT ![f] = arg.text], "")
        BY <1>6, <2>5 DEF SetOnce
      <4> HIDE DEF next
      <4> QED
        BY <4>1 DEF Parsing
    <3> QED
      BY <1>3, <1>6, <2>2, <2>3, <2>5, <3>1 DEF AsRead
  <2> QED
    BY <2>4, <2>5
\* The argument is not allowed.
<1>7. ASSUME s.status = "go", ~Stands(args, i), ~Helps(arg) \/ Waits(args, i - 1), next = Parsed("usage")
      PROVE  AsRead(next, args, i)
  <2>1. ~Fits(args, i)
    BY <1>7 DEF Fits
  <2> QED
    BY <1>3, <1>4, <1>7, <2>1 DEF AsRead
\* The argument gives nothing.
<1>8. ASSUME s.status = "go", \A g \in Fields : i \notin Givers(args, g), Stands(args, i), ~Helps(arg),
             next.status = "go", next.texts = s.texts, next.waits = IF Waits(args, i) THEN arg.flag ELSE ""
      PROVE  AsRead(next, args, i)
  <2>1. \A g \in Fields : Collected(args, i - 1, g, s.texts[g])
    BY <1>8 DEF AsRead
  <2>2. Fits(args, i) /\ \A g \in Fields : Collected(args, i, g, s.texts[g])
    BY <1>1, <1>8, <2>1, NothingGiven
  <2> QED
    BY <1>3, <1>8, <2>2 DEF AsRead
<1>9. CASE s.status # "go"
  <2>1. next = s
    BY <1>9 DEF ParseArgument
  <2> QED
    BY <1>3, <1>9, <2>1 DEF AsRead
<1>10. CASE s.status = "go" /\ Waits(args, i - 1)
  <2>1. s.waits = args[i - 1].flag /\ s.waits \in Options /\ s.waits # ""
    BY <1>10 DEF AsRead, Waits, Options
  <2>2. CASE HasDash(arg)
    <3>1. next = Parsed("usage")
      BY <1>10, <2>1, <2>2 DEF ParseArgument
    <3> QED
      BY <1>5, <1>7, <1>10, <2>2, <3>1
  <2>3. CASE ~HasDash(arg)
    <3>1. arg.flag = "" /\ ~Helps(arg) /\ ~Waits(args, i) /\ Stands(args, i)
      BY <1>2, <1>5, <2>3 DEF HasDash, Helps, Options
    <3>2. next = SetOnce(s.texts, FieldOf(args[i - 1].flag), arg.text)
      BY <1>10, <2>1, <2>3 DEF ParseArgument
    <3>3. FieldOf(args[i - 1].flag) \in Fields
      BY DEF FieldOf, Fields
    <3>4. ASSUME NEW g \in Fields
          PROVE  i \in Givers(args, g) <=> g = FieldOf(args[i - 1].flag)
      <4>1. Waits(args, i - 1) /\ ~HasDash(args[i]) =>
               (i \in Givers(args, g) <=> g = FieldOf(args[i - 1].flag))
        BY GiversAre, ZenonT(60)
      <4> QED
        BY <1>10, <2>3, <4>1
    <3> QED
      BY <1>6, <1>10, <3>1, <3>2, <3>3, <3>4
  <2> QED
    BY <2>2, <2>3
<1>11. CASE s.status = "go" /\ ~Waits(args, i - 1)
  <2>1. s.waits = ""
    BY <1>11 DEF AsRead
  <2>2. \A g \in Fields :
           /\ arg.flag = "" => (i \in Givers(args, g) <=> g = "country")
           /\ arg.flag \in {"--city=", "--server="} => (i \in Givers(args, g) <=> g = FieldOf(arg.flag))
           /\ arg.flag \notin {"", "--city=", "--server="} => i \notin Givers(args, g)
    BY <1>11, GiversAre
  <2>3. CASE arg.flag = "--json"
    <3>1. next = s
      BY <1>11, <2>1, <2>3 DEF ParseArgument, Helps, Options
    <3>2. ~Helps(arg) /\ ~Waits(args, i) /\ Stands(args, i)
      BY <1>2, <1>5, <1>11, <2>3 DEF Helps, Options
    <3>3. \A g \in Fields : i \notin Givers(args, g)
      BY <2>2, <2>3
    <3> QED
      BY <1>8, <1>11, <2>1, <3>1, <3>2, <3>3
  <2>4. CASE Helps(arg)
    <3>1. next.status = "help"
      BY <1>4, <1>11, <2>1, <2>4 DEF ParseArgument, Helps
    <3>2. ~Stands(args, i)
      BY <1>5, <2>4 DEF Helps, Options
    <3>3. Helped(args, i) /\ ~Sound(args, i)
      BY <1>3, <1>11, <2>4, <3>2 DEF AsRead, Fits
    <3> QED
      BY <3>1, <3>3 DEF AsRead
  <2>5. CASE arg.flag \in Options
    <3>1. next = Parsing(s.texts, arg.flag)
      BY <1>11, <2>1, <2>5 DEF ParseArgument, Helps, Options
    <3>2. ~Helps(arg) /\ Waits(args, i) /\ Stands(args, i)
      BY <1>2, <1>5, <1>11, <2>5 DEF Helps, Options
    <3>3. \A g \in Fields : i \notin Givers(args, g)
      BY <2>2, <2>5 DEF Options
    <3> QED
      BY <1>4, <1>8, <1>11, <3>1, <3>2, <3>3
  <2>6. CASE arg.flag \in {"--city=", "--server="}
    <3>1. next = IF arg.text = "" THEN Parsed("usage") ELSE SetOnce(s.texts, FieldOf(arg.flag), arg.text)
      BY <1>11, <2>1, <2>6 DEF ParseArgument, Helps, Options
    <3>2. ~Helps(arg) /\ ~Waits(args, i) /\ (Stands(args, i) <=> arg.text # "")
      BY <1>2, <1>5, <1>11, <2>6 DEF Helps, Options
    <3>3. FieldOf(arg.flag) \in Fields
      BY DEF FieldOf, Fields
    <3> QED
      BY <1>6, <1>7, <1>11, <2>2, <2>6, <3>1, <3>2, <3>3
  <2>7. CASE arg.flag = ""
    <3>1. next = SetOnce(s.texts, "country", arg.text)
      BY <1>11, <2>1, <2>7 DEF ParseArgument, Helps, Options
    <3>2. ~Helps(arg) /\ ~Waits(args, i) /\ Stands(args, i)
      BY <1>2, <1>5, <1>11, <2>7 DEF Helps, Options
    <3>3. "country" \in Fields
      BY DEF Fields
    <3> QED
      BY <1>6, <1>11, <2>2, <2>7, <3>1, <3>2, <3>3
  <2>8. CASE arg.flag \notin Options \cup {"", "--json", "--city=", "--server="} /\ ~Helps(arg)
    <3>1. next = Parsed("usage")
      BY <1>11, <2>1, <2>8 DEF ParseArgument, Helps, Options
    <3>2. ~Stands(args, i)
      BY <1>5, <2>8
    <3> QED
      BY <1>7, <1>11, <2>8, <3>1, <3>2
  <2> QED
    BY <2>3, <2>4, <2>5, <2>6, <2>7, <2>8
<1> QED
  BY <1>9, <1>10, <1>11

\* So the loop has found out, after i arguments, what there is in them.
LEMMA LoopReads ==
    ASSUME NEW args \in Seq(Arguments), NEW i \in 0..Len(args)
    PROVE  AsRead(ParseLoop(args)[i], args, i)
<1> DEFINE loop == ParseLoop(args)
           n == Len(args)
           P == {k \in 0..n : AsRead(loop[k], args, k)}
<1>1. n \in Nat
  OBVIOUS
<1>2. Parses(loop, args)
  BY ParseLoopDefined
<1> HIDE DEF loop
<1>3. AsRead(loop[0], args, 0)
  <2>1. loop[0].status = "go" /\ loop[0].texts = Texts /\ loop[0].waits = ""
    <3>1. loop[0] = Parsing(Texts, "")
      BY <1>2 DEF Parses
    <3>2. \A texts : LET s == Parsing(texts, "") IN s.status = "go" /\ s.texts = texts /\ s.waits = ""
      BY DEF Parsing
    <3> QED
      BY <3>1, <3>2
  <2>2. 1..0 = {} /\ ~(0 > 0) /\ \A f \in Fields : \A k \in Givers(args, f) : ~(k <= 0)
    BY DEF Givers
  <2>3. Sound(args, 0) /\ ~Helped(args, 0) /\ ~Waits(args, 0)
    BY <2>2 DEF Sound, Helped, Waits
  <2>4. \A f \in Fields : Collected(args, 0, f, Texts[f])
    BY <2>2, TextsFacts DEF Collected
  <2> QED
    BY <2>1, <2>3, <2>4 DEF AsRead
<1>4. 0 \in P
  BY <1>1, <1>3
<1>5. ASSUME NEW k \in 1..n, k - 1 \in P
      PROVE  k \in P
  <2>1. k \in 0..n /\ k - 1 \in 0..n
    BY <1>1
  <2>2. loop[k] = ParseArgument(loop[k - 1], args[k]) /\ loop[k - 1] \in ParseStates
    BY <1>2, <2>1 DEF Parses
  <2>3. AsRead(loop[k - 1], args, k - 1)
    BY <1>5
  <2>4. AsRead(ParseArgument(loop[k - 1], args[k]), args, k)
    BY <2>2, <2>3, TurnReads
  <2> QED
    BY <2>1, <2>2, <2>4
<1> HIDE DEF P
<1>6. 0..n \subseteq P
  BY <1>1, <1>4, <1>5, Induction
<1>7. i \in P
  BY <1>6
<1> QED
  BY <1>7 DEF P, loop

\* What is collected from sound arguments is what they give.
LEMMA GivenIsCollected ==
    ASSUME NEW args \in Seq(Arguments), NEW f \in Fields, NEW t,
           Collected(args, Len(args), f, t)
    PROVE  Given(args, f) = t
<1> DEFINE texts == {args[i].text : i \in Givers(args, f)} \ {""}
<1>1. \A j \in Givers(args, f) : j <= Len(args)
  BY DEF Givers
<1>2. \A x \in texts : x = t
  BY <1>1 DEF Collected
<1>3. t # "" => t \in texts
  BY DEF Collected
<1>4. Given(args, f) = IF texts = {} THEN "" ELSE CHOOSE x \in texts : TRUE
  BY DEF Given
<1>5. "" \notin texts
  OBVIOUS
<1> HIDE DEF texts
<1> QED
  BY <1>2, <1>3, <1>4, <1>5

\* parseRecommend reads its arguments as the usage line does.
LEMMA ReadAsWritten ==
    ASSUME NEW args \in Seq(Arguments)
    PROVE  LET parsed == ParseRecommend(args)
           IN  /\ parsed.status = "help" <=>
                    \E i \in DOMAIN args : Helps(args[i]) /\ WellFormed(SubSeq(args, 1, i - 1))
               /\ parsed.status = "go" <=> WellFormed(args) /\ Given(args, "country") # ""
               /\ parsed.status = "go" => parsed.texts = [f \in DOMAIN Texts |-> Given(args, f)]
<1> DEFINE n == Len(args)
           end == ParseLoop(args)[n]
           parsed == ParseRecommend(args)
<1>1. n \in 0..n /\ n \in Nat /\ DOMAIN args = 1..n
  OBVIOUS
<1>2. AsRead(end, args, n)
  BY <1>1, LoopReads
<1>3. end \in ParseStates
  BY <1>1, ParseLoopDefined DEF Parses
<1>4. WellFormed(args) <=> Sound(args, n) /\ ~Waits(args, n)
  BY <1>1, SoundIsWellFormed
<1>5. ASSUME NEW i \in 1..n
      PROVE  WellFormed(SubSeq(args, 1, i - 1)) <=> Sound(args, i - 1) /\ ~Waits(args, i - 1)
  <2> DEFINE s == SubSeq(args, 1, i - 1)
  <2>1. i - 1 \in 0..n
    BY <1>1
  <2>2. s \in Seq(Arguments) /\ Len(s) = i - 1 /\ \A j \in 1..(i - 1) : s[j] = args[j]
    BY <1>1, <2>1
  <2> HIDE DEF s
  <2>3. WellFormed(s) <=> Sound(args, i - 1) /\ ~Waits(args, i - 1)
    BY <2>1, <2>2, SoundIsWellFormed
  <2> QED
    BY <2>3 DEF s
<1>6. Helped(args, n) <=> \E i \in DOMAIN args : Helps(args[i]) /\ WellFormed(SubSeq(args, 1, i - 1))
  BY <1>1, <1>5 DEF Helped
<1>7. DOMAIN Texts = Fields /\ "country" \in Fields
  BY TextsFacts DEF Fields
<1>8. parsed = IF end.status = "go" /\ (end.waits # "" \/ end.texts["country"] = "") THEN Parsed("usage") ELSE end
  BY DEF ParseRecommend
<1>9. Parsed("usage").status = "usage"
  BY DEF Parsed
<1>10. Waits(args, n) => args[n].flag # ""
  BY DEF Waits, Options
<1>11. end.status = "go" => /\ end.waits # "" <=> Waits(args, n)
                            /\ \A f \in Fields : end.texts[f] = Given(args, f)
  BY <1>2, <1>10, GivenIsCollected DEF AsRead
<1>12. end.texts = [f \in Fields |-> end.texts[f]]
  BY <1>3 DEF ParseStates
<1> HIDE DEF parsed, end
<1>13. parsed.status = "help" <=> Helped(args, n)
  BY <1>2, <1>8, <1>9 DEF AsRead
<1>14. parsed.status = "go" <=> WellFormed(args) /\ Given(args, "country") # ""
  BY <1>2, <1>4, <1>7, <1>8, <1>9, <1>11 DEF AsRead
<1>15. ASSUME parsed.status = "go"
       PROVE  parsed.texts = [f \in DOMAIN Texts |-> Given(args, f)]
  <2>1. parsed = end /\ end.status = "go"
    BY <1>8, <1>9, <1>15
  <2> QED
    BY <1>7, <1>11, <1>12, <2>1
<1> QED
  BY <1>6, <1>13, <1>14, <1>15 DEF parsed

-----------------------------------------------------------------------------
(* Invocations.                                                            *)

\* The part of the invariant that is about the invocation.
InvocationInv ==
    /\ command \in Commands
    /\ StagesInOrder
    /\ RefusalsTouchNothing
    /\ TokenIsWhole
    /\ AnswerIsWhole
    /\ ReconnectAsks

Refusals == {"usage", "flag_required", "unavailable", "help"}

\* A row that may be reported for c: a refusal only when nothing has been called.
MayReport(c, row) ==
    /\ row.exit \in 0..ExitBusy /\ row.code \in Codes
    /\ row.code \in Refusals => c.called = {}

\* An invocation that ends with such a row is in order.
LEMMA ReportIsInOrder ==
    ASSUME NEW c \in Commands, NEW row, MayReport(c, row), Report(c, row)
    PROVE  InvocationInv'
<1>1. PICK exit \in {row.exit} \cup (IF c.json THEN {ExitNetwork} ELSE {}) :
          command' = [c EXCEPT !.stage = "done", !.exit = exit, !.code = row.code]
  BY DEF Report
<1>2. exit \in 0..ExitBusy
  BY DEF MayReport, ExitNetwork, ExitBusy
<1>3. "done" \in Stages /\ row.code \in Codes
  BY DEF Stages, MayReport
<1>4. command' \in Commands
  BY <1>1, <1>2, <1>3 DEF Commands
<1>5. command'.stage = "done" /\ command'.code = row.code /\ command'.called = c.called /\ command'.pair = c.pair
  BY <1>1 DEF Commands
<1> QED
  BY <1>4, <1>5 DEF InvocationInv, StagesInOrder, RefusalsTouchNothing, TokenIsWhole, AnswerIsWhole,
                    ReconnectAsks, At, MayReport, Refusals

\* An invocation that goes on has called one thing more.
LEMMA CallingFacts ==
    ASSUME command \in Commands, NEW op \in Calls
    PROVE  /\ Calling(op) \in Commands
           /\ Calling(op).name = command.name /\ Calling(op).pair = command.pair /\ Calling(op).code = command.code
           /\ Calling(op).stage = command.stage /\ Calling(op).left = command.left
           /\ Calling(op).called = command.called \cup {op}
<1>1. command.called \cup {op} \in SUBSET Calls
  BY DEF Commands
<1> QED
  BY <1>1 DEF Commands, Calling

\* The invocation that has not begun.
LEMMA IdleFacts ==
    /\ Idle \in Commands
    /\ Idle.stage = "idle" /\ Idle.name = "none" /\ Idle.called = {} /\ Idle.pair = "kept" /\ Idle.code = "none"
<1>1. ASSUME NEW a \in Stages, NEW b \in Names, NEW c \in Seq(Arguments), NEW d \in BOOLEAN, NEW e \in Queries,
             NEW f \in Seq(TokenBytes), NEW g \in Seq(TokenBytes), NEW h \in Replies \cup {NoAnswer},
             NEW i \in SUBSET Calls, NEW k \in {"kept", "changed", "partial"}, NEW l \in Places \cup {None},
             NEW m \in 0..ExitBusy, NEW n \in Codes
      PROVE  [stage |-> a, name |-> b, args |-> c, json |-> d, asks |-> e, input |-> f, token |-> g, answer |-> h,
              called |-> i, pair |-> k, left |-> l, exit |-> m, code |-> n] \in Commands
  BY DEF Commands, Arguments
<1>2. "idle" \in Stages /\ "none" \in Names /\ "none" \in Codes /\ "kept" \in {"kept", "changed", "partial"}
  BY DEF Stages, Names, Codes
<1>3. NoQuery \in Queries
  <2>1. "" \in Said /\ HostOf("") = NoHost
    BY DEF Said, HostOf
  <2>2. ASSUME NEW x \in Said PROVE [country |-> x, city |-> x, host |-> HostOf(x)] \in Queries
    BY DEF Queries
  <2> DEFINE e == ""
  <2>3. e \in Said /\ HostOf(e) = NoHost
    BY <2>1
  <2>4. NoQuery = [country |-> e, city |-> e, host |-> NoHost]
    BY DEF NoQuery
  <2> HIDE DEF e
  <2> QED
    BY <2>2, <2>3, <2>4
<1>4. <<>> \in Seq(Arguments) /\ <<>> \in Seq(TokenBytes) /\ Refused \in Seq(TokenBytes) /\ {} \in SUBSET Calls
  BY DEF Refused
<1>5. ExitOK \in 0..ExitBusy /\ FALSE \in BOOLEAN
  BY DEF ExitOK, ExitBusy
<1>6. NoAnswer \in Replies \cup {NoAnswer} /\ None \in Places \cup {None}
  OBVIOUS
<1>7. Idle \in Commands
  BY <1>1, <1>2, <1>3, <1>4, <1>5, <1>6, ZenonT(60) DEF Idle
<1> QED
  BY <1>7 DEF Idle

\* It is in order.
LEMMA IdleIsInOrder ==
    /\ command = Idle => InvocationInv
    /\ command' = Idle => InvocationInv'
<1> HIDE DEF Idle
<1> QED
  BY IdleFacts DEF InvocationInv, StagesInOrder, RefusalsTouchNothing, TokenIsWhole, AnswerIsWhole,
                   ReconnectAsks, At

\* What the user may write is made of known flags and words.
LEMMA ArgumentsAreTyped ==
    ASSUME NEW name \in Names, NEW args \in ArgumentsOf(name)
    PROVE  args \in Seq(Arguments)
<1>1. QueryArguments \subseteq Arguments
  <2>1. \A f \in Flags, w \in Said : [flag |-> f, text |-> w] \in Arguments
    BY DEF Arguments
  <2>2. /\ {"--json", "--help", "--city", "--server", "--other"} \subseteq Flags
        /\ {"--city=", "--server="} \subseteq Flags /\ "" \in Flags
        /\ "" \in Said /\ Words \subseteq Said /\ Assigned \subseteq Said
    BY DEF Flags, Said
  <2>3. /\ \A f \in Flags : Flag(f) \in Arguments
        /\ \A w \in Said : Word(w) \in Arguments
        /\ \A f \in Flags, w \in Said : Assign(f, w) \in Arguments
    BY <2>1, <2>2 DEF Flag, Word, Assign
  <2>4. {Flag(f) : f \in {"--json", "--help", "--city", "--server", "--other"}} \subseteq Arguments
    BY <2>2, <2>3
  <2>5. {Word(w) : w \in Words} \subseteq Arguments
    BY <2>2, <2>3
  <2>6. \A o \in {"--city=", "--server="} : {Assign(o, w) : w \in Assigned} \subseteq Arguments
    BY <2>2, <2>3
  <2>7. /\ {Assign("--city=", w) : w \in Assigned} \subseteq Arguments
        /\ {Assign("--server=", w) : w \in Assigned} \subseteq Arguments
    BY <2>6
  <2> QED
    BY <2>4, <2>5, <2>7 DEF QueryArguments
<1>2. SimpleArguments \subseteq Arguments
  <2>1. \A f \in Flags, w \in Said : [flag |-> f, text |-> w] \in Arguments
    BY DEF Arguments
  <2>2. /\ {"--json", "-h", "--fresh", "--local-only", "--token-stdin", "--refresh"} \subseteq Flags
        /\ "" \in Flags /\ "" \in Said /\ " " \in Said
    BY DEF Flags, Said
  <2> QED
    BY <2>1, <2>2, ZenonT(60) DEF SimpleArguments, Flag, Word
<1>3. args \in {<<>>} \/ args \in SeqOf(QueryArguments, MaxArgs) \/ args \in SeqOf(SimpleArguments, MaxArgs)
  BY DEF ArgumentsOf
<1>4. args = <<>> \/ args \in Seq(QueryArguments) \/ args \in Seq(SimpleArguments)
  BY <1>3, SeqOfIsSeq
<1>5. <<>> \in Seq(Arguments)
  OBVIOUS
<1> QED
  BY <1>1, <1>2, <1>4, <1>5, SeqMonotonic

\* What is asked for as a server has the shape of a host.
LEMMA AskedIsHost ==
    ASSUME command \in Commands
    PROVE  IsHost(command.asks.host)
<1>1. PICK text \in Said : command.asks.host = HostOf(text)
  <2>1. command.asks \in Queries
    BY DEF Commands
  <2> QED
    BY <2>1 DEF Queries
<1>2. IsHost(NoHost)
  BY NoQueryIsQuery
<1>3. \A w : IsHost([label |-> w, domain |-> ""])
  BY DEF IsHost
<1> QED
  BY <1>1, <1>2, <1>3, FullNameAssumption DEF HostOf

\* Arguments are taken in.
LEMMA StartIsInOrder ==
    ASSUME CommandInv, Start
    PROVE  CommandInv'
<1>1. PICK name \in Names, args \in Seq(Arguments) :
          command' = [Idle EXCEPT !.stage = "parse", !.name = name, !.args = args]
  BY ArgumentsAreTyped DEF Start
<1>2. "parse" \in Stages
  BY DEF Stages
<1>3. command' \in Commands
  BY <1>1, <1>2, IdleFacts DEF Commands, Arguments
<1>4. command'.stage = "parse" /\ command'.called = {} /\ command'.pair = "kept" /\ command'.code = "none"
  BY <1>1, IdleFacts DEF Commands
<1>5. InvocationInv'
  BY <1>3, <1>4 DEF InvocationInv, StagesInOrder, RefusalsTouchNothing, TokenIsWhole, AnswerIsWhole,
                    ReconnectAsks, At
<1>6. RecommendationInv'
  BY CallUntouched DEF Start, CommandInv, recommendation
<1>7. recorded' \in Places \cup {None}
  BY DEF Start, CommandInv, CommandTypeOK
<1> QED
  BY <1>5, <1>6, <1>7 DEF CommandInv, CommandTypeOK, InvocationInv

\* The invocation ends.
LEMMA ExitIsInOrder ==
    ASSUME CommandInv, Exit
    PROVE  CommandInv'
<1>1. InvocationInv'
  BY IdleIsInOrder DEF Exit
<1>2. RecommendationInv'
  BY RestIsInOrder DEF Exit
<1>3. recorded' \in Places \cup {None}
  BY DEF Exit, CommandInv, CommandTypeOK
<1> QED
  BY <1>1, <1>2, <1>3 DEF CommandInv, CommandTypeOK, InvocationInv

\* A step that reports what it may, and leaves the call alone, is in order.
LEMMA ReportKeepsOrder ==
    ASSUME CommandInv, NEW c \in Commands, NEW row, MayReport(c, row), Report(c, row),
           recorded' \in Places \cup {None}, UNCHANGED recommendation
    PROVE  CommandInv'
<1>1. InvocationInv'
  BY ReportIsInOrder
<1>2. RecommendationInv'
  BY CallUntouched DEF CommandInv
<1> QED
  BY <1>1, <1>2 DEF CommandInv, CommandTypeOK, InvocationInv

\* What most commands report: no refusal.
PlainCodes == Codes \ Refusals
IsPlain(row) == row.exit \in 0..ExitBusy /\ row.code \in PlainCodes

\* The rows of success, of the catalogue and of connections are plain.
LEMMA PlainRows ==
    /\ IsPlain(Done) /\ IsPlain(Row("invalid", ExitNetwork, "invalid_data"))
    /\ IsPlain(Row("token", ExitUsage, "invalid_token_input"))
    /\ \A errs : IsPlain(FailCatalog(errs)) /\ IsPlain(FailConnection(errs))
<1>1. \A e, x, code : Row(e, x, code).exit = x /\ Row(e, x, code).code = code
  BY DEF Row
<1>2. ExitOK \in 0..ExitBusy /\ ExitNetwork \in 0..ExitBusy /\ ExitUsage \in 0..ExitBusy
  BY DEF ExitOK, ExitNetwork, ExitUsage, ExitBusy
<1>3. /\ "ok" \in PlainCodes /\ "invalid_data" \in PlainCodes /\ "invalid_token_input" \in PlainCodes
      /\ ConnectionCodes \subseteq PlainCodes /\ CatalogCodes \subseteq PlainCodes
  BY DEF PlainCodes, Codes, Refusals, ConnectionCodes, CatalogCodes
<1>4. IsPlain(Done)
  BY <1>1, <1>2, <1>3 DEF IsPlain, Done
<1>5. IsPlain(Row("invalid", ExitNetwork, "invalid_data")) /\ IsPlain(Row("token", ExitUsage, "invalid_token_input"))
  BY <1>1, <1>2, <1>3 DEF IsPlain
<1>6. \A errs : IsPlain(FailCatalog(errs)) /\ IsPlain(FailConnection(errs))
  BY <1>3, ConnectionRows, CatalogRows DEF IsPlain
<1> QED
  BY <1>4, <1>5, <1>6

\* A plain row may always be reported.
LEMMA PlainReportKeepsOrder ==
    ASSUME CommandInv, NEW c \in Commands, NEW row, IsPlain(row), Report(c, row),
           recorded' \in Places \cup {None}, UNCHANGED recommendation
    PROVE  CommandInv'
<1>1. MayReport(c, row)
  BY DEF IsPlain, PlainCodes, MayReport
<1> QED
  BY <1>1, ReportKeepsOrder

\* An invocation that goes on.
LEMMA GoingOnIsInOrder ==
    ASSUME command' \in Commands, command'.stage \notin {"idle", "parse", "done"},
           command'.pair = "kept", command'.code = "none",
           TokenIsWhole', AnswerIsWhole', ReconnectAsks'
    PROVE  InvocationInv'
BY DEF InvocationInv, StagesInOrder, RefusalsTouchNothing

\* What an invocation that has not ended has not done.
LEMMA NotDoneFacts ==
    ASSUME CommandInv, command.stage # "done"
    PROVE  /\ command \in Commands /\ command.pair = "kept" /\ command.code = "none"
           /\ recorded \in Places \cup {None} /\ RecommendationInv
BY DEF CommandInv, CommandTypeOK, StagesInOrder

\* version and countries.
LEMMA CallPublicIsInOrder ==
    ASSUME CommandInv, CallPublic
    PROVE  CommandInv'
<1>1. command.stage = "call"
  BY DEF CallPublic, At
<1>2. /\ command \in Commands /\ command.pair = "kept" /\ recorded' \in Places \cup {None}
      /\ UNCHANGED recommendation
  BY <1>1, NotDoneFacts DEF CallPublic, recommendation
<1>3. Calling("countries") \in Commands /\ Calling("countries").pair = "kept"
  <2>1. "countries" \in Calls
    BY DEF Calls
  <2> QED
    BY <1>2, <2>1, CallingFacts
<1>4. CASE Report(command, Done)
  BY <1>2, <1>4, PlainRows, PlainReportKeepsOrder
<1>5. CASE \E row : IsPlain(row) /\ Report(Calling("countries"), row)
  BY <1>2, <1>3, <1>5, PlainReportKeepsOrder
<1> HIDE DEF Done, FailCatalog, Calling, Report
<1> QED
  BY <1>4, <1>5, PlainRows DEF CallPublic

\* The arguments are parsed.
LEMMA DispatchIsInOrder ==
    ASSUME CommandInv, NEW wired, Dispatch(wired)
    PROVE  CommandInv'
<1> DEFINE name == command.name
           args == command.args
           verdict == Parse(name, args)
           c == [command EXCEPT !.args = <<>>, !.json = HasJSON(args)]
           source == IF \E i \in DOMAIN args : args[i].flag = "--token-stdin" THEN "stdin" ELSE "terminal"
           stage == IF name = "login" THEN source ELSE "call"
           asks == IF name \in Queried THEN QueryOf(args) ELSE NoQuery
<1>1. command.stage = "parse" /\ UNCHANGED <<recorded, recommendation>>
  BY DEF Dispatch
<1>2. /\ command \in Commands /\ command.pair = "kept" /\ command.code = "none" /\ command.called = {}
      /\ recorded' \in Places \cup {None} /\ RecommendationInv
  BY <1>1, NotDoneFacts DEF CommandInv, StagesInOrder
<1>3. c \in Commands /\ c.pair = "kept" /\ c.code = "none" /\ c.called = {}
  <2>1. <<>> \in Seq(Arguments) /\ HasJSON(args) \in BOOLEAN
    BY DEF HasJSON
  <2> QED
    BY <1>2, <2>1 DEF Commands, Arguments
<1>4. args \in Seq(Arguments)
  BY <1>2 DEF Commands, Arguments
<1>5. RecommendationInv'
  BY <1>1, <1>2, CallUntouched DEF recommendation
<1>6. CASE command' = [c EXCEPT !.stage = "done", !.code = "help"]
  <2>1. "done" \in Stages /\ "help" \in Codes
    BY DEF Stages, Codes
  <2> HIDE DEF c
  <2>2. command' \in Commands
    BY <1>3, <1>6, <2>1 DEF Commands
  <2>3. command'.stage = "done" /\ command'.called = {} /\ command'.pair = "kept" /\ command'.code = "help"
    BY <1>3, <1>6 DEF Commands
  <2>4. InvocationInv'
    BY <2>2, <2>3 DEF InvocationInv, StagesInOrder, RefusalsTouchNothing, TokenIsWhole, AnswerIsWhole,
                      ReconnectAsks, At
  <2> QED
    BY <1>2, <1>5, <2>4 DEF CommandInv, CommandTypeOK, InvocationInv
<1>7. CASE \E code \in {"usage", "flag_required", "unavailable"} : Report(c, Row("usage", ExitUsage, code))
  <2> HIDE DEF c
  <2>1. PICK code \in {"usage", "flag_required", "unavailable"} : Report(c, Row("usage", ExitUsage, code))
    BY <1>7
  <2>2. /\ Row("usage", ExitUsage, code).exit = ExitUsage /\ Row("usage", ExitUsage, code).code = code
        /\ ExitUsage \in 0..ExitBusy /\ code \in Codes
    BY DEF Row, Codes, ExitUsage, ExitBusy
  <2>3. MayReport(c, Row("usage", ExitUsage, code))
    BY <1>3, <2>2 DEF MayReport
  <2> QED
    BY <1>1, <1>2, <1>3, <2>1, <2>3, ReportKeepsOrder
<1>8. CASE command' = [c EXCEPT !.stage = stage, !.asks = asks]
  <2>1. asks \in Queries
    BY <1>4, ParsedIsTyped, IdleFacts DEF Idle, Commands
  <2>2. stage \in Stages /\ stage \in {"stdin", "terminal", "call"}
    BY DEF Stages
  <2> HIDE DEF c, stage, asks
  <2>3. command' \in Commands
    BY <1>3, <1>8, <2>1, <2>2 DEF Commands
  <2>4. command'.stage = stage /\ command'.pair = "kept" /\ command'.code = "none"
    BY <1>3, <1>8 DEF Commands
  <2>5. InvocationInv'
    BY <2>2, <2>3, <2>4, GoingOnIsInOrder DEF TokenIsWhole, AnswerIsWhole, ReconnectAsks, At
  <2> QED
    BY <1>2, <1>5, <2>5 DEF CommandInv, CommandTypeOK, InvocationInv
<1>9. \/ command' = [c EXCEPT !.stage = "done", !.code = "help"]
      \/ Report(c, Row("usage", ExitUsage, "usage"))
      \/ Report(c, Row("usage", ExitUsage, "flag_required"))
      \/ Report(c, Row("usage", ExitUsage, "unavailable"))
      \/ command' = [c EXCEPT !.stage = stage, !.asks = asks]
  BY DEF Dispatch
<1> HIDE DEF c, stage, asks
<1> QED
  BY <1>6, <1>7, <1>8, <1>9

\* recommend and plan.
LEMMA CallRecommendIsInOrder ==
    ASSUME CommandInv, CallRecommend
    PROVE  CommandInv'
<1>1. /\ command.stage = "call" /\ command.name \in {"recommend", "plan"} /\ Recommend(command.asks)
      /\ command' = [Calling("recommend") EXCEPT !.stage = "recommending"] /\ recorded' = recorded
  BY DEF CallRecommend, At
<1>2. command \in Commands /\ command.pair = "kept" /\ command.code = "none" /\ recorded' \in Places \cup {None}
  BY <1>1, NotDoneFacts
<1>3. IsHost(command.asks.host)
  BY <1>2, AskedIsHost
<1>4. RecommendationInv'
  BY <1>1, <1>3, RecommendIsInOrder
<1>5. "recommend" \in Calls /\ "recommending" \in Stages
  BY DEF Calls, Stages
<1> DEFINE c == Calling("recommend")
<1>6. c \in Commands /\ c.pair = "kept" /\ c.code = "none" /\ c.name = command.name
  BY <1>2, <1>5, CallingFacts
<1> HIDE DEF c
<1>7. command' \in Commands
  BY <1>1, <1>5, <1>6 DEF Commands, c
<1>8. /\ command'.stage = "recommending" /\ command'.pair = "kept" /\ command'.code = "none"
      /\ command'.name = command.name
  BY <1>1, <1>6 DEF Commands, c
<1>9. InvocationInv'
  BY <1>1, <1>7, <1>8, GoingOnIsInOrder DEF TokenIsWhole, AnswerIsWhole, ReconnectAsks, At
<1> QED
  BY <1>2, <1>4, <1>9 DEF CommandInv, CommandTypeOK, InvocationInv

\* A step of the call.
LEMMA RecommendsIsInOrder ==
    ASSUME CommandInv, Recommends
    PROVE  CommandInv'
<1>1. RecommendationInv'
  BY RecommendingKeepsOrder DEF Recommends, CommandInv
<1>2. query' = query
  BY DEF Recommends, Recommending, FindCountry, FindCity, Ask, AskFails, SelectServer, Fail
<1>3. command' = command /\ recorded' = recorded
  BY DEF Recommends
<1> QED
  BY <1>1, <1>2, <1>3
     DEF CommandInv, CommandTypeOK, StagesInOrder, RefusalsTouchNothing, TokenIsWhole, AnswerIsWhole,
         ReconnectAsks, At

\* runRecommend and runPlan report.
LEMMA AnswerQueryIsInOrder ==
    ASSUME CommandInv, AnswerQuery
    PROVE  CommandInv'
<1>1. command.stage = "recommending" /\ UNCHANGED recorded /\ UNCHANGED recommendation
  BY DEF AnswerQuery, At, recommendation
<1>2. command \in Commands /\ command.pair = "kept" /\ recorded' \in Places \cup {None}
  BY <1>1, NotDoneFacts
<1>3. \E row : IsPlain(row) /\ Report(command, row)
  <2> HIDE DEF Done, FailCatalog, Report
  <2> QED
    BY PlainRows DEF AnswerQuery
<1> QED
  BY <1>1, <1>2, <1>3, PlainReportKeepsOrder

\* ReadStdin and ReadHidden.
LEMMA ReadTokenIsInOrder ==
    ASSUME CommandInv, ReadToken
    PROVE  CommandInv'
<1>1. command.stage \in {"stdin", "terminal"} /\ UNCHANGED <<recorded, recommendation>>
  BY DEF ReadToken
<1>2. /\ command \in Commands /\ command.pair = "kept" /\ command.code = "none"
      /\ recorded' \in Places \cup {None} /\ RecommendationInv
  BY <1>1, NotDoneFacts
<1> DEFINE d == Calling("input")
           token(input) == IF command.stage = "stdin" THEN ReadStdin(input) ELSE ReadHidden(input)
           c(input) == [d EXCEPT !.input = input, !.token = token(input)]
<1>3. d \in Commands /\ d.pair = "kept" /\ d.code = "none"
  <2>1. "input" \in Calls
    BY SMTT(60) DEF Calls
  <2> QED
    BY <1>2, <2>1, CallingFacts
<1>4. PICK input \in SeqOf(TokenBytes, MaxTokenBytes + 4) :
          IF token(input) = Refused
          THEN Report([c(input) EXCEPT !.input = <<>>], Row("token", ExitUsage, "invalid_token_input"))
          ELSE command' = [c(input) EXCEPT !.stage = "login"]
  BY DEF ReadToken
<1>5. input \in Seq(TokenBytes)
  BY SeqOfIsSeq
<1>6. token(input) \in Seq(TokenBytes) /\ WholeToken(input, token(input))
  BY <1>5, PipedTokenIsWhole, TypedTokenIsWhole
<1> HIDE DEF d, token
<1>7. c(input) \in Commands /\ c(input).pair = "kept" /\ c(input).code = "none"
  BY <1>3, <1>5, <1>6 DEF Commands
<1>7a. c(input).input = input /\ c(input).token = token(input)
  BY <1>3 DEF Commands
<1> HIDE DEF c
<1>8. CASE Report([c(input) EXCEPT !.input = <<>>], Row("token", ExitUsage, "invalid_token_input"))
  <2> DEFINE e == [c(input) EXCEPT !.input = <<>>]
  <2>1. <<>> \in Seq(TokenBytes)
    OBVIOUS
  <2>2. e \in Commands /\ e.pair = "kept"
    BY <1>7, <2>1 DEF Commands
  <2> HIDE DEF e
  <2> QED
    BY <1>1, <1>2, <1>8, <2>2, PlainRows, PlainReportKeepsOrder DEF e
<1>9. CASE command' = [c(input) EXCEPT !.stage = "login"]
  <2>1. "login" \in Stages
    BY DEF Stages
  <2>2. command' \in Commands
    BY <1>7, <1>9, <2>1 DEF Commands
  <2>3. /\ command'.stage = "login" /\ command'.pair = "kept" /\ command'.code = "none"
        /\ command'.input = input /\ command'.token = token(input)
    BY <1>7, <1>7a, <1>9 DEF Commands
  <2>4. InvocationInv'
    BY <1>6, <2>2, <2>3, GoingOnIsInOrder DEF TokenIsWhole, AnswerIsWhole, ReconnectAsks, At
  <2>5. RecommendationInv'
    BY <1>1, <1>2, CallUntouched DEF recommendation
  <2> QED
    BY <1>2, <2>4, <2>5 DEF CommandInv, CommandTypeOK, InvocationInv
<1> QED
  BY <1>4, <1>8, <1>9

\* The errors of credentials are reported plainly.
LEMMA AuthenticationIsPlain == \A errs : IsPlain(FailAuthentication(errs))
<1> TAKE errs
<1> DEFINE row == FailAuthentication(errs)
<1>1. /\ row.exit \in 0..ExitBusy
      /\ row.code \in {"unauthorized", "forbidden", "rate_limited", "busy", "credential_recovery_required",
                       "credential_transaction", "credential_read", "authentication"}
  BY AuthenticationRows
<1> HIDE DEF row
<1> QED
  BY <1>1 DEF IsPlain, PlainCodes, Codes, Refusals, row

\* Login up to its credential transaction.
LEMMA CallLoginIsInOrder ==
    ASSUME CommandInv, CallLogin
    PROVE  CommandInv'
<1> DEFINE d == Calling("login")
           c == [d EXCEPT !.input = <<>>]
<1>1. command.stage = "login" /\ UNCHANGED <<recorded, recommendation>>
  BY DEF CallLogin
<1>2. /\ command \in Commands /\ command.pair = "kept" /\ command.code = "none"
      /\ recorded' \in Places \cup {None} /\ RecommendationInv
  BY <1>1, NotDoneFacts
<1>3. d \in Commands /\ d.pair = "kept" /\ d.code = "none"
  <2>1. "login" \in Calls
    BY DEF Calls
  <2> QED
    BY <1>2, <2>1, CallingFacts
<1> HIDE DEF d
<1>4. c \in Commands /\ c.pair = "kept" /\ c.code = "none"
  <2>1. <<>> \in Seq(TokenBytes)
    OBVIOUS
  <2> QED
    BY <1>3, <2>1 DEF Commands
<1>5. CASE \E errs : Report(c, FailAuthentication(errs))
  <2> HIDE DEF c
  <2>1. PICK errs : Report(c, FailAuthentication(errs))
    BY <1>5
  <2>2. IsPlain(FailAuthentication(errs))
    BY AuthenticationIsPlain
  <2> QED
    BY <1>1, <1>2, <1>4, <2>1, <2>2, PlainReportKeepsOrder
<1>6. ASSUME NEW answer \in Replies, Provision(command.token, answer) = {},
             command' = [c EXCEPT !.stage = "store", !.answer = answer]
      PROVE  CommandInv'
  <2>1. "store" \in Stages
    BY DEF Stages
  <2> HIDE DEF c
  <2>2. command' \in Commands
    BY <1>4, <1>6, <2>1 DEF Commands
  <2>3. /\ command'.stage = "store" /\ command'.pair = "kept" /\ command'.code = "none"
        /\ command'.answer = answer
    BY <1>4, <1>6 DEF Commands
  <2>4. WholeAnswer(answer)
    BY <1>6, AcceptedAnswerIsWhole
  <2>5. InvocationInv'
    BY <2>2, <2>3, <2>4, GoingOnIsInOrder DEF TokenIsWhole, AnswerIsWhole, ReconnectAsks, At
  <2>6. RecommendationInv'
    BY <1>1, <1>2, CallUntouched DEF recommendation
  <2> QED
    BY <1>2, <2>5, <2>6 DEF CommandInv, CommandTypeOK, InvocationInv
<1>7. \/ Report(c, FailAuthentication({"lock"}))
      \/ \E answer \in Replies :
            \/ \E e \in Released(Provision(command.token, answer)) : Report(c, FailAuthentication(e))
            \/ Provision(command.token, answer) = {} /\ command' = [c EXCEPT !.stage = "store", !.answer = answer]
  BY DEF CallLogin, d
<1> HIDE DEF c
<1> QED
  BY <1>5, <1>6, <1>7

\* What a credential transaction, a logout without credentials and a status
\* have done to the pair.
LEMMA OutcomesAreTyped ==
    ASSUME NEW o \in Transactions \cup Unchanged({{}, {"lock"}} \cup Released({"read"}))
    PROVE  o.pair \in {"kept", "changed", "partial"}
<1>1. \E e, pair : pair \in {"kept", "changed", "partial"} /\ o = [errs |-> e, pair |-> pair]
  BY DEF Transactions, Unchanged
<1> QED
  BY <1>1

\* A transaction reports what it has done.
LEMMA TransactIsInOrder ==
    ASSUME CommandInv, NEW c \in Commands,
           NEW outcomes \in SUBSET (Transactions \cup Unchanged({{}, {"lock"}} \cup Released({"read"}))),
           Transact(c, outcomes), recorded' \in Places \cup {None}, UNCHANGED recommendation
    PROVE  CommandInv'
<1>1. PICK o \in outcomes :
          Report([c EXCEPT !.pair = o.pair], IF o.errs = {} THEN Done ELSE FailAuthentication(o.errs))
  BY DEF Transact
<1> DEFINE d == [c EXCEPT !.pair = o.pair]
           row == IF o.errs = {} THEN Done ELSE FailAuthentication(o.errs)
<1>2. d \in Commands
  BY OutcomesAreTyped DEF Commands
<1>3. IsPlain(row)
  BY PlainRows, AuthenticationIsPlain
<1> HIDE DEF d, row
<1> QED
  BY <1>1, <1>2, <1>3, PlainReportKeepsOrder DEF d, row

\* The rest of Login, LogoutLocal and status.
LEMMA CallCredentialsIsInOrder ==
    ASSUME CommandInv, CallCredentials
    PROVE  CommandInv'
<1> DEFINE others == Unchanged({{}, {"lock"}} \cup Released({"read"}))
<1>1. command.stage \in {"store", "call"} /\ UNCHANGED <<recorded, recommendation>>
  BY DEF CallCredentials, At
<1>2. /\ command \in Commands /\ command.pair = "kept" /\ recorded' \in Places \cup {None}
      /\ UNCHANGED recommendation
  BY <1>1, NotDoneFacts DEF recommendation
<1>3. /\ Transactions \in SUBSET (Transactions \cup others)
      /\ Transactions \cup others \in SUBSET (Transactions \cup others)
      /\ others \in SUBSET (Transactions \cup others)
  OBVIOUS
<1> HIDE DEF others
<1>4. CASE Transact([command EXCEPT !.answer = NoAnswer], Transactions)
  <2> DEFINE c == [command EXCEPT !.answer = NoAnswer]
  <2>1. c \in Commands /\ c.pair = "kept"
    BY <1>2 DEF Commands
  <2> HIDE DEF c
  <2> QED
    BY <1>2, <1>3, <1>4, <2>1, TransactIsInOrder DEF c, others
<1>5. ASSUME NEW op \in Calls, NEW outcomes \in SUBSET (Transactions \cup others), Transact(Calling(op), outcomes)
      PROVE  CommandInv'
  <2>1. Calling(op) \in Commands /\ Calling(op).pair = "kept"
    BY <1>2, CallingFacts
  <2> QED
    BY <1>2, <1>5, <2>1, TransactIsInOrder DEF others
<1>6. "logout" \in Calls /\ "status" \in Calls
  BY DEF Calls
<1>7. \/ Transact([command EXCEPT !.answer = NoAnswer], Transactions)
      \/ Transact(Calling("logout"), Transactions \cup others)
      \/ Transact(Calling("status"), others)
  BY DEF CallCredentials, others
<1> QED
  BY <1>3, <1>4, <1>5, <1>6, <1>7

\* A plain report of a call, which may change what is recorded.
LEMMA CalledAndReported ==
    ASSUME CommandInv, command.stage = "call", NEW op \in Calls, NEW row, IsPlain(row), Report(Calling(op), row),
           recorded' \in Places \cup {None}, UNCHANGED recommendation
    PROVE  CommandInv'
<1>1. command \in Commands /\ command.pair = "kept"
  BY NotDoneFacts
<1>2. Calling(op) \in Commands /\ Calling(op).pair = "kept"
  BY <1>1, CallingFacts
<1> QED
  BY <1>2, PlainReportKeepsOrder

\* The lock is busy, the metadata cannot be read, the helper fails, or the
\* record cannot be deleted.
LEMMA UnreadyIsInOrder ==
    ASSUME CommandInv, command.stage = "call", NEW op \in Calls, Unready(Calling(op)) \/ Undone(Calling(op))
    PROVE  CommandInv'
<1>1. UNCHANGED <<recorded, recommendation>> /\ \E errs : Report(Calling(op), FailConnection(errs))
  BY DEF Unready, Undone
<1>2. recorded' \in Places \cup {None} /\ UNCHANGED recommendation
  BY <1>1 DEF CommandInv, CommandTypeOK, recommendation
<1>3. \A errs : IsPlain(FailConnection(errs))
  BY PlainRows
<1> QED
  BY <1>1, <1>2, <1>3, CalledAndReported

\* disconnect.
LEMMA CallDisconnectIsInOrder ==
    ASSUME CommandInv, CallDisconnect
    PROVE  CommandInv'
<1>1. command.stage = "call" /\ "disconnect" \in Calls
  BY DEF CallDisconnect, At, Calls
<1>2. CASE Unready(Calling("disconnect")) \/ Undone(Calling("disconnect"))
  BY <1>1, <1>2, UnreadyIsInOrder
<1>3. CASE /\ recorded' = None /\ UNCHANGED recommendation
           /\ \E row \in {Done, FailConnection({"release"})} : Report(Calling("disconnect"), row)
  <2>1. PICK row : IsPlain(row) /\ Report(Calling("disconnect"), row)
    BY <1>3, PlainRows
  <2> QED
    BY <1>1, <1>3, <2>1, CalledAndReported
<1> QED
  BY <1>2, <1>3 DEF CallDisconnect

\* connect.
LEMMA CallConnectIsInOrder ==
    ASSUME CommandInv, CallConnect
    PROVE  CommandInv'
<1> DEFINE c == Calling("connect")
<1>1. command.stage = "call" /\ command.name = "connect" /\ "connect" \in Calls /\ "recommending" \in Stages
  BY DEF CallConnect, At, Calls, Stages
<1>2. /\ command \in Commands /\ command.pair = "kept" /\ command.code = "none"
      /\ recorded \in Places \cup {None} /\ RecommendationInv
  BY <1>1, NotDoneFacts
<1>3. CASE Unready(c)
  BY <1>1, <1>3, UnreadyIsInOrder
<1>4. CASE Report(c, FailConnection({"already_connected"})) /\ UNCHANGED <<recorded, recommendation>>
  <2>1. IsPlain(FailConnection({"already_connected"}))
    BY PlainRows
  <2>2. recorded' \in Places \cup {None} /\ UNCHANGED recommendation
    BY <1>2, <1>4 DEF recommendation
  <2> QED
    BY <1>1, <1>4, <2>1, <2>2, CalledAndReported
<1>5. CASE Recommend(command.asks) /\ command' = [c EXCEPT !.stage = "recommending"] /\ UNCHANGED recorded
  <2>1. IsHost(command.asks.host)
    BY <1>2, AskedIsHost
  <2>2. RecommendationInv'
    BY <1>5, <2>1, RecommendIsInOrder
  <2>3. c \in Commands /\ c.pair = "kept" /\ c.code = "none" /\ c.name = "connect"
    BY <1>1, <1>2, CallingFacts
  <2> HIDE DEF c
  <2>4. command' \in Commands
    BY <1>1, <1>5, <2>3 DEF Commands
  <2>5. /\ command'.stage = "recommending" /\ command'.pair = "kept" /\ command'.code = "none"
        /\ command'.name = "connect"
    BY <1>5, <2>3 DEF Commands
  <2>6. InvocationInv'
    BY <2>4, <2>5, GoingOnIsInOrder DEF TokenIsWhole, AnswerIsWhole, ReconnectAsks, At
  <2> QED
    BY <1>2, <1>5, <2>2, <2>6 DEF CommandInv, CommandTypeOK, InvocationInv
<1> QED
  BY <1>3, <1>4, <1>5 DEF CallConnect

\* reconnect.
LEMMA CallReconnectIsInOrder ==
    ASSUME CommandInv, CallReconnect
    PROVE  CommandInv'
<1> DEFINE c == Calling("reconnect")
           q == [country |-> recorded.name, city |-> recorded.cityName, host |-> NoHost]
<1>1. command.stage = "call" /\ command.name = "reconnect" /\ "reconnect" \in Calls /\ "recommending" \in Stages
  BY DEF CallReconnect, At, Calls, Stages
<1>2. /\ command \in Commands /\ command.pair = "kept" /\ command.code = "none"
      /\ recorded \in Places \cup {None} /\ RecommendationInv
  BY <1>1, NotDoneFacts
<1>3. CASE Unready(c) \/ Undone(c)
  BY <1>1, <1>3, UnreadyIsInOrder
<1>4. CASE Report(c, FailConnection({"other"})) /\ UNCHANGED <<recorded, recommendation>>
  <2>1. IsPlain(FailConnection({"other"}))
    BY PlainRows
  <2>2. recorded' \in Places \cup {None} /\ UNCHANGED recommendation
    BY <1>2, <1>4 DEF recommendation
  <2> QED
    BY <1>1, <1>4, <2>1, <2>2, CalledAndReported
<1>5. CASE /\ recorded # None /\ recorded' = None /\ Recommend(q)
           /\ command' = [c EXCEPT !.stage = "recommending", !.left = recorded]
  <2>1. q.host = NoHost /\ IsHost(NoHost) /\ recorded \in Places
    BY <1>2, <1>5, NoQueryIsQuery
  <2>2. RecommendationInv'
    <3>1. IsHost(q.host)
      BY <2>1
    <3> HIDE DEF q
    <3> QED
      BY <1>5, <3>1, RecommendIsInOrder
  <2>3. query' = q
    BY <1>5 DEF Recommend
  <2>4. c \in Commands /\ c.pair = "kept" /\ c.code = "none"
    BY <1>1, <1>2, CallingFacts
  <2> HIDE DEF c
  <2>5. command' \in Commands
    BY <1>1, <1>5, <2>1, <2>4 DEF Commands
  <2>6. /\ command'.stage = "recommending" /\ command'.pair = "kept" /\ command'.code = "none"
        /\ command'.left = recorded
    BY <1>5, <2>4 DEF Commands
  <2>7. ReconnectAsks'
    BY <2>1, <2>3, <2>6 DEF ReconnectAsks
  <2>8. InvocationInv'
    BY <2>5, <2>6, <2>7, GoingOnIsInOrder DEF TokenIsWhole, AnswerIsWhole
  <2> QED
    BY <1>5, <2>2, <2>8 DEF CommandInv, CommandTypeOK, InvocationInv
<1> QED
  BY <1>3, <1>4, <1>5 DEF CallReconnect

\* The rest of connectLocked.
LEMMA EstablishIsInOrder ==
    ASSUME CommandInv, Establish
    PROVE  CommandInv'
<1>1. command.stage = "recommending" /\ pc = "done" /\ UNCHANGED recommendation
  BY DEF Establish, At, recommendation
<1>2. /\ command \in Commands /\ command.pair = "kept"
      /\ recorded \in Places \cup {None} /\ RecommendationInv
  BY <1>1, NotDoneFacts
<1>3. \E row : IsPlain(row) /\ Report(command, row)
  <2> HIDE DEF Done, FailConnection, Report
  <2> QED
    BY PlainRows DEF Establish
<1>4. recorded' \in Places \cup {None}
  <2>1. result \notin Errors => PlaceOf(result) \in Places
    BY <1>1, <1>2, RecommendedIsWanted DEF Recommended, Places
  <2> HIDE DEF Places, PlaceOf
  <2> QED
    BY <1>2, <2>1 DEF Establish
<1> QED
  BY <1>1, <1>2, <1>3, <1>4, PlainReportKeepsOrder

-----------------------------------------------------------------------------
(* Theorems.                                                               *)

\* The invariant holds of every behaviour.
LEMMA CommandInvariant == CommandSpec => []CommandInv
<1>1. CommandInit => CommandInv
  <2> SUFFICES ASSUME CommandInit PROVE CommandInv
    OBVIOUS
  <2>1. InvocationInv
    BY IdleIsInOrder DEF CommandInit
  <2>2. RecommendationInv
    BY RestingIsInOrder DEF CommandInit
  <2> QED
    BY <2>1, <2>2 DEF CommandInit, CommandInv, CommandTypeOK, InvocationInv
<1>2. CommandInv /\ [CommandNext]_vars => CommandInv'
  <2> SUFFICES ASSUME CommandInv, [CommandNext]_vars PROVE CommandInv'
    OBVIOUS
  <2>1. CASE UNCHANGED vars
    <3>1. UNCHANGED recommendation /\ command' = command /\ recorded' = recorded /\ query' = query
      BY <2>1 DEF vars, recommendation
    <3>2. RecommendationInv'
      BY <3>1, CallUntouched DEF CommandInv
    <3> QED
      BY <3>1, <3>2
         DEF CommandInv, CommandTypeOK, StagesInOrder, RefusalsTouchNothing, TokenIsWhole, AnswerIsWhole,
             ReconnectAsks, At
  <2>2. CASE CommandNext
    BY <2>2, StartIsInOrder, DispatchIsInOrder, CallPublicIsInOrder, CallRecommendIsInOrder,
       RecommendsIsInOrder, AnswerQueryIsInOrder, ReadTokenIsInOrder, CallLoginIsInOrder,
       CallCredentialsIsInOrder, CallConnectIsInOrder, CallDisconnectIsInOrder, CallReconnectIsInOrder,
       EstablishIsInOrder, ExitIsInOrder
       DEF CommandNext
  <2> QED
    BY <2>1, <2>2
<1> QED
  BY <1>1, <1>2, PTL DEF CommandSpec

\* The arguments of recommend, plan and connect are accepted when they are what
\* the usage line says, and ask for what it says, whatever their number.
THEOREM ArgumentsAreReadAsWritten == CommandSpec => []ParsedAsWritten
<1>1. CommandInv => ParsedAsWritten
  <2>1. CommandInv => command.args \in Seq(Arguments)
    BY DEF CommandInv, CommandTypeOK, Commands, Arguments
  <2> QED
    BY <2>1, ReadAsWritten DEF ParsedAsWritten
<1> QED
  BY <1>1, CommandInvariant, PTL

\* A refused command has called nothing and not read the token: the arguments,
\* the required flags and the interface are looked at before anything is done.
THEOREM RefusedCommandsTouchNothing == CommandSpec => []RefusalsTouchNothing
<1>1. CommandInv => RefusalsTouchNothing
  BY DEF CommandInv
<1> QED
  BY <1>1, CommandInvariant, PTL

\* A token with which a login goes on is all of what was piped in or typed, but
\* for one line ending, whatever the limit on its length.
THEOREM TokensAreWhole == CommandSpec => []TokenIsWhole
<1>1. CommandInv => TokenIsWhole
  BY DEF CommandInv
<1> QED
  BY <1>1, CommandInvariant, PTL

\* A key that is stored comes from an answer that is one whole document, whatever
\* the limit on its length.
THEOREM AnswersAreWhole == CommandSpec => []AnswerIsWhole
<1>1. CommandInv => AnswerIsWhole
  BY DEF CommandInv
<1> QED
  BY <1>1, CommandInvariant, PTL

\* Select returns the first server that the query wants among those whose host
\* is new, for replies and catalogues of any length.
THEOREM SelectFindsTheFirstWanted == CommandSpec => []SelectIsFirstWanted
<1>1. CommandInv => SelectIsFirstWanted
  BY DEF CommandInv, RecommendationInv
<1> QED
  BY <1>1, CommandInvariant, PTL

\* A server is in the one country of the catalogue that the user has named and,
\* if a city was named too, in the one city of that country with this name.
THEOREM ServersAreWhereAsked == CommandSpec => []ServerIsWhereAsked
<1>1. CommandInv => ServerIsWhereAsked
  BY FoundWhereAsked DEF CommandInv
<1> QED
  BY <1>1, CommandInvariant, PTL

\* A reconnect that finds a server finds it in the country and city it has left,
\* if the names of the catalogue agree with those of the servers.
THEOREM ReconnectsStayInPlace == ASSUME NamesAgree PROVE CommandSpec => []ReconnectStaysInPlace
<1>1. CommandInv => ReconnectStaysInPlace
  <2> SUFFICES ASSUME CommandInv, At("recommending", {"reconnect"}), Recommended
               PROVE  /\ result.countryCode = command.left.code
                      /\ command.left.cityName # "" => result.cityID = command.left.city
    BY DEF ReconnectStaysInPlace
  <2>1. /\ command.left \in Places
        /\ query = [country |-> command.left.name, city |-> command.left.cityName, host |-> NoHost]
    BY DEF CommandInv, ReconnectAsks
  <2>2. PICK d \in DTOs : command.left = PlaceOf(Convert(d))
    BY <2>1 DEF Places, Servers
  <2>3. /\ command.left.name = d.place.name /\ command.left.code = d.place.code
        /\ command.left.city = d.place.city /\ command.left.cityName = d.place.cityName
    BY <2>2 DEF PlaceOf, Convert
  <2>4. query.country = d.place.name /\ query.city = d.place.cityName
    BY <2>1, <2>3
  <2>5. result \in Servers /\ Wanted(result)
    BY RecommendedIsWanted DEF CommandInv
  <2>6. PICK e \in DTOs : result = Convert(e)
    BY <2>5 DEF Servers
  <2>7. result.countryCode = e.place.code /\ result.countryCode = country.code
    BY <2>5, <2>6 DEF Convert, Wanted
  <2>8. CountryIsResolved /\ CityIsResolved /\ catalogue \in Seq(Countries)
    BY DEF CommandInv, RecommendationInv, CallIsInOrder
  <2>9. country \in Countries /\ Matches(country, d.place.name)
    BY <2>4, <2>8 DEF CountryIsResolved
  <2>10. result.countryCode = d.place.code
    BY <2>7, <2>9, ZenonT(60) DEF NamesAgree
  <2>11. ASSUME d.place.cityName # ""
         PROVE  result.cityID = d.place.city
    <3>1. PICK i \in DOMAIN country.cities : city = country.cities[i].id /\ Named(country, d.place.cityName) = {i}
      BY <2>4, <2>8, <2>11 DEF CityIsResolved
    <3>2. PICK k \in DOMAIN country.cities :
              country.cities[k].id = d.place.city /\ country.cities[k].name = d.place.cityName
      BY <2>7, <2>9, <2>10, <2>11, ZenonT(60) DEF NamesAgree
    <3>3. k \in Named(country, d.place.cityName)
      BY <3>2 DEF Named
    <3>4. city = d.place.city /\ city # 0
      BY <3>1, <3>2, <3>3, APIAssumption
    <3> QED
      BY <2>5, <3>4 DEF Wanted
  <2> QED
    BY <2>3, <2>10, <2>11
<1> QED
  BY <1>1, CommandInvariant, PTL

=============================================================================

--------------------------- MODULE Recommendation ---------------------------
(***************************************************************************)
(* command.Service.Recommend: a query is resolved against a country        *)
(* catalogue that may come from the cache, the API is asked for servers of *)
(* the country, and the first usable one is selected.  CommandLine calls   *)
(* it for the commands that need a server.  A host is a label with or      *)
(* without a domain.                                                       *)
(***************************************************************************)
EXTENDS Naturals, Sequences, SequencesExt

CONSTANTS
    Countries,   \* countries a catalogue may hold: [id, code, name, cities]
    DTOs,        \* servers the API may describe
    MaxCountries,\* bound on the length of a catalogue
    MaxReply     \* bound on the length of the API's reply

IsHost(h) == h = [label |-> h.label, domain |-> h.domain]

\* nordapi lets no city through, of a server or of a country, whose id is not
\* positive; what is cached has come from it.
ASSUME APIAssumption ==
    /\ \A d \in DTOs : d.whole /\ IsHost(d.host) /\ d.place.city # 0
    /\ \A c \in Countries : \A i \in DOMAIN c.cities : c.cities[i].id # 0

VARIABLES
    query,
    catalogue,   \* a sequence of countries, as cached or just fetched
    country,     \* the country resolved
    city,        \* the id of the city resolved, 0 for any
    reply,       \* the servers the API sent
    result,      \* a server, an error, or None
    pc

recommendation == <<query, catalogue, country, city, reply, result, pc>>

Error(kind) == [error |-> kind]
Invalid == Error("invalid")
Ambiguous == Error("ambiguous")
NoMatch == Error("no_match")
Network == Error("network")
Errors == {Invalid, Ambiguous, NoMatch, Network}
None == [none |-> TRUE]

\* No exact server is asked for.
NoHost == [label |-> "", domain |-> ""]

NoQuery == [country |-> "", city |-> "", host |-> NoHost]

\* A server as the API describes it.  Its WireGuard key is the last public_key
\* that a wireguard_udp technology of it has.
DTO(host, place, status, technologies) ==
    [whole |-> TRUE, host |-> host, place |-> place, status |-> status, technologies |-> technologies]

\* A server without identity, public station or location.
Malformed == [whole |-> FALSE]

-----------------------------------------------------------------------------
(* nordapi.                                                                *)

\* Client.Countries refuses a catalogue with two countries of one code.
ValidCatalogue(s) ==
    /\ s # <<>>
    /\ \A i, j \in DOMAIN s : s[i].code = s[j].code => i = j

PublicKey(technologies) ==
    LET own == SelectSeq(technologies, LAMBDA t : t.id = "wireguard_udp")
    IN  IF own = <<>> THEN "" ELSE Last(own).key

\* serverDTO.convert for a server that is complete.
Convert(d) ==
    [host |-> d.host, countryID |-> d.place.country, countryCode |-> d.place.code,
     countryName |-> d.place.name, cityID |-> d.place.city, cityName |-> d.place.cityName,
     status |-> d.status, key |-> PublicKey(d.technologies)]

-----------------------------------------------------------------------------
(* recommend.                                                              *)

\* normalize keeps letters and digits, so a blank is as good as nothing.
Letters(text) == IF text = " " THEN "" ELSE text

Matches(c, text) == c.code = text \/ c.name = text

\* ResolveCountry and ResolveCity: the only match in a list, or an error.
Resolve(list, matches, text) ==
    CASE text = "" -> Invalid
      [] text # "" /\ matches = {} -> NoMatch
      [] text # "" /\ (\E i, j \in matches : i # j) -> Ambiguous
      [] OTHER -> list[CHOOSE i \in matches : TRUE]

ResolveCountry(countries, input) ==
    LET text == Letters(input)
    IN  Resolve(countries, {i \in DOMAIN countries : Matches(countries[i], text)}, text)

\* The cities of a country that have a name or a slug.
Named(c, text) == {i \in DOMAIN c.cities : c.cities[i].name = text \/ c.cities[i].slug = text}

\* Mutant of ResolveCity: the first match is good enough.
ResolveCityFirst(c, input) ==
    LET matches == Named(c, Letters(input))
    IN  IF matches = {} THEN NoMatch ELSE c.cities[Min(matches)]

ResolveCity(c, input) ==
    Resolve(c.cities, Named(c, Letters(input)), Letters(input))

\* A blank text names no host, and one without a domain is of nordvpn.com.
NormalizeServer(host) ==
    IF host.domain # "" THEN host
    ELSE IF Letters(host.label) = "" THEN NoHost ELSE [host EXCEPT !.domain = "nordvpn.com"]

\* Mutant of InPlace: the ids of countries are trusted.
InPlaceByID(server, c, cityID) ==
    /\ server.countryID = c.id
    /\ cityID # 0 => server.cityID = cityID

InPlace(server, c, cityID) ==
    /\ server.countryID = c.id
    /\ server.countryCode = c.code
    /\ cityID # 0 => server.cityID = cityID

Usable(server) == server.status = "online" /\ server.key = "valid"

\* Mutant of Consider: only servers that qualify are remembered.
ConsiderLate(loop, server, c, cityID, wantHost) ==
    IF loop.found # NoMatch \/ server.host \in loop.seen THEN loop ELSE
    IF /\ InPlace(server, c, cityID)
       /\ wantHost # NoHost => server.host = wantHost
       /\ Usable(server)
    THEN [seen |-> loop.seen \cup {server.host}, found |-> server]
    ELSE loop

\* One turn of Select's loop.
Consider(loop, server, c, cityID, wantHost) ==
    IF loop.found # NoMatch \/ server.host \in loop.seen THEN loop ELSE
    [seen |-> loop.seen \cup {server.host},
     found |-> IF /\ InPlace(server, c, cityID)
                  /\ wantHost # NoHost => server.host = wantHost
                  /\ Usable(server)
               THEN server ELSE NoMatch]

\* The loop after i servers.
SelectLoop(servers, c, cityID, wantHost) ==
    LET loop[i \in 0..Len(servers)] ==
            IF i = 0 THEN [seen |-> {}, found |-> NoMatch]
            ELSE Consider(loop[i - 1], servers[i], c, cityID, wantHost)
    IN  loop

Select(servers, c, cityID, exactServer) ==
    SelectLoop(servers, c, cityID, NormalizeServer(exactServer))[Len(servers)].found

-----------------------------------------------------------------------------
(* Service.Recommend.                                                      *)

Resting ==
    /\ query = NoQuery /\ catalogue = <<>>
    /\ country = None /\ city = 0
    /\ reply = <<>> /\ result = None
    /\ pc = "idle"

\* What a call had in memory goes with the process.
Rest ==
    /\ query' = NoQuery /\ catalogue' = <<>>
    /\ country' = None /\ city' = 0
    /\ reply' = <<>> /\ result' = None
    /\ pc' = "idle"

\* The service is called: Countries answers, as CountryCache has it, or fails.
Recommend(q) ==
    /\ query' = q
    /\ \/ /\ catalogue' \in {s \in SeqOf(Countries, MaxCountries) : ValidCatalogue(s)}
          /\ result' = None /\ pc' = "country"
       \/ /\ catalogue' = <<>>
          /\ result' \in {Network, Invalid} /\ pc' = "done"
    /\ country' = None /\ city' = 0 /\ reply' = <<>>

Fail(error) ==
    /\ result' = error
    /\ pc' = "done"
    /\ UNCHANGED <<query, catalogue, country, city, reply>>

FindCountry ==
    /\ pc = "country"
    /\ LET c == ResolveCountry(catalogue, query.country) IN
         \/ c \in Errors /\ Fail(c)
         \/ /\ c \notin Errors
            /\ country' = c
            /\ pc' = IF query.city = "" THEN "ask" ELSE "city"
            /\ UNCHANGED <<query, catalogue, city, reply, result>>

FindCity ==
    /\ pc = "city"
    /\ LET t == ResolveCity(country, query.city) IN
         \/ t \in Errors /\ Fail(t)
         \/ /\ t \notin Errors
            /\ city' = t.id
            /\ pc' = "ask"
            /\ UNCHANGED <<query, catalogue, country, reply, result>>

\* Recommendations, or Servers for an exact server; filters are up to the API.
Ask ==
    /\ pc = "ask"
    /\ \E answer \in SeqOf(DTOs \cup {Malformed}, MaxReply) :
         \/ answer = <<>> /\ Fail(NoMatch)
         \/ (\E i \in DOMAIN answer : ~answer[i].whole) /\ Fail(Invalid)
         \/ /\ answer # <<>>
            /\ \A i \in DOMAIN answer : answer[i].whole
            /\ reply' = [i \in DOMAIN answer |-> Convert(answer[i])]
            /\ pc' = "select"
            /\ UNCHANGED <<query, catalogue, country, city, result>>

AskFails == pc = "ask" /\ Fail(Network)

SelectServer ==
    /\ pc = "select"
    /\ result' = Select(reply, country, city, query.host)
    /\ pc' = "done"
    /\ UNCHANGED <<query, catalogue, country, city, reply>>

Recommending == FindCountry \/ FindCity \/ Ask \/ AskFails \/ SelectServer

-----------------------------------------------------------------------------
(* Properties.                                                             *)

Recommended == pc = "done" /\ result \notin Errors
Selected == pc = "done" /\ reply # <<>>

\* What the query asks of a server, said without the loop.
Wanted(server) ==
    /\ server.countryID = country.id /\ server.countryCode = country.code
    /\ city # 0 => server.cityID = city
    /\ query.host.label \notin {"", " "} \/ query.host.domain # "" =>
           /\ server.host.label = query.host.label
           /\ server.host.domain = IF query.host.domain = "" THEN "nordvpn.com" ELSE query.host.domain
    /\ server.status = "online" /\ server.key = "valid"

\* ADR 0001: the API's order is preserved and duplicate host names are
\* rejected.  Select's loop returns the first server that is wanted among those
\* whose host has not appeared before, and no_match only if there is none.
SelectIsFirstWanted ==
    Selected =>
        LET first == {i \in DOMAIN reply : \A j \in 1..(i - 1) : reply[j].host # reply[i].host}
            wanted == {i \in first : Wanted(reply[i])}
        IN  IF wanted = {} THEN result = NoMatch
            ELSE \E i \in wanted : result = reply[i] /\ \A k \in wanted : i <= k

\* The server lies in the only country of the catalogue that the user's text
\* names, by its code, also when the ids of a catalogue from the cache are not
\* those that the API uses now; and if a city is asked for as well, in the only
\* city which that text names there.
ServerIsWhereAsked ==
    Recommended =>
        \E i \in DOMAIN catalogue :
            /\ catalogue[i].code = result.countryCode
            /\ \A j \in DOMAIN catalogue : Matches(catalogue[j], query.country) <=> j = i
            /\ query.city # "" =>
                  \E k \in DOMAIN catalogue[i].cities :
                      /\ catalogue[i].cities[k].id = result.cityID
                      /\ Named(catalogue[i], query.city) = {k}

-----------------------------------------------------------------------------
(* What makes them inductive: how far a call has got, and what that says   *)
(* of the country and the city.                                            *)

Servers == {Convert(d) : d \in DTOs}

\* The country is the only one that the query names.
CountryIsResolved ==
    \E i \in DOMAIN catalogue :
        /\ country = catalogue[i]
        /\ \A j \in DOMAIN catalogue : Matches(catalogue[j], query.country) <=> j = i

\* The city is the only one of the country that the query names.
CityIsResolved ==
    IF query.city = "" THEN city = 0
    ELSE \E i \in DOMAIN country.cities : city = country.cities[i].id /\ Named(country, query.city) = {i}

CallIsInOrder ==
    /\ IsHost(query.host)
    /\ catalogue \in Seq(Countries)
    /\ reply \in Seq(Servers)
    /\ reply # <<>> => pc \in {"select", "done"}
    /\ pc = "select" => reply # <<>>
    /\ pc \in {"country", "city"} => city = 0
    /\ Recommended => reply # <<>>
    /\ pc \in {"city", "ask"} \/ reply # <<>> => CountryIsResolved
    /\ pc = "ask" \/ reply # <<>> => CityIsResolved

RecommendationInv == CallIsInOrder /\ SelectIsFirstWanted

=============================================================================

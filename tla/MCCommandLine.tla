--------------------------- MODULE MCCommandLine ---------------------------
(* A small instance of CommandLine for TLC.                                *)
EXTENDS CommandLine

Cities == <<[id |-> 1, name |-> "berlin", slug |-> "berlin"],
            [id |-> 2, name |-> "frankfurt", slug |-> "frankfurtmain"],
            [id |-> 3, name |-> "frankfurt", slug |-> "frankfurtoder"]>>

\* A country, the same with an outdated id, and two countries of one name, one
\* of which has an id that the first has had.
MCCountries ==
    {[id |-> 1, code |-> "de", name |-> "germany", cities |-> Cities],
     [id |-> 2, code |-> "de", name |-> "germany", cities |-> Cities],
     [id |-> 2, code |-> "cd", name |-> "congo", cities |-> <<>>],
     [id |-> 3, code |-> "cg", name |-> "congo", cities |-> <<>>]}

ASSUME NamesAgreeHere == NamesAgree

Host(label, domain) == [label |-> label, domain |-> domain]

Frankfurt == [country |-> 1, code |-> "de", name |-> "germany", city |-> 2, cityName |-> "frankfurt"]
Oder == [country |-> 1, code |-> "de", name |-> "germany", city |-> 3, cityName |-> "frankfurt"]
Berlin == [country |-> 1, code |-> "de", name |-> "germany", city |-> 1, cityName |-> "berlin"]
Kinshasa == [country |-> 2, code |-> "cd", name |-> "congo", city |-> 4, cityName |-> ""]
Goma == [country |-> 2, code |-> "cd", name |-> "congo", city |-> 5, cityName |-> ""]

Key(id, key) == [id |-> id, key |-> key]
A == Host("a", "nordvpn.com")
B == Host("b", "nordvpn.com")

\* One host twice, a host outside Nord's domain, servers that are offline, have
\* no WireGuard or a bad key, and a bad key of another technology.
MCDTOs ==
    {DTO(A, Berlin, "online", <<Key("wireguard_udp", "valid")>>),
     DTO(A, Berlin, "offline", <<Key("wireguard_udp", "valid")>>),
     DTO(A, Frankfurt, "online", <<Key("wireguard_udp", "valid"), Key("wireguard_udp", "short")>>),
     DTO(B, Frankfurt, "online", <<Key("wireguard_udp", "valid"), Key("other", "short")>>),
     DTO(B, Oder, "online", <<Key("wireguard_udp", "valid")>>),
     DTO(B, Berlin, "online", <<>>),
     DTO(Host("a", "example.org"), Berlin, "online", <<Key("wireguard_udp", "valid")>>),
     DTO(B, Kinshasa, "online", <<Key("wireguard_udp", "valid")>>),
     DTO(A, Goma, "online", <<Key("wireguard_udp", "valid")>>)}

\* Words that name a country by its code and by its name, a city by a name and
\* by a slug, a server, and nothing.
MCWords == {"", " ", "de", "congo"}
MCAssigned == {"", "a", "a.example.org", "frankfurtmain"}
MCFullNames == [w \in {"a.example.org"} |-> Host("a", "example.org")]
=============================================================================

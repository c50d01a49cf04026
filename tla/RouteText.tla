----------------------------- MODULE RouteText -----------------------------
(***************************************************************************)
(* How RouteManager reads the answer of route(8): inspectExact decides     *)
(* from printed text whether the kernel has a route for exactly the prefix *)
(* that was asked for.  Addresses are integers of Octets * OctetBits bits  *)
(* and keep their width.  route(8) is asked for the routes of one family:  *)
(* in inet it may leave out zero octets at the end of an address, print a  *)
(* mask as one hexadecimal number or as octets, and say `default`; in      *)
(* inet6 addresses and masks are whole.                                    *)
(***************************************************************************)
EXTENDS Integers, Sequences, FiniteSets

CONSTANTS
    Octets,     \* 4 in the code, 16 for IPv6
    OctetBits,  \* 8 in the code
    ShortDefault    \* whether `default` is printed for 0.0.0.0 whatever its mask

ASSUME WidthAssumption ==
    Octets \in Nat \ {0} /\ OctetBits \in Nat \ {0} /\ ShortDefault \in BOOLEAN

VARIABLES
    family,     \* of the addresses: inet or inet6, which decides the bitLength
    wanted,     \* the destination inspectExact is called with
    route,      \* the prefix of the route that route(8) answers with
    output,     \* its printed form
    verdict     \* of inspectExact

vars == <<family, wanted, route, output, verdict>>

W == Octets * OctetBits

\* Power[n] is 2^n, written out as the provers know no law of exponents.
Power[n \in 0..W] == IF n = 0 THEN 1 ELSE 2 * Power[n - 1]

Addresses == 0..(Power[W] - 1)

Masked(address, bits) == address - (address % Power[W - bits])

Families == {"inet", "inet6"}

\* netip.Prefix values that are equal to their Masked().
NetPrefixes == {p \in [address : Addresses, bits : 0..W] : p.address = Masked(p.address, p.bits)}

-----------------------------------------------------------------------------
(* What route(8) prints.                                                   *)

Octet(address, i) == (address \div Power[W - i * OctetBits]) % Power[OctetBits]
OctetsOf(address) == [i \in 1..Octets |-> Octet(address, i)]

\* The octets, those at the end left out or not when they are zero.
Printed(address) ==
    {SubSeq(OctetsOf(address), 1, n) :
        n \in {k \in 1..Octets : \A i \in (k + 1)..Octets : Octet(address, i) = 0}}

MaskOf(bits) == Power[W] - Power[W - bits]

Default == [form |-> "default"]
Hex(mask) == [form |-> "hex", value |-> mask]
Dotted(octets) == [form |-> "octets", value |-> octets]

NoText == [form |-> "missing"]

MaskTexts(f, mask) ==
    {Dotted(OctetsOf(mask))}
    \cup (IF f = "inet" THEN {Hex(mask)} ELSE {})
    \cup (IF mask = 0 THEN {Default} ELSE {})

\* inet6 is never printed `default` and keeps its octets.
Destinations(f, p) ==
    IF f = "inet6" THEN {Dotted(OctetsOf(p.address))}
    ELSE {Dotted(o) : o \in Printed(p.address)}
         \cup (IF p.bits = 0 \/ (ShortDefault /\ p.address = 0) THEN {Default} ELSE {})

\* The fields of an answer: a host route has a flag instead of a mask, IPv6
\* may have a prefixlen.
Outputs(f, p) ==
    [destination : Destinations(f, p), host : {p.bits = W}, prefixlen : {-1},
     mask : IF p.bits = W THEN {NoText} ELSE MaskTexts(f, MaskOf(p.bits))]
    \cup
    [destination : {Dotted(OctetsOf(p.address))}, host : {FALSE}, prefixlen : {p.bits}, mask : {NoText}]

\* Masks with a hole, an answer without any length, and in inet6 what only
\* inet may say.
OddMasks(f) ==
    {NoText}
    \cup (UNION {MaskTexts(f, m) : m \in Addresses \ {MaskOf(b) : b \in 0..W}})
    \cup (IF f = "inet6" THEN {Hex(m) : m \in Addresses} ELSE {})

OddOutputs(f, p) ==
    [destination : {Dotted(OctetsOf(p.address))}, host : {FALSE}, prefixlen : {-1}, mask : OddMasks(f)]
    \cup
    [destination : IF f = "inet6" THEN {Default} ELSE {}, host : {p.bits = W}, prefixlen : {-1, p.bits},
     mask : {NoText, Default}]

-----------------------------------------------------------------------------
(* What the code reads.                                                    *)

Bad == -1

\* The number that the first i octets make.
ValueLoop(octets) ==
    LET value[i \in 0..Len(octets)] == IF i = 0 THEN 0 ELSE value[i - 1] * Power[OctetBits] + octets[i]
    IN  value

ValueOf(octets) == ValueLoop(octets)[Len(octets)]

\* Mutant of ParseBSDAddress: the missing octets are put in front.
ParseBSDAddressLeft(parts) ==
    IF Len(parts) > Octets THEN Bad ELSE ValueOf([i \in 1..(Octets - Len(parts)) |-> 0] \o parts)

ParseBSDAddress(parts) ==
    IF Len(parts) > Octets THEN Bad ELSE ValueOf(parts \o [i \in 1..(Octets - Len(parts)) |-> 0])

\* netip.ParseAddr: for inet6 and for masks, every octet must be there.
ParseAddr(octets) == IF Len(octets) = Octets THEN ValueOf(octets) ELSE Bad

\* `default` is no address.
ParseAddress(f, destination) ==
    IF destination.form # "octets" THEN Bad
    ELSE IF f = "inet6" THEN ParseAddr(destination.value) ELSE ParseBSDAddress(destination.value)

OnesCount(mask) == Cardinality({i \in 0..(W - 1) : (mask \div Power[i]) % 2 = 1})

\* Mutant of MaskBits: the ones are counted and not compared.
MaskBitsCounted(mask) == OnesCount(mask)

\* The shift drops what leaves the word.
MaskBits(mask) ==
    LET ones == OnesCount(mask)
        canonical == IF ones > 0 THEN ((Power[W] - 1) * Power[W - ones]) % Power[W] ELSE 0
    IN  IF mask = canonical THEN ones ELSE Bad

\* The loop over the bits of an IPv6 mask, from the first to the last.
MaskTurn(loop, set) ==
    IF loop.zeroSeen /\ set THEN [loop EXCEPT !.bad = TRUE]
    ELSE IF set THEN [loop EXCEPT !.ones = @ + 1]
    ELSE [loop EXCEPT !.zeroSeen = TRUE]

BitLoop(mask) ==
    LET loop[i \in 0..W] ==
            IF i = 0 THEN [ones |-> 0, zeroSeen |-> FALSE, bad |-> FALSE]
            ELSE MaskTurn(loop[i - 1], (mask \div Power[W - i]) % 2 = 1)
    IN  loop

MaskBitsByBit(mask) == LET end == BitLoop(mask)[W] IN IF end.bad THEN Bad ELSE end.ones

ParseMaskBits(f, text) ==
    LET mask == CASE text.form = "hex" -> IF f = "inet" THEN text.value ELSE Bad
                  [] text.form = "octets" -> ParseAddr(text.value)
                  [] OTHER -> Bad
    IN  IF text = Default THEN 0
        ELSE IF mask = Bad THEN Bad
        ELSE IF f = "inet" THEN MaskBits(mask) ELSE MaskBitsByBit(mask)

NoPrefix == [address |-> 0, bits |-> Bad]

PrefixFrom(address, bits) ==
    IF address = Bad \/ bits = Bad THEN NoPrefix
    ELSE [address |-> Masked(address, bits), bits |-> bits]

ParseRoutePrefix(f, fields) ==
    IF fields.destination = Default /\ f = "inet" THEN [address |-> 0, bits |-> 0] ELSE
    LET address == ParseAddress(f, fields.destination)
    IN  IF fields.host THEN PrefixFrom(address, W)
        ELSE IF fields.prefixlen >= 0 /\ fields.prefixlen <= W
             THEN PrefixFrom(address, fields.prefixlen)
        ELSE IF fields.mask = NoText THEN NoPrefix
        ELSE PrefixFrom(address, ParseMaskBits(f, fields.mask))

InspectExact(f, destination, fields) ==
    LET prefix == ParseRoutePrefix(f, fields)
    IN  IF prefix = NoPrefix THEN "error"
        ELSE IF prefix = destination THEN "found" ELSE "absent"

-----------------------------------------------------------------------------
\* route(8) answers with some route that covers the destination.
Init ==
    /\ family \in Families
    /\ wanted \in NetPrefixes
    /\ route \in {p \in NetPrefixes : p.bits <= wanted.bits /\ Masked(wanted.address, p.bits) = p.address}
    /\ output \in Outputs(family, route) \cup (IF route = wanted THEN OddOutputs(family, route) ELSE {})
    /\ verdict = "none"

Inspect ==
    /\ verdict = "none"
    /\ verdict' = InspectExact(family, wanted, output)
    /\ UNCHANGED <<family, wanted, route, output>>

Next == Inspect

Spec == Init /\ [][Next]_vars

-----------------------------------------------------------------------------
(* Properties.                                                             *)

\* Whether Remove may delete and Add must refuse rests on this: inspectExact
\* finds the destination exactly when the kernel's route has it for its prefix,
\* for every way in which the address and the mask may be printed in its
\* family, lengths 0 and W included.
FoundIsExact ==
    verdict # "none" /\ output \in Outputs(family, route)
        => verdict = (IF route = wanted THEN "found" ELSE "absent")

\* ADR 0005: non-contiguous masks are rejected.  An answer whose mask has a
\* hole, or that has no length at all, is an error and never taken for a prefix,
\* nor is an inet6 answer with inet's hexadecimal mask or `default`.
OddMasksRefused ==
    verdict # "none" /\ output \notin Outputs(family, route) => verdict = "error"

\* The word comparison for IPv4 and the loop for IPv6 agree, on every mask.
LoopsAgree ==
    output.mask.form = "hex" => MaskBits(output.mask.value) = MaskBitsByBit(output.mask.value)

-----------------------------------------------------------------------------
\* The inductive invariant: the verdict is about one of the answers above.
TextInv ==
    /\ family \in Families /\ wanted \in NetPrefixes /\ route \in NetPrefixes
    /\ output \in Outputs(family, route) \cup OddOutputs(family, route)
    /\ verdict \in {"none", InspectExact(family, wanted, output)}

=============================================================================

---------------------------- MODULE RouteTextProofs ----------------------------
(***************************************************************************)
(* Proofs about RouteText: for addresses of any number of octets, of any   *)
(* number of bits each.                                                    *)
(***************************************************************************)
EXTENDS RouteText, TLAPS, WellFoundedInduction, FiniteSetTheorems

-----------------------------------------------------------------------------
(* Loops.                                                                  *)

\* A set of natural numbers has a least element.
LEMMA LeastNumber ==
    ASSUME NEW T, T \subseteq Nat, T # {}
    PROVE  \E x \in T : \A y \in T : ~(y < x)
<1>1. \E x \in T : \A y \in T : <<y, x>> \notin OpToRel(<, Nat)
  BY WFMin, NatLessThanWellFounded
<1>2. \A x \in T, y \in T : y < x => <<y, x>> \in OpToRel(<, Nat)
  BY DEF OpToRel
<1>3. QED
  BY <1>1, <1>2

\* What holds at 0 and goes from i - 1 to i holds up to n: how a loop's
\* invariant, the set of the turns at which it holds, is used below.
LEMMA Induction ==
    ASSUME NEW n \in Nat, NEW P, 0 \in P, \A i \in 1..n : i - 1 \in P => i \in P
    PROVE  0..n \subseteq P
<1> DEFINE T == (0..n) \ P
<1> SUFFICES ASSUME T # {} PROVE FALSE
  OBVIOUS
<1>1. T \subseteq Nat
  OBVIOUS
<1> HIDE DEF T
<1>2. PICK x \in T : \A y \in T : ~(y < x)
  BY <1>1, LeastNumber
<1>3. x \in 0..n /\ x \notin P
  BY DEF T
<1>4. x \in 1..n /\ x - 1 \in 0..n /\ x - 1 < x
  BY <1>3
<1>5. x - 1 \notin T
  BY <1>2, <1>4
<1>6. x - 1 \in P
  BY <1>4, <1>5 DEF T
<1> QED
  BY <1>3, <1>4, <1>6

\* The turns of a loop over n elements, whose states are in S, and how it
\* goes from one state to the next.
Turns(n, S) == [S \X (1..n) -> S]
Goes(f, n, S, base, turn) ==
    f \in [0..n -> S] /\ f[0] = base /\ \A i \in 1..n : f[i] = turn[<<f[i - 1], i>>]

\* A loop over n elements has a state after each of its turns.
LEMMA Iteration ==
    ASSUME NEW n \in Nat, NEW S, NEW base \in S, NEW turn \in Turns(n, S)
    PROVE  \E f : Goes(f, n, S, base, turn)
<1> USE DEF Turns
<1> DEFINE F(m) == {f \in [0..m -> S] : f[0] = base /\ \A i \in 1..m : f[i] = turn[<<f[i - 1], i>>]}
           P == {m \in Nat : F(m) # {}}
<1>1. 0 \in P
  <2>1. [i \in 0..0 |-> base] \in F(0)
    OBVIOUS
  <2> QED
    BY <2>1
<1>2. ASSUME NEW m \in 1..n, m - 1 \in P
      PROVE  m \in P
  <2>1. PICK f \in [0..(m - 1) -> S] : f[0] = base /\ \A i \in 1..(m - 1) : f[i] = turn[<<f[i - 1], i>>]
    BY <1>2
  <2> DEFINE g == [i \in 0..m |-> IF i = m THEN turn[<<f[m - 1], m>>] ELSE f[i]]
  <2>2. f[m - 1] \in S /\ turn[<<f[m - 1], m>>] \in S
    OBVIOUS
  <2>3. \A i \in 0..m : i # m => i \in 0..(m - 1) /\ f[i] \in S
    OBVIOUS
  <2>4. g \in [0..m -> S]
    BY <2>2, <2>3
  <2>5. g[0] = base
    BY <2>1
  <2>6. ASSUME NEW i \in 1..m
        PROVE  g[i] = turn[<<g[i - 1], i>>]
    <3>1. i - 1 \in 0..m /\ i - 1 # m /\ g[i - 1] = f[i - 1]
      OBVIOUS
    <3>2. i # m => i \in 1..(m - 1)
      OBVIOUS
    <3> QED
      BY <2>1, <3>1, <3>2
  <2>7. g \in F(m)
    BY <2>4, <2>5, <2>6
  <2> HIDE DEF F, g
  <2> QED
    BY <2>7
<1> HIDE DEF P
<1>3. 0..n \subseteq P
  BY <1>1, <1>2, Induction
<1>4. n \in P
  BY <1>3
<1> QED
  BY <1>4 DEF P, Goes

-----------------------------------------------------------------------------
(* Division.                                                               *)

\* The quotient and the remainder are what a product and a rest below the
\* divisor make.
LEMMA Quotient ==
    ASSUME NEW a \in Nat, NEW d \in Nat \ {0}
    PROVE  /\ a \div d \in Nat /\ a % d \in 0..(d - 1)
           /\ a = (a \div d) * d + (a % d)
<1>1. a \div d \in Int /\ a % d \in 0..(d - 1)
  OBVIOUS
<1>2. a = (a \div d) * d + (a % d)
  OBVIOUS
<1>3. a \div d \in Nat
  OBVIOUS
<1> QED
  BY <1>1, <1>2, <1>3

LEMMA QuotientIs ==
    ASSUME NEW a \in Nat, NEW d \in Nat \ {0}, NEW q \in Nat, NEW r \in Nat, a = q * d + r, r < d
    PROVE  a \div d = q /\ a % d = r
  OBVIOUS

LEMMA QuotientOfProduct ==
    ASSUME NEW a \in Nat, NEW d \in Nat \ {0}, NEW e \in Nat \ {0}
    PROVE  a \div (d * e) = (a \div d) \div e
  OBVIOUS

-----------------------------------------------------------------------------
(* Powers of two.                                                          *)

LEMMA WidthIsNat == W \in Nat \ {0} /\ Octets \in Nat \ {0} /\ OctetBits \in Nat \ {0}
  BY WidthAssumption DEF W

LEMMA PowerDefined ==
    /\ Power[0] = 1
    /\ \A i \in 1..W : Power[i] = 2 * Power[i - 1]
    /\ \A i \in 0..W : Power[i] \in Nat \ {0}
<1> DEFINE turn == [p \in Nat \X (1..W) |-> 2 * p[1]]
<1>1. W \in Nat /\ 1 \in Nat
  BY WidthIsNat
<1>2. turn \in Turns(W, Nat)
  BY DEF Turns
<1>3. PICK f : Goes(f, W, Nat, 1, turn)
  BY <1>1, <1>2, Iteration
<1>4. ASSUME NEW i \in 1..W
      PROVE  f[i] = 2 * f[i - 1]
  <2>1. i - 1 \in 0..W /\ f[i - 1] \in Nat
    BY <1>1, <1>3 DEF Goes
  <2>2. turn[<<f[i - 1], i>>] = 2 * f[i - 1]
    BY <2>1
  <2> HIDE DEF turn
  <2> QED
    BY <1>3, <2>2 DEF Goes
<1>5. f = [i \in 0..W |-> IF i = 0 THEN 1 ELSE 2 * f[i - 1]]
  <2>1. \A i \in 0..W : i # 0 => i \in 1..W
    BY <1>1
  <2> QED
    BY <1>3, <1>4, <2>1 DEF Goes
<1>6. Power = [i \in 0..W |-> IF i = 0 THEN 1 ELSE 2 * Power[i - 1]]
  BY <1>5 DEF Power
<1>7. Power[0] = 1 /\ \A i \in 1..W : Power[i] = 2 * Power[i - 1]
  <2>1. 0 \in 0..W /\ \A i \in 1..W : i \in 0..W /\ i # 0
    BY <1>1
  <2> QED
    BY <1>6, <2>1
<1> DEFINE P == {i \in 0..W : Power[i] \in Nat \ {0}}
<1>8. 0 \in P
  BY <1>1, <1>7
<1>9. ASSUME NEW i \in 1..W, i - 1 \in P
      PROVE  i \in P
  BY <1>1, <1>7, <1>9
<1> HIDE DEF P
<1>10. 0..W \subseteq P
  BY <1>1, <1>8, <1>9, Induction
<1> QED
  BY <1>7, <1>10 DEF P

\* The law of exponents, as far as there are powers.
LEMMA PowerOfSum ==
    ASSUME NEW a \in 0..W, NEW b \in 0..W, a + b <= W
    PROVE  Power[a + b] = Power[a] * Power[b]
<1> DEFINE P == {i \in 0..b : Power[a + i] = Power[a] * Power[i]}
<1>1. W \in Nat /\ a \in Nat /\ b \in Nat
  BY WidthIsNat
<1>2. 0 \in P
  <2>1. Power[a] \in Nat
    BY PowerDefined
  <2> QED
    BY <1>1, <2>1, PowerDefined
<1>3. ASSUME NEW i \in 1..b, i - 1 \in P
      PROVE  i \in P
  <2>1. a + i \in 1..W /\ i \in 1..W /\ a + i - 1 = a + (i - 1) /\ i - 1 \in 0..W /\ i \in 0..b
    BY <1>1
  <2>2. Power[a + i] = 2 * Power[a + (i - 1)] /\ Power[i] = 2 * Power[i - 1]
    BY <2>1, PowerDefined
  <2>3. Power[a + (i - 1)] = Power[a] * Power[i - 1]
    BY <1>3
  <2>4. Power[a] \in Nat /\ Power[i - 1] \in Nat
    BY <2>1, PowerDefined
  <2>5. Power[a + i] = Power[a] * Power[i]
    BY <2>2, <2>3, <2>4
  <2> QED
    BY <2>1, <2>5
<1> HIDE DEF P
<1>4. 0..b \subseteq P
  BY <1>1, <1>2, <1>3, Induction
<1>5. b \in P
  BY <1>1, <1>4
<1> QED
  BY <1>5 DEF P

LEMMA PowersGrow ==
    ASSUME NEW a \in 0..W, NEW b \in 0..W, a <= b
    PROVE  Power[a] <= Power[b] /\ (a < b => 2 * Power[a] <= Power[b])
<1>1. W \in Nat /\ a \in Nat /\ b \in Nat /\ b - a \in 0..W /\ a + (b - a) = b
  BY WidthIsNat
<1>2. Power[b] = Power[a] * Power[b - a] /\ Power[a] \in Nat \ {0} /\ Power[b - a] \in Nat \ {0}
  BY <1>1, PowerOfSum, PowerDefined
<1>3. a < b => Power[b - a] >= 2
  <2> SUFFICES ASSUME a < b PROVE Power[b - a] >= 2
    OBVIOUS
  <2>1. b - a \in 1..W /\ b - a - 1 \in 0..W
    BY <1>1
  <2>2. Power[b - a] = 2 * Power[b - a - 1] /\ Power[b - a - 1] \in Nat \ {0}
    BY <2>1, PowerDefined
  <2> QED
    BY <2>2
<1>4. \A p, q \in Nat \ {0} : p <= p * q /\ (q >= 2 => 2 * p <= p * q)
  OBVIOUS
<1> QED
  BY <1>2, <1>3, <1>4

-----------------------------------------------------------------------------
(* Octets.                                                                 *)

\* Where the octet at i ends, counted from the other end.
LEMMA OctetsFit ==
    ASSUME NEW i \in 0..Octets
    PROVE  /\ i * OctetBits \in Nat /\ W - i * OctetBits \in 0..W
           /\ i > 0 => W - (i - 1) * OctetBits = (W - i * OctetBits) + OctetBits
           /\ OctetBits \in 0..W
<1>1. Octets \in Nat \ {0} /\ OctetBits \in Nat \ {0} /\ W = Octets * OctetBits /\ i \in Nat /\ i <= Octets
  BY WidthAssumption DEF W
<1>2. \A a, b, c \in Nat : a <= b => a * c <= b * c
  OBVIOUS
<1>3. i * OctetBits <= W /\ 1 * OctetBits <= W /\ i * OctetBits \in Nat /\ W \in Nat
  BY <1>1, <1>2
<1>4. (i - 1) * OctetBits = i * OctetBits - OctetBits
  BY <1>1
<1> QED
  BY <1>1, <1>3, <1>4

LEMMA AddressIsNat == \A a \in Addresses : a \in Nat /\ a < Power[W]
<1>1. Power[W] \in Nat
  BY WidthIsNat, PowerDefined
<1> QED
  BY <1>1 DEF Addresses

LEMMA OctetsAreSeq ==
    ASSUME NEW a \in Addresses
    PROVE  /\ OctetsOf(a) \in Seq(Nat) /\ Len(OctetsOf(a)) = Octets
           /\ \A i \in 1..Octets : OctetsOf(a)[i] = Octet(a, i) /\ Octet(a, i) \in Nat
<1>1. ASSUME NEW i \in 1..Octets
      PROVE  Octet(a, i) \in Nat
  <2>1. i \in 0..Octets
    BY WidthIsNat
  <2>2. Power[W - i * OctetBits] \in Nat \ {0} /\ Power[OctetBits] \in Nat \ {0} /\ a \in Nat
    BY <2>1, OctetsFit, PowerDefined, AddressIsNat
  <2>3. a \div Power[W - i * OctetBits] \in Nat
    BY <2>2, Quotient
  <2>4. \A q \in Nat, d \in Nat \ {0} : q % d \in Nat
    OBVIOUS
  <2>5. (a \div Power[W - i * OctetBits]) % Power[OctetBits] \in Nat
    BY <2>2, <2>3, <2>4
  <2> QED
    BY <2>5 DEF Octet
<1>2. Octets \in Nat
  BY WidthIsNat
<1> QED
  BY <1>1, <1>2 DEF OctetsOf

\* A number is what its octets make.
LEMMA ValueOfOctets ==
    ASSUME NEW a \in Addresses
    PROVE  ValueOf(OctetsOf(a)) = a
<1> DEFINE octets == OctetsOf(a)
           loop == ValueLoop(octets)
           f == [i \in 0..Octets |-> a \div Power[W - i * OctetBits]]
<1>1. Octets \in Nat /\ Len(octets) = Octets /\ a \in Nat /\ a < Power[W]
  BY WidthIsNat, OctetsAreSeq, AddressIsNat
<1>2. f[0] = 0 /\ f[Octets] = a
  <2>1. W - 0 * OctetBits = W /\ W - Octets * OctetBits = 0 /\ 0 \in 0..W /\ W \in 0..W
    BY WidthIsNat DEF W
  <2>2. a = 0 * Power[W] + a /\ Power[W] \in Nat \ {0} /\ Power[0] = 1
    BY <1>1, <2>1, PowerDefined
  <2>3. a \div Power[W] = 0
    BY <1>1, <2>2, QuotientIs
  <2>4. a \div Power[0] = a
    BY <1>1, <2>2
  <2> QED
    BY <1>1, <2>1, <2>3, <2>4
<1>3. ASSUME NEW i \in 1..Octets
      PROVE  f[i] = f[i - 1] * Power[OctetBits] + octets[i]
  <2> DEFINE p == Power[W - i * OctetBits]
             b == Power[OctetBits]
  <2>1. i \in 0..Octets /\ i - 1 \in 0..Octets /\ i > 0
    BY <1>1
  <2>2. /\ W - i * OctetBits \in 0..W /\ OctetBits \in 0..W
        /\ W - (i - 1) * OctetBits = (W - i * OctetBits) + OctetBits /\ W - (i - 1) * OctetBits \in 0..W
    BY <2>1, OctetsFit
  <2>3. Power[W - (i - 1) * OctetBits] = p * b
    BY <2>2, PowerOfSum
  <2>4. p \in Nat \ {0} /\ b \in Nat \ {0}
    BY <2>2, PowerDefined
  <2>5. octets[i] = (a \div p) % b
    BY OctetsAreSeq DEF Octet
  <2>6. f[i] = a \div p /\ f[i - 1] = a \div (p * b)
    BY <2>1, <2>3
  <2> HIDE DEF p, b, f, octets
  <2>7. a \div (p * b) = (a \div p) \div b
    BY <1>1, <2>4, QuotientOfProduct
  <2>8. a \div p \in Nat
    BY <1>1, <2>4, Quotient
  <2>9. a \div p = ((a \div p) \div b) * b + ((a \div p) % b)
    BY <2>4, <2>8, Quotient
  <2> QED
    BY <2>5, <2>6, <2>7, <2>9 DEF b
<1>4. f = [i \in 0..Len(octets) |-> IF i = 0 THEN 0 ELSE f[i - 1] * Power[OctetBits] + octets[i]]
  <2>1. \A i \in 0..Octets : i # 0 => i \in 1..Octets
    BY <1>1
  <2>2. f = [i \in 0..Octets |-> f[i]]
    OBVIOUS
  <2> HIDE DEF f, octets
  <2> QED
    BY <1>1, <1>2, <1>3, <2>1, <2>2
<1> HIDE DEF f, octets
<1>5. loop = [i \in 0..Len(octets) |-> IF i = 0 THEN 0 ELSE loop[i - 1] * Power[OctetBits] + octets[i]]
  BY <1>4 DEF ValueLoop
<1> HIDE DEF loop
<1> DEFINE P == {i \in 0..Octets : loop[i] = f[i]}
<1>6. 0 \in P
  BY <1>1, <1>2, <1>5
<1>7. ASSUME NEW i \in 1..Octets, i - 1 \in P
      PROVE  i \in P
  <2>1. i \in 0..Octets /\ i # 0
    BY <1>1
  <2>2. loop[i] = loop[i - 1] * Power[OctetBits] + octets[i]
    BY <1>1, <1>5, <2>1
  <2> QED
    BY <1>3, <1>7, <2>1, <2>2
<1> HIDE DEF P
<1>8. 0..Octets \subseteq P
  BY <1>1, <1>6, <1>7, Induction
<1>9. Octets \in P
  BY <1>1, <1>8
<1> QED
  BY <1>1, <1>2, <1>9 DEF P, loop, octets, ValueOf

\* A printed address is read as what it was.
LEMMA AddressIsRead ==
    ASSUME NEW a \in Addresses, NEW parts \in Printed(a)
    PROVE  ParseBSDAddress(parts) = a
<1>1. PICK n \in 1..Octets : /\ \A i \in (n + 1)..Octets : Octet(a, i) = 0
                             /\ parts = SubSeq(OctetsOf(a), 1, n)
  BY DEF Printed
<1>2. /\ OctetsOf(a) \in Seq(Nat) /\ Len(OctetsOf(a)) = Octets /\ Octets \in Nat
      /\ \A i \in 1..Octets : OctetsOf(a)[i] = Octet(a, i)
  BY OctetsAreSeq, WidthIsNat
<1> DEFINE octets == OctetsOf(a)
           zeros == [i \in 1..(Octets - Len(parts)) |-> 0]
<1> HIDE DEF octets
<1>3. Len(parts) = n /\ parts \in Seq(Nat) /\ \A i \in 1..n : parts[i] = octets[i]
  BY <1>1, <1>2 DEF octets
<1>4. zeros \in Seq(Nat) /\ Len(zeros) = Octets - n
  BY <1>2, <1>3
<1>5. parts \o zeros \in Seq(Nat) /\ Len(parts \o zeros) = Octets
  BY <1>2, <1>3, <1>4
<1>6. ASSUME NEW i \in 1..Octets
      PROVE  (parts \o zeros)[i] = octets[i]
  <2>1. CASE i <= n
    BY <1>2, <1>3, <1>4, <2>1
  <2>2. CASE i > n
    <3>1. i - n \in 1..(Octets - n) /\ i \in (n + 1)..Octets
      BY <1>2, <2>2
    <3>2. (parts \o zeros)[i] = zeros[i - n]
      BY <1>2, <1>3, <1>4, <2>2
    <3>3. zeros[i - n] = 0
      BY <1>3, <3>1
    <3> QED
      BY <1>1, <1>2, <3>1, <3>2, <3>3 DEF octets
  <2> QED
    BY <1>2, <2>1, <2>2, SMTT(60)
<1>7. octets \in Seq(Nat) /\ Len(octets) = Octets
  BY <1>2 DEF octets
<1> DEFINE padded == parts \o zeros
<1>8. padded \in Seq(Nat) /\ Len(padded) = Len(octets) /\ \A i \in 1..Len(padded) : padded[i] = octets[i]
  BY <1>5, <1>6, <1>7
<1> HIDE DEF padded
<1>9. padded = octets
  BY <1>7, <1>8
<1>10. ParseBSDAddress(parts) = ValueOf(padded)
  BY <1>2, <1>3 DEF ParseBSDAddress, padded
<1> QED
  BY <1>9, <1>10, ValueOfOctets DEF octets

-----------------------------------------------------------------------------
(* Masks.                                                                  *)

LEMMA MasksAre ==
    ASSUME NEW b \in 0..W
    PROVE  MaskOf(b) \in Addresses /\ (MaskOf(b) = 0 <=> b = 0) /\ W - b \in 0..W
<1>1. W \in Nat /\ W - b \in 0..W /\ W \in 0..W
  BY WidthIsNat
<1>2. Power[W] \in Nat \ {0} /\ Power[W - b] \in Nat \ {0}
  BY <1>1, PowerDefined
<1>3. Power[W - b] <= Power[W] /\ (b # 0 => 2 * Power[W - b] <= Power[W]) /\ (b = 0 => W - b = W)
  BY <1>1, PowersGrow
<1> QED
  BY <1>1, <1>2, <1>3 DEF MaskOf, Addresses

\* Shifting all ones to the left makes a mask.
LEMMA ShiftedIsMask ==
    ASSUME NEW b \in 1..W
    PROVE  ((Power[W] - 1) * Power[W - b]) % Power[W] = MaskOf(b)
<1> DEFINE p == Power[W]
           k == Power[W - b]
<1>1. W - b \in 0..W /\ W \in 0..W /\ b \in 0..W
  BY WidthIsNat
<1>2. p \in Nat \ {0} /\ k \in Nat \ {0} /\ k <= p
  BY <1>1, WidthIsNat, PowerDefined, PowersGrow
<1> HIDE DEF p, k
<1>3. k - 1 \in Nat /\ p - k \in Nat /\ p - k < p /\ (p - 1) * k \in Nat
  BY <1>2
<1>4. (p - 1) * k = (k - 1) * p + (p - k)
  BY <1>2
<1>5. ((p - 1) * k) % p = p - k
  BY <1>2, <1>3, <1>4, QuotientIs
<1> QED
  BY <1>5 DEF p, k, MaskOf

\* The bits of a mask of b ones are the b highest.
LEMMA BitsOfMask ==
    ASSUME NEW b \in 0..W, NEW i \in 0..(W - 1)
    PROVE  (MaskOf(b) \div Power[i]) % 2 = (IF i < W - b THEN 0 ELSE 1)
<1> DEFINE k == W - b
           p == Power[i]
<1>1. W \in Nat /\ k \in 0..W /\ i \in 0..W /\ i \in Nat /\ W - i \in 0..W /\ W \in 0..W
  BY WidthIsNat
<1>2. p \in Nat \ {0} /\ Power[W] \in Nat /\ Power[k] \in Nat /\ MaskOf(b) \in Nat
  BY <1>1, PowerDefined, MasksAre, AddressIsNat
<1>3. MaskOf(b) = Power[W] - Power[k]
  BY DEF MaskOf
<1>4. CASE i < k
  <2> DEFINE x == Power[k - i - 1]
             y == Power[b]
  <2>1. k - i \in 1..W /\ k - i \in 0..W /\ k - i - 1 \in 0..W /\ i + (k - i) = k /\ k + b = W
    BY <1>1, <1>4
  <2>2. Power[k] = p * Power[k - i] /\ Power[W] = Power[k] * y
    BY <1>1, <2>1, PowerOfSum
  <2>3. Power[k - i] = 2 * x /\ x \in Nat \ {0} /\ y \in Nat \ {0}
    BY <2>1, PowerDefined
  <2> HIDE DEF k, p, x, y
  <2>4. MaskOf(b) = (p * (2 * x)) * y - p * (2 * x)
    BY <1>3, <2>2, <2>3
  <2> DEFINE z == x * (y - 1)
  <2>5. z \in Nat
    BY <2>3
  <2>6. (p * (2 * x)) * y - p * (2 * x) = (2 * z) * p
    BY <1>2, <2>3
  <2> HIDE DEF z
  <2>7. MaskOf(b) \div p = 2 * z
    <3>1. MaskOf(b) = (2 * z) * p + 0 /\ 2 * z \in Nat /\ 0 \in Nat /\ 0 < p
      BY <1>2, <2>4, <2>5, <2>6
    <3> QED
      BY <1>2, <3>1, QuotientIs
  <2>8. (2 * z) % 2 = 0
    BY <2>5
  <2> QED
    BY <1>4, <2>7, <2>8 DEF p, k
<1>5. CASE ~(i < k)
  <2> DEFINE x == Power[W - i - 1]
  <2>1. W - i \in 1..W /\ W - i - 1 \in 0..W /\ i + (W - i) = W /\ k <= i
    BY <1>1, <1>5
  <2>2. Power[W] = p * Power[W - i] /\ Power[k] <= p
    BY <1>1, <2>1, PowerOfSum, PowersGrow
  <2>3. Power[W - i] = 2 * x /\ x \in Nat \ {0} /\ Power[k] \in Nat \ {0}
    BY <1>1, <2>1, PowerDefined
  <2> HIDE DEF k, p, x
  <2>4. MaskOf(b) = (2 * x - 1) * p + (p - Power[k])
    BY <1>2, <1>3, <2>2, <2>3
  <2>5. 2 * x - 1 \in Nat /\ p - Power[k] \in Nat /\ p - Power[k] < p
    BY <1>2, <2>2, <2>3
  <2>6. MaskOf(b) \div p = 2 * x - 1
    BY <1>2, <2>4, <2>5, QuotientIs
  <2>7. (2 * x - 1) % 2 = 1
    BY <2>3
  <2> QED
    BY <1>5, <2>6, <2>7 DEF p, k
<1> QED
  BY <1>4, <1>5

LEMMA OnesOfMask ==
    ASSUME NEW b \in 0..W
    PROVE  OnesCount(MaskOf(b)) = b
<1>1. W \in Nat /\ b \in Nat
  BY WidthIsNat
<1> DEFINE bits == {i \in 0..(W - 1) : (MaskOf(b) \div Power[i]) % 2 = 1}
<1>2. bits = (W - b)..(W - 1)
  <2>1. \A i \in 0..(W - 1) : (MaskOf(b) \div Power[i]) % 2 = 1 <=> ~(i < W - b)
    BY BitsOfMask
  <2> DEFINE set(i) == (MaskOf(b) \div Power[i]) % 2 = 1
  <2>2. bits = {i \in 0..(W - 1) : set(i)} /\ \A i \in 0..(W - 1) : set(i) <=> ~(i < W - b)
    BY <2>1
  <2> HIDE DEF set
  <2> QED
    BY <1>1, <2>2
<1>3. Cardinality((W - b)..(W - 1)) = b
  BY <1>1, FS_Interval
<1> QED
  BY <1>2, <1>3 DEF OnesCount

LEMMA OnesAreFew == ASSUME NEW m PROVE OnesCount(m) \in 0..W
<1> DEFINE bits == {i \in 0..(W - 1) : (m \div Power[i]) % 2 = 1}
<1>1. W \in Nat /\ bits \subseteq 0..(W - 1)
  BY WidthIsNat
<1>2. IsFiniteSet(0..(W - 1)) /\ Cardinality(0..(W - 1)) = W
  <2>1. W \in Nat \ {0}
    BY WidthIsNat
  <2> QED
    BY <2>1, FS_Interval
<1> HIDE DEF bits
<1>3. IsFiniteSet(bits) /\ Cardinality(bits) <= W
  BY <1>1, <1>2, FS_Subset, ZenonT(60)
<1>4. Cardinality(bits) \in Nat
  BY <1>3, FS_CardinalityType
<1> QED
  BY <1>1, <1>3, <1>4 DEF bits, OnesCount

\* maskBits returns a length for the mask of that length, and only for it.
LEMMA MaskBitsAre ==
    /\ \A b \in 0..W : MaskBits(MaskOf(b)) = b
    /\ \A m : MaskBits(m) # Bad => MaskBits(m) \in 0..W /\ m = MaskOf(MaskBits(m))
<1>1. \A b \in 0..W : (IF b > 0 THEN ((Power[W] - 1) * Power[W - b]) % Power[W] ELSE 0) = MaskOf(b)
  <2>1. \A b \in 0..W : b > 0 => b \in 1..W
    BY WidthIsNat
  <2>2. \A b \in 0..W : ~(b > 0) => MaskOf(b) = 0
    BY WidthIsNat, MasksAre
  <2> QED
    BY <2>1, <2>2, ShiftedIsMask
<1>2. \A m : MaskBits(m) = IF m = MaskOf(OnesCount(m)) THEN OnesCount(m) ELSE Bad
  BY <1>1, OnesAreFew DEF MaskBits
<1>3. \A b \in 0..W : OnesCount(MaskOf(b)) = b
  BY OnesOfMask
<1> QED
  BY <1>2, <1>3, OnesAreFew

-----------------------------------------------------------------------------
(* The loop over the bits.                                                 *)

LoopStates == [ones : Nat, zeroSeen : BOOLEAN, bad : BOOLEAN]

\* The bit of a mask at which the loop looks in its turn i.
Set(mask, i) == (mask \div Power[W - i]) % 2 = 1

LEMMA MaskTurnIsTyped ==
    ASSUME NEW s \in LoopStates, NEW set \in BOOLEAN
    PROVE  MaskTurn(s, set) \in LoopStates
<1>1. s.ones + 1 \in Nat
  BY DEF LoopStates
<1> QED
  BY <1>1 DEF MaskTurn, LoopStates

\* A loop over the bits that takes these turns.
Walks(loop, mask) ==
    /\ loop[0] = [ones |-> 0, zeroSeen |-> FALSE, bad |-> FALSE]
    /\ \A i \in 1..W : loop[i] = MaskTurn(loop[i - 1], Set(mask, i))
    /\ \A i \in 0..W : loop[i] \in LoopStates

LEMMA BitLoopDefined == ASSUME NEW mask PROVE Walks(BitLoop(mask), mask)
<1> DEFINE base == [ones |-> 0, zeroSeen |-> FALSE, bad |-> FALSE]
           next(p) == MaskTurn(p[1], Set(mask, p[2]))
           turn == [p \in LoopStates \X (1..W) |-> next(p)]
<1>1. W \in Nat /\ base \in LoopStates
  BY WidthIsNat DEF LoopStates
<1>2. turn \in Turns(W, LoopStates)
  <2>1. ASSUME NEW p \in LoopStates \X (1..W)
        PROVE  next(p) \in LoopStates
    <3>1. p[1] \in LoopStates /\ Set(mask, p[2]) \in BOOLEAN
      BY DEF Set
    <3> QED
      BY <3>1, MaskTurnIsTyped
  <2> HIDE DEF next
  <2> QED
    BY <2>1 DEF Turns
<1> HIDE DEF turn, base
<1>3. PICK f : Goes(f, W, LoopStates, base, turn)
  BY <1>1, <1>2, Iteration
<1>4. ASSUME NEW i \in 1..W
      PROVE  f[i] = MaskTurn(f[i - 1], Set(mask, i))
  <2>1. i - 1 \in 0..W /\ f[i - 1] \in LoopStates
    BY <1>1, <1>3 DEF Goes
  <2>2. turn[<<f[i - 1], i>>] = MaskTurn(f[i - 1], Set(mask, i))
    BY <2>1 DEF turn
  <2> QED
    BY <1>3, <2>2 DEF Goes
<1>5. f = [i \in 0..W |-> IF i = 0 THEN base ELSE MaskTurn(f[i - 1], Set(mask, i))]
  <2>1. \A i \in 0..W : i # 0 => i \in 1..W
    BY <1>1
  <2> QED
    BY <1>3, <1>4, <2>1 DEF Goes
<1> DEFINE loop == BitLoop(mask)
<1>6. loop = [i \in 0..W |-> IF i = 0 THEN base ELSE MaskTurn(loop[i - 1], Set(mask, i))]
  BY <1>5 DEF BitLoop, Set, base
<1> HIDE DEF loop
<1>7. loop[0] = base /\ \A i \in 1..W : loop[i] = MaskTurn(loop[i - 1], Set(mask, i))
  <2>1. 0 \in 0..W /\ \A i \in 1..W : i \in 0..W /\ i # 0
    BY <1>1
  <2> QED
    BY <1>6, <2>1
<1> DEFINE P == {i \in 0..W : loop[i] \in LoopStates}
<1>8. 0 \in P
  BY <1>1, <1>7
<1>9. ASSUME NEW i \in 1..W, i - 1 \in P
      PROVE  i \in P
  <2>1. i \in 0..W /\ Set(mask, i) \in BOOLEAN
    BY <1>1 DEF Set
  <2> QED
    BY <1>7, <1>9, <2>1, MaskTurnIsTyped
<1> HIDE DEF P
<1>10. 0..W \subseteq P
  BY <1>1, <1>8, <1>9, Induction
<1>11. \A i \in 0..W : loop[i] \in LoopStates
  BY <1>10 DEF P
<1> QED
  BY <1>7, <1>11 DEF loop, base, Walks

\* What the loop has found out about the first i bits of a mask, which make
\* the number q: whether they are ones and then zeros, and how many ones.
BitsSeen(s, q, i) ==
    /\ ~s.bad /\ ~s.zeroSeen => s.ones = i /\ q = Power[i] - 1
    /\ ~s.bad /\ s.zeroSeen => s.ones \in 0..(i - 1) /\ q = Power[i] - Power[i - s.ones]
    /\ s.bad => \A b \in 0..i : q # Power[i] - Power[i - b]

\* A turn finds out about one bit more.
LEMMA TurnSees ==
    ASSUME NEW i \in 1..W, NEW q \in Nat, NEW bit \in {0, 1}, NEW s \in LoopStates, BitsSeen(s, q, i - 1)
    PROVE  BitsSeen(MaskTurn(s, bit = 1), 2 * q + bit, i)
<1> DEFINE next == MaskTurn(s, bit = 1)
           r == 2 * q + bit
<1>1. W \in Nat /\ i \in Nat /\ i - 1 \in 0..W
  BY WidthIsNat
<1>2. Power[i] = 2 * Power[i - 1] /\ Power[i - 1] \in Nat \ {0} /\ Power[0] = 1
  BY <1>1, PowerDefined
<1>3. ASSUME NEW b \in 0..(i - 1)
      PROVE  /\ Power[i - b] = 2 * Power[i - 1 - b] /\ Power[i - 1 - b] \in Nat \ {0}
             /\ b < i - 1 => Power[i - 1 - b] >= 2
  <2>1. i - b \in 1..W /\ i - b - 1 = i - 1 - b /\ i - 1 - b \in 0..W
    BY <1>1
  <2>2. Power[i - b] = 2 * Power[i - 1 - b] /\ Power[i - 1 - b] \in Nat \ {0}
    BY <2>1, PowerDefined
  <2>3. ASSUME b < i - 1
        PROVE  Power[i - 1 - b] >= 2
    <3>1. i - 1 - b \in 1..W /\ i - 1 - b - 1 \in 0..W
      BY <1>1, <2>3
    <3>2. Power[i - 1 - b] = 2 * Power[i - 1 - b - 1] /\ Power[i - 1 - b - 1] \in Nat \ {0}
      BY <3>1, PowerDefined
    <3> QED
      BY <3>2
  <2> QED
    BY <2>2, <2>3
<1>4. \A b \in 0..i : b = i \/ b \in 0..(i - 1)
  BY <1>1
<1>5. s.ones \in Nat /\ s.zeroSeen \in BOOLEAN /\ s.bad \in BOOLEAN
  BY DEF LoopStates
<1>6. s = [ones |-> s.ones, zeroSeen |-> s.zeroSeen, bad |-> s.bad]
  BY DEF LoopStates
\* It was wrong, and stays wrong.
<1>7. CASE s.bad
  <2>1. next.bad
    BY <1>5, <1>6, <1>7 DEF MaskTurn
  <2>2. \A b \in 0..(i - 1) : q # Power[i - 1] - Power[i - 1 - b]
    BY <1>7 DEF BitsSeen
  <2>3. ASSUME NEW b \in 0..i
        PROVE  r # Power[i] - Power[i - b]
    <3>1. CASE b = i
      <4>1. i - 1 \in 0..(i - 1) /\ i - 1 - (i - 1) = 0 /\ i - i = 0
        BY <1>1
      <4>2. q # Power[i - 1] - 1
        BY <1>2, <2>2, <4>1
      <4>3. Power[i - b] = 1
        BY <1>2, <3>1, <4>1
      <4> QED
        BY <1>2, <4>2, <4>3
    <3>2. CASE b \in 0..(i - 1)
      <4>1. q # Power[i - 1] - Power[i - 1 - b]
        BY <2>2, <3>2
      <4>2. Power[i - b] = 2 * Power[i - 1 - b] /\ Power[i - 1 - b] \in Nat \ {0}
        BY <1>3, <3>2
      <4> QED
        BY <1>2, <4>1, <4>2
    <3> QED
      BY <1>4, <3>1, <3>2
  <2> QED
    BY <2>1, <2>3 DEF BitsSeen
\* A one after a zero is wrong.
<1>8. CASE ~s.bad /\ s.zeroSeen /\ bit = 1
  <2>1. next.bad
    BY <1>6, <1>8 DEF MaskTurn
  <2>2. s.ones \in 0..(i - 1 - 1) /\ q = Power[i - 1] - Power[i - 1 - s.ones]
    BY <1>8 DEF BitsSeen
  <2>3. s.ones \in 0..(i - 1) /\ s.ones < i - 1
    BY <1>1, <2>2
  <2>4. Power[i - 1 - s.ones] \in Nat /\ Power[i - 1 - s.ones] >= 2
    BY <1>3, <2>3
  <2>5. r = Power[i] - (2 * Power[i - 1 - s.ones] - 1)
    BY <1>2, <1>8, <2>2, <2>4
  <2>6. ASSUME NEW b \in 0..i
        PROVE  r # Power[i] - Power[i - b]
    <3>1. CASE b = i
      <4>1. Power[i - b] = 1
        <5>1. i - b = 0
          BY <1>1, <3>1
        <5> QED
          BY <1>2, <5>1
      <4> QED
        BY <1>2, <2>4, <2>5, <4>1
    <3>2. CASE b \in 0..(i - 1)
      <4>1. Power[i - b] = 2 * Power[i - 1 - b] /\ Power[i - 1 - b] \in Nat \ {0}
        BY <1>3, <3>2
      <4> QED
        BY <1>2, <2>4, <2>5, <4>1
    <3> QED
      BY <1>4, <3>1, <3>2
  <2> QED
    BY <2>1, <2>6 DEF BitsSeen
\* One more of the ones.
<1>9. CASE ~s.bad /\ ~s.zeroSeen /\ bit = 1
  <2>1. ~next.bad /\ ~next.zeroSeen /\ next.ones = s.ones + 1
    BY <1>6, <1>9 DEF MaskTurn
  <2>2. s.ones = i - 1 /\ q = Power[i - 1] - 1
    BY <1>9 DEF BitsSeen
  <2> QED
    BY <1>1, <1>2, <1>9, <2>1, <2>2 DEF BitsSeen
\* A zero.
<1>10. CASE ~s.bad /\ bit = 0
  <2>1. ~next.bad /\ next.zeroSeen /\ next.ones = s.ones
    BY <1>6, <1>10 DEF MaskTurn
  <2>2. s.ones \in 0..(i - 1) /\ q = Power[i - 1] - Power[i - 1 - s.ones]
    <3>1. CASE s.zeroSeen
      <4>1. s.ones \in 0..(i - 1 - 1) /\ q = Power[i - 1] - Power[i - 1 - s.ones]
        BY <1>10, <3>1 DEF BitsSeen
      <4> QED
        BY <1>1, <4>1
    <3>2. CASE ~s.zeroSeen
      <4>1. s.ones = i - 1 /\ q = Power[i - 1] - 1
        BY <1>10, <3>2 DEF BitsSeen
      <4>2. i - 1 - s.ones = 0
        BY <1>1, <4>1
      <4> QED
        BY <1>1, <1>2, <4>1, <4>2
    <3> QED
      BY <3>1, <3>2
  <2>3. Power[i - s.ones] = 2 * Power[i - 1 - s.ones] /\ Power[i - 1 - s.ones] \in Nat \ {0}
    BY <1>3, <2>2
  <2>4. r = Power[i] - Power[i - s.ones]
    BY <1>2, <1>10, <2>2, <2>3
  <2> QED
    BY <2>1, <2>2, <2>4 DEF BitsSeen
<1> QED
  BY <1>7, <1>8, <1>9, <1>10

\* So the loop has found out, after i turns, what the first i bits are.
LEMMA LoopSees ==
    ASSUME NEW m \in Addresses, NEW i \in 0..W
    PROVE  BitsSeen(BitLoop(m)[i], m \div Power[W - i], i)
<1> DEFINE loop == BitLoop(m)
           q(k) == m \div Power[W - k]
           P == {k \in 0..W : BitsSeen(loop[k], q(k), k)}
<1>1. W \in Nat /\ m \in Nat /\ m < Power[W]
  BY WidthIsNat, AddressIsNat
<1>2. Walks(loop, m)
  BY BitLoopDefined
<1> HIDE DEF loop
<1>3. 0 \in P
  <2>1. W - 0 = W /\ W \in 0..W /\ 0 \in 0..W
    BY <1>1
  <2>2. Power[W] \in Nat \ {0} /\ Power[0] = 1 /\ m = 0 * Power[W] + m
    BY <1>1, <2>1, PowerDefined
  <2>3. m \div Power[W] = 0
    BY <1>1, <2>2, QuotientIs
  <2>4. ~loop[0].bad /\ ~loop[0].zeroSeen /\ loop[0].ones = 0
    <3>1. loop[0] = [ones |-> 0, zeroSeen |-> FALSE, bad |-> FALSE]
      BY <1>2 DEF Walks
    <3> QED
      BY <3>1
  <2> QED
    BY <2>1, <2>2, <2>3, <2>4 DEF BitsSeen
<1>4. ASSUME NEW k \in 1..W, k - 1 \in P
      PROVE  k \in P
  <2> DEFINE bit == q(k) % 2
  <2>1. k \in 0..W /\ k - 1 \in 0..W /\ W - k \in 0..W /\ W - (k - 1) \in 1..W /\ W - (k - 1) - 1 = W - k
    BY <1>1
  <2>2. Power[W - (k - 1)] = Power[W - k] * 2 /\ Power[W - k] \in Nat \ {0}
    BY <2>1, PowerDefined
  <2>3. q(k) \in Nat
    BY <1>1, <2>2, Quotient
  <2>4. q(k - 1) = q(k) \div 2
    <3>1. m \div (Power[W - k] * 2) = (m \div Power[W - k]) \div 2
      BY <1>1, <2>2, QuotientOfProduct
    <3> QED
      BY <2>2, <3>1
  <2>5. BitsSeen(loop[k - 1], q(k - 1), k - 1)
    BY <1>4
  <2>6. Set(m, k) = (bit = 1)
    BY DEF Set
  <2>7. loop[k] = MaskTurn(loop[k - 1], bit = 1) /\ loop[k - 1] \in LoopStates
    BY <1>2, <2>1, <2>6 DEF Walks
  <2> HIDE DEF q
  <2>8. bit \in {0, 1} /\ q(k - 1) \in Nat /\ 2 * q(k - 1) + bit = q(k)
    <3>1. \A x \in Nat : x % 2 \in {0, 1} /\ x \div 2 \in Nat /\ 2 * (x \div 2) + (x % 2) = x
      OBVIOUS
    <3> QED
      BY <2>3, <2>4, <3>1
  <2> HIDE DEF bit
  <2>9. BitsSeen(MaskTurn(loop[k - 1], bit = 1), 2 * q(k - 1) + bit, k)
    BY <2>5, <2>7, <2>8, TurnSees
  <2> QED
    BY <2>1, <2>7, <2>8, <2>9
<1> HIDE DEF P
<1>5. 0..W \subseteq P
  BY <1>1, <1>3, <1>4, Induction
<1>6. i \in P
  BY <1>5
<1> QED
  BY <1>6 DEF P, loop

\* The two ways to read a mask agree.
LEMMA BitByBit ==
    ASSUME NEW m \in Addresses
    PROVE  MaskBits(m) = MaskBitsByBit(m)
<1> DEFINE end == BitLoop(m)[W]
<1>1. W \in Nat /\ W \in 0..W /\ m \in Nat /\ m \div 1 = m /\ W - W = 0 /\ Power[0] = 1
  BY WidthIsNat, AddressIsNat, PowerDefined
<1>2. BitsSeen(end, m, W)
  <2>1. BitsSeen(end, m \div Power[W - W], W)
    BY <1>1, LoopSees
  <2> QED
    BY <1>1, <2>1
<1>3. MaskBitsByBit(m) = IF end.bad THEN Bad ELSE end.ones
  BY DEF MaskBitsByBit
<1> HIDE DEF end
<1>4. CASE end.bad
  <2>1. \A b \in 0..W : m # MaskOf(b)
    BY <1>2, <1>4 DEF BitsSeen, MaskOf
  <2> QED
    BY <1>3, <1>4, <2>1, MaskBitsAre
<1>5. CASE ~end.bad
  <2>1. end.ones \in 0..W /\ m = Power[W] - Power[W - end.ones]
    <3>1. CASE end.zeroSeen
      <4>1. end.ones \in 0..(W - 1) /\ m = Power[W] - Power[W - end.ones]
        BY <1>2, <1>5, <3>1 DEF BitsSeen
      <4> QED
        BY <1>1, <4>1
    <3>2. CASE ~end.zeroSeen
      BY <1>1, <1>2, <1>5, <3>2 DEF BitsSeen
    <3> QED
      BY <3>1, <3>2
  <2>2. m = MaskOf(end.ones)
    BY <2>1 DEF MaskOf
  <2> QED
    BY <1>3, <1>5, <2>1, <2>2, MaskBitsAre
<1> QED
  BY <1>4, <1>5

-----------------------------------------------------------------------------
(* Answers.                                                                *)

\* The forms of a text are told apart.
LEMMA Forms ==
    /\ Default.form = "default" /\ NoText.form = "missing"
    /\ \A m : Hex(m).form = "hex" /\ Hex(m).value = m
    /\ \A o : Dotted(o).form = "octets" /\ Dotted(o).value = o
  BY DEF Default, NoText, Hex, Dotted

\* Octets that are all there are read by ParseAddr.
LEMMA WholeIsRead == ASSUME NEW a \in Addresses PROVE ParseAddr(OctetsOf(a)) = a
  BY OctetsAreSeq, ValueOfOctets DEF ParseAddr

\* A mask is read from each of the texts it has in its family.
LEMMA MaskIsRead ==
    ASSUME NEW f \in Families, NEW m \in Addresses, NEW text \in MaskTexts(f, m)
    PROVE  /\ ParseMaskBits(f, text) = MaskBits(m)
           /\ text # NoText
           /\ text.form = "hex" => text.value = m
<1>1. \/ text = Hex(m) /\ f = "inet"
      \/ text = Dotted(OctetsOf(m))
      \/ text = Default /\ m = 0
  BY DEF MaskTexts
<1>2. MaskBits(0) = 0
  <2>1. 0 \in 0..W
    BY WidthIsNat
  <2>2. MaskOf(0) = 0
    BY <2>1, MasksAre
  <2> QED
    BY <2>1, <2>2, MaskBitsAre
<1>3. ParseAddr(OctetsOf(m)) = m /\ m # Bad
  BY WholeIsRead, AddressIsNat DEF Bad
<1>4. MaskBits(m) = MaskBitsByBit(m)
  BY BitByBit
<1>5. CASE text = Hex(m) /\ f = "inet"
  BY <1>3, <1>5, Forms DEF ParseMaskBits
<1>6. CASE text = Dotted(OctetsOf(m))
  <2>1. text # Default /\ text # NoText /\ text.form = "octets" /\ text.value = OctetsOf(m)
    BY <1>6, Forms
  <2>2. ParseMaskBits(f, text) = IF f = "inet" THEN MaskBits(m) ELSE MaskBitsByBit(m)
    BY <1>3, <2>1 DEF ParseMaskBits
  <2> QED
    BY <1>4, <2>1, <2>2
<1>7. CASE text = Default /\ m = 0
  BY <1>2, <1>7, Forms DEF ParseMaskBits
<1> QED
  BY <1>1, <1>5, <1>6, <1>7

LEMMA PrefixFacts ==
    ASSUME NEW p \in NetPrefixes
    PROVE  /\ p.address \in Addresses /\ p.bits \in 0..W /\ Masked(p.address, p.bits) = p.address
           /\ p = [address |-> p.address, bits |-> p.bits] /\ p # NoPrefix
           /\ p.bits = 0 => p.address = 0
           /\ PrefixFrom(p.address, p.bits) = p
<1>1. /\ p.address \in Addresses /\ p.bits \in 0..W /\ Masked(p.address, p.bits) = p.address
      /\ p = [address |-> p.address, bits |-> p.bits]
  BY DEF NetPrefixes
<1>2. p.bits # Bad /\ p.address # Bad
  BY <1>1, WidthIsNat, AddressIsNat DEF Bad
<1>3. p # NoPrefix
  BY <1>2 DEF NoPrefix
<1>4. ASSUME p.bits = 0
      PROVE  p.address = 0
  <2>1. W - 0 = W /\ p.address \in Nat /\ p.address < Power[W] /\ Power[W] \in Nat
    BY <1>1, WidthIsNat, AddressIsNat, PowerDefined
  <2>2. p.address % Power[W] = p.address
    BY <2>1
  <2> QED
    BY <1>1, <1>4, <2>1, <2>2 DEF Masked
<1> QED
  BY <1>1, <1>2, <1>3, <1>4 DEF PrefixFrom

LEMMA WholeIsPrinted == ASSUME NEW a \in Addresses PROVE OctetsOf(a) \in Printed(a)
<1>1. Octets \in 1..Octets /\ (Octets + 1)..Octets = {}
  BY WidthIsNat
<1>2. SubSeq(OctetsOf(a), 1, Octets) = OctetsOf(a)
  BY OctetsAreSeq, WidthIsNat
<1> QED
  BY <1>1, <1>2 DEF Printed

\* The address of an answer is read from its destination.
LEMMA DestinationIsRead ==
    ASSUME NEW f \in Families, NEW p \in NetPrefixes, NEW d \in Destinations(f, p), d # Default
    PROVE  ParseAddress(f, d) = p.address
<1>1. p.address \in Addresses
  BY PrefixFacts
<1>2. CASE f = "inet6"
  BY <1>1, <1>2, WholeIsRead, Forms DEF Destinations, ParseAddress
<1>3. CASE f = "inet"
  <2>1. PICK x \in Printed(p.address) : d = Dotted(x)
    BY <1>3 DEF Destinations
  <2>2. ParseBSDAddress(x) = p.address
    BY <1>1, AddressIsRead
  <2> QED
    BY <1>3, <2>1, <2>2, Forms DEF ParseAddress
<1> QED
  BY <1>2, <1>3 DEF Families

LEMMA WholeIsDestination ==
    ASSUME NEW f \in Families, NEW p \in NetPrefixes
    PROVE  Dotted(OctetsOf(p.address)) \in Destinations(f, p) /\ Dotted(OctetsOf(p.address)) # Default
  BY PrefixFacts, WholeIsPrinted, Forms DEF Destinations

\* An answer is read as the prefix that it is printed for.
LEMMA AnswerIsRead ==
    ASSUME ~ShortDefault, NEW f \in Families, NEW p \in NetPrefixes, NEW o \in Outputs(f, p)
    PROVE  ParseRoutePrefix(f, o) = p
<1>1. /\ p.address \in Addresses /\ p.bits \in 0..W /\ p.bits \in Int /\ W \in Nat
      /\ p = [address |-> p.address, bits |-> p.bits]
      /\ p.bits = 0 => p.address = 0
      /\ PrefixFrom(p.address, p.bits) = p
  BY PrefixFacts, WidthIsNat
<1>2. CASE /\ o.destination \in Destinations(f, p) /\ o.host = (p.bits = W) /\ o.prefixlen = -1
           /\ o.mask \in IF p.bits = W THEN {NoText} ELSE MaskTexts(f, MaskOf(p.bits))
  <2>1. CASE o.destination = Default
    <3>1. \A x : Dotted(x) # Default
      BY Forms
    <3>2. f # "inet6"
      BY <1>2, <2>1, <3>1 DEF Destinations
    <3>3. p.bits = 0
      BY <1>2, <2>1, <3>1 DEF Destinations
    <3>4. f = "inet"
      BY <3>2 DEF Families
    <3>5. ParseRoutePrefix(f, o) = [address |-> 0, bits |-> 0]
      BY <2>1, <3>4 DEF ParseRoutePrefix
    <3> QED
      BY <1>1, <3>3, <3>5
  <2>2. CASE o.destination # Default
    <3>1. ParseAddress(f, o.destination) = p.address
      BY <1>2, <2>2, DestinationIsRead
    <3>2. ~(o.prefixlen >= 0)
      BY <1>2
    <3>3. CASE p.bits = W
      <4>1. ParseRoutePrefix(f, o) = PrefixFrom(p.address, W)
        BY <1>2, <2>2, <3>1, <3>3 DEF ParseRoutePrefix
      <4> QED
        BY <1>1, <3>3, <4>1
    <3>4. CASE p.bits # W
      <4>1. o.mask \in MaskTexts(f, MaskOf(p.bits)) /\ MaskOf(p.bits) \in Addresses
        BY <1>1, <1>2, <3>4, MasksAre
      <4>2. o.mask # NoText /\ ParseMaskBits(f, o.mask) = p.bits
        BY <1>1, <4>1, MaskIsRead, MaskBitsAre
      <4>3. ParseRoutePrefix(f, o) = PrefixFrom(p.address, p.bits)
        BY <1>2, <2>2, <3>1, <3>2, <3>4, <4>2 DEF ParseRoutePrefix
      <4> QED
        BY <1>1, <4>3
    <3> QED
      BY <3>3, <3>4
  <2> QED
    BY <2>1, <2>2
<1>3. CASE o.destination = Dotted(OctetsOf(p.address)) /\ o.host = FALSE /\ o.prefixlen = p.bits
  <2>1. o.destination # Default /\ ParseAddress(f, o.destination) = p.address
    BY <1>3, WholeIsDestination, DestinationIsRead
  <2>2. o.prefixlen >= 0 /\ o.prefixlen <= W
    BY <1>1, <1>3
  <2>3. ParseRoutePrefix(f, o) = PrefixFrom(p.address, p.bits)
    BY <1>3, <2>1, <2>2 DEF ParseRoutePrefix
  <2> QED
    BY <1>1, <2>3
<1> QED
  BY <1>2, <1>3 DEF Outputs

\* Masks with a hole are no masks, and a hexadecimal one is none in inet6.
LEMMA OddMaskIsNotRead ==
    ASSUME NEW f \in Families, NEW mask \in OddMasks(f), mask # NoText
    PROVE  ParseMaskBits(f, mask) = Bad
<1>1. \/ \E m \in Addresses \ {MaskOf(b) : b \in 0..W} : mask \in MaskTexts(f, m)
      \/ f = "inet6" /\ \E m \in Addresses : mask = Hex(m)
  BY DEF OddMasks
<1>2. ASSUME NEW m \in Addresses, \A b \in 0..W : m # MaskOf(b), mask \in MaskTexts(f, m)
      PROVE  ParseMaskBits(f, mask) = Bad
  <2>1. ParseMaskBits(f, mask) = MaskBits(m)
    BY <1>2, MaskIsRead
  <2> QED
    BY <1>2, <2>1, MaskBitsAre
<1>3. ASSUME f = "inet6", NEW m \in Addresses, mask = Hex(m)
      PROVE  ParseMaskBits(f, mask) = Bad
  BY <1>3, Forms DEF ParseMaskBits
<1> QED
  BY <1>1, <1>2, <1>3

\* An answer without a length, with a mask that is none, or with `default`
\* where inet6 has none, is not read.
LEMMA OddAnswerIsNotRead ==
    ASSUME NEW f \in Families, NEW p \in NetPrefixes, NEW o \in OddOutputs(f, p)
    PROVE  ParseRoutePrefix(f, o) = NoPrefix
<1>1. CASE /\ o.destination = Dotted(OctetsOf(p.address)) /\ o.host = FALSE /\ o.prefixlen = -1
           /\ o.mask \in OddMasks(f)
  <2>1. o.destination # Default
    BY <1>1, WholeIsDestination
  <2>2. ~(o.prefixlen >= 0)
    BY <1>1
  <2>3. o.mask # NoText => ParseMaskBits(f, o.mask) = Bad
    BY <1>1, OddMaskIsNotRead
  <2> QED
    BY <1>1, <2>1, <2>2, <2>3 DEF ParseRoutePrefix, PrefixFrom
<1>2. CASE f = "inet6" /\ o.destination = Default
  <2>1. ParseAddress(f, o.destination) = Bad
    BY <1>2, Forms DEF ParseAddress
  <2> QED
    BY <1>2, <2>1 DEF ParseRoutePrefix, PrefixFrom
<1> QED
  BY <1>1, <1>2 DEF OddOutputs

-----------------------------------------------------------------------------
(* Theorems.                                                               *)

LEMMA TextInvariant == Spec => []TextInv
<1>1. Init => TextInv
  BY DEF Init, TextInv
<1>2. TextInv /\ [Next]_vars => TextInv'
  BY DEF TextInv, Next, Inspect, vars
<1> QED
  BY <1>1, <1>2, PTL DEF Spec

\* inspectExact finds the destination exactly when the route is for it, however
\* the answer is printed in its family and whatever the width of an address,
\* if `default` is printed for no length but 0.
THEOREM FoundExactly ==
    ASSUME ~ShortDefault
    PROVE  Spec => []FoundIsExact
<1>1. TextInv => FoundIsExact
  <2> SUFFICES ASSUME TextInv, verdict # "none", output \in Outputs(family, route)
               PROVE  verdict = (IF route = wanted THEN "found" ELSE "absent")
    BY DEF FoundIsExact
  <2>1. family \in Families /\ route \in NetPrefixes /\ verdict = InspectExact(family, wanted, output)
    BY DEF TextInv
  <2>2. ParseRoutePrefix(family, output) = route /\ route # NoPrefix
    BY <2>1, AnswerIsRead, PrefixFacts
  <2> QED
    BY <2>1, <2>2 DEF InspectExact
<1> QED
  BY <1>1, TextInvariant, PTL

\* A mask with a hole, and an answer without a length, is an error.
THEOREM OddMasksAreRefused == Spec => []OddMasksRefused
<1>1. TextInv => OddMasksRefused
  <2> SUFFICES ASSUME TextInv, verdict # "none", output \notin Outputs(family, route)
               PROVE  verdict = "error"
    BY DEF OddMasksRefused
  <2>1. /\ family \in Families /\ route \in NetPrefixes /\ output \in OddOutputs(family, route)
        /\ verdict = InspectExact(family, wanted, output)
    BY DEF TextInv
  <2>2. ParseRoutePrefix(family, output) = NoPrefix
    BY <2>1, OddAnswerIsNotRead
  <2> QED
    BY <2>1, <2>2 DEF InspectExact
<1> QED
  BY <1>1, TextInvariant, PTL

\* The comparison of words and the loop over the bits read every mask alike.
THEOREM BothLoopsAgree == Spec => []LoopsAgree
<1>1. TextInv => LoopsAgree
  <2> SUFFICES ASSUME TextInv, output.mask.form = "hex"
               PROVE  MaskBits(output.mask.value) = MaskBitsByBit(output.mask.value)
    BY DEF LoopsAgree
  <2>1. \E m \in Addresses : output.mask.value = m
    <3>1. output.mask # NoText /\ output.mask # Default
      BY Forms
    <3>2. family \in Families /\ route.bits \in 0..W
      BY PrefixFacts DEF TextInv
    <3>3. MaskOf(route.bits) \in Addresses
      BY <3>2, MasksAre
    <3>4. output \in Outputs(family, route) => output.mask \in MaskTexts(family, MaskOf(route.bits))
      BY <3>1 DEF Outputs
    <3>5. output \in OddOutputs(family, route) => output.mask \in OddMasks(family)
      BY <3>1 DEF OddOutputs
    <3>6. output.mask \in OddMasks(family) =>
              \/ \E m \in Addresses : output.mask \in MaskTexts(family, m)
              \/ \E m \in Addresses : output.mask = Hex(m)
      BY <3>1 DEF OddMasks
    <3>7. \A m \in Addresses : output.mask \in MaskTexts(family, m) => output.mask.value = m
      BY <3>2, MaskIsRead
    <3> QED
      BY <3>3, <3>4, <3>5, <3>6, <3>7, Forms DEF TextInv
  <2> QED
    BY <2>1, BitByBit
<1> QED
  BY <1>1, TextInvariant, PTL

================================================================================

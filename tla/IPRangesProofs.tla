--------------------------- MODULE IPRangesProofs ---------------------------
(***************************************************************************)
(* What IPRanges computes for addresses of any number and width of octets, *)
(* and for hosts of any number of interfaces.                              *)
(***************************************************************************)
EXTENDS IPRanges, SequenceTheorems, FiniteSetTheorems, WellFoundedInduction, TLAPS

-----------------------------------------------------------------------------
(* Numbers.                                                                *)

\* What holds of zero, and of a number's successor when it holds of the number,
\* holds of all numbers.
LEMMA SetInduction ==
    ASSUME NEW S, 0 \in S, \A n \in Nat : n \in S => n + 1 \in S
    PROVE  Nat \subseteq S
<1> SUFFICES ASSUME Nat \ S # {} PROVE FALSE
  OBVIOUS
<1>1. PICK x \in Nat \ S : \A y \in Nat \ S : ~(<<y, x>> \in OpToRel(<, Nat))
  BY NatLessThanWellFounded, WFMin
<1>2. \A y \in Nat \ S : ~(y < x)
  BY <1>1 DEF OpToRel
<1>3. x # 0
  OBVIOUS
<1>4. x - 1 \in Nat /\ x - 1 \in S
  BY <1>2, <1>3
<1>5. QED
  BY <1>4

\* A set of numbers that is not empty has a least element.
LEMMA LeastExists ==
    ASSUME NEW S \in SUBSET Nat, S # {}
    PROVE  \E x \in S : \A y \in S : x <= y
<1>1. PICK x \in S : \A y \in S : ~(<<y, x>> \in OpToRel(<, Nat))
  BY NatLessThanWellFounded, WFMin
<1>2. \A y \in S : ~(y < x)
  BY <1>1 DEF OpToRel
<1>3. QED
  BY <1>2

-----------------------------------------------------------------------------
(* The powers of two.                                                      *)

\* The values of Pow2 up to n.
Powers(n) == {g \in [0..n -> Nat] :
                 \A k \in 0..n : g[k] = IF k = 0 THEN 1 ELSE 2 * g[k - 1]}

\* They exist, whatever n is, ...
LEMMA PowersExist == \A n \in Nat : Powers(n) # {}
<1> DEFINE S == {n \in Nat : Powers(n) # {}}
<1>1. 0 \in S
  <2>1. [k \in 0..0 |-> 1] \in Powers(0)
    BY DEF Powers
  <2>2. QED
    BY <2>1
<1>2. ASSUME NEW n \in Nat, n \in S PROVE n + 1 \in S
  <2>1. PICK g \in Powers(n) : TRUE
    BY <1>2
  <2> DEFINE h == [k \in 0..n+1 |-> IF k = n + 1 THEN 2 * g[n] ELSE g[k]]
  <2>2. g \in [0..n -> Nat] /\ \A k \in 0..n : g[k] = IF k = 0 THEN 1 ELSE 2 * g[k - 1]
    BY <2>1 DEF Powers
  <2>3. h \in [0..n+1 -> Nat]
    BY <2>2
  <2>4. ASSUME NEW k \in 0..n+1 PROVE h[k] = IF k = 0 THEN 1 ELSE 2 * h[k - 1]
    <3>1. CASE k = n + 1
      <4>1. k # 0 /\ k - 1 = n /\ n \in 0..n+1 /\ n # n + 1
        BY <3>1
      <4>2. h[k] = 2 * g[n] /\ h[k - 1] = g[n]
        BY <3>1, <4>1
      <4>3. QED
        BY <4>1, <4>2
    <3>2. CASE k # n + 1
      <4>1. k \in 0..n /\ h[k] = g[k]
        BY <3>2
      <4>2. k # 0 => k - 1 \in 0..n+1 /\ k - 1 # n + 1
        BY <3>2
      <4>3. k # 0 => h[k - 1] = g[k - 1]
        BY <4>2
      <4>4. QED
        BY <2>2, <4>1, <4>3
    <3>3. QED
      BY <3>1, <3>2
  <2>5. h \in Powers(n + 1)
    BY <2>3, <2>4 DEF Powers
  <2>6. QED
    BY <2>5
<1>3. QED
  <2> HIDE DEF S
  <2>1. Nat \subseteq S
    BY <1>1, <1>2, SetInduction
  <2>2. QED
    BY <2>1 DEF S

\* ... and do not depend on n: the equation of Pow2 has a solution.
LEMMA PowersUnique ==
    \A k \in Nat : \A n, m \in Nat : k <= n /\ k <= m =>
       \A g \in Powers(n), h \in Powers(m) : g[k] = h[k]
<1> DEFINE Same(k) == \A n, m \in Nat : k <= n /\ k <= m =>
                         \A g \in Powers(n), h \in Powers(m) : g[k] = h[k]
           S == {k \in Nat : Same(k)}
<1>1. 0 \in S
  BY DEF Powers
<1>2. ASSUME NEW k \in Nat, k \in S PROVE k + 1 \in S
  <2> SUFFICES ASSUME NEW n \in Nat, NEW m \in Nat, k + 1 <= n, k + 1 <= m,
                      NEW g \in Powers(n), NEW h \in Powers(m)
               PROVE  g[k + 1] = h[k + 1]
    OBVIOUS
  <2>1. g[k] = h[k]
    BY <1>2
  <2>2. k + 1 \in 0..n /\ k + 1 \in 0..m /\ k + 1 # 0 /\ (k + 1) - 1 = k
    OBVIOUS
  <2>3. g[k + 1] = 2 * g[k]
    BY <2>2 DEF Powers
  <2>4. h[k + 1] = 2 * h[k]
    BY <2>2 DEF Powers
  <2>5. QED
    BY <2>1, <2>3, <2>4
<1>3. QED
  <2> HIDE DEF S
  <2>1. Nat \subseteq S
    BY <1>1, <1>2, SetInduction
  <2>2. QED
    BY <2>1 DEF S

\* Pow2 is what its equation says.
LEMMA Pow2Def == Pow2 = [n \in Nat |-> IF n = 0 THEN 1 ELSE 2 * Pow2[n - 1]]
<1> DEFINE pick(n) == CHOOSE g \in Powers(n) : TRUE
           F == [n \in Nat |-> pick(n)[n]]
<1>1. \A n \in Nat : pick(n) \in Powers(n)
  BY PowersExist
<1>2. ASSUME NEW n \in Nat PROVE F[n] = IF n = 0 THEN 1 ELSE 2 * F[n - 1]
  <2> HIDE DEF pick
  <2>1. pick(n) \in Powers(n)
    BY <1>1
  <2>2. CASE n = 0
    BY <2>1, <2>2 DEF Powers
  <2>3. CASE n # 0
    <3>1. n - 1 \in Nat /\ pick(n - 1) \in Powers(n - 1)
      BY <1>1, <2>3
    <3>2. pick(n)[n - 1] = pick(n - 1)[n - 1]
      BY <2>1, <3>1, PowersUnique
    <3>3. pick(n)[n] = 2 * pick(n)[n - 1]
      BY <2>1, <2>3 DEF Powers
    <3>4. QED
      BY <2>3, <3>1, <3>2, <3>3
  <2>4. QED
    BY <2>2, <2>3
<1>3. F = [n \in Nat |-> IF n = 0 THEN 1 ELSE 2 * F[n - 1]]
  <2> HIDE DEF pick
  <2>1. QED
    BY <1>2
<1>4. \E f : f = [n \in Nat |-> IF n = 0 THEN 1 ELSE 2 * f[n - 1]]
  <2> HIDE DEF F
  <2>1. QED
    BY <1>3
<1>5. QED
  BY <1>4 DEF Pow2

\* A power of two is a positive number, the next one is twice as large.
LEMMA Pow2Step ==
    /\ Pow2[0] = 1
    /\ \A n \in Nat : Pow2[n] \in Nat \ {0} /\ Pow2[n + 1] = 2 * Pow2[n]
<1>1. Pow2[0] = 1
  BY Pow2Def
<1>2. \A n \in Nat : Pow2[n + 1] = 2 * Pow2[n]
  <2> SUFFICES ASSUME NEW n \in Nat PROVE Pow2[n + 1] = 2 * Pow2[n]
    OBVIOUS
  <2>1. n + 1 \in Nat /\ n + 1 # 0 /\ (n + 1) - 1 = n
    OBVIOUS
  <2>2. QED
    BY <2>1, Pow2Def
<1> DEFINE S == {n \in Nat : Pow2[n] \in Nat \ {0}}
<1>3. 0 \in S
  BY <1>1
<1>4. \A n \in Nat : n \in S => n + 1 \in S
  BY <1>2
<1>5. Nat \subseteq S
  <2> HIDE DEF S
  <2>1. QED
    BY <1>3, <1>4, SetInduction
<1>6. QED
  BY <1>1, <1>2, <1>5

\* An octet has at least two values.
LEMMA OctetSize == Pow2[Bits] \in Nat /\ Pow2[Bits] >= 2
<1>1. Bits - 1 \in Nat /\ (Bits - 1) + 1 = Bits
  BY WidthsOK DEF WidthsOK
<1>2. Pow2[Bits] = 2 * Pow2[Bits - 1] /\ Pow2[Bits - 1] \in Nat \ {0}
  BY <1>1, Pow2Step
<1>3. QED
  BY <1>2

-----------------------------------------------------------------------------
(* Division.                                                               *)

\* A multiple of a larger number is larger.
LEMMA Monotone ==
    ASSUME NEW d \in Nat, NEW a \in Nat, NEW b \in Nat, a <= b
    PROVE  d * a <= d * b
<1>1. PICK c \in Nat : b = a + c
  <2>1. b - a \in Nat /\ b = a + (b - a)
    OBVIOUS
  <2>2. QED
    BY <2>1
<1>2. d * b = d * a + d * c /\ d * c \in Nat /\ d * a \in Nat
  BY <1>1
<1>3. QED
  BY <1>2

\* A number is known by its quotient and its remainder.
LEMMA Division ==
    ASSUME NEW x \in Nat, NEW d \in Nat \ {0}
    PROVE  /\ x \div d \in Nat /\ x % d \in 0..d-1
           /\ x = d * (x \div d) + (x % d)
OBVIOUS

\* There is one quotient and one remainder only.
LEMMA DivisionUnique ==
    ASSUME NEW d \in Nat \ {0}, NEW q \in Nat, NEW r \in 0..d-1
    PROVE  (d * q + r) \div d = q /\ (d * q + r) % d = r
<1> DEFINE x == d * q + r
           p == x \div d
           s == x % d
<1>1. x \in Nat /\ p \in Nat /\ s \in 0..d-1 /\ x = d * p + s
  <2>1. x \in Nat
    OBVIOUS
  <2> HIDE DEF x
  <2>2. QED
    BY <2>1, Division
<1>2. d * p + s = d * q + r
  BY <1>1
<1>3. d * p \in Nat /\ d * q \in Nat
  BY <1>1
<1> HIDE DEF x, p, s
<1>4. ~(p < q)
  <2> SUFFICES ASSUME p < q PROVE FALSE
    OBVIOUS
  <2>1. d * (p + 1) <= d * q
    BY <1>1, Monotone
  <2>2. d * (p + 1) = d * p + d
    BY <1>1
  <2>3. QED
    BY <1>1, <1>2, <1>3, <2>1, <2>2
<1>5. ~(q < p)
  <2> SUFFICES ASSUME q < p PROVE FALSE
    OBVIOUS
  <2>1. d * (q + 1) <= d * p
    BY <1>1, Monotone
  <2>2. d * (q + 1) = d * q + d
    OBVIOUS
  <2>3. QED
    BY <1>1, <1>2, <1>3, <2>1, <2>2
<1>6. p = q
  BY <1>1, <1>4, <1>5
<1>7. s = r
  BY <1>1, <1>2, <1>3, <1>6
<1>8. QED
  BY <1>6, <1>7 DEF p, s, x

\* Halving a quotient.
LEMMA HalfQuotient ==
    ASSUME NEW x \in Nat, NEW d \in Nat \ {0}
    PROVE  /\ (x \div d) \div 2 = x \div (2 * d)
           /\ x \div d = 2 * (x \div (2 * d)) + ((x \div d) % 2)
<1> DEFINE y == x \div d
           z == y \div 2
           e == y % 2
           r == x % d
<1>1. y \in Nat /\ r \in 0..d-1 /\ x = d * y + r
  BY Division
<1>2. z \in Nat /\ e \in 0..1 /\ y = 2 * z + e
  <2> HIDE DEF y
  <2>1. QED
    BY <1>1, Division
<1> HIDE DEF y, z, e, r
<1>3. x = (2 * d) * z + (d * e + r)
  <2>1. d * y = d * (2 * z) + d * e
    BY <1>2
  <2>2. d * (2 * z) = (2 * d) * z
    BY <1>2
  <2>3. QED
    BY <1>1, <1>2, <2>1, <2>2
<1>4. d * e + r \in 0..(2 * d)-1
  <2>1. d * e = 0 \/ d * e = d
    BY <1>2
  <2>2. QED
    BY <1>1, <2>1
<1>5. 2 * d \in Nat \ {0}
  OBVIOUS
<1>6. x \div (2 * d) = z
  BY <1>2, <1>3, <1>4, <1>5, DivisionUnique
<1>7. QED
  BY <1>2, <1>6 DEF y, z, e

\* A number below m is its own remainder.
LEMMA SmallRemainder ==
    ASSUME NEW m \in Nat, NEW x \in 0..m-1
    PROVE  x % m = x
OBVIOUS

\* Increasing modulo m changes a number below m, and stays below it.
LEMMA Increment ==
    ASSUME NEW m \in Nat, m >= 2, NEW x \in 0..m-1
    PROVE  (x + 1) % m \in 0..m-1 /\ (x + 1) % m # x
<1>1. CASE x + 1 = m
  BY <1>1
<1>2. CASE x + 1 < m
  <2>1. (x + 1) % m = x + 1
    BY <1>2, SmallRemainder
  <2>2. QED
    BY <1>2, <2>1
<1>3. QED
  BY <1>1, <1>2

-----------------------------------------------------------------------------
(* The address of the DNS service.                                         *)

\* The DNS address is that of the service range, as typed, with its last octet
\* increased; the range stays as it was given.
DnsInv ==
    /\ serviceRange \in CIDR
    /\ \A r \in out : r.listenService = serviceRange.ip /\ r.dns = DnsAddress(serviceRange)

\* DnsInv holds at first and is kept by evalArgs.
LEMMA DnsInvariant == Spec => []DnsInv
<1>1. Init => DnsInv
  <2>1. ASSUME Init PROVE serviceRange \in CIDR
    <3>1. CASE podRange \in CIDR /\ serviceRange \in CIDR
      BY <3>1
    <3>2. CASE serviceRange = [ip |-> [i \in OctetNo |-> 0], len |-> 0]
      <4>1. 0 \in Octet
        BY OctetSize DEF Octet
      <4>2. 0 \in Length
        BY WidthsOK DEF WidthsOK, Length
      <4>3. QED
        BY <3>2, <4>1, <4>2 DEF CIDR, Address
    <3>3. QED
      BY <2>1, <3>1, <3>2 DEF Init
  <2>2. QED
    BY <2>1 DEF Init, DnsInv
<1>2. DnsInv /\ [Next]_vars => DnsInv'
  <2> SUFFICES ASSUME DnsInv, [Next]_vars PROVE DnsInv'
    OBVIOUS
  <2>1. serviceRange' = serviceRange
    BY DEF Next, EvalArgs, vars
  <2>2. \A r \in out' : r \in out \/ /\ r.listenService = serviceRange.ip
                                     /\ r.dns = DnsAddress(serviceRange)
    BY DEF Next, EvalArgs, vars
  <2>3. QED
    BY <2>1, <2>2 DEF DnsInv, DnsAddress
<1>3. QED
  BY <1>1, <1>2, PTL DEF Spec

\* The address of the DNS service (ArgHandler.go:137-139) lies in the service
\* range and is not that of the API server, for octets of any width and any
\* number of them, as long as the prefix leaves the last octet free.
THEOREM DnsIsInRange == Spec => []DnsInServiceRange
<1>1. ASSUME DnsInv, serviceRange.len <= (Octets - 1) * Bits, NEW r \in out
      PROVE  InRange(serviceRange, r.dns) /\ r.dns # r.listenService
  <2> DEFINE ip == serviceRange.ip
             len == serviceRange.len
             dns == DnsAddress(serviceRange)
             next == (ip[Octets] + 1) % Pow2[Bits]
  <2>1. ip \in Address /\ len \in Nat
    BY <1>1, WidthsOK DEF DnsInv, CIDR, Length, WidthsOK
  <2>2. Octets \in OctetNo /\ ip[Octets] \in 0..Pow2[Bits]-1
    BY <2>1, WidthsOK DEF WidthsOK, OctetNo, Address, Octet
  <2>3. next \in 0..Pow2[Bits]-1 /\ next # ip[Octets]
    BY <2>2, OctetSize, Increment
  <2>4. /\ dns[Octets] = next
        /\ \A i \in OctetNo : i # Octets => dns[i] = ip[i]
    BY <2>1, <2>2 DEF DnsAddress, Address
  <2>5. Covered(len, Octets) = 0
    BY <1>1, <2>1, WidthsOK DEF Covered, WidthsOK
  <2>6. ASSUME NEW i \in OctetNo PROVE Network(dns, len)[i] = Network(ip, len)[i]
    <3>1. CASE i = Octets
      <4>1. Bits - Covered(len, Octets) = Bits
        BY <2>5, WidthsOK DEF WidthsOK
      <4>2. /\ Network(dns, len)[Octets] = next - (next % Pow2[Bits])
            /\ Network(ip, len)[Octets] = ip[Octets] - (ip[Octets] % Pow2[Bits])
        BY <2>2, <2>4, <4>1 DEF Network
      <4>3. next % Pow2[Bits] = next /\ ip[Octets] % Pow2[Bits] = ip[Octets]
        BY <2>2, <2>3, OctetSize, SmallRemainder
      <4>4. QED
        BY <3>1, <4>2, <4>3, <2>2, <2>3
    <3>2. CASE i # Octets
      BY <3>2, <2>4 DEF Network
    <3>3. QED
      BY <3>1, <3>2
  <2>7. Network(dns, len) = Network(ip, len)
    BY <2>6 DEF Network
  <2>8. dns # ip
    BY <2>3, <2>4
  <2>9. r.dns = dns /\ r.listenService = ip
    BY <1>1 DEF DnsInv
  <2>10. QED
    BY <2>7, <2>8, <2>9 DEF InRange
<1>2. DnsInv => DnsInServiceRange
  BY <1>1 DEF DnsInServiceRange
<1>3. QED
  BY <1>2, DnsInvariant, PTL

-----------------------------------------------------------------------------
(* FindBindAddress.                                                        *)

\* Among places there is one that is visited first.
LEMMA FirstExists ==
    ASSUME NEW places \in SUBSET (Nat \X Nat), places # {}
    PROVE  FirstOf(places) \in places
<1> DEFINE rows == {p[1] : p \in places}
<1>1. rows \in SUBSET Nat /\ rows # {}
  OBVIOUS
<1>2. PICK i \in rows : \A k \in rows : i <= k
  <2> HIDE DEF rows
  <2>1. QED
    BY <1>1, LeastExists
<1> DEFINE columns == {j \in Nat : <<i, j>> \in places}
<1>3. columns \in SUBSET Nat /\ columns # {}
  <2>1. PICK p \in places : p[1] = i
    BY <1>2
  <2>2. p = <<p[1], p[2]>> /\ p[2] \in Nat
    BY <2>1
  <2>3. p[2] \in columns
    BY <2>1, <2>2
  <2>4. QED
    BY <2>3
<1>4. PICK j \in columns : \A k \in columns : j <= k
  <2> HIDE DEF columns
  <2>1. QED
    BY <1>3, LeastExists
<1>5. <<i, j>> \in places /\ i \in Nat /\ j \in Nat
  BY <1>1, <1>4
<1>6. ASSUME NEW q \in places \ {<<i, j>>} PROVE Before(<<i, j>>, q)
  <2>1. q = <<q[1], q[2]>> /\ q[1] \in Nat /\ q[2] \in Nat
    OBVIOUS
  <2>2. i <= q[1]
    BY <1>2
  <2>3. CASE q[1] = i
    <3>1. q[2] \in columns
      BY <2>1, <2>3
    <3>2. j <= q[2] /\ j # q[2]
      BY <1>4, <2>1, <2>3, <3>1
    <3>3. QED
      BY <1>5, <2>1, <2>3, <3>2 DEF Before
  <2>4. QED
    BY <1>5, <2>1, <2>2, <2>3 DEF Before
<1>7. QED
  BY <1>5, <1>6 DEF FirstOf

\* The places of a host are pairs of numbers, at which it has an address.
LEMMA PlacesOfHost ==
    ASSUME host \in Seq([readable : BOOLEAN, addrs : Seq(Kinds)])
    PROVE  /\ Places(host) \subseteq Nat \X Nat
           /\ \A p \in Places(host) : /\ p[1] \in DOMAIN host
                                      /\ p[2] \in DOMAIN host[p[1]].addrs
           /\ \A i \in DOMAIN host : \A j \in DOMAIN host[i].addrs :
                 <<i, j>> \in Places(host)
<1> DEFINE Interfaces == [readable : BOOLEAN, addrs : Seq(Kinds)]
<1>1. \A i \in DOMAIN host : i \in Nat /\ host[i].addrs \in Seq(Kinds)
  <2>1. host \in Seq(Interfaces)
    OBVIOUS
  <2>2. \A i \in DOMAIN host : i \in Nat /\ host[i] \in Interfaces
    <3> HIDE DEF Interfaces
    <3>1. QED
      BY <2>1
  <2>3. QED
    BY <2>2
<1>2. \A i \in DOMAIN host : \A j \in DOMAIN host[i].addrs : j \in Nat
  BY <1>1
<1>3. \A p \in Places(host) :
         \E i \in DOMAIN host : \E j \in DOMAIN host[i].addrs : p = <<i, j>>
  BY DEF Places
<1>4. ASSUME NEW i \in DOMAIN host, NEW j \in DOMAIN host[i].addrs
      PROVE  <<i, j>> \in Places(host)
  <2> DEFINE row == {<<i, k>> : k \in DOMAIN host[i].addrs}
  <2>1. <<i, j>> \in row
    OBVIOUS
  <2>2. row \subseteq Places(host)
    BY DEF Places
  <2>3. QED
    BY <2>1, <2>2
<1>5. ASSUME NEW p \in Places(host)
      PROVE  /\ p \in Nat \X Nat
             /\ p[1] \in DOMAIN host /\ p[2] \in DOMAIN host[p[1]].addrs
  <2>1. PICK i \in DOMAIN host : \E j \in DOMAIN host[i].addrs : p = <<i, j>>
    BY <1>3
  <2>2. PICK j \in DOMAIN host[i].addrs : p = <<i, j>>
    BY <2>1
  <2>3. p[1] = i /\ p[2] = j
    BY <2>2
  <2>4. QED
    BY <1>1, <1>2, <2>2, <2>3
<1>6. QED
  BY <1>4, <1>5

\* The address that is bound is that of a candidate, and private if one is.
LEMMA BoundIsCandidate ==
    ASSUME host \in Seq([readable : BOOLEAN, addrs : Seq(Kinds)]), Candidates(host) # {}
    PROVE  \E p \in Candidates(host) :
              /\ FindBindAddress(host) = KindAt(host, p)
              /\ (\E q \in Candidates(host) : KindAt(host, q) = "private")
                    => KindAt(host, p) = "private"
<1> DEFINE private == {p \in Candidates(host) : KindAt(host, p) = "private"}
           visited == IF private = {} THEN Candidates(host) ELSE private
<1>1. visited \in SUBSET (Nat \X Nat) /\ visited # {}
  BY PlacesOfHost DEF Candidates
<1>2. FirstOf(visited) \in visited
  <2> HIDE DEF visited
  <2>1. QED
    BY <1>1, FirstExists
<1>3. FindBindAddress(host) = KindAt(host, FirstOf(visited))
  BY DEF FindBindAddress
<1>4. QED
  <2>1. CASE private = {}
    BY <1>2, <1>3, <2>1
  <2>2. CASE private # {}
    <3>1. FirstOf(visited) \in private
      BY <1>2, <2>2
    <3>2. QED
      BY <1>3, <3>1
  <2>3. QED
    BY <2>1, <2>2

\* What evalArgs has found, it has found among the candidates.
BindInv ==
    /\ host \in Seq([readable : BOOLEAN, addrs : Seq(Kinds)])
    /\ fatal /\ fault = "none" => Candidates(host) = {}
    /\ \A r \in out : Candidates(host) # {} /\ r.bind = FindBindAddress(host)

\* A sequence within a bound is a sequence.
LEMMA BoundedIsSeq ==
    ASSUME NEW S, NEW T, S \subseteq T, NEW n \in Nat
    PROVE  BoundedSeq(S, n) \subseteq Seq(T)
<1> SUFFICES ASSUME NEW m \in 0..n, NEW f \in [1..m -> S] PROVE f \in Seq(T)
  BY DEF BoundedSeq, SeqOf
<1>1. m \in Nat
  OBVIOUS
<1>2. f \in [1..m -> T]
  OBVIOUS
<1>3. QED
  BY <1>1, <1>2

\* The hosts of the bounds are hosts.
LEMMA BindInit == Init => BindInv
<1> SUFFICES ASSUME Init PROVE host \in Seq([readable : BOOLEAN, addrs : Seq(Kinds)])
  BY DEF Init, BindInv
<1>1. BoundedSeq(Kinds, MaxAddresses) \subseteq Seq(Kinds)
  BY WidthsOK, BoundedIsSeq DEF WidthsOK
<1>2. Interface \subseteq [readable : BOOLEAN, addrs : Seq(Kinds)]
  BY <1>1 DEF Interface
<1>3. CASE host \in Hosts
  BY <1>2, <1>3, WidthsOK, BoundedIsSeq DEF Hosts, WidthsOK
<1>4. CASE host = <<[readable |-> TRUE, addrs |-> <<"private">>]>>
  <2>1. <<"private">> \in Seq(Kinds)
    BY DEF Kinds
  <2>2. [readable |-> TRUE, addrs |-> <<"private">>] \in [readable : BOOLEAN, addrs : Seq(Kinds)]
    BY <2>1
  <2>3. QED
    BY <1>4, <2>2
<1>5. CASE host = <<>>
  BY <1>5
<1>6. QED
  BY <1>3, <1>4, <1>5 DEF Init

\* Unless something else fails, microkubed gives up only when no interface that
\* can be read has an address of IPv4 that is not the loopback, and it binds to
\* a private address whenever there is one (Network.go:83-134), for any number
\* of interfaces.
THEOREM BindsToPrivate == Spec => []BindsPrivately
<1>1. BindInv /\ [Next]_vars => BindInv'
  <2> SUFFICES ASSUME BindInv, [Next]_vars PROVE BindInv'
    OBVIOUS
  <2>1. host' = host /\ fault' = fault
    BY DEF Next, EvalArgs, vars
  <2>2. CASE UNCHANGED vars
    BY <2>2 DEF vars, BindInv
  <2>3. CASE EvalArgs /\ Candidates(host) = {}
    BY <2>1, <2>3 DEF EvalArgs, BindInv
  <2>4. CASE EvalArgs /\ Candidates(host) # {}
    BY <2>1, <2>4 DEF EvalArgs, BindInv
  <2>5. QED
    BY <2>2, <2>3, <2>4 DEF Next
<1>2. BindInv => BindsPrivately
  <2> SUFFICES ASSUME BindInv PROVE BindsPrivately
    OBVIOUS
  <2> DEFINE has(kind) == \E i \in DOMAIN host :
                             host[i].readable /\ kind \in ToSet(host[i].addrs)
  <2>1. ASSUME NEW kind, has(kind), IsCandidate(kind)
        PROVE  \E p \in Candidates(host) : KindAt(host, p) = kind
    <3>1. PICK i \in DOMAIN host : host[i].readable /\ kind \in ToSet(host[i].addrs)
      BY <2>1
    <3>2. PICK j \in DOMAIN host[i].addrs : host[i].addrs[j] = kind
      BY <3>1 DEF ToSet
    <3>3. <<i, j>> \in Places(host) /\ KindAt(host, <<i, j>>) = kind
      BY <3>2, PlacesOfHost DEF BindInv, KindAt
    <3>4. QED
      BY <2>1, <3>1, <3>3 DEF Candidates
  <2>2. ASSUME NEW p \in Candidates(host)
        PROVE  has(KindAt(host, p)) /\ IsCandidate(KindAt(host, p))
    BY <2>2, PlacesOfHost DEF BindInv, Candidates, KindAt, ToSet
  <2>3. IsCandidate("private") /\ IsCandidate("public")
    BY DEF IsCandidate
  <2>4. fatal /\ fault = "none" => ~has("private") /\ ~has("public")
    BY <2>1, <2>3 DEF BindInv
  <2>5. ASSUME NEW r \in out
        PROVE  has(r.bind) /\ IsCandidate(r.bind) /\ (has("private") => r.bind = "private")
    <3>1. r.bind = FindBindAddress(host) /\ Candidates(host) # {}
      BY DEF BindInv
    <3>2. PICK p \in Candidates(host) :
              /\ FindBindAddress(host) = KindAt(host, p)
              /\ (\E q \in Candidates(host) : KindAt(host, q) = "private")
                    => KindAt(host, p) = "private"
      BY <3>1, BoundIsCandidate DEF BindInv
    <3>3. QED
      BY <2>1, <2>2, <2>3, <3>1, <3>2
  <2>6. QED
    BY <2>4, <2>5 DEF BindsPrivately
<1>3. QED
  BY <1>1, <1>2, BindInit, PTL DEF Spec

-----------------------------------------------------------------------------
(* The leading bits of an octet.                                           *)

Top(x, k) == x \div Pow2[Bits - k]

\* An octet has bits.
LEMMA SomeBits == Bits \in Nat \ {0} /\ Octets \in Nat \ {0}
  BY WidthsOK DEF WidthsOK

\* The leading bits are a number: of none of them 0, of all of them the octet.
LEMMA TopType ==
    ASSUME NEW x \in Octet
    PROVE  /\ \A k \in 0..Bits : Top(x, k) \in Nat
           /\ Top(x, 0) = 0
           /\ Top(x, Bits) = x
<1>1. x \in Nat /\ x < Pow2[Bits] /\ Pow2[Bits] \in Nat \ {0}
  BY OctetSize DEF Octet
<1>2. ASSUME NEW k \in 0..Bits PROVE Top(x, k) \in Nat
  <2>1. Bits - k \in Nat
    BY SomeBits
  <2>2. QED
    BY <1>1, <2>1, Pow2Step, Division DEF Top
<1>3. Top(x, 0) = 0
  <2>1. x \in 0..Pow2[Bits]-1 /\ Pow2[Bits] * 0 + x = x
    BY <1>1
  <2>2. x \div Pow2[Bits] = 0
    BY <1>1, <2>1, DivisionUnique
  <2>3. Bits - 0 = Bits
    BY SomeBits
  <2>4. QED
    BY <2>2, <2>3 DEF Top
<1>4. Top(x, Bits) = x
  <2>1. Bits - Bits = 0 /\ Pow2[0] = 1
    BY SomeBits, Pow2Step
  <2>2. 1 * x + 0 = x /\ 0 \in 0..1-1
    BY <1>1
  <2>3. x \div 1 = x
    BY <1>1, <2>2, DivisionUnique
  <2>4. QED
    BY <2>1, <2>3 DEF Top
<1>5. QED
  BY <1>2, <1>3, <1>4

\* The next bit.
LEMMA TopStep ==
    ASSUME NEW x \in Octet, NEW k \in 0..Bits-1
    PROVE  /\ Top(x, k) = Top(x, k + 1) \div 2
           /\ Top(x, k + 1) = 2 * Top(x, k) + Bit(x, k + 1)
           /\ Bit(x, k + 1) \in 0..1
<1> DEFINE d == Pow2[Bits - (k + 1)]
<1>1. Bits - (k + 1) \in Nat /\ (Bits - (k + 1)) + 1 = Bits - k /\ x \in Nat
  BY SomeBits, OctetSize DEF Octet
<1>2. d \in Nat \ {0} /\ Pow2[Bits - k] = 2 * d
  BY <1>1, Pow2Step
<1>3. Bit(x, k + 1) = (x \div d) % 2
  BY DEF Bit
<1> HIDE DEF d
<1>4. /\ (x \div d) \div 2 = x \div (2 * d)
      /\ x \div d = 2 * (x \div (2 * d)) + ((x \div d) % 2)
  BY <1>1, <1>2, HalfQuotient
<1>5. (x \div d) \in Nat
  BY <1>1, <1>2, Division
<1>6. (x \div d) % 2 \in 0..1
  BY <1>5
<1>7. QED
  BY <1>2, <1>3, <1>4, <1>6 DEF Top, d

\* Octets that agree in their first c bits agree in fewer of them.
LEMMA TopPrefix ==
    ASSUME NEW x \in Octet, NEW y \in Octet, NEW c \in 0..Bits,
           Top(x, c) = Top(y, c), NEW k \in 0..c
    PROVE  Top(x, k) = Top(y, k)
<1> DEFINE S == {n \in Nat : n <= c => Top(x, c - n) = Top(y, c - n)}
<1>1. 0 \in S
  BY SomeBits
<1>2. ASSUME NEW n \in Nat, n \in S PROVE n + 1 \in S
  <2> SUFFICES ASSUME n + 1 <= c PROVE Top(x, c - (n + 1)) = Top(y, c - (n + 1))
    OBVIOUS
  <2>1. c - (n + 1) \in 0..Bits-1 /\ (c - (n + 1)) + 1 = c - n /\ n <= c
    BY SomeBits
  <2>2. Top(x, c - n) = Top(y, c - n)
    BY <1>2, <2>1
  <2>3. QED
    BY <2>1, <2>2, TopStep
<1>3. Nat \subseteq S
  <2> HIDE DEF S
  <2>1. QED
    BY <1>1, <1>2, SetInduction
<1>4. c - k \in Nat /\ c - k <= c /\ c - (c - k) = k
  BY SomeBits
<1>5. QED
  BY <1>3, <1>4

\* Octets whose first k bits are equal one by one agree in them.
LEMMA SameBits ==
    ASSUME NEW x \in Octet, NEW y \in Octet, NEW k \in 0..Bits,
           \A j \in 1..k : Bit(x, j) = Bit(y, j)
    PROVE  Top(x, k) = Top(y, k)
<1> DEFINE S == {n \in Nat : n <= k => Top(x, n) = Top(y, n)}
<1>1. 0 \in S
  BY TopType
<1>2. ASSUME NEW n \in Nat, n \in S PROVE n + 1 \in S
  <2> SUFFICES ASSUME n + 1 <= k PROVE Top(x, n + 1) = Top(y, n + 1)
    OBVIOUS
  <2>1. n \in 0..Bits-1 /\ n + 1 \in 1..k /\ n <= k
    BY SomeBits
  <2>2. Top(x, n) = Top(y, n) /\ Bit(x, n + 1) = Bit(y, n + 1)
    BY <1>2, <2>1
  <2>3. QED
    BY <2>1, <2>2, TopStep
<1>3. Nat \subseteq S
  <2> HIDE DEF S
  <2>1. QED
    BY <1>1, <1>2, SetInduction
<1>4. k \in S /\ k <= k
  BY <1>3, SomeBits
<1>5. QED
  BY <1>4

\* The first bit in which two octets differ.
LEMMA FirstBit ==
    ASSUME NEW x \in Octet, NEW y \in Octet, x # y
    PROVE  LET m == Min({j \in 1..Bits : Bit(x, j) # Bit(y, j)})
           IN  /\ m \in 1..Bits
               /\ Top(x, m - 1) = Top(y, m - 1)
               /\ Top(x, m) # Top(y, m)
<1> DEFINE bits == {j \in 1..Bits : Bit(x, j) # Bit(y, j)}
           m == Min(bits)
<1>1. bits # {}
  <2> SUFFICES ASSUME \A j \in 1..Bits : Bit(x, j) = Bit(y, j) PROVE FALSE
    OBVIOUS
  <2>1. Top(x, Bits) = Top(y, Bits)
    BY SomeBits, SameBits
  <2>2. QED
    BY <2>1, TopType
<1>2. m \in bits /\ \A j \in bits : m <= j
  <2>1. bits \in SUBSET Nat
    BY SomeBits
  <2> HIDE DEF bits
  <2>2. PICK l \in bits : \A j \in bits : l <= j
    BY <1>1, <2>1, LeastExists
  <2>3. QED
    BY <2>2 DEF Min
<1>3. m \in 1..Bits /\ Bit(x, m) # Bit(y, m)
  BY <1>2
<1>4. \A j \in 1..Bits : Bit(x, j) # Bit(y, j) => m <= j
  BY <1>2
<1> HIDE DEF m, bits
<1>5. m - 1 \in 0..Bits-1 /\ m - 1 \in 0..Bits /\ (m - 1) + 1 = m /\ m \in 0..Bits
  BY <1>3, SomeBits
<1>6. \A j \in 1..m-1 : Bit(x, j) = Bit(y, j)
  BY <1>3, <1>4, SomeBits
<1>7. Top(x, m - 1) = Top(y, m - 1)
  BY <1>5, <1>6, SameBits
<1>8. Top(x, m) # Top(y, m)
  <2>1. Top(x, m) = 2 * Top(x, m - 1) + Bit(x, m) /\ Bit(x, m) \in 0..1
    BY <1>5, TopStep
  <2>2. Top(y, m) = 2 * Top(y, m - 1) + Bit(y, m) /\ Bit(y, m) \in 0..1
    BY <1>5, TopStep
  <2>3. Top(x, m - 1) \in Nat
    BY <1>5, TopType
  <2>4. QED
    BY <1>3, <1>7, <2>1, <2>2, <2>3
<1>9. QED
  BY <1>3, <1>7, <1>8 DEF m, bits

\* The bits after the first c are zero.
Masked(x, c) == x = Pow2[Bits - c] * Top(x, c)

\* What IP.Mask does to an octet of which the mask covers c bits.
LEMMA MaskOctet ==
    ASSUME NEW x \in Octet, NEW c \in 0..Bits
    PROVE  LET y == x - (x % Pow2[Bits - c])
           IN  /\ y = Pow2[Bits - c] * Top(x, c)
               /\ y \in Octet
               /\ Top(y, c) = Top(x, c)
               /\ Masked(y, c)
<1> DEFINE d == Pow2[Bits - c]
           q == x \div d
           r == x % d
           y == x - r
<1>1. x \in Nat /\ x <= Pow2[Bits] - 1 /\ Pow2[Bits] \in Nat
  BY OctetSize DEF Octet
<1>2. d \in Nat \ {0}
  <2>1. Bits - c \in Nat
    BY SomeBits
  <2>2. QED
    BY <2>1, Pow2Step
<1> HIDE DEF d
<1>3. r \in 0..d-1 /\ x = d * q + r /\ q \in Nat
  BY <1>1, <1>2, Division
<1> HIDE DEF q, r
<1>4. d * q \in Nat
  BY <1>2, <1>3
<1>5. y = d * q
  BY <1>1, <1>2, <1>3, <1>4
<1>6. y \in Octet
  BY <1>1, <1>2, <1>3, <1>4, <1>5 DEF Octet
<1>7. y \div d = q
  <2>1. 0 \in 0..d-1 /\ d * q + 0 = y
    BY <1>2, <1>4, <1>5
  <2>2. QED
    BY <1>2, <1>3, <2>1, DivisionUnique
<1>8. q = Top(x, c) /\ Top(y, c) = y \div d
  BY DEF q, d, Top
<1>9. y = d * Top(x, c) /\ Top(y, c) = Top(x, c)
  BY <1>5, <1>7, <1>8
<1>10. y = d * Top(y, c)
  BY <1>9
<1> HIDE DEF y
<1>11. Masked(y, c)
  BY <1>10 DEF Masked, d
<1>12. QED
  BY <1>6, <1>9, <1>11 DEF d, r, y

\* An octet that is zero after its first c bits is zero after more of them.
LEMMA MaskedMore ==
    ASSUME NEW x \in Octet, NEW c \in 0..Bits, Masked(x, c), NEW e \in c..Bits
    PROVE  Masked(x, e)
<1> DEFINE S == {n \in Nat : c + n <= Bits => Masked(x, c + n)}
<1>1. 0 \in S
  BY SomeBits
<1>2. ASSUME NEW n \in Nat, n \in S PROVE n + 1 \in S
  <2> SUFFICES ASSUME c + (n + 1) <= Bits PROVE Masked(x, c + (n + 1))
    OBVIOUS
  <2> DEFINE k == c + n
             d == Pow2[Bits - (k + 1)]
             q == Top(x, k)
  <2>1. /\ k \in 0..Bits /\ c + (n + 1) = k + 1 /\ Bits - (k + 1) \in Nat
        /\ (Bits - (k + 1)) + 1 = Bits - k
    BY SomeBits
  <2>2. d \in Nat \ {0} /\ Pow2[Bits - k] = 2 * d
    BY <2>1, Pow2Step
  <2>3. x = (2 * d) * q /\ q \in Nat
    BY <1>2, <2>1, <2>2, TopType DEF Masked
  <2> HIDE DEF d, q, k
  <2>4. 0 \in 0..d-1 /\ d * (2 * q) + 0 = x /\ 2 * q \in Nat
    BY <2>2, <2>3
  <2>5. x \div d = 2 * q
    BY <2>2, <2>4, DivisionUnique
  <2>6. x = d * (x \div d)
    BY <2>2, <2>3, <2>4, <2>5
  <2>7. QED
    BY <2>1, <2>6 DEF Masked, Top, d
<1>3. Nat \subseteq S
  <2> HIDE DEF S
  <2>1. QED
    BY <1>1, <1>2, SetInduction
<1>4. e - c \in S /\ c + (e - c) = e /\ e <= Bits
  BY <1>3, SomeBits
<1>5. QED
  BY <1>4

-----------------------------------------------------------------------------
(* Prefixes of addresses.                                                  *)

\* Addresses a and b agree in their first l bits.
Agree(a, b, l) ==
    \A i \in OctetNo : Top(a[i], Covered(l, i)) = Top(b[i], Covered(l, i))

\* The bits of an octet that a prefix covers are not more than it has, and a
\* longer prefix covers no less of them.
LEMMA CoveredGrows ==
    ASSUME NEW i \in OctetNo, NEW l \in Length
    PROVE  /\ Covered(l, i) \in 0..Bits
           /\ \A n \in Length : l <= n => Covered(l, i) <= Covered(n, i)
<1> DEFINE a == Bits * (i - 1)
           b == Bits * i
<1>1. i \in Nat /\ l \in Nat /\ \A n \in Length : n \in Nat
  BY SomeBits DEF OctetNo, Length
<1>2. a \in Nat /\ b \in Nat /\ b = a + Bits
  <2>1. i \in Nat /\ i - 1 \in Nat /\ i = (i - 1) + 1
    BY SomeBits DEF OctetNo
  <2>2. QED
    BY SomeBits, <2>1
<1>3. \A n \in Length :
         /\ n <= a => Covered(n, i) = 0
         /\ n >= b => Covered(n, i) = Bits
         /\ ~(n <= a) /\ ~(n >= b) => Covered(n, i) = n - a
  <2> SUFFICES ASSUME NEW n \in Length
               PROVE  /\ n <= a => Covered(n, i) = 0
                      /\ n >= b => Covered(n, i) = Bits
                      /\ ~(n <= a) /\ ~(n >= b) => Covered(n, i) = n - a
    OBVIOUS
  <2>1. n <= a /\ n >= b => FALSE
    BY <1>1, <1>2, SomeBits
  <2> HIDE DEF a, b
  <2>2. Covered(n, i) = CASE n <= a -> 0 [] n >= b -> Bits [] OTHER -> n - a
    BY DEF Covered, a, b
  <2>3. QED
    BY <2>1, <2>2, Zenon
<1> HIDE DEF a, b
<1>4. QED
  BY <1>1, <1>2, <1>3, SomeBits

\* The network of an address: the octets of the prefix, and zeros.
LEMMA NetworkIs ==
    ASSUME NEW a \in Address, NEW l \in Length, NEW i \in OctetNo
    PROVE  /\ Network(a, l)[i] = Pow2[Bits - Covered(l, i)] * Top(a[i], Covered(l, i))
           /\ Network(a, l)[i] \in Octet
           /\ Top(Network(a, l)[i], Covered(l, i)) = Top(a[i], Covered(l, i))
           /\ Masked(Network(a, l)[i], Covered(l, i))
<1>1. a[i] \in Octet /\ Covered(l, i) \in 0..Bits
  BY CoveredGrows DEF Address
<1>2. Network(a, l)[i] = a[i] - (a[i] % Pow2[Bits - Covered(l, i)])
  BY DEF Network
<1>3. QED
  BY <1>1, <1>2, MaskOctet

\* The network of an address is an address.
LEMMA NetworkType ==
    ASSUME NEW a \in Address, NEW l \in Length
    PROVE  Network(a, l) \in Address
<1>1. \A i \in OctetNo : Network(a, l)[i] \in Octet
  BY NetworkIs
<1>2. Network(a, l) = [i \in OctetNo |-> Network(a, l)[i]]
  BY DEF Network
<1>3. QED
  BY <1>1, <1>2 DEF Address

\* A range contains the addresses that agree with it in the bits of its prefix.
LEMMA InRangeIsAgree ==
    ASSUME NEW a \in Address, NEW b \in Address, NEW l \in Length
    PROVE  Network(a, l) = Network(b, l) <=> Agree(a, b, l)
<1>1. ASSUME Network(a, l) = Network(b, l), NEW i \in OctetNo
      PROVE  Top(a[i], Covered(l, i)) = Top(b[i], Covered(l, i))
  <2>1. Network(a, l)[i] = Network(b, l)[i]
    BY <1>1
  <2>2. QED
    BY <2>1, NetworkIs
<1>2. ASSUME Agree(a, b, l) PROVE Network(a, l) = Network(b, l)
  <2>1. ASSUME NEW i \in OctetNo PROVE Network(a, l)[i] = Network(b, l)[i]
    <3>1. Top(a[i], Covered(l, i)) = Top(b[i], Covered(l, i))
      BY <1>2 DEF Agree
    <3>2. QED
      BY <3>1, NetworkIs
  <2>2. QED
    BY <2>1 DEF Network
<1>3. QED
  BY <1>1, <1>2 DEF Agree

\* Addresses that agree in a prefix agree in a shorter one.
LEMMA AgreeLess ==
    ASSUME NEW a \in Address, NEW b \in Address, NEW l \in Length, NEW n \in Length,
           l <= n, Agree(a, b, n)
    PROVE  Agree(a, b, l)
<1> SUFFICES ASSUME NEW i \in OctetNo
             PROVE  Top(a[i], Covered(l, i)) = Top(b[i], Covered(l, i))
  BY DEF Agree
<1>1. a[i] \in Octet /\ b[i] \in Octet
  BY DEF Address
<1>2. Covered(n, i) \in 0..Bits /\ Covered(l, i) \in 0..Covered(n, i)
  BY CoveredGrows, SomeBits
<1>3. Top(a[i], Covered(n, i)) = Top(b[i], Covered(n, i))
  BY DEF Agree
<1>4. QED
  BY <1>1, <1>2, <1>3, TopPrefix

\* A network agrees with its address in every prefix that is not longer.
LEMMA NetworkAgrees ==
    ASSUME NEW a \in Address, NEW l \in Length, NEW n \in Length, l <= n
    PROVE  Agree(Network(a, n), a, l)
<1>1. Agree(Network(a, n), a, n)
  BY NetworkIs DEF Agree
<1>2. QED
  BY <1>1, NetworkType, AgreeLess

\* Networks that agree in a prefix that neither of theirs is longer than are
\* the same.
LEMMA NetworksEqual ==
    ASSUME NEW a \in Address, NEW b \in Address,
           NEW l \in Length, NEW n \in Length, NEW m \in Length, l <= m, n <= m,
           Agree(Network(a, l), Network(b, n), m)
    PROVE  Network(a, l) = Network(b, n)
<1>1. ASSUME NEW i \in OctetNo PROVE Network(a, l)[i] = Network(b, n)[i]
  <2> DEFINE x == Network(a, l)[i]
             y == Network(b, n)[i]
  <2>1. x \in Octet /\ Masked(x, Covered(l, i)) /\ y \in Octet /\ Masked(y, Covered(n, i))
    BY NetworkIs
  <2>2. /\ Covered(l, i) \in 0..Bits /\ Covered(m, i) \in Covered(l, i)..Bits
        /\ Covered(n, i) \in 0..Bits /\ Covered(m, i) \in Covered(n, i)..Bits
    BY CoveredGrows, SomeBits
  <2>3. Top(x, Covered(m, i)) = Top(y, Covered(m, i))
    BY DEF Agree
  <2> HIDE DEF x, y
  <2>4. Masked(x, Covered(m, i)) /\ Masked(y, Covered(m, i))
    BY <2>1, <2>2, MaskedMore
  <2>5. x = y
    BY <2>3, <2>4 DEF Masked
  <2>6. QED
    BY <2>5 DEF x, y
<1>2. QED
  BY <1>1 DEF Network

-----------------------------------------------------------------------------
(* The combined range.                                                     *)

\* One element only.
LEMMA OnlyOne ==
    ASSUME NEW S \in SUBSET OctetNo, Cardinality(S) = 1
    PROVE  \E i \in OctetNo : S = {i} /\ Max(S) = i
<1>1. IsFiniteSet(S)
  <2>1. 1 \in Int /\ Octets \in Int
    BY SomeBits
  <2>2. IsFiniteSet(OctetNo)
    BY <2>1, FS_Interval DEF OctetNo
  <2>3. QED
    BY <2>2, FS_Subset
<1>2. PICK i : S = {i}
  BY <1>1, FS_Singleton
<1>3. i \in OctetNo /\ i \in Nat
  BY <1>2, SomeBits DEF OctetNo
<1>4. Max(S) = i
  BY <1>2, <1>3 DEF Max
<1>5. QED
  BY <1>2, <1>3, <1>4

\* baseOffset is where two networks that differ in one octet part: they agree
\* in as many bits, and in no more of them.
LEMMA BaseOffsetParts ==
    ASSUME NEW pod \in CIDR, NEW service \in CIDR,
           Cardinality(Diverging(pod, service)) = 1
    PROVE  LET podNet == Network(pod.ip, pod.len)
               serviceNet == Network(service.ip, service.len)
               b == BaseOffset(pod, service)
           IN  /\ podNet # serviceNet
               /\ b \in Length /\ b + 1 \in Length
               /\ Agree(podNet, serviceNet, b)
               /\ \A n \in Length : n > b => ~Agree(podNet, serviceNet, n)
<1> DEFINE podNet == Network(pod.ip, pod.len)
           serviceNet == Network(service.ip, service.len)
           b == BaseOffset(pod, service)
           div == Diverging(pod, service)
<1>1. pod.ip \in Address /\ pod.len \in Length /\ service.ip \in Address
      /\ service.len \in Length
  BY DEF CIDR
<1>2. div = {i \in OctetNo : podNet[i] # serviceNet[i]}
  BY DEF Diverging
<1>3. podNet \in Address /\ serviceNet \in Address
  BY <1>1, NetworkType
<1>4. PICK i \in OctetNo : div = {i} /\ Max(div) = i
  <2>1. div \in SUBSET OctetNo
    BY <1>2
  <2>2. Cardinality(div) = 1
    OBVIOUS
  <2> HIDE DEF div
  <2>3. QED
    BY <2>1, <2>2, OnlyOne
<1> DEFINE m == Min({j \in 1..Bits : Bit(podNet[i], j) # Bit(serviceNet[i], j)})
<1>5. div # {} /\ b = (i - 1) * Bits + m - 1
  BY <1>4 DEF BaseOffset
<1> HIDE DEF div, b
<1>6. podNet[i] # serviceNet[i] /\ \A j \in OctetNo : j # i => podNet[j] = serviceNet[j]
  BY <1>2, <1>4
<1>7. podNet[i] \in Octet /\ serviceNet[i] \in Octet
  BY <1>3 DEF Address
<1> HIDE DEF podNet, serviceNet
<1>8. /\ m \in 1..Bits
      /\ Top(podNet[i], m - 1) = Top(serviceNet[i], m - 1)
      /\ Top(podNet[i], m) # Top(serviceNet[i], m)
  BY <1>6, <1>7, FirstBit
<1> HIDE DEF m
<1> DEFINE a == Bits * (i - 1)
<1>9. /\ a \in Nat /\ a + Bits = Bits * i /\ b = a + m - 1
      /\ Octets * Bits \in Nat /\ a + Bits <= Octets * Bits
  <2>1. i \in Nat /\ i - 1 \in Nat /\ i <= Octets
    BY SomeBits DEF OctetNo
  <2>2. Bits * i <= Bits * Octets /\ Bits * Octets = Octets * Bits
    BY <2>1, SomeBits, Monotone
  <2>3. (i - 1) * Bits = a /\ a \in Nat /\ a + Bits = Bits * i
    BY <2>1, SomeBits
  <2>4. QED
    BY <1>5, <1>8, <2>2, <2>3, SomeBits
<1>10. b \in Nat /\ b + 1 <= a + Bits /\ b \in Length /\ b + 1 \in Length
  BY <1>8, <1>9, SomeBits DEF Length
<1>11. Covered(b, i) = m - 1 /\ Covered(b + 1, i) = m
  <2>a. Bits * (i - 1) = a /\ Bits * i = a + Bits
    BY <1>9
  <2> HIDE DEF a
  <2>1. ASSUME NEW n \in Nat, n >= a, n <= a + Bits PROVE Covered(n, i) = n - a
    <3>1. Covered(n, i) = CASE n <= a -> 0 [] n >= a + Bits -> Bits [] OTHER -> n - a
      BY <2>a DEF Covered
    <3>2. CASE n = a
      <4>1. n <= a /\ ~(n >= a + Bits) /\ n - a = 0
        BY <1>9, <3>2, SomeBits
      <4>2. QED
        BY <3>1, <4>1, Zenon
    <3>3. CASE n = a + Bits
      <4>1. ~(n <= a) /\ n >= a + Bits /\ n - a = Bits
        BY <1>9, <3>3, SomeBits
      <4>2. QED
        BY <3>1, <4>1, Zenon
    <3>4. CASE n # a /\ n # a + Bits
      <4>1. ~(n <= a) /\ ~(n >= a + Bits)
        BY <1>9, <2>1, <3>4, SomeBits
      <4>2. QED
        BY <3>1, <4>1, Zenon
    <3>5. QED
      BY <3>2, <3>3, <3>4
  <2>2. b >= a /\ b - a = m - 1 /\ b + 1 >= a /\ (b + 1) - a = m /\ b <= a + Bits
        /\ b + 1 \in Nat
    BY <1>8, <1>9, <1>10, SomeBits
  <2>3. QED
    BY <1>10, <2>1, <2>2
<1>12. Agree(podNet, serviceNet, b)
  <2> SUFFICES ASSUME NEW j \in OctetNo
               PROVE  Top(podNet[j], Covered(b, j)) = Top(serviceNet[j], Covered(b, j))
    BY DEF Agree
  <2>1. CASE j = i
    BY <1>8, <1>11, <2>1
  <2>2. CASE j # i
    BY <1>6, <2>2
  <2>3. QED
    BY <2>1, <2>2
<1>13. ASSUME NEW n \in Length, n > b, Agree(podNet, serviceNet, n) PROVE FALSE
  <2>1. b + 1 <= n
    BY <1>10, <1>13, SomeBits DEF Length
  <2>2. Agree(podNet, serviceNet, b + 1)
    BY <1>3, <1>10, <1>13, <2>1, AgreeLess
  <2>3. QED
    BY <1>8, <1>11, <2>2 DEF Agree
<1>14. podNet # serviceNet
  BY <1>6
<1>15. QED
  BY <1>10, <1>12, <1>13, <1>14 DEF podNet, serviceNet, b

\* A range includes another that is not shorter and agrees with it.
LEMMA IncludesIs ==
    ASSUME NEW a \in CIDR, NEW b \in CIDR
    PROVE  Includes(a, b) <=> a.len <= b.len /\ Agree(b.ip, a.ip, a.len)
<1>1. a.ip \in Address /\ b.ip \in Address /\ a.len \in Length
  BY DEF CIDR
<1>2. QED
  BY <1>1, InRangeIsAgree DEF Includes, InRange

\* Addresses agree with one another in any prefix, or with themselves, and
\* agreement is passed on.
LEMMA AgreeIsEquivalence ==
    ASSUME NEW a, NEW b, NEW c, NEW l
    PROVE  /\ Agree(a, a, l)
           /\ Agree(a, b, l) => Agree(b, a, l)
           /\ Agree(a, b, l) /\ Agree(b, c, l) => Agree(a, c, l)
  BY DEF Agree

\* The networks of two ranges agree in a prefix of both just as the ranges do.
LEMMA NetworksAgree ==
    ASSUME NEW a \in CIDR, NEW b \in CIDR,
           NEW l \in Length, l <= a.len, l <= b.len
    PROVE  Agree(Network(a.ip, a.len), Network(b.ip, b.len), l) <=> Agree(a.ip, b.ip, l)
<1>1. a.ip \in Address /\ b.ip \in Address /\ a.len \in Length /\ b.len \in Length
  BY DEF CIDR
<1>2. Agree(Network(a.ip, a.len), a.ip, l) /\ Agree(Network(b.ip, b.len), b.ip, l)
  BY <1>1, NetworkAgrees
<1>3. QED
  BY <1>2, AgreeIsEquivalence

\* Of two disjoint ranges that differ in one octet, both have more bits than
\* their networks share: a range that does not contains the other.
LEMMA BothLonger ==
    ASSUME NEW pod \in CIDR, NEW service \in CIDR,
           Cardinality(Diverging(pod, service)) = 1,
           ~Includes(pod, service), ~Includes(service, pod)
    PROVE  BaseOffset(pod, service) < pod.len /\ BaseOffset(pod, service) < service.len
<1> DEFINE podNet == Network(pod.ip, pod.len)
           serviceNet == Network(service.ip, service.len)
           b == BaseOffset(pod, service)
<1>1. pod.ip \in Address /\ pod.len \in Length /\ service.ip \in Address
      /\ service.len \in Length
  BY DEF CIDR
<1>2. podNet # serviceNet /\ b \in Length /\ Agree(podNet, serviceNet, b)
  BY BaseOffsetParts
<1>3. podNet \in Address /\ serviceNet \in Address
  BY <1>1, NetworkType
<1>4. b \in Nat /\ pod.len \in Nat /\ service.len \in Nat
  BY <1>1, <1>2, SomeBits DEF Length
<1>5. ~(pod.len <= b /\ service.len <= b)
  BY <1>1, <1>2, NetworksEqual
<1>6. ASSUME pod.len <= b, pod.len <= service.len PROVE FALSE
  <2>1. Agree(podNet, serviceNet, pod.len)
    BY <1>1, <1>2, <1>3, <1>6, AgreeLess
  <2>2. pod.len <= pod.len
    BY <1>4
  <2>3. Agree(pod.ip, service.ip, pod.len)
    BY <1>1, <1>6, <2>1, <2>2, NetworksAgree
  <2>4. Agree(service.ip, pod.ip, pod.len)
    BY <2>3, AgreeIsEquivalence
  <2>5. QED
    BY <1>6, <2>4, IncludesIs
<1>7. ASSUME service.len <= b, service.len <= pod.len PROVE FALSE
  <2>1. Agree(podNet, serviceNet, service.len)
    BY <1>1, <1>2, <1>3, <1>7, AgreeLess
  <2>2. service.len <= service.len
    BY <1>4
  <2>3. Agree(pod.ip, service.ip, service.len)
    BY <1>1, <1>7, <2>1, <2>2, NetworksAgree
  <2>4. QED
    BY <1>7, <2>3, IncludesIs
<1> HIDE DEF b
<1>8. QED
  BY <1>4, <1>5, <1>6, <1>7 DEF b

\* The combined range of two disjoint ranges that differ in one octet contains
\* both, and no longer prefix does.
LEMMA ClusterRangeIsSmallest ==
    ASSUME NEW pod \in CIDR, NEW service \in CIDR,
           Cardinality(Diverging(pod, service)) = 1,
           ~Includes(pod, service), ~Includes(service, pod)
    PROVE  LET cluster == ClusterRange(pod, service)
           IN  /\ Includes(cluster, pod) /\ Includes(cluster, service)
               /\ \A n \in cluster.len+1 .. Octets*Bits :
                     ~ /\ Includes([ip |-> pod.ip, len |-> n], pod)
                       /\ Includes([ip |-> pod.ip, len |-> n], service)
<1> DEFINE podNet == Network(pod.ip, pod.len)
           serviceNet == Network(service.ip, service.len)
           b == BaseOffset(pod, service)
           cluster == ClusterRange(pod, service)
<1>1. pod.ip \in Address /\ pod.len \in Length /\ service.ip \in Address
      /\ service.len \in Length
  BY DEF CIDR
<1>2. /\ b \in Length
      /\ Agree(podNet, serviceNet, b)
      /\ \A n \in Length : n > b => ~Agree(podNet, serviceNet, n)
  BY BaseOffsetParts
<1>3. b < pod.len /\ b < service.len
  BY BothLonger
<1>4. b \in Nat /\ pod.len \in Nat /\ service.len \in Nat /\ Octets * Bits \in Nat
  BY <1>1, <1>2, SomeBits DEF Length
<1>5. cluster.len = b /\ cluster.ip \in {pod.ip, service.ip} /\ cluster \in CIDR
  BY <1>1, <1>2 DEF ClusterRange, CIDR
<1> HIDE DEF b, cluster
<1>6. b <= pod.len /\ b <= service.len
  BY <1>3, <1>4
<1>7. Agree(pod.ip, service.ip, b)
  BY <1>2, <1>6, NetworksAgree
<1>8. Agree(pod.ip, cluster.ip, b) /\ Agree(service.ip, cluster.ip, b)
  BY <1>5, <1>7, AgreeIsEquivalence
<1>9. Includes(cluster, pod) /\ Includes(cluster, service)
  BY <1>5, <1>6, <1>8, IncludesIs
<1>10. ASSUME NEW n \in b+1 .. Octets*Bits,
              Includes([ip |-> pod.ip, len |-> n], pod),
              Includes([ip |-> pod.ip, len |-> n], service)
       PROVE  FALSE
  <2>1. n \in Length /\ n > b
    BY <1>4 DEF Length
  <2>2. [ip |-> pod.ip, len |-> n] \in CIDR
    BY <1>1, <2>1 DEF CIDR
  <2>3. n <= pod.len /\ n <= service.len /\ Agree(service.ip, pod.ip, n)
    BY <1>10, <2>2, IncludesIs
  <2>4. Agree(pod.ip, service.ip, n)
    BY <2>3, AgreeIsEquivalence
  <2>5. Agree(podNet, serviceNet, n)
    BY <2>1, <2>3, <2>4, NetworksAgree
  <2>6. QED
    BY <1>2, <2>1, <2>5
<1>11. QED
  BY <1>5, <1>9, <1>10 DEF cluster

\* The inductive invariant: what has been computed is computed of the ranges.
ClusterInv ==
    /\ podRange \in CIDR /\ serviceRange \in CIDR
    /\ \A r \in out : r.cluster = ClusterRange(podRange, serviceRange)

\* At the start the ranges are ranges: those of the arguments, or the range of
\* all addresses.
LEMMA ClusterInit ==
    ASSUME Init
    PROVE  ClusterInv
<1> DEFINE zero == [ip |-> [i \in OctetNo |-> 0], len |-> 0]
<1>1. zero \in CIDR
  <2>1. 0 \in Octet /\ 0 \in Length
    BY OctetSize, SomeBits DEF Octet, Length
  <2>2. QED
    BY <2>1 DEF CIDR, Address
<1>2. podRange \in CIDR /\ serviceRange \in CIDR
  BY <1>1 DEF Init
<1>3. out = {}
  BY DEF Init
<1>4. QED
  BY <1>2, <1>3 DEF ClusterInv

\* ClusterIsSmallestCommon holds in every behaviour: the combined range of two
\* disjoint ranges that differ in one octet contains both and is the smallest
\* that does, whatever the octets, the bits and the prefixes are
\* (Network.go:47-71).
THEOREM ClusterIsSmallest == Spec => []ClusterIsSmallestCommon
<1>1. Init => ClusterInv
  BY ClusterInit
<1>2. ClusterInv /\ [Next]_vars => ClusterInv'
  BY DEF ClusterInv, Next, EvalArgs, vars
<1>3. ClusterInv => ClusterIsSmallestCommon
  <2> SUFFICES ASSUME ClusterInv, Disjoint,
                      Cardinality(Diverging(podRange, serviceRange)) = 1,
                      NEW r \in out
               PROVE  /\ Includes(r.cluster, podRange) /\ Includes(r.cluster, serviceRange)
                      /\ \A n \in r.cluster.len+1 .. Octets*Bits :
                            ~ /\ Includes([ip |-> podRange.ip, len |-> n], podRange)
                              /\ Includes([ip |-> podRange.ip, len |-> n], serviceRange)
    BY DEF ClusterIsSmallestCommon
  <2>1. podRange \in CIDR /\ serviceRange \in CIDR
        /\ r.cluster = ClusterRange(podRange, serviceRange)
    BY DEF ClusterInv
  <2>2. ~Includes(podRange, serviceRange) /\ ~Includes(serviceRange, podRange)
    BY DEF Disjoint
  <2>3. QED
    BY <2>1, <2>2, ClusterRangeIsSmallest
<1>4. QED
  BY <1>1, <1>2, <1>3, PTL DEF Spec
=============================================================================

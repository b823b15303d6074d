------------------------------ MODULE IPRanges ------------------------------
(***************************************************************************)
(* The addresses microkubed derives from -pod-range and -service-range and *)
(* from the interfaces of the host: CalculateIPRanges and FindBindAddress  *)
(* (internal/cmd/Network.go) and the reserved service addresses of         *)
(* evalArgs (internal/cmd/ArgHandler.go).                                  *)
(*                                                                         *)
(* An address is a function from octets to numbers; a range is the address *)
(* as typed with a prefix length, as in "10.233.42.1/24".  The code has    *)
(* Octets = 4 and Bits = 8; a range that is parsed is an IPv4 one.         *)
(***************************************************************************)
EXTENDS Integers, FiniteSetsExt, SequencesExt

CONSTANTS
    Octets, Bits,
    MaxInterfaces,  \* bound: interfaces of a host, and
    MaxAddresses    \* addresses of an interface

ASSUME WidthsOK ==
    /\ Octets \in Nat \ {0} /\ Bits \in Nat \ {0}
    /\ MaxInterfaces \in Nat /\ MaxAddresses \in Nat

VARIABLES
    podRange, serviceRange,  \* the two arguments
    host,                    \* the interfaces of the host
    fault,                   \* what evalArgs fails at, "none" included
    out,                     \* what has been computed: at most one Result
    fatal                    \* has the daemon given up?

vars == <<podRange, serviceRange, host, fault, out, fatal>>

\* An address of an interface is what FindBindAddress tells apart.  A string
\* that ParseCIDR refuses is as good as an IPv6 address, which has no To4.
Kinds     == {"loopback", "private", "public", "v6"}
Interface == [readable : BOOLEAN, addrs : BoundedSeq(Kinds, MaxAddresses)]
Hosts     == BoundedSeq(Interface, MaxInterfaces)

\* A directory that cannot be expanded, a range that cannot be parsed, the list
\* of the interfaces, a sudo tool that is no regular file.
Faults == {"directory", "range", "interfaces", "sudo"}

\* The powers of two.
Pow2[n \in Nat] == IF n = 0 THEN 1 ELSE 2 * Pow2[n - 1]

OctetNo == 1..Octets
Octet   == 0..Pow2[Bits]-1
Address == [OctetNo -> Octet]
Length  == 0..Octets*Bits
CIDR    == [ip : Address, len : Length]
Result  == [cluster : CIDR, listenService : Address, dns : Address,
            bind : Kinds]

-----------------------------------------------------------------------------
(* package net.                                                            *)

\* The bits of octet i that a prefix of length len covers.
Covered(len, i) ==
    CASE len <= Bits * (i - 1) -> 0
      [] len >= Bits * i -> Bits
      [] OTHER -> len - Bits * (i - 1)

\* IP.Mask(CIDRMask(len, 32)): the network address.
Network(ip, len) ==
    [i \in OctetNo |-> ip[i] - (ip[i] % Pow2[Bits - Covered(len, i)])]

\* IPNet.Contains
InRange(range, ip) == Network(ip, range.len) = Network(range.ip, range.len)

\* Every address of range b is one of range a.
Includes(a, b) == a.len <= b.len /\ InRange(a, b.ip)

-----------------------------------------------------------------------------
(* CalculateIPRanges.                                                      *)

\* The value of the j-th bit of an octet, counted from the left.
Bit(octet, j) == (octet \div Pow2[Bits - j]) % 2

\* The octets in which the two networks differ.
Diverging(pod, service) ==
    LET podNet == Network(pod.ip, pod.len)
        serviceNet == Network(service.ip, service.len)
    IN {i \in OctetNo : podNet[i] # serviceNet[i]}

\* Mutant: the inner loop counts the diverging bit as well.
BaseOffsetLong(pod, service) ==
    LET div == Diverging(pod, service)
        i == Max(div)
        podNet == Network(pod.ip, pod.len)
        serviceNet == Network(service.ip, service.len)
    IN IF div = {} THEN 0
       ELSE (i - 1) * Bits
                + Min({j \in 1..Bits : Bit(podNet[i], j) # Bit(serviceNet[i], j)})

\* baseOffset after the loop: the loop goes on after the first octet that
\* diverges, so that the last one decides; 0 when none does.
BaseOffset(pod, service) ==
    LET div == Diverging(pod, service)
        i == Max(div)
        podNet == Network(pod.ip, pod.len)
        serviceNet == Network(service.ip, service.len)
    IN IF div = {} THEN 0
       ELSE (i - 1) * Bits
            + Min({j \in 1..Bits : Bit(podNet[i], j) # Bit(serviceNet[i], j)})
            - 1

\* serviceBelowPod, which the last diverging octet decides too.
ServiceBelowPod(pod, service) ==
    LET div == Diverging(pod, service)
        i == Max(div)
    IN /\ div # {}
       /\ Network(service.ip, service.len)[i] < Network(pod.ip, pod.len)[i]

\* The combined range: the lower address, as typed, with baseOffset bits.
ClusterRange(pod, service) ==
    [ip  |-> IF ServiceBelowPod(pod, service) THEN service.ip ELSE pod.ip,
     len |-> BaseOffset(pod, service)]

-----------------------------------------------------------------------------
(* FindBindAddress.                                                        *)

IsCandidate(kind) == kind \notin {"loopback", "v6"}

\* The places of a host: the j-th address of its i-th interface, for each of
\* them; they are visited interface by interface.
Places(h) == UNION {{<<i, j>> : j \in DOMAIN h[i].addrs} : i \in DOMAIN h}

KindAt(h, p) == h[p[1]].addrs[p[2]]

Before(p, q) ==
    \/ p[1] < q[1]
    \/ p[1] = q[1] /\ p[2] < q[2]

\* Mutant: an interface that cannot be read ends the search.
CandidatesUntilError(h) ==
    {p \in Places(h) : /\ \A i \in 1..p[1] : h[i].readable
                      /\ IsCandidate(KindAt(h, p))}

\* The places of the addresses of all interfaces that can be read.
Candidates(h) ==
    {p \in Places(h) : h[p[1]].readable /\ IsCandidate(KindAt(h, p))}

FirstOf(places) == CHOOSE p \in places : \A q \in places \ {p} : Before(p, q)

\* findBindAddress: the first private one, or else the first one.
FindBindAddress(h) ==
    LET candidates == Candidates(h)
        private == {p \in candidates : KindAt(h, p) = "private"}
    IN KindAt(h, FirstOf(IF private = {} THEN candidates ELSE private))

-----------------------------------------------------------------------------
(* evalArgs.                                                               *)

\* Mutant: the carry of the last octet goes to the one before.
DnsAddressCarry(service) ==
    LET last == (service.ip[Octets] + 1) % Pow2[Bits]
        ip == [service.ip EXCEPT ![Octets] = last]
    IN IF last = 0 /\ Octets > 1
         THEN [ip EXCEPT ![Octets - 1] = (@ + 1) % Pow2[Bits]]
         ELSE ip

\* dnsIP[15]++ on a copy of the address as typed: one byte, which wraps.
DnsAddress(service) ==
    [service.ip EXCEPT ![Octets] = (@ + 1) % Pow2[Bits]]

\* The addresses of the host and the ranges have no part in common, so that
\* one pair of ranges will do for all hosts, and one host for all pairs; and
\* whatever they are, a fault has the same end.
Init ==
    /\ \/ /\ podRange \in CIDR /\ serviceRange \in CIDR
          /\ host = <<[readable |-> TRUE, addrs |-> <<"private">>]>>
          /\ fault = "none"
       \/ /\ podRange = [ip |-> [i \in OctetNo |-> 0], len |-> 0]
          /\ serviceRange = podRange
          /\ \/ host \in Hosts /\ fault = "none"
             \/ host = <<>> /\ fault \in Faults
    /\ out = {} /\ fatal = FALSE

\* evalArgs: the daemon ends at a fault, and in FindBindAddress when there is no
\* address to bind to.
EvalArgs ==
    /\ out = {} /\ ~fatal
    /\ IF fault # "none" \/ Candidates(host) = {}
         THEN fatal' = TRUE /\ UNCHANGED out
         ELSE /\ out' = {[cluster       |-> ClusterRange(podRange, serviceRange),
                          listenService |-> serviceRange.ip,
                          dns           |-> DnsAddress(serviceRange),
                          bind          |-> FindBindAddress(host)]}
              /\ UNCHANGED fatal
    /\ UNCHANGED <<podRange, serviceRange, host, fault>>

Next == EvalArgs

Spec == Init /\ [][Next]_vars

-----------------------------------------------------------------------------
(* Properties.                                                             *)

TypeOK ==
    /\ podRange \in CIDR /\ serviceRange \in CIDR
    /\ host \in Hosts /\ fault \in Faults \cup {"none"} /\ fatal \in BOOLEAN
    /\ out \subseteq Result /\ Cardinality(out) <= 1

Disjoint == ~Includes(podRange, serviceRange) /\ ~Includes(serviceRange, podRange)

\* Two disjoint ranges that differ in one octet only are combined to the
\* smallest range that contains both (Network.go:47-71): no longer prefix of
\* the pod range would do.
ClusterIsSmallestCommon ==
    Disjoint /\ Cardinality(Diverging(podRange, serviceRange)) = 1 =>
    \A r \in out :
        /\ Includes(r.cluster, podRange) /\ Includes(r.cluster, serviceRange)
        /\ \A n \in r.cluster.len+1 .. Octets*Bits :
              ~ /\ Includes([ip |-> podRange.ip, len |-> n], podRange)
                /\ Includes([ip |-> podRange.ip, len |-> n], serviceRange)

\* The address of the DNS service lies in the service range whenever the
\* prefix leaves the last octet free, although the increment drops the carry
\* (ArgHandler.go:137-139), and is never the address of the API server.
DnsInServiceRange ==
    serviceRange.len <= (Octets - 1) * Bits =>
    \A r \in out : InRange(serviceRange, r.dns) /\ r.dns # r.listenService

\* Unless something else fails, the daemon gives up only when no interface that
\* can be read has an address of IPv4 that other hosts can reach, and it is never
\* bound to a public address while there is a private one, however the interfaces
\* are ordered and whichever of them fail (Network.go:83-134).
BindsPrivately ==
    LET has(kind) == \E i \in DOMAIN host :
                        host[i].readable /\ kind \in ToSet(host[i].addrs)
    IN /\ fatal /\ fault = "none" => ~has("private") /\ ~has("public")
       /\ \A r \in out : /\ has(r.bind) /\ IsCandidate(r.bind)
                         /\ has("private") => r.bind = "private"

=============================================================================

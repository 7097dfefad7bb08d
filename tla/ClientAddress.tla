--------------------------- MODULE ClientAddress ---------------------------
(***************************************************************************)
(* The address a login or refresh is recorded under (api/auth.rs:          *)
(* extract_client_ip, cidr_contains). An address is [family, bits], bits   *)
(* below 2^Width of its family.                                            *)
(***************************************************************************)
EXTENDS Integers

CONSTANTS
    Width,    \* the bits of an address, by family: 32 and 128
    MaxPrefix \* the largest number that parses as a prefix: 255

Families == {"v4", "v6"}
ASSUME WidthAssumption == Width \in [Families -> Nat] /\ MaxPrefix \in Nat

Addresses == UNION {[family : {f}, bits : 0..(2^Width[f] - 1)] : f \in Families}

(* No prefix: a single host; garbage does not parse.                       *)
Host == -1
Garbage == -2
Cidrs == [net : Addresses, prefix : {Host, Garbage} \cup 0..MaxPrefix]

Bit(x, i) == (x \div 2^i) % 2

(* Mutant: a shift by the full width, which wraps to no shift.             *)
MaskWraps(w, prefix) == ((2^w - 1) * 2^((w - prefix) % w)) % 2^w
Mask(w, prefix) == IF prefix = 0 THEN 0 ELSE ((2^w - 1) * 2^(w - prefix)) % 2^w

CidrContains(cidr, addr) ==
    CASE cidr.prefix = Host -> cidr.net = addr
      [] cidr.prefix = Garbage -> FALSE
      [] OTHER ->
            LET w == Width[addr.family]
            IN  /\ cidr.net.family = addr.family
                /\ cidr.prefix <= w
                /\ \A i \in 0..(w - 1) : Bit(Mask(w, cidr.prefix), i) = 1 =>
                       Bit(cidr.net.bits, i) = Bit(addr.bits, i)

PeerInTrustedProxies(addr, cidrs) == \E c \in cidrs : CidrContains(c, addr)

(* forwarded and real are the two headers, Absent when missing or empty,   *)
(* and the peer is Absent without ConnectInfo.                             *)
Absent == [family |-> "none", bits |-> 0]
ExtractClientIp(peer, forwarded, real, cidrs) ==
    IF peer # Absent /\ ~PeerInTrustedProxies(peer, cidrs) THEN peer
    ELSE IF forwarded # Absent THEN forwarded
    ELSE IF real # Absent THEN real
    ELSE peer

-----------------------------------------------------------------------------
(* What a block is: the addresses that share its leading bits.             *)
InBlock(c, a) ==
    /\ c.net.family = a.family
    /\ CASE c.prefix = Host -> c.net.bits = a.bits
         [] c.prefix = Garbage -> FALSE
         [] OTHER -> LET w == Width[a.family]
                     IN  /\ c.prefix <= w
                         /\ c.net.bits \div 2^(w - c.prefix) = a.bits \div 2^(w - c.prefix)

(* Peers that choose the address they are recorded under though no trusted *)
(* block holds them, or do not though one does.                            *)
Misrecorded ==
    {p \in Addresses \X Cidrs :
        LET header == [family |-> "v4", bits |-> 2^Width["v4"]]
            trusted == InBlock(p[2], p[1])
        IN  \/ ExtractClientIp(p[1], header, Absent, {p[2]}) # (IF trusted THEN header ELSE p[1])
            \/ ExtractClientIp(p[1], Absent, header, {p[2]}) # (IF trusted THEN header ELSE p[1])
            \/ ExtractClientIp(p[1], Absent, Absent, {p[2]}) # p[1]}
=============================================================================

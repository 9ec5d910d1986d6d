---------------------------- MODULE NetmaskCodec ----------------------------
(***************************************************************************)
(* The IPv4 netmask <-> prefix-length conversions of transporthandler.cpp *)
(* (prefixToNetmask, netmaskToPrefix) together with the byte-order        *)
(* conversions that surround them on the Set/Get Subnet Mask paths        *)
(* (the 4 request bytes are copied into an in_addr whose s_addr is in     *)
(* network order; be32toh/htobe32 convert to and from host order).        *)
(*                                                                         *)
(* Integers keep their width: ~x, ~x + 1 and the left shift are taken   *)
(* modulo 2^Width, and the shift by Width that the code avoids is        *)
(* undefined behaviour, modelled as the outcomes a build can produce.     *)
(* The code is generic in the width; TLC's integers are 32-bit signed,   *)
(* so the run instantiates Width = 16 and examines every request.         *)
(***************************************************************************)
EXTENDS Integers, Sequences, Bitwise

CONSTANTS
    Width        \* bit width of in_addr.s_addr (32 in the code)

ASSUME Width \in {8, 16, 24}

NBytes == Width \div 8

VARIABLES
    wire,        \* the bytes of a Set Subnet Mask request
    prefix       \* a prefix length networkd may report for the IPv4 address

vars == <<wire, prefix>>

Modulus == 2^Width
AllOnes == Modulus - 1                      \* ~UINT32_C(0)

BitNot(x) == AllOnes - x                    \* ~x on a uint32_t
Wrap(x) == x % Modulus                      \* unsigned wrap-around

(* be32toh of an in_addr filled from the request bytes: byte 1 is the    *)
(* most significant.                                                      *)
RECURSIVE Be32ToH(_)
Be32ToH(bytes) ==
    IF bytes = <<>> THEN 0
    ELSE Be32ToH(SubSeq(bytes, 1, Len(bytes) - 1)) * 256 + bytes[Len(bytes)]

(* htobe32 followed by packing the in_addr: the inverse of Be32ToH.       *)
HToBe32(x) == [i \in 1..NBytes |-> (x \div 2^(8 * (NBytes - i))) % 256]

(* x << n on the unsigned word, high bits dropped.  A shift count equal  *)
(* to the width is undefined: x86 masks the count to 0 (result x), other *)
(* targets give 0.                                                        *)
ShiftLeft(x, n) ==
    IF n < Width THEN {(x % 2^(Width - n)) * 2^n} ELSE {x, 0}

RECURSIVE CountTrailingZeros(_)
CountTrailingZeros(x) ==                    \* __builtin_ctz, x # 0
    IF x % 2 = 1 THEN 0 ELSE 1 + CountTrailingZeros(x \div 2)

(* prefixToNetmask without the special case for prefix 0.                 *)
prefixToNetmaskShiftAll(p) ==
    IF p > Width THEN {} ELSE ShiftLeft(AllOnes, Width - p)

(* prefixToNetmask: the set of host-order netmasks a build can return;   *)
(* prefixes above 32 raise InternalFailure (the empty set).               *)
prefixToNetmask(p) ==
    IF p > Width THEN {}
    ELSE IF p = 0 THEN {0}
    ELSE ShiftLeft(AllOnes, Width - p)

(* The validity test applied to x instead of ~x.                           *)
NetmaskIsContiguousUninverted(x) == (x & Wrap(x + 1)) = 0

(* The validity test of netmaskToPrefix: ~x must be a run of low ones.    *)
NetmaskIsContiguous(x) == (BitNot(x) & Wrap(BitNot(x) + 1)) = 0

netmaskToPrefix(x) == IF x # 0 THEN Width - CountTrailingZeros(x) ELSE 0

-----------------------------------------------------------------------------
(* Reference definitions: the netmask of prefix p has exactly its p most *)
(* significant bits set.                                                  *)
RefNetmask(p) == AllOnes - (2^(Width - p) - 1)
RefIsNetmask(x) == \E p \in 0..Width : x = RefNetmask(p)

Init ==
    /\ wire = [i \in 1..NBytes |-> 0]
    /\ prefix = 0

(* The next request carries the next mask and networkd reports the next  *)
(* prefix.  The conversions are pure, and Modulus and Width + 1 are      *)
(* coprime, so this walk reaches every (request, prefix) pair.           *)
Next ==
    /\ wire' = HToBe32(Wrap(Be32ToH(wire) + 1))
    /\ prefix' = (prefix + 1) % (Width + 1)

Spec == Init /\ [][Next]_vars

-----------------------------------------------------------------------------
(* Set Subnet Mask decodes the request bytes: the mask is accepted        *)
(* exactly when it is a left-aligned run of ones, and an accepted mask    *)
(* yields the prefix whose reference netmask it is.                       *)
NetmaskDecodeCorrect ==
    LET x == Be32ToH(wire)
    IN /\ NetmaskIsContiguous(x) <=> RefIsNetmask(x)
       /\ NetmaskIsContiguous(x) => RefNetmask(netmaskToPrefix(x)) = x

(* Get Subnet Mask encodes the stored prefix: every netmask the build    *)
(* can produce is the reference netmask, and decoding the response bytes *)
(* gives the prefix back (the prefix 0 case must not shift by 32).        *)
PrefixRoundTrip ==
    \A m \in prefixToNetmask(prefix) :
        /\ m = RefNetmask(prefix)
        /\ netmaskToPrefix(Be32ToH(HToBe32(m))) = prefix
=============================================================================

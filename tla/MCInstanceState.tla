--------------------------- MODULE MCInstanceState ---------------------------
(* The interfaces of the run of InstanceState, with addresses on both sides  *)
(* of each boundary of a prefix, as bits and as text.                        *)
EXTENDS InstanceState

CONSTANTS lo, eth

In4(b, c) == [family |-> "inet", lead |-> b, second |-> c]
In6(g) == [family |-> "inet6", lead |-> g, second |-> 0]

Loopback == {In4(127, 0), [In6(0) EXCEPT !.second = 1]}

Ethernet ==
  {In4(12, 7), In4(126, 255), In4(128, 0), In4(169, 253), In4(169, 254), In4(169, 255)}
    \cup {In6(g) : g \in {0, 18, 294, 295, 296, 4719, 4720, 4735, 4736,
                          65151, 65152, 65153, 65215, 65216}}

GuestAddresses == [f \in Ifaces |-> IF f = lo THEN Loopback ELSE Ethernet]
=============================================================================

----------------------------- MODULE MCLanConfig -----------------------------
(***************************************************************************)
(* Model values for LanConfig.  Interface names are digit sequences: eth0 *)
(* is <<0>>, eth1 <<1>>, eth10 <<1, 0>>.  Addresses, prefixes and MACs    *)
(* are small integers standing for distinct values.                       *)
(***************************************************************************)
EXTENDS LanConfig

(* One LAN channel on eth0.                                               *)
OneChannel == {1}
OneChannelName == [ch \in {1} |-> <<0>>]
OneIface == {<<0>>}

(* Two LAN channels on eth0 and eth1: names that are not substrings of   *)
(* each other.                                                            *)
TwoChannels == {1, 2}
DistinctNames == [ch \in {1, 2} |-> IF ch = 1 THEN <<0>> ELSE <<1>>]
DistinctIfaces == {<<0>>, <<1>>}

(* Two LAN channels on eth1 and eth10: the first name is a substring of  *)
(* the second's paths.                                                    *)
OverlappingNames == [ch \in {1, 2} |-> IF ch = 1 THEN <<1>> ELSE <<1, 0>>]
OverlappingIfaces == {<<1>>, <<1, 0>>}

(* MAC addresses by their first two octets: all zero (invalid), a        *)
(* multicast one (invalid) and two unicast ones.                          *)
SmallMacs == {<<0, 0>>, <<1, 0>>, <<2, 0>>, <<4, 0>>}
FewMacs == {<<0, 0>>, <<1, 0>>, <<2, 0>>}
TwoMacs == {<<1, 0>>, <<2, 0>>}
====

--------------------------- MODULE MCUdpDiscover ----------------------------
(***************************************************************************)
(* UdpDiscover for TLC: a host with eth0 and one without.                  *)
(***************************************************************************)
EXTENDS UdpDiscover
=============================================================================

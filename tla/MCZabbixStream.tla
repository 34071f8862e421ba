--------------------------- MODULE MCZabbixStream ---------------------------
(***************************************************************************)
(* ZabbixStream for TLC: three packets of at most five bytes, so that a    *)
(* read may hold a part of a header, a packet or parts of two.             *)
(***************************************************************************)
EXTENDS ZabbixStream
=============================================================================

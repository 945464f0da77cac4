---------------------------- MODULE MCLinkStats ----------------------------
(* Small instances of LinkStats: three visit events of two visitors from  *)
(* two addresses, where v1 and v2 share a uv token (the same browser      *)
(* visiting twice) and v2 and v3 share an address.                        *)
EXTENDS LinkStats

MCUvOf == [m \in Visits |-> IF m = "v3" THEN "t2" ELSE "t1"]
MCIpOf == [m \in Visits |-> IF m = "v1" THEN "ip1" ELSE "ip2"]
=============================================================================

----------------------------- MODULE MCRouting ------------------------------
(***************************************************************************)
(* A small unit: two panels, three streams.  p1 and p2 share the master  *)
(* panel k1, p3 names a master panel that is not configured.  Two captures *)
(* feed p1, so that only the first follows its route; r3 feeds p3 and so   *)
(* can never start.  With CardMax = 1 a card list is full after one open;  *)
(* with PlaybackMax = 3 a panel can be full.                               *)
(***************************************************************************)
EXTENDS RouteLog, TLC

CONSTANTS k1, k2, p1, p2, p3, r1, r2, r3

MCMaster == (p1 :> k1) @@ (p2 :> k1) @@ (p3 :> NoCard)
MCPipe   == (r1 :> p1) @@ (r2 :> p1) @@ (r3 :> p3)

=============================================================================

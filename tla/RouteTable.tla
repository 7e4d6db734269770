----------------------------- MODULE RouteTable -----------------------------
(***************************************************************************)
(* What the routing requests of lst-audio promise to a client: a table of  *)
(* routes, each a panel (card) that plays a stream (playback).  A request  *)
(* touches one panel only, adds at most the route it names and removes     *)
(* only what it names; a request may be refused, and then changes nothing  *)
(* (la_ipc_set_pcm is a clear followed by an append that may be refused).  *)
(***************************************************************************)
CONSTANTS Card, Playback

VARIABLE routes

RouteInit == routes = {}

Of(c) == {r \in routes : r[1] = c}

Add(c, p) == routes' = routes \cup {<<c, p>>}

Drop(c, p) == routes' = routes \ {<<c, p>>}

Clear(c) == routes' = routes \ Of(c)

Replace(c, p) == routes' = (routes \ Of(c)) \cup {<<c, p>>}

RouteNext ==
    \E c \in Card :
        \/ Clear(c)
        \/ \E p \in Playback : Add(c, p) \/ Drop(c, p) \/ Replace(c, p)

RouteSpec == RouteInit /\ [][RouteNext]_routes

=============================================================================

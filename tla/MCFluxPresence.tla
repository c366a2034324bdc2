--------------------------- MODULE MCFluxPresence ---------------------------
(* One host that may reconnect, or two hosts with one stream each.           *)
EXTENDS FluxPresence

CONSTANTS c1, c2, h1, h2

Reconnects == (c1 :> h1) @@ (c2 :> h1)
Single == c1 :> h1
Apart == (c1 :> h1) @@ (c2 :> h2)
=============================================================================

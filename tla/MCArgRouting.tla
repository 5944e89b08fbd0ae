--------------------------- MODULE MCArgRouting ---------------------------
(* Every name of the routing tables, a name that only the arity table lists   *)
(* and one that no table lists; a failed call, an empty and a full result.    *)
EXTENDS ArgRouting

MCCallNames == UNION {Arity[n] : n \in DOMAIN Arity} \cup {Unlisted}
MCReturns == {-1, 0, 1}
==============================================================================

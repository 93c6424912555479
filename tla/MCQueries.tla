------------------------------ MODULE MCQueries ------------------------------
(* Instances of Queries for TLC. *)
EXTENDS Queries, TLC

CONSTANTS r1, r2, p

LoadedNone == {}

\* Two cached requests with a permit each; then the DVM and requests that hold
\* no key in competition for one permit.
Setups ==
    {[kind |-> r1 :> "trust" @@ r2 :> "batch", slots |-> 2],
     [kind |-> r1 :> "plain" @@ r2 :> "dvm", slots |-> 1],
     [kind |-> r1 :> "batch" @@ r2 :> "dvm", slots |-> 1]}
===============================================================================

------------------------------ MODULE MCSearch -------------------------------
(* Two families of graphs over seven nodes.  Dense: the target is reached      *)
(* through three nodes linked in any way, and may follow the source back.      *)
(* Layered: four levels, with routes that part, join and skip a level, so that *)
(* both sides of a search sum up counts before they meet.                      *)
EXTENDS Search

CONSTANTS f, a, b, c, d, e, t, stranger

Nodes == {f, a, b, c, d, e, t}
Middle == {a, b, c}

Dense ==
    {[n \in Nodes |-> CASE n = f -> first
                        [] n = t -> {x \in {f} : a \in first}
                        [] n \in Middle -> (inner[n] \cup {x \in {t} : n \in last}) \ {n}
                        [] OTHER -> {}]
      : first \in SUBSET Middle, last \in SUBSET Middle, inner \in [Middle -> SUBSET Middle]}

Layered ==
    {[n \in Nodes |-> CASE n = f -> {a, b} \cup skip
                        [] n = a -> fromA [] n = b -> fromB [] n = c -> fromC
                        [] n = d -> {x \in {t} : d \in last} \cup {x \in {c} : e \in last}
                        [] n = e -> {x \in {t} : e \in last}
                        [] OTHER -> {}]
      : skip \in SUBSET {c}, fromA \in SUBSET {c, d}, fromB \in SUBSET {c, d, e},
        fromC \in SUBSET {d, e, t}, last \in SUBSET {d, e}}

Graphs == Dense \cup Layered

Queries ==
    {[from |-> f, to |-> t, max_hops |-> n] : n \in 1..4}
        \cup {[from |-> f, to |-> a, max_hops |-> n] : n \in {0, 3}}
        \cup {[from |-> t, to |-> b, max_hops |-> 5],
              [from |-> a, to |-> a, max_hops |-> 1],
              [from |-> f, to |-> stranger, max_hops |-> 2]}
===============================================================================

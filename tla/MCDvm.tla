--------------------------------- MODULE MCDvm ---------------------------------
(* Instances of Dvm for TLC. *)
EXTENDS Dvm, TLC

CONSTANTS r1, r3

\* One plain request after the other competes with the DVM for permits.
Setups == {[kind |-> r1 :> "plain" @@ r3 :> "dvm", slots |-> 1]}

\* Two depths, and the opposite direction, which nobody asks for and whose ends
\* are in the graph from the start.
Asked == [from |-> "a", to |-> "b", max_hops |-> 4]
Near == [from |-> "a", to |-> "b", max_hops |-> 3]
Opposite == [from |-> "b", to |-> "a", max_hops |-> 3]
Keys == {Asked, Near, Opposite}
LoadedOpposite == {Opposite}

\* The default depth; depths that are no number, too big for a u8 and out of
\* range before a valid one; a string that is no pubkey.
Messages ==
    {<< <<"i", <<"a", "b">> >> >>,
     << <<"max_hops", None>>, <<"max_hops", 300>>, <<"max_hops", 9>>,
        <<"to", "b">>, <<"from", "a">>, <<"max_hops", 3>> >>,
     << <<"i", <<"a">> >>, <<"i", <<"x">> >> >>}
===============================================================================

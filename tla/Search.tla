-------------------------------- MODULE Search --------------------------------
(***************************************************************************)
(* The two searches side by side: a client that has its answer from        *)
(* /distance puts the same question to /path, while the graph stays as it  *)
(* is.  The searches share no state (compute_path allocates its own), only *)
(* the graph and what they promise about it.                               *)
(***************************************************************************)
EXTENDS Bfs

VARIABLES
    path_pc, path_query, path,
    fwd_parent, bwd_parent, path_fwd_current, path_bwd_current,
    path_fwd_dist, path_bwd_dist, meeting_node

path_vars == <<path_pc, path_query, path, fwd_parent, bwd_parent, path_fwd_current,
               path_bwd_current, path_fwd_dist, path_bwd_dist, meeting_node>>

Path == INSTANCE BfsPath WITH
    pc <- path_pc, query <- path_query,
    fwd_current <- path_fwd_current, bwd_current <- path_bwd_current,
    fwd_dist <- path_fwd_dist, bwd_dist <- path_bwd_dist

ASSUME NoNodeAssumption == Path!NoNode \notin Node      \* no id is None

DistanceStep == path_pc = "idle" /\ Next /\ UNCHANGED path_vars

AskBoth == pc = "done" /\ Path!Ask(query) /\ UNCHANGED vars

PathStep ==
    /\ Path!ExpandForward \/ Path!ExpandBackward \/ Path!Finish \/ Path!Return
    /\ UNCHANGED vars

SearchNext == DistanceStep \/ AskBoth \/ PathStep
SearchInit == Init /\ Path!Init
SearchSpec == SearchInit /\ [][SearchNext]_<<vars, path_vars>>

-------------------------------------------------------------------------------
(* Properties. *)

(* "/path returns an empty intermediate list for self/direct paths", and a    *)
(* shortest route's interior otherwise, null exactly when no route is within  *)
(* max_hops.                                                                  *)
PathIsShortest == Path!PathIsShortest

(* Two implementations of one search, with their own termination and their    *)
(* own meeting rule, never contradict each other: there is a path exactly     *)
(* when there is a distance, and it has that many hops.                       *)
EndpointsAgree ==
    path_pc = "done" =>
        /\ path = Path!NoPath <=> answer.hops = None
        /\ path # Path!NoPath /\ query.from # query.to => Len(path) + 1 = answer.hops
===============================================================================

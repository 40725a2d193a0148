---------------------------- MODULE MCExecution ----------------------------
(***************************************************************************)
(* Execution on small pinned graphs.  The ids of rows, messages, workers   *)
(* and relays are interchangeable; Symmetry is used by the safety runs.    *)
(***************************************************************************)
EXTENDS Execution, TLC

CONSTANTS start, api, cond, response, other

\* start -> api -> response
ChainNodes == {start, api, response}
ChainSuccessors ==
    start :> {api} @@ api :> {response} @@ response :> {}

\* start -> response, the shortest graph that may be published
PairNodes == {start, response}
PairSuccessors == start :> {response} @@ response :> {}

\* start -> cond, whose labels true and false lead to two responses
BranchNodes == {start, cond, response, other}
BranchSuccessors ==
    start :> {cond} @@ cond :> {response, other}
        @@ response :> {} @@ other :> {}

Symmetry ==
    Permutations(RowIds) \cup Permutations(MsgIds)
        \cup Permutations(Workers) \cup Permutations(Relays)
=============================================================================

------------------------ MODULE MCThreadPoolExecutor ------------------------
(***************************************************************************)
(* ThreadPoolExecutor for TLC: two tasks submit a third and a fourth one   *)
(* from their workers, and one of the two waits for its child.             *)
(***************************************************************************)
EXTENDS ThreadPoolExecutor

CONSTANTS forkJoin, forkOnly, plain, joined, forked

MCTasks == {forkJoin, forkOnly, plain, joined, forked}
MCRoots == {forkJoin, forkOnly, plain}
MCAwaiting == {forkJoin}
MCChild ==
    [t \in MCTasks |->
        IF t = forkJoin THEN joined ELSE IF t = forkOnly THEN forked ELSE NoTask]
=============================================================================

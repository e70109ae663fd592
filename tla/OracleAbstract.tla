---------------------------- MODULE OracleAbstract ----------------------------
(***************************************************************************)
(* What the ExecutionLayer promises about the two registries it mirrors    *)
(* (spec 4.1-4.3), with nothing of how: the oracle knows a set of nodes    *)
(* and a pubkey -> node map that are, at every moment, exactly the         *)
(* registered nodes and minipool owners after some prefix of the logs    *)
(* the chain has mined; it only learns (nothing known is forgotten); and   *)
(* once the chain stops it knows the head's state.  Smoothing-pool         *)
(* membership is left out: it is not monotonic, and replays of older logs *)
(* make the ExecutionLayer fall short of it (see                           *)
(* stale_replay_after_reconnect).                                          *)
(***************************************************************************)
EXTENDS Chain

VARIABLES
    nodes,  \* the registered nodes the oracle knows
    owner   \* pubkey -> node of the minipools the oracle knows

oracleVars == <<chain, nodes, owner>>

\* The oracle moves to the registries' state after the first j logs, never
\* forgetting.
LearnAt(j) ==
    LET L == SubSeq(LogsUpTo(HeadBlock), 1, j) IN
    /\ nodes' = RegisteredIn(L)
    /\ owner' = OwnerIn(L)
    /\ nodes \subseteq nodes'
    /\ DOMAIN owner \subseteq DOMAIN owner'
    /\ UNCHANGED chain

Learn == \E j \in 0..Len(LogsUpTo(HeadBlock)) : LearnAt(j)

AbstractInit ==
    /\ ChainInit
    /\ nodes = {}
    /\ owner = <<>>

AbstractNext ==
    \/ Learn
    \/ MineBlock /\ UNCHANGED <<nodes, owner>>

\* Catching up with the head is not postponed forever.
AbstractSpec ==
    AbstractInit /\ [][AbstractNext]_oracleVars /\ WF_oracleVars(LearnAt(Len(LogsUpTo(HeadBlock))))

=============================================================================

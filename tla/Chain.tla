-------------------------------- MODULE Chain --------------------------------
(***************************************************************************)
(* The execution chain as the rescue proxy's ExecutionLayer sees it: the   *)
(* logs of rocketNodeManager and rocketMinipoolManager that match its      *)
(* filter (NodeRegistered, NodeSmoothingPoolStateChanged, MinipoolCreated),*)
(* block by block.  A block carries up to MaxLogs matching logs in log-    *)
(* index order; a block with none still produces a header.  The chain is   *)
(* the environment of the model: it only grows, and what it may append     *)
(* follows the preconditions of the Rocket Pool contracts (a node          *)
(* registers once, only a registered node changes its smoothing-pool state *)
(* or creates a minipool, a validator pubkey belongs to one minipool),     *)
(* also between the transactions of one block.                             *)
(*                                                                         *)
(* The "truth" operators give the state of the two registries after a     *)
(* sequence of logs; at block k they are what a view call pinned at k      *)
(* (node.GetNodes, GetSmoothingPoolRegistrationState,                      *)
(* minipool.GetNodeMinipools) returns.                                     *)
(***************************************************************************)
EXTENDS Naturals, SequencesExt

CONSTANTS
    Nodes,          \* node addresses
    Pubkeys,        \* validator pubkeys of minipools
    MaxBlock,       \* bound on the chain's length
    MaxLogs,        \* bound on the matching logs of one block
    MaxChainLogs    \* bound on the matching logs of the whole chain

VARIABLE chain  \* chain[b] = the matching logs of block b, in order

-----------------------------------------------------------------------------
RegLog(n) == [kind |-> "NodeRegistered", node |-> n]
SPLog(n, v) == [kind |-> "NodeSmoothingPoolStateChanged", node |-> n, state |-> v]
MPLog(p, n) == [kind |-> "MinipoolCreated", node |-> n, pubkey |-> p]

Logs == {RegLog(n) : n \in Nodes}
          \cup {SPLog(n, v) : n \in Nodes, v \in BOOLEAN}
          \cup {MPLog(p, n) : p \in Pubkeys, n \in Nodes}

\* The current head, i.e. what HeaderByNumber(nil) returns.
HeadBlock == Len(chain)

\* The matching logs of blocks 1..k in chain order.
LogsUpTo(k) == FlattenSeq(SubSeq(chain, 1, k))

IndicesOf(kind, L) == {i \in DOMAIN L : L[i].kind = kind}

\* The registered nodes after the logs L.
RegisteredIn(L) == {L[i].node : i \in IndicesOf("NodeRegistered", L)}

\* A node's smoothing-pool state after the logs L (FALSE until it opts in).
SPIn(n, L) ==
    LET is == {i \in IndicesOf("NodeSmoothingPoolStateChanged", L) : L[i].node = n}
    IN  IF is = {} THEN FALSE ELSE L[Max(is)].state

\* pubkey -> owning node of every minipool created by the logs L.
OwnerIn(L) ==
    LET ms == IndicesOf("MinipoolCreated", L)
    IN  [p \in {L[i].pubkey : i \in ms} |-> L[CHOOSE i \in ms : L[i].pubkey = p].node]

\* node.GetNodes, GetSmoothingPoolRegistrationState and GetNodeMinipools
\* pinned at block k.
RegisteredAt(k) == RegisteredIn(LogsUpTo(k))
SPAt(n, k) == SPIn(n, LogsUpTo(k))
OwnerAt(k) == OwnerIn(LogsUpTo(k))

\* The logs a transaction may emit after the logs L, by the contracts'
\* preconditions.
NextLogs(L) ==
    {RegLog(n) : n \in Nodes \ RegisteredIn(L)}
    \cup {SPLog(n, ~SPIn(n, L)) : n \in RegisteredIn(L)}
    \cup {MPLog(p, n) : p \in Pubkeys \ DOMAIN OwnerIn(L), n \in RegisteredIn(L)}

\* The log sequences of at most m logs a block may carry after the logs L.
RECURSIVE NextBlocks(_, _)
NextBlocks(L, m) ==
    {<<>>} \cup IF m = 0 THEN {}
                ELSE UNION {{<<l>> \o r : r \in NextBlocks(Append(L, l), m - 1)} : l \in NextLogs(L)}

ChainInit == chain = <<>>

\* A new block is mined.
MineBlock ==
    /\ HeadBlock < MaxBlock
    /\ LET L == LogsUpTo(HeadBlock) IN
       \E blk \in NextBlocks(L, Min({MaxLogs, MaxChainLogs - Len(L)})) : chain' = Append(chain, blk)

=============================================================================

---------------------------- MODULE ExecutionLayer ----------------------------
(***************************************************************************)
(* The ExecutionLayer of src/executionlayer/execution-layer.go: the cold   *)
(* snapshot of Init, the subscriptions and back-fill of ecEventsConnect,   *)
(* the event goroutine's select loop, handleEvent and its two handlers,    *)
(* handleSubscriptionError's reconnect loop and the read path              *)
(* ValidatorFeeRecipient.                                                  *)
(*                                                                         *)
(* One writer runs Init and then the event goroutine, so its steps are one *)
(* control variable pc.  The two ethclient subscriptions run beside it:    *)
(* each forwards what the chain mines into its channel (events one log at *)
(* a time, newHeaders one header per block) from the block after the one   *)
(* at which it was made, and may fail, which puts an error on its error    *)
(* channel and delivers nothing more.                                      *)
(***************************************************************************)
EXTENDS Chain, SequencesExt

CONSTANTS
    ReconnectRetries, \* reconnectRetries (10 in the code)
    SubErrorBudget,   \* bound on the number of subscription failures
    RpcFails          \* whether a request/response RPC may fail

VARIABLES
    pc,             \* where the writer (Init, then the event goroutine) is
    nodeIndex,      \* e.nodeIndex: node -> [inSmoothingPool, feeDistributor]
    minipoolIndex,  \* e.minipoolIndex: pubkey -> node
    highestBlock,   \* e.highestBlock
    events,         \* e.events: the buffered log channel
    newHeaders,     \* e.newHeaders: the buffered header channel
    logSub,         \* the current log subscription
    headSub,        \* the current new-head subscription
    attempt,        \* i of handleSubscriptionError's retry loop
    subErrors,      \* subscription failures so far (bounded by SubErrorBudget)
    seen            \* auxiliary: seen[n] is the chain position of the latest
                    \* log about node n the writer has applied (not in the code)

vars == <<chain, pc, nodeIndex, minipoolIndex, highestBlock, events,
          newHeaders, logSub, headSub, attempt, subErrors, seen>>

-----------------------------------------------------------------------------
(* Addresses the read path can return.                                     *)
NilAddress == <<>>
ZeroAddress == <<"0x0">>
SmoothingPoolAddress == <<"rocketSmoothingPool">>
\* node.GetDistributorAddress: deterministic per node
Distributor(n) == <<"distributor", n>>

\* A subscription: "live" forwards from log idx of block next on, "failed"
\* has an error waiting on its error channel, "dead" has reported its
\* error, "closed" was unsubscribed.
SubStates == {"none", "live", "failed", "dead", "closed"}
Subscribe == [st |-> "live", next |-> HeadBlock + 1, idx |-> 1]
SubRec == [st : SubStates, next : 1..MaxBlock + 1, idx : 1..MaxLogs + 1]

NodeInfo == [inSmoothingPool : BOOLEAN, feeDistributor : {ZeroAddress} \cup {Distributor(n) : n \in Nodes}]

\* A delivered log carries its block number and its index in the block.
Event == [log : Logs, block : 1..MaxBlock, index : 1..MaxLogs]

\* Auxiliary: the position of log i of block b in the chain's logs.
Pos(b, i) == Len(LogsUpTo(b - 1)) + i

PCs == {"init", "subLogs", "subHeads", "backfill", "loop",
        "reconnect", "reSubHeads", "reBackfill",
        "initFailed", "noLoop", "panicked"}

TypeOK ==
    /\ chain \in Seq(Seq(Logs)) /\ Len(chain) <= MaxBlock
    /\ pc \in PCs
    /\ DOMAIN nodeIndex \subseteq Nodes
    /\ \A n \in DOMAIN nodeIndex : nodeIndex[n] \in NodeInfo
    /\ DOMAIN minipoolIndex \subseteq Pubkeys
    /\ \A p \in DOMAIN minipoolIndex : minipoolIndex[p] \in Nodes
    /\ highestBlock \in 0..MaxBlock
    /\ events \in Seq(Event)
    /\ newHeaders \in Seq(1..MaxBlock)
    /\ logSub \in SubRec
    /\ headSub \in SubRec
    /\ attempt \in 0..ReconnectRetries
    /\ subErrors \in 0..SubErrorBudget
    /\ seen \in [Nodes -> 0..MaxBlock * MaxLogs]

-----------------------------------------------------------------------------
(***************************************************************************)
(* The event handlers, as operators on s = [nodeIndex, minipoolIndex].     *)
(* The filter query only admits the three topics from the two contracts,  *)
(* so the "unknown contract" and "unknown topic" branches never run.       *)
(***************************************************************************)

\* Mutant: the registration branch forgets its Store.
HandleNodeEventNoStore(ni, log) ==
    IF log.kind = "NodeRegistered" THEN ni
    ELSE IF log.node \in DOMAIN ni
         THEN [ni EXCEPT ![log.node].inSmoothingPool = log.state]
         ELSE ni

\* Mutant: a state change only ever sets the flag, never clears it.
HandleNodeEventNoClear(ni, log) ==
    IF log.kind = "NodeRegistered"
    THEN (log.node :> [inSmoothingPool |-> FALSE, feeDistributor |-> ZeroAddress]) @@ ni
    ELSE IF log.node \in DOMAIN ni /\ log.state
         THEN [ni EXCEPT ![log.node].inSmoothingPool = TRUE]
         ELSE ni

\* handleNodeEvent.  A registration stores a fresh nodeInfo{} (replacing any
\* entry).  A state change updates the stored entry; for a node not in the
\* index the code fills a new nodeInfo that it never stores (the comment at
\* l.148 says it adds it).
HandleNodeEvent(ni, log) ==
    CASE log.kind = "NodeRegistered" ->
            (log.node :> [inSmoothingPool |-> FALSE, feeDistributor |-> ZeroAddress]) @@ ni
      [] log.kind = "NodeSmoothingPoolStateChanged" ->
            IF log.node \in DOMAIN ni
            THEN [ni EXCEPT ![log.node].inSmoothingPool = log.state]
            ELSE ni

\* Mutant: the minipool handler forgets its Store.
HandleMinipoolEventNoStore(mi, log, detailsOk) == mi

\* handleMinipoolEvent: detailsOk is whether GetMinipoolDetails succeeded;
\* on failure the event is dropped.
HandleMinipoolEvent(mi, log, detailsOk) ==
    IF detailsOk THEN (log.pubkey :> log.node) @@ mi ELSE mi

\* handleEvent on s = [nodeIndex, minipoolIndex, highestBlock]: the log's
\* handler, then highestBlock := the log's block, whatever it was.
HandleEvent(s, ev, detailsOk) ==
    LET s1 == IF ev.log.kind = "MinipoolCreated"
              THEN [s EXCEPT !.minipoolIndex = HandleMinipoolEvent(@, ev.log, detailsOk)]
              ELSE [s EXCEPT !.nodeIndex = HandleNodeEvent(@, ev.log)]
    IN  [s1 EXCEPT !.highestBlock = ev.block]

\* The writer's part of the state, as handleEvent sees it.
Indices == [nodeIndex |-> nodeIndex, minipoolIndex |-> minipoolIndex, highestBlock |-> highestBlock]

\* FilterLogs over the inclusive block range [start, stop], in chain order.
FilterLogs(start, stop) ==
    FlattenSeq([j \in 1..(stop - start + 1) |->
        LET b == start + j - 1 IN
        [i \in DOMAIN chain[b] |-> [log |-> chain[b][i], block |-> b, index |-> i]]])

\* The outcomes of GetMinipoolDetails for the minipool logs among evs.
DetailsFailures(evs) ==
    IF RpcFails THEN SUBSET {ev \in Range(evs) : ev.log.kind = "MinipoolCreated"}
    ELSE {{}}

\* backfillEvents: FilterLogs over [highestBlock+1, head], every log through
\* handleEvent, then highestBlock := head.  HeaderByNumber or FilterLogs may
\* fail, in which case pc goes to onErr and nothing changes.
\* Auxiliary: seen[n] after the writer applies the logs evs.
SeenAfter(n, evs) ==
    Max({seen[n]} \cup {Pos(ev.block, ev.index) :
                          ev \in {e \in Range(evs) : e.log.kind /= "MinipoolCreated" /\ e.log.node = n}})

\* Mutant: the back-fill starts one block too late.
BackfillStartSkip == highestBlock + 2

BackfillStart == highestBlock + 1

Backfill(onOk, onErr) ==
    LET start == BackfillStart
        stop == HeadBlock
    IN
    \/ /\ stop < start
       /\ pc' = onOk
       /\ UNCHANGED <<nodeIndex, minipoolIndex, highestBlock, seen>>
    \/ /\ start <= stop
       /\ LET missed == FilterLogs(start, stop) IN
          \E failed \in DetailsFailures(missed) :
            LET step(s, ev) == HandleEvent(s, ev, ev \notin failed)
                s1 == FoldLeft(step, Indices, missed)
            IN  /\ nodeIndex' = s1.nodeIndex
                /\ minipoolIndex' = s1.minipoolIndex
                /\ seen' = [n \in Nodes |-> SeenAfter(n, missed)]
       /\ highestBlock' = stop
       /\ pc' = onOk
    \/ /\ RpcFails
       /\ pc' = onErr
       /\ UNCHANGED <<nodeIndex, minipoolIndex, highestBlock, seen>>

-----------------------------------------------------------------------------
(***************************************************************************)
(* Init and ecEventsConnect                                                *)
(***************************************************************************)
Init ==
    /\ ChainInit
    /\ pc = "init"
    /\ nodeIndex = <<>>
    /\ minipoolIndex = <<>>
    /\ highestBlock = 0
    /\ events = <<>>
    /\ newHeaders = <<>>
    /\ logSub = [st |-> "none", next |-> 1, idx |-> 1]
    /\ headSub = [st |-> "none", next |-> 1, idx |-> 1]
    /\ attempt = 0
    /\ subErrors = 0
    /\ seen = [n \in Nodes |-> 0]

\* Init: every view call pinned at the head B; then ecEventsConnect sets
\* highestBlock to B.  Any RPC error makes Init return it.
Snapshot ==
    /\ pc = "init"
    /\ \/ /\ nodeIndex' = [n \in RegisteredAt(HeadBlock) |->
                              [inSmoothingPool |-> SPAt(n, HeadBlock),
                               feeDistributor |-> Distributor(n)]]
          /\ minipoolIndex' = OwnerAt(HeadBlock)
          /\ highestBlock' = HeadBlock
          /\ seen' = [n \in Nodes |-> Len(LogsUpTo(HeadBlock))]
          /\ pc' = "subLogs"
       \/ /\ RpcFails
          /\ pc' = "initFailed"
          /\ UNCHANGED <<nodeIndex, minipoolIndex, highestBlock, seen>>
    /\ UNCHANGED <<chain, events, newHeaders, logSub, headSub, attempt, subErrors>>

\* ecEventsConnect: SubscribeFilterLogs.  Init ignores the error it returns,
\* so a failure leaves the oracle initialised with no event goroutine.
SubscribeLogs ==
    /\ pc = "subLogs"
    /\ \/ /\ logSub' = Subscribe
          /\ pc' = "subHeads"
       \/ /\ RpcFails
          /\ pc' = "noLoop"
          /\ UNCHANGED logSub
    /\ UNCHANGED <<chain, nodeIndex, minipoolIndex, highestBlock, events, newHeaders, headSub, attempt, subErrors, seen>>

\* ecEventsConnect: SubscribeNewHead.
SubscribeHeads ==
    /\ pc = "subHeads"
    /\ \/ /\ headSub' = Subscribe
          /\ pc' = "backfill"
       \/ /\ RpcFails
          /\ pc' = "noLoop"
          /\ UNCHANGED headSub
    /\ UNCHANGED <<chain, nodeIndex, minipoolIndex, highestBlock, events, newHeaders, logSub, attempt, subErrors, seen>>

\* ecEventsConnect: backfillEvents, then the event goroutine starts.
InitBackfill ==
    /\ pc = "backfill"
    /\ Backfill("loop", "noLoop")
    /\ UNCHANGED <<chain, events, newHeaders, logSub, headSub, attempt, subErrors>>


-----------------------------------------------------------------------------
(***************************************************************************)
(* The event goroutine: one action per case of its select.                 *)
(***************************************************************************)
\* An error on the log subscription: unsubscribe the header subscription and
\* call handleSubscriptionError (shutdown is never set in this model).
LoopLogSubError ==
    /\ pc = "loop"
    /\ logSub.st = "failed"
    /\ logSub' = [logSub EXCEPT !.st = "dead"]
    /\ headSub' = [headSub EXCEPT !.st = "closed"]
    /\ attempt' = 0
    /\ pc' = "reconnect"
    /\ UNCHANGED <<chain, nodeIndex, minipoolIndex, highestBlock, events, newHeaders, subErrors, seen>>

\* An error on the header subscription: unsubscribe the log subscription.
LoopHeadSubError ==
    /\ pc = "loop"
    /\ headSub.st = "failed"
    /\ headSub' = [headSub EXCEPT !.st = "dead"]
    /\ logSub' = [logSub EXCEPT !.st = "closed"]
    /\ attempt' = 0
    /\ pc' = "reconnect"
    /\ UNCHANGED <<chain, nodeIndex, minipoolIndex, highestBlock, events, newHeaders, subErrors, seen>>

\* The outcomes of GetMinipoolDetails for a log.
DetailsOutcomes(log) ==
    IF RpcFails /\ log.kind = "MinipoolCreated" THEN BOOLEAN ELSE {TRUE}

\* A log from e.events goes through handleEvent.
LoopEvent ==
    /\ pc = "loop"
    /\ events /= <<>>
    /\ LET ev == Head(events) IN
       \E ok \in DetailsOutcomes(ev.log) :
         LET s1 == HandleEvent(Indices, ev, ok)
         IN  /\ nodeIndex' = s1.nodeIndex
             /\ minipoolIndex' = s1.minipoolIndex
             /\ highestBlock' = s1.highestBlock
             /\ seen' = [n \in Nodes |-> IF ev.log.kind /= "MinipoolCreated" /\ ev.log.node = n
                                          THEN Max({seen[n], Pos(ev.block, ev.index)}) ELSE seen[n]]
    /\ events' = Tail(events)
    /\ UNCHANGED <<chain, pc, newHeaders, logSub, headSub, attempt, subErrors>>

\* Mutant: the header case stores the number after the header's.
AdvanceOffByOne(h, n) == IF h >= n THEN h ELSE n + 1

\* highestBlock after header n: kept if it is not below n, else n.
Advance(h, n) == IF h >= n THEN h ELSE n

\* A header from e.newHeaders advances highestBlock unless it would rewind it.
LoopHeader ==
    /\ pc = "loop"
    /\ newHeaders /= <<>>
    /\ highestBlock' = Advance(highestBlock, Head(newHeaders))
    /\ newHeaders' = Tail(newHeaders)
    /\ UNCHANGED <<chain, pc, nodeIndex, minipoolIndex, events, logSub, headSub, attempt, subErrors, seen>>

-----------------------------------------------------------------------------
(***************************************************************************)
(* handleSubscriptionError's retry loop                                    *)
(***************************************************************************)
\* for i := 0; i < reconnectRetries; i++: another attempt follows attempt i.
AttemptsLeft(i) == i + 1 < ReconnectRetries

\* Attempt i: SubscribeFilterLogs.  A failure sleeps and tries again; after
\* reconnectRetries failures the loop ends in logger.Panic.
ReconnectLogs ==
    /\ pc = "reconnect"
    /\ \/ /\ logSub' = Subscribe
          /\ pc' = "reSubHeads"
          /\ UNCHANGED attempt
       \/ /\ RpcFails
          /\ attempt' = attempt + 1
          /\ pc' = IF AttemptsLeft(attempt) THEN "reconnect" ELSE "panicked"
          /\ UNCHANGED logSub
    /\ UNCHANGED <<chain, nodeIndex, minipoolIndex, highestBlock, events, newHeaders, headSub, subErrors, seen>>

\* SubscribeNewHead, without retries: a failure breaks out of the loop to
\* logger.Panic.
ReconnectHeads ==
    /\ pc = "reSubHeads"
    /\ \/ /\ headSub' = Subscribe
          /\ pc' = "reBackfill"
       \/ /\ RpcFails
          /\ pc' = "panicked"
          /\ UNCHANGED headSub
    /\ UNCHANGED <<chain, nodeIndex, minipoolIndex, highestBlock, events, newHeaders, logSub, attempt, subErrors, seen>>

\* Mutant: no return after the back-fill, so the loop reconnects again.
ReconnectBackfillNoReturn ==
    /\ pc = "reBackfill"
    /\ Backfill("reconnect", "panicked")
    /\ UNCHANGED <<chain, events, newHeaders, logSub, headSub, attempt, subErrors>>

\* backfillEvents; a failure is logger.Panic.  Success returns to the loop
\* with the new subscriptions.
ReconnectBackfill ==
    /\ pc = "reBackfill"
    /\ Backfill("loop", "panicked")
    /\ UNCHANGED <<chain, events, newHeaders, logSub, headSub, attempt, subErrors>>

-----------------------------------------------------------------------------
(***************************************************************************)
(* The environment: the chain and the two subscriptions.  A subscription   *)
(* belongs to the process, so nothing is forwarded once it has exited.     *)
(***************************************************************************)
Running == pc \notin {"initFailed", "panicked"}

\* The log subscription forwards the next matching log of a mined block,
\* one notification per log, or moves on once the block has no more.
DeliverLog ==
    /\ Running
    /\ logSub.st = "live"
    /\ logSub.next <= HeadBlock
    /\ LET b == logSub.next
           i == logSub.idx
       IN  \/ /\ i <= Len(chain[b])
              /\ events' = Append(events, [log |-> chain[b][i], block |-> b, index |-> i])
              /\ logSub' = IF i = Len(chain[b]) THEN [logSub EXCEPT !.next = b + 1, !.idx = 1]
                                                ELSE [logSub EXCEPT !.idx = i + 1]
           \/ /\ chain[b] = <<>>
              /\ logSub' = [logSub EXCEPT !.next = b + 1]
              /\ UNCHANGED events
    /\ UNCHANGED <<chain, pc, nodeIndex, minipoolIndex, highestBlock, newHeaders, headSub, attempt, subErrors, seen>>

\* The header subscription forwards the header of its next block.
DeliverHeader ==
    /\ Running
    /\ headSub.st = "live"
    /\ headSub.next <= HeadBlock
    /\ newHeaders' = Append(newHeaders, headSub.next)
    /\ headSub' = [headSub EXCEPT !.next = @ + 1]
    /\ UNCHANGED <<chain, pc, nodeIndex, minipoolIndex, highestBlock, events, logSub, attempt, subErrors, seen>>

\* A live subscription fails: what it has not forwarded is lost.
LogSubFails ==
    /\ Running
    /\ subErrors < SubErrorBudget
    /\ logSub.st = "live"
    /\ logSub' = [logSub EXCEPT !.st = "failed"]
    /\ subErrors' = subErrors + 1
    /\ UNCHANGED <<chain, pc, nodeIndex, minipoolIndex, highestBlock, events, newHeaders, headSub, attempt, seen>>

HeadSubFails ==
    /\ Running
    /\ subErrors < SubErrorBudget
    /\ headSub.st = "live"
    /\ headSub' = [headSub EXCEPT !.st = "failed"]
    /\ subErrors' = subErrors + 1
    /\ UNCHANGED <<chain, pc, nodeIndex, minipoolIndex, highestBlock, events, newHeaders, logSub, attempt, seen>>

Mine ==
    /\ MineBlock
    /\ UNCHANGED <<pc, nodeIndex, minipoolIndex, highestBlock, events, newHeaders, logSub, headSub, attempt, subErrors, seen>>

-----------------------------------------------------------------------------
Writer ==
    \/ Snapshot \/ SubscribeLogs \/ SubscribeHeads \/ InitBackfill
    \/ LoopLogSubError \/ LoopHeadSubError \/ LoopEvent \/ LoopHeader
    \/ ReconnectLogs \/ ReconnectHeads \/ ReconnectBackfill

Next ==
    \/ Writer
    \/ DeliverLog \/ DeliverHeader \/ LogSubFails \/ HeadSubFails
    \/ Mine

\* The writer goroutine is scheduled whenever it can run, and a live
\* subscription keeps forwarding what the node has mined.
Fairness ==
    /\ WF_vars(Writer)
    /\ WF_vars(DeliverLog)
    /\ WF_vars(DeliverHeader)

Spec == Init /\ [][Next]_vars /\ Fairness


-----------------------------------------------------------------------------
(***************************************************************************)
(* The read path                                                           *)
(***************************************************************************)
NoNode == "none"

\* ForEachNode: the addresses the closure is called with (in sync.Map.Range's
\* unspecified order) when it never stops the iteration.
ForEachNode == DOMAIN nodeIndex

\* ValidatorFeeRecipient(pubkey, queryNodeAddr): q = NoNode is a nil query
\* address.  Returns the fee recipient (NilAddress for nil) and the
\* "owned by another node" flag.
ValidatorFeeRecipient(p, q) ==
    IF p \notin DOMAIN minipoolIndex
    THEN [addr |-> NilAddress, mismatch |-> FALSE]
    ELSE LET n == minipoolIndex[p] IN
         IF q /= NoNode /\ q /= n THEN [addr |-> NilAddress, mismatch |-> TRUE]
         ELSE IF n \notin DOMAIN nodeIndex THEN [addr |-> NilAddress, mismatch |-> FALSE]
         ELSE IF nodeIndex[n].inSmoothingPool
              THEN [addr |-> SmoothingPoolAddress, mismatch |-> FALSE]
              ELSE [addr |-> nodeIndex[n].feeDistributor, mismatch |-> FALSE]

-----------------------------------------------------------------------------
(***************************************************************************)
(* Properties                                                              *)
(***************************************************************************)

\* The two indices hold the registries' state at block k: the registered
\* nodes with their smoothing-pool state, and every minipool's owner.
IndexIsChainAt(k) ==
    /\ DOMAIN nodeIndex = RegisteredAt(k)
    /\ \A n \in DOMAIN nodeIndex : nodeIndex[n].inSmoothingPool = SPAt(n, k)
    /\ minipoolIndex = OwnerAt(k)

\* The event goroutine has drained everything its live log subscription
\* has forwarded, and the subscription has forwarded every mined block.
Quiescent ==
    /\ pc = "loop"
    /\ logSub.st = "live"
    /\ logSub.next = HeadBlock + 1
    /\ events = <<>>

\* Snapshot, back-fill and the live stream together (including the logs
\* that both the back-fill of ecEventsConnect and the already running
\* subscription deliver) leave the indices equal to the chain's state
\* whenever the event goroutine has caught up with the chain.
IndexMatchesChain == Quiescent => IndexIsChainAt(HeadBlock)

\* Every minipool's node is one ForEachNode reports, so ValidatorFeeRecipient
\* never takes its "not in the node index" error path.
NoOrphanMinipool ==
    \A p \in DOMAIN minipoolIndex : minipoolIndex[p] \in ForEachNode

\* Once the chain stops growing, the indices converge on its state: the
\* event goroutine and the subscriptions never leave a mined log unapplied.
EventuallyConsistent == <>[]IndexIsChainAt(HeadBlock)

\* handleSubscriptionError always ends: it returns to the select loop with
\* new subscriptions or panics; it never retries forever.
ReconnectTerminates == (pc = "reconnect") ~> (pc \in {"loop", "panicked"})

\* spec 8.2: a node's smoothing-pool state is the value of the latest log
\* about it that the writer has applied, never an older one.  Replaying a
\* log that is older than one already applied breaks it.
NoStaleSmoothingPoolState ==
    \A n \in DOMAIN nodeIndex :
        nodeIndex[n].inSmoothingPool = SPIn(n, SubSeq(LogsUpTo(HeadBlock), 1, seen[n]))

\* The same, once the event goroutine has caught up with the chain.
CaughtUpNotStale == Quiescent => NoStaleSmoothingPoolState

\* spec 4.2: highestBlock is "never decreased", by events or by headers.
HighestBlockMonotonic == [][highestBlock' >= highestBlock]_highestBlock

\* spec 4.2 / scenario 4: a known minipool's fee recipient is the smoothing
\* pool or its node's distributor, never the zero address a bare
\* NodeRegistered handler leaves in feeDistributor.
FeeRecipientNeverZero ==
    \A p \in DOMAIN minipoolIndex :
        ValidatorFeeRecipient(p, NoNode).addr /= ZeroAddress

\* spec 4.4: when the header re-subscription fails after the log
\* re-subscription succeeded, the attempt counts as failed and is retried
\* while attempts remain; it does not end in a panic.
HeadResubscribeRetried ==
    [][pc = "reSubHeads" /\ AttemptsLeft(attempt) => pc' /= "panicked"]_pc

\* Refinement: with the indices' domains as the known nodes and the
\* minipool index as the owner map, the ExecutionLayer implements
\* OracleAbstract: every Store lands the indices on the registries' state
\* of a mined block, replays and overlapping back-fills included, none
\* forgets, and the head's state is reached.
Oracle == INSTANCE OracleAbstract WITH nodes <- DOMAIN nodeIndex, owner <- minipoolIndex

ImplementsOracle == Oracle!AbstractSpec

=============================================================================

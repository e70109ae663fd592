------------------------------ MODULE Lifecycle ------------------------------
(***************************************************************************)
(* The life of the event goroutine of src/executionlayer/execution-layer.go *)
(* against Deinit: ecEventsConnect's subscriptions and go statement, the   *)
(* WaitGroup, the select loop with its closed-channel cases, the shutdown  *)
(* flag read by handleSubscriptionError, setECShutdownCb, and Deinit.      *)
(*                                                                         *)
(* The data is abstracted away (ExecutionLayer models it): every block     *)
(* carries one matching log, a channel is the number of values buffered in *)
(* it, and handleEvent and backfillEvents are only their success or        *)
(* failure.  What is kept is every step that creates, unsubscribes or      *)
(* swaps a subscription, closes a channel or touches the WaitGroup.        *)
(*                                                                         *)
(* A subscription is an entry of subs, made by SubscribeFilterLogs or      *)
(* SubscribeNewHead.  Per go-ethereum's rpc.ClientSubscription, Err()      *)
(* yields one error when it fails and is closed (always ready, yielding    *)
(* nil) once Unsubscribe is called; Unsubscribe stops the forwarding       *)
(* before it returns.  A forwarding goroutine that sends on a closed       *)
(* channel panics, which ends the process.                                 *)
(***************************************************************************)
EXTENDS Naturals, Sequences

CONSTANTS
    MaxBlock,         \* bound on the number of blocks mined
    ReconnectRetries, \* reconnectRetries (10 in the code)
    SubErrorBudget,   \* bound on the number of subscription failures
    RpcFails          \* whether a request/response RPC may fail

VARIABLES
    head,          \* the chain's head: blocks 1..head are mined
    subs,          \* subs[i]: subscription i, [kind, st, next]
    gpc,           \* where ecEventsConnect and then the goroutine are
    logSub,        \* *logSubscription of the goroutine (an index of subs)
    headSub,       \* *newHeadSubscription of the goroutine
    newLog,        \* s of handleSubscriptionError
    newHead,       \* h of handleSubscriptionError
    cb,            \* e.ethclientShutdownCb: the subscriptions it unsubscribes
    evBuf,         \* logs buffered in e.events
    hdBuf,         \* headers buffered in e.newHeaders
    evClosed,      \* close(e.events) has run
    hdClosed,      \* close(e.newHeaders) has run
    noMoreEvents,  \* the goroutine's noMoreEvents
    noMoreHeaders, \* the goroutine's noMoreHeaders
    wg,            \* the counter of e.wg
    shutdown,      \* e.shutdown
    dpc,           \* where Deinit is
    attempt,       \* i of handleSubscriptionError's retry loop
    subErrors,     \* subscription failures so far
    crashed        \* a forwarding goroutine sent on a closed channel

vars == <<head, subs, gpc, logSub, headSub, newLog, newHead, cb, evBuf, hdBuf,
          evClosed, hdClosed, noMoreEvents, noMoreHeaders, wg, shutdown, dpc,
          attempt, subErrors, crashed>>

\* Groups of variables for UNCHANGED.
envVars == <<head, subErrors, crashed>>
chanVars == <<evBuf, hdBuf, evClosed, hdClosed>>
loopVars == <<noMoreEvents, noMoreHeaders>>
reVars == <<newLog, newHead, attempt>>

-----------------------------------------------------------------------------
\* No callback is stored: setECShutdownCb has not run.
NilCb == {}

SubStates == {"live", "failed", "dead", "closed"}
NewSub(kind) == [kind |-> kind, st |-> "live", next |-> head + 1]

\* The bound on the number of subscriptions ever made: two at connect, two
\* per reconnect, one reconnect per subscription failure.
MaxSubs == 2 + 2 * SubErrorBudget

GPCs == {"subLogs", "subHeads", "backfill", "spawned", "loop", "reconnect",
         "reSubHeads", "reBackfill", "exited", "noLoop", "panicked"}
DPCs == {"notCalled", "unsub", "closeEvents", "closeHeaders", "wait", "returned"}

TypeOK ==
    /\ head \in 0..MaxBlock
    /\ subs \in Seq([kind : {"logs", "heads"}, st : SubStates, next : 1..MaxBlock + 1])
    /\ Len(subs) <= MaxSubs
    /\ gpc \in GPCs
    /\ {logSub, headSub, newLog, newHead} \subseteq 0..Len(subs)
    /\ cb \subseteq DOMAIN subs
    /\ evBuf \in Nat /\ hdBuf \in Nat
    /\ {evClosed, hdClosed, noMoreEvents, noMoreHeaders, shutdown, crashed} \subseteq BOOLEAN
    /\ wg \in 0..1
    /\ dpc \in DPCs
    /\ attempt \in 0..ReconnectRetries
    /\ subErrors \in 0..SubErrorBudget

\* The process has not died: no panic, of the reconnect loop or of a send on
\* a closed channel.
Running == gpc /= "panicked" /\ ~crashed

\* Init returns once ecEventsConnect has returned, whatever its error.
InitReturned == gpc \notin {"subLogs", "subHeads", "backfill"}

Init ==
    /\ head = 0
    /\ subs = <<>>
    /\ gpc = "subLogs"
    /\ logSub = 0 /\ headSub = 0 /\ newLog = 0 /\ newHead = 0
    /\ cb = NilCb
    /\ evBuf = 0 /\ hdBuf = 0
    /\ evClosed = FALSE /\ hdClosed = FALSE
    /\ noMoreEvents = FALSE /\ noMoreHeaders = FALSE
    /\ wg = 0
    /\ shutdown = FALSE
    /\ dpc = "notCalled"
    /\ attempt = 0 /\ subErrors = 0
    /\ crashed = FALSE

-----------------------------------------------------------------------------
(***************************************************************************)
(* ecEventsConnect.  Any error returns it to Init, which ignores it: the   *)
(* subscriptions made so far stay live and no callback is stored.          *)
(***************************************************************************)
ConnectLogs ==
    /\ gpc = "subLogs"
    /\ \/ /\ subs' = Append(subs, NewSub("logs"))
          /\ logSub' = Len(subs) + 1
          /\ gpc' = "subHeads"
       \/ /\ RpcFails
          /\ gpc' = "noLoop"
          /\ UNCHANGED <<subs, logSub>>
    /\ UNCHANGED <<headSub, cb, wg, shutdown, dpc, envVars, chanVars, loopVars, reVars>>

ConnectHeads ==
    /\ gpc = "subHeads"
    /\ \/ /\ subs' = Append(subs, NewSub("heads"))
          /\ headSub' = Len(subs) + 1
          /\ gpc' = "backfill"
       \/ /\ RpcFails
          /\ gpc' = "noLoop"
          /\ UNCHANGED <<subs, headSub>>
    /\ UNCHANGED <<logSub, cb, wg, shutdown, dpc, envVars, chanVars, loopVars, reVars>>

\* backfillEvents, then setECShutdownCb and the go statement.
ConnectBackfill ==
    /\ gpc = "backfill"
    /\ \/ /\ cb' = {logSub, headSub}
          /\ gpc' = "spawned"
       \/ /\ RpcFails
          /\ gpc' = "noLoop"
          /\ UNCHANGED cb
    /\ UNCHANGED <<subs, logSub, headSub, wg, shutdown, dpc, envVars, chanVars, loopVars, reVars>>

\* The goroutine's first statement: e.wg.Add(1).
GoroutineStart ==
    /\ gpc = "spawned"
    /\ wg' = wg + 1
    /\ gpc' = "loop"
    /\ UNCHANGED <<subs, logSub, headSub, cb, shutdown, dpc, envVars, chanVars, loopVars, reVars>>

-----------------------------------------------------------------------------
(***************************************************************************)
(* The select loop.  A case that breaks out of the select reaches the      *)
(* check "noMoreEvents && noMoreHeaders", which ends the loop with         *)
(* e.wg.Done(); the header case continues past it.                         *)
(***************************************************************************)
\* Mutant: the loop ends once either channel was seen closed.
LoopDoneEither(nme, nmh) == nme \/ nmh

LoopDone(nme, nmh) == nme /\ nmh

\* Mutant: e.wg.Done() is inside the loop body, run on every pass.
AfterSelectDoneInLoop(nme, nmh) ==
    /\ gpc' = IF LoopDone(nme, nmh) THEN "exited" ELSE "loop"
    /\ wg' = wg - 1

AfterSelect(nme, nmh) ==
    IF LoopDone(nme, nmh)
    THEN /\ gpc' = "exited"
         /\ wg' = wg - 1
    ELSE /\ gpc' = "loop"
         /\ UNCHANGED wg

\* Err() is ready: an error is waiting, or Unsubscribe closed the channel.
ErrReady(i) == subs[i].st \in {"failed", "closed"}

\* The subscription after a receive from its Err(): a waiting error is taken.
ErrTaken(sub) == [sub EXCEPT !.st = IF @ = "failed" THEN "dead" ELSE @]

Unsubscribed(sub) == [sub EXCEPT !.st = "closed"]

\* handleSubscriptionError's entry: return at once once shutdown is set.
HandleSubscriptionError ==
    \/ /\ shutdown
       /\ AfterSelect(noMoreEvents, noMoreHeaders)
       /\ UNCHANGED attempt
    \/ /\ ~shutdown
       /\ attempt' = 0
       /\ gpc' = "reconnect"
       /\ UNCHANGED wg

\* case err := <-(*logSubscription).Err(): unsubscribe the header
\* subscription, then handleSubscriptionError.
LoopLogSubError ==
    /\ gpc = "loop"
    /\ ErrReady(logSub)
    /\ subs' = [subs EXCEPT ![logSub] = ErrTaken(@), ![headSub] = Unsubscribed(@)]
    /\ HandleSubscriptionError
    /\ UNCHANGED <<logSub, headSub, newLog, newHead, cb, shutdown, dpc, envVars, chanVars, loopVars>>

\* case err := <-(*newHeadSubscription).Err()
LoopHeadSubError ==
    /\ gpc = "loop"
    /\ ErrReady(headSub)
    /\ subs' = [subs EXCEPT ![headSub] = ErrTaken(@), ![logSub] = Unsubscribed(@)]
    /\ HandleSubscriptionError
    /\ UNCHANGED <<logSub, headSub, newLog, newHead, cb, shutdown, dpc, envVars, chanVars, loopVars>>

\* case event, ok := <-e.events with a buffered log: handleEvent.  A closed
\* channel still yields what it buffers before ok = false.
LoopEvent ==
    /\ gpc = "loop"
    /\ evBuf > 0
    /\ evBuf' = evBuf - 1
    /\ noMoreEvents' = FALSE
    /\ UNCHANGED <<subs, gpc, logSub, headSub, cb, wg, shutdown, dpc, noMoreHeaders,
                   hdBuf, evClosed, hdClosed, envVars, reVars>>

\* case event, ok := <-e.events on a drained, closed channel: ok = false.
LoopEventsClosed ==
    /\ gpc = "loop"
    /\ evBuf = 0 /\ evClosed
    /\ noMoreEvents' = TRUE
    /\ AfterSelect(TRUE, noMoreHeaders)
    /\ UNCHANGED <<subs, logSub, headSub, cb, shutdown, dpc, noMoreHeaders, envVars, chanVars, reVars>>

\* case newHeader, ok := <-e.newHeaders with a buffered header: advance
\* highestBlock (abstracted) and continue.
LoopHeader ==
    /\ gpc = "loop"
    /\ hdBuf > 0
    /\ hdBuf' = hdBuf - 1
    /\ noMoreHeaders' = FALSE
    /\ UNCHANGED <<subs, gpc, logSub, headSub, cb, wg, shutdown, dpc, noMoreEvents,
                   evBuf, evClosed, hdClosed, envVars, reVars>>

\* Mutant: the closed case continues like the header case, without its flag.
LoopHeadersClosedNoFlag ==
    /\ gpc = "loop"
    /\ hdBuf = 0 /\ hdClosed
    /\ UNCHANGED vars

\* case newHeader, ok := <-e.newHeaders on a drained, closed channel.
LoopHeadersClosed ==
    /\ gpc = "loop"
    /\ hdBuf = 0 /\ hdClosed
    /\ noMoreHeaders' = TRUE
    /\ AfterSelect(noMoreEvents, TRUE)
    /\ UNCHANGED <<subs, logSub, headSub, cb, shutdown, dpc, noMoreEvents, envVars, chanVars, reVars>>

-----------------------------------------------------------------------------
(***************************************************************************)
(* handleSubscriptionError past its shutdown check: shutdown is not read   *)
(* again, so the loop subscribes into e.events and e.newHeaders whatever   *)
(* Deinit has done since.                                                  *)
(***************************************************************************)
\* Attempt i: SubscribeFilterLogs(e.events); reconnectRetries failures panic.
ReconnectLogs ==
    /\ gpc = "reconnect"
    /\ \/ /\ subs' = Append(subs, NewSub("logs"))
          /\ newLog' = Len(subs) + 1
          /\ gpc' = "reSubHeads"
          /\ UNCHANGED attempt
       \/ /\ RpcFails
          /\ attempt' = attempt + 1
          /\ gpc' = IF attempt + 1 = ReconnectRetries THEN "panicked" ELSE "reconnect"
          /\ UNCHANGED <<subs, newLog>>
    /\ UNCHANGED <<logSub, headSub, newHead, cb, wg, shutdown, dpc, envVars, chanVars, loopVars>>

\* SubscribeNewHead(e.newHeaders), then setECShutdownCb for s and h; a
\* failure breaks to the panic.
ReconnectHeads ==
    /\ gpc = "reSubHeads"
    /\ \/ /\ subs' = Append(subs, NewSub("heads"))
          /\ newHead' = Len(subs) + 1
          /\ cb' = {newLog, Len(subs) + 1}
          /\ gpc' = "reBackfill"
       \/ /\ RpcFails
          /\ gpc' = "panicked"
          /\ UNCHANGED <<subs, newHead, cb>>
    /\ UNCHANGED <<logSub, headSub, newLog, attempt, wg, shutdown, dpc, envVars, chanVars, loopVars>>

\* backfillEvents (a failure panics), then the pointers are swapped and the
\* select case breaks to the loop's check.
ReconnectBackfill ==
    /\ gpc = "reBackfill"
    /\ \/ /\ logSub' = newLog
          /\ headSub' = newHead
          /\ AfterSelect(noMoreEvents, noMoreHeaders)
       \/ /\ RpcFails
          /\ gpc' = "panicked"
          /\ UNCHANGED <<logSub, headSub, wg>>
    /\ UNCHANGED <<subs, cb, shutdown, dpc, envVars, chanVars, loopVars, reVars>>

-----------------------------------------------------------------------------
(***************************************************************************)
(* Deinit, called once on another goroutine after Init has returned.       *)
(***************************************************************************)
\* if e.ethclientShutdownCb == nil { return }; e.shutdown = true
DeinitCall ==
    /\ Running
    /\ dpc = "notCalled"
    /\ InitReturned
    /\ \/ /\ cb = NilCb
          /\ dpc' = "returned"
          /\ UNCHANGED shutdown
       \/ /\ cb /= NilCb
          /\ shutdown' = TRUE
          /\ dpc' = "unsub"
    /\ UNCHANGED <<subs, gpc, logSub, headSub, cb, wg, envVars, chanVars, loopVars, reVars>>

\* e.ethclientShutdownCb(): unsubscribes the two subscriptions it captured.
DeinitUnsubscribe ==
    /\ Running
    /\ dpc = "unsub"
    /\ subs' = [i \in DOMAIN subs |-> IF i \in cb THEN Unsubscribed(subs[i]) ELSE subs[i]]
    /\ dpc' = "closeEvents"
    /\ UNCHANGED <<gpc, logSub, headSub, cb, wg, shutdown, envVars, chanVars, loopVars, reVars>>

\* close(e.events)
DeinitCloseEvents ==
    /\ Running
    /\ dpc = "closeEvents"
    /\ evClosed' = TRUE
    /\ dpc' = "closeHeaders"
    /\ UNCHANGED <<subs, gpc, logSub, headSub, cb, wg, shutdown, evBuf, hdBuf, hdClosed,
                   envVars, loopVars, reVars>>

\* close(e.newHeaders)
DeinitCloseHeaders ==
    /\ Running
    /\ dpc = "closeHeaders"
    /\ hdClosed' = TRUE
    /\ dpc' = "wait"
    /\ UNCHANGED <<subs, gpc, logSub, headSub, cb, wg, shutdown, evBuf, hdBuf, evClosed,
                   envVars, loopVars, reVars>>

\* e.wg.Wait(): returns when the counter is zero.
DeinitWait ==
    /\ Running
    /\ dpc = "wait"
    /\ wg = 0
    /\ dpc' = "returned"
    /\ UNCHANGED <<subs, gpc, logSub, headSub, cb, wg, shutdown, envVars, chanVars, loopVars, reVars>>

-----------------------------------------------------------------------------
(***************************************************************************)
(* The environment: the chain and the subscriptions' forwarding goroutines *)
(***************************************************************************)
\* Subscription i forwards block subs[i].next into its channel; a send on
\* the closed channel panics.
Forward(i) ==
    /\ Running
    /\ subs[i].st = "live"
    /\ subs[i].next <= head
    /\ subs' = [subs EXCEPT ![i].next = @ + 1]
    /\ LET closed == IF subs[i].kind = "logs" THEN evClosed ELSE hdClosed IN
       \/ /\ closed
          /\ crashed' = TRUE
          /\ gpc' = "panicked"
          /\ UNCHANGED <<evBuf, hdBuf>>
       \/ /\ ~closed
          /\ UNCHANGED <<crashed, gpc>>
          /\ IF subs[i].kind = "logs"
             THEN evBuf' = evBuf + 1 /\ UNCHANGED hdBuf
             ELSE hdBuf' = hdBuf + 1 /\ UNCHANGED evBuf
    /\ UNCHANGED <<head, subErrors, logSub, headSub, cb, wg, shutdown, dpc,
                   evClosed, hdClosed, loopVars, reVars>>

\* A live subscription fails: an error waits on its Err().
SubFails(i) ==
    /\ Running
    /\ subErrors < SubErrorBudget
    /\ subs[i].st = "live"
    /\ subs' = [subs EXCEPT ![i].st = "failed"]
    /\ subErrors' = subErrors + 1
    /\ UNCHANGED <<head, crashed, gpc, logSub, headSub, cb, wg, shutdown, dpc, chanVars, loopVars, reVars>>

Mine ==
    /\ Running
    /\ head < MaxBlock
    /\ head' = head + 1
    /\ UNCHANGED <<subs, subErrors, crashed, gpc, logSub, headSub, cb, wg, shutdown, dpc,
                   chanVars, loopVars, reVars>>

-----------------------------------------------------------------------------
Goroutine ==
    \/ ConnectLogs \/ ConnectHeads \/ ConnectBackfill \/ GoroutineStart
    \/ LoopLogSubError \/ LoopHeadSubError \/ LoopEvent \/ LoopEventsClosed
    \/ LoopHeader \/ LoopHeadersClosed
    \/ ReconnectLogs \/ ReconnectHeads \/ ReconnectBackfill

Deinit ==
    \/ DeinitCall \/ DeinitUnsubscribe \/ DeinitCloseEvents \/ DeinitCloseHeaders
    \/ DeinitWait

Environment ==
    \/ \E i \in DOMAIN subs : Forward(i) \/ SubFails(i)
    \/ Mine

\* Nothing runs once the process has died: the goroutine is then at
\* "panicked", and Deinit and the environment are guarded by Running.
Next == Goroutine \/ Deinit \/ Environment

\* Go's select picks uniformly among the ready cases, so a case that stays
\* ready is taken: weak fairness per case.  Deinit's steps, once it was
\* called, are weakly fair too.  Calling Deinit, mining, forwarding and
\* failures are not: the properties hold without them.
Fairness ==
    /\ WF_vars((ConnectLogs \/ ConnectHeads \/ ConnectBackfill \/ GoroutineStart))
    /\ WF_vars(LoopLogSubError) /\ WF_vars(LoopHeadSubError)
    /\ WF_vars(LoopEvent) /\ WF_vars(LoopEventsClosed)
    /\ WF_vars(LoopHeader) /\ WF_vars(LoopHeadersClosed)
    /\ WF_vars((ReconnectLogs \/ ReconnectHeads \/ ReconnectBackfill))
    /\ WF_vars((DeinitUnsubscribe \/ DeinitCloseEvents \/ DeinitCloseHeaders \/ DeinitWait))

Spec == Init /\ [][Next]_vars /\ Fairness

-----------------------------------------------------------------------------
(***************************************************************************)
(* Properties                                                              *)
(***************************************************************************)

\* A closed buffered channel yields its buffered values before ok = false,
\* so the goroutine never leaves the select loop with a log or header still
\* buffered: whatever was pending when Deinit closed the channels is handled.
DrainedOnExit == gpc = "exited" => evBuf = 0 /\ hdBuf = 0

\* Deinit, once it has set shutdown, returns (wg.Wait does not block
\* forever): the goroutine, whether in the select loop or reconnecting,
\* sees both channels closed and calls wg.Done, unless the process dies.
DeinitReturns == (dpc = "unsub") ~> (dpc = "returned" \/ ~Running)

\* spec 5 / scenario 6: Deinit "waits on the Event Ingestor task to drain
\* and exit": when a Deinit that found a callback returns, the goroutine has
\* left its loop.
DeinitWaitsForIngestor == (dpc = "returned" /\ shutdown) => gpc = "exited"

\* No subscription's forwarding goroutine ever sends on e.events or
\* e.newHeaders after Deinit closed it (a runtime panic).
NoSendOnClosedChannel == ~crashed

\* spec 5: Deinit's callback "closes both upstream subscriptions": once
\* Deinit has returned, no subscription is still forwarding.
NoLiveSubscriptionAfterDeinit ==
    dpc = "returned" => \A i \in DOMAIN subs : subs[i].st /= "live"

=============================================================================

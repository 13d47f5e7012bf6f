---------------------------- MODULE BatchedProvider ----------------------------
(***************************************************************************)
(* BatchedProvider.ts: contract reads of one page are collected for        *)
(* batchingDelayMs and sent to the node as one call of the Multicall       *)
(* contract.  JavaScript runs one callback at a time: a step of the model  *)
(* is the code between two awaits, timer events or answers of the node.    *)
(* (The call counters behind the commented-out ratio log are left out.)    *)
(***************************************************************************)
EXTENDS Integers, Sequences, FiniteSets, Functions

CONSTANTS
  Calls,      \* the reads callers make: each is one call() or getBalance()
  BlockTag,   \* the block tag each read asks for, possibly NoTag
  Batchable,  \* the reads with neither gas limit, gas price nor value
  Reverting,  \* the reads the node answers with an error
  NoTag,      \* blockTag left undefined
  Latest      \* the tag "latest"

ASSUME BatchAssumption ==
  /\ Batchable \subseteq Calls /\ Reverting \subseteq Calls
  /\ IsFiniteSet(Calls) /\ NoTag # Latest
  /\ DOMAIN BlockTag = Calls

VARIABLES
  multicall,  \* _multicall is set: the chain has a Multicall contract
  chainId,    \* chainId has been set, whether or not the chain has a Multicall
  pc,         \* where each read is: "idle", "resolving", "queued", "sent", "settled"
  batched,    \* _batched: calls, callbacks and blockTag
  dispatchTimer,  \* a dispatch is scheduled: _timeoutId is pending
  requests,   \* the requests under way at the node
  settled     \* for every read, the answers its promise was settled with

batchVars == <<multicall, chainId, pc, batched, dispatchTimer, requests, settled>>

Tags == Range(BlockTag) \cup {NoTag}

emptyBatch == [calls |-> <<>>, callbacks |-> <<>>, blockTag |-> NoTag]

\* A request at the node.  callbacks are the promises waiting for it.
Request(calls, callbacks, tag) == [calls |-> calls, callbacks |-> callbacks, blockTag |-> tag]

\* The places of read c among the callbacks of a batch or a request.
Places(r, c) == {i \in DOMAIN r.callbacks : r.callbacks[i] = c}

BatchInit ==
  /\ multicall = FALSE /\ chainId = FALSE
  /\ pc = [c \in Calls |-> "idle"]
  /\ batched = emptyBatch
  /\ dispatchTimer = FALSE
  /\ requests = {}
  /\ settled = [c \in Calls |-> {}]

-----------------------------------------------------------------------------
\* The node leaves a missing tag out of the request and reads the latest block.
Resolved(tag) == IF tag = NoTag THEN Latest ELSE tag

\* Variant: no comparison of block tags.
NeverConflicts(b, tag) == FALSE

_alreadyBatchedCallsConflictWith(b, tag) ==
  b.calls # <<>> /\ Resolved(tag) # Resolved(b.blockTag)

\* The setter of chainId.  It throws once there is a Multicall; a chain without one may
\* be set again.
setChainId(hasMulticall) ==
  /\ ~multicall
  /\ multicall' = hasMulticall
  /\ chainId' = TRUE
  /\ UNCHANGED <<pc, batched, dispatchTimer, requests, settled>>

\* call, up to its await.  Without a Multicall the request goes straight to the node.  A
\* getBalance is here at the step in which, after its own await, it looks for the Multicall.
call(c) ==
  /\ pc[c] = "idle"
  /\ IF multicall
       THEN pc' = [pc EXCEPT ![c] = "resolving"] /\ UNCHANGED requests
       ELSE /\ pc' = [pc EXCEPT ![c] = "sent"]
            /\ requests' = requests \cup {Request(<<c>>, <<c>>, BlockTag[c])}
  /\ UNCHANGED <<multicall, chainId, batched, dispatchTimer, settled>>

\* The first read of a batch decides its tag; _enqueueCall pushes the call and, when its
\* promise is made, the callbacks.
Enqueue(b, c) ==
  [calls |-> Append(b.calls, c), callbacks |-> Append(b.callbacks, c),
   blockTag |-> IF b.calls = <<>> THEN BlockTag[c] ELSE b.blockTag]

\* Variant: the timer is cleared for the next read and not set again.
ClearedTimer(running) == ~running

\* _enqueueCall clears the timeout that is pending and sets a new one.
Rescheduled(running) == TRUE

\* call, after its await: the tags are compared now, not when the read was made.
Resume(c) ==
  /\ pc[c] = "resolving"
  /\ IF c \notin Batchable \/ _alreadyBatchedCallsConflictWith(batched, BlockTag[c])
       THEN /\ pc' = [pc EXCEPT ![c] = "sent"]
            /\ requests' = requests \cup {Request(<<c>>, <<c>>, BlockTag[c])}
            /\ UNCHANGED <<batched, dispatchTimer>>
       ELSE /\ pc' = [pc EXCEPT ![c] = "queued"]
            /\ batched' = Enqueue(batched, c)
            /\ dispatchTimer' = Rescheduled(dispatchTimer)
            /\ UNCHANGED requests
  /\ UNCHANGED <<multicall, chainId, settled>>

\* _dispatchCalls takes the batch and leaves an empty one before it awaits the node.
BatchAfterDispatch(b) == emptyBatch

\* The timer fires: one request for the whole batch.
_dispatchCalls ==
  /\ dispatchTimer
  /\ dispatchTimer' = FALSE
  /\ requests' = requests \cup {Request(batched.calls, batched.callbacks, batched.blockTag)}
  /\ pc' = [c \in Calls |-> IF Places(batched, c) # {} THEN "sent" ELSE pc[c]]
  /\ batched' = BatchAfterDispatch(batched)
  /\ UNCHANGED <<multicall, chainId, settled>>

\* What the node sends back for call c at a block.
Answer(c, tag) == [of |-> c, at |-> Resolved(tag)]
Failure == [of |-> NoTag, at |-> NoTag]

\* The results of aggregate, or of the one call, in the order of the calls.
Results(r) == [i \in DOMAIN r.calls |-> Answer(r.calls[i], r.blockTag)]

\* Each callback gets the answer at its own position.
Settle(r, answers) ==
  /\ requests' = requests \ {r}
  /\ settled' = [c \in Calls |->
                   settled[c] \cup {[request |-> r, place |-> i, answer |-> answers[i]] :
                                      i \in Places(r, c)}]
  /\ pc' = [c \in Calls |-> IF Places(r, c) # {} THEN "settled" ELSE pc[c]]
  /\ UNCHANGED <<multicall, chainId, batched, dispatchTimer>>

\* The answer arrives; requests are answered in any order.  aggregate reverts as a whole.
NodeAnswers(r) ==
  /\ r \in requests
  /\ \A i \in DOMAIN r.calls : r.calls[i] \notin Reverting
  /\ Settle(r, Results(r))

\* A call of the request reverts, or the connection fails.
NodeFails(r) ==
  /\ r \in requests
  /\ Settle(r, [i \in DOMAIN r.callbacks |-> Failure])

BatchNext ==
  \/ \E m \in BOOLEAN : setChainId(m)
  \/ \E c \in Calls : call(c) \/ Resume(c)
  \/ _dispatchCalls
  \/ \E r \in requests : NodeAnswers(r) \/ NodeFails(r)

BatchSpec == BatchInit /\ [][BatchNext]_batchVars

\* Promises resolve, a timer that is pending fires, and the node answers or the
\* connection fails.
BatchFairness ==
  /\ \A c \in Calls : WF_batchVars(Resume(c))
  /\ WF_batchVars(_dispatchCalls)
  /\ WF_batchVars(\E r \in requests : NodeAnswers(r) \/ NodeFails(r))

BatchFairSpec == BatchSpec /\ BatchFairness

-----------------------------------------------------------------------------
BatchTypeOK ==
  /\ multicall \in BOOLEAN /\ chainId \in BOOLEAN /\ dispatchTimer \in BOOLEAN
  /\ pc \in [Calls -> {"idle", "resolving", "queued", "sent", "settled"}]
  /\ batched.calls \in Seq(Calls) /\ batched.callbacks \in Seq(Calls)
  /\ batched.blockTag \in Tags
  /\ dispatchTimer = (batched.calls # <<>>) /\ Len(batched.callbacks) = Len(batched.calls)
  /\ \A r \in requests : r.calls \in Seq(Calls) /\ r.callbacks \in Seq(Calls)

(***************************************************************************)
(* Every answer reaches the read it answers, and at the block that read    *)
(* asked for, although reads with different tags meet in one provider and  *)
(* requests are answered in any order (_dispatchCalls pairs results and    *)
(* callbacks by position; the tag of a batch is that of its first read).   *)
(* No promise is settled twice, and none still waits once its request has  *)
(* been answered: a read is in one batch or one request, once.             *)
(***************************************************************************)
OwnAnswerAtOwnBlock ==
  \A c \in Calls :
    LET sent == UNION {{<<r, i>> : i \in Places(r, c)} : r \in requests}
    IN /\ \A s \in settled[c] : s.answer \in {Failure, Answer(c, BlockTag[c])}
       /\ Cardinality(Places(batched, c)) + Cardinality(sent) + Cardinality(settled[c])
            = IF pc[c] \in {"idle", "resolving"} THEN 0 ELSE 1

(***************************************************************************)
(* Every read is settled in the end, whichever read arms or rearms the     *)
(* timer: clearing the timeout of the read before leaves a batch that no   *)
(* timer will send unless a new one is set.                                *)
(***************************************************************************)
EveryReadSettles == \A c \in Calls : pc[c] # "idle" ~> pc[c] = "settled"

=============================================================================

------------------------------ MODULE Pipeline ------------------------------
(***************************************************************************)
(* The prover pipeline of the execution extension (reth-zisk-exex): three  *)
(* sources of payloads, the event loop that starts and cancels jobs, one   *)
(* asynchronous job per block, and the coordinator, which runs one proof   *)
(* at a time.  Every await of a job is a point where the event loop, the   *)
(* other jobs and the coordinator interleave with it.                      *)
(*                                                                         *)
(* External: the engine (which blocks it executes, which head it commits), *)
(* the coordinator and the beacon node, modelled by the calls made to them *)
(* and the answers the code tells apart.  Time is left out: a deadline may *)
(* pass whenever its wait goes on.                                         *)
(***************************************************************************)
EXTENDS Naturals, Sequences, FiniteSets, SequencesExt

CONSTANTS
  Block,          \* block hashes
  Genesis,        \* the block the chain starts from
  Parent,         \* parent_hash of a block
  Number,         \* its height
  Invalid,        \* the blocks reth finds invalid
  Streamed,       \* the blocks whose framed input is over INLINE_MAX
  Sources,        \* the payload sources in use, of {"tap", "lighthouse"}
  AfterExecution, \* Config::after_execution
  ChannelCap,     \* capacity of the payload channel (64)
  StartedCap,     \* length of `started` (64)
  MaxCommits,     \* bound: how many heads the engine commits
  Faults          \* what may go wrong, of {"timeout", "rpc", "build", "proof"}

ASSUME PipelineAssumption ==
  /\ Genesis \notin Block
  /\ Parent \in [Block -> Block \cup {Genesis}]
  /\ Number \in [Block \cup {Genesis} -> Nat]
  /\ \A b \in Block : Number[b] = Number[Parent[b]] + 1
  /\ AfterExecution \in BOOLEAN
  /\ ChannelCap \in Nat \ {0}
  /\ StartedCap \in Nat \ {0}

VARIABLES
  head,      \* engine: the canonical head
  canonical, \* history: the blocks that have been canonical
  executed,  \* engine: the blocks it has executed
  rejected,  \* engine: the blocks it found invalid
  commits,   \* engine: how many heads it has committed
  tapped,    \* engine: the blocks newPayload was called with
  gossiped,  \* the blocks Lighthouse announced
  payloads,  \* the payload channel
  events,    \* the engine event stream
  started,   \* Pipeline::started
  marked,    \* the blocks whose timeline has "executed"
  current,   \* Pipeline::current: the last started job, 0 for None
  jobs,      \* the spawned jobs, in the order they were spawned
  remote,    \* coordinator: what became of each job's request
  worker,    \* coordinator: the job its worker runs, 0 for none
  added      \* history: the recent canonical blocks the event loop was told of

engine == <<head, canonical, executed, rejected, commits, tapped, gossiped>>
loop == <<started, marked, current, added>>
coordinator == <<remote, worker>>
vars == <<engine, payloads, events, loop, jobs, coordinator>>

\* The blocks from b down to Genesis.
Chain[b \in Block \cup {Genesis}] ==
  IF b = Genesis THEN {Genesis} ELSE {b} \cup Chain[Parent[b]]

\* Where a job is in run_job: the waits and steps before its proof is there,
\* those after, and how it may end.
Proving == {"parent", "executed", "build", "submit", "requesting", "push", "wait",
            "cancelling", "proved"}
Publishing == {"beacon", "post"}
Ended == {"cancelled", "failed", "discarded", "submitted"}

\* early is history: the block was discarded before its proof was used.
Job == [block : Block, bal : BOOLEAN, root : BOOLEAN,
        pc : Proving \cup Publishing \cup Ended,
        cancel : BOOLEAN, discard : BOOLEAN, early : BOOLEAN]

Incoming(b, bal, root) == [block |-> b, bal |-> bal, root |-> root]

Init ==
  /\ head = Genesis /\ canonical = {Genesis}
  /\ executed = {Genesis} /\ rejected = {} /\ commits = 0
  /\ tapped = {} /\ gossiped = {}
  /\ payloads = <<>> /\ events = <<>>
  /\ started = <<>> /\ marked = {} /\ current = 0 /\ added = {}
  /\ jobs = <<>> /\ remote = <<>> /\ worker = 0

-----------------------------------------------------------------------------
(* The sources.                                                            *)

\* convert_payload_to_block: the copy is dropped when the channel is full.
ConvertPayload(b) ==
  /\ "tap" \in Sources
  /\ b \notin tapped
  /\ tapped' = tapped \cup {b}
  /\ payloads' = IF Len(payloads) < ChannelCap
                 THEN Append(payloads, Incoming(b, TRUE, FALSE))
                 ELSE payloads
  /\ UNCHANGED <<head, canonical, executed, rejected, commits, gossiped, events, loop, jobs, coordinator>>

\* The task of a gossip event sends the envelope, waiting for room.  It also
\* knows the beacon block root.
LighthouseEnvelope(b) ==
  /\ "lighthouse" \in Sources
  /\ b \notin gossiped
  /\ Len(payloads) < ChannelCap
  /\ gossiped' = gossiped \cup {b}
  /\ payloads' = Append(payloads, Incoming(b, TRUE, TRUE))
  /\ UNCHANGED <<head, canonical, executed, rejected, commits, tapped, events, loop, jobs, coordinator>>

\* The engine executes a block whose parent it has, delivered by newPayload or
\* downloaded.
Execute(b) ==
  /\ b \notin executed \cup rejected
  /\ Parent[b] \in executed
  /\ IF b \in Invalid
     THEN rejected' = rejected \cup {b} /\ UNCHANGED executed
     ELSE executed' = executed \cup {b} /\ UNCHANGED rejected
  /\ events' = Append(events,
       [type  |-> IF b \in Invalid THEN "InvalidBlock"
                  ELSE IF head \in Chain[b] THEN "CanonicalBlockAdded"
                  ELSE "ForkBlockAdded",
        block |-> b])
  /\ UNCHANGED <<head, canonical, commits, tapped, gossiped, payloads, loop, jobs, coordinator>>

\* The engine commits a new head on a forkchoice update.
ForkchoiceUpdated(b) ==
  /\ b \in executed \ {head, Genesis}
  /\ commits < MaxCommits
  /\ head' = b
  /\ canonical' = canonical \cup Chain[b]
  /\ commits' = commits + 1
  /\ events' = Append(events, [type |-> "CanonicalChainCommitted", block |-> b])
  /\ UNCHANGED <<executed, rejected, tapped, gossiped, payloads, loop, jobs, coordinator>>

-----------------------------------------------------------------------------
(* The event loop.                                                         *)

IgnoredOnlyStarted(b) == b \in Range(started)

IgnoredSibling(b) ==
  \/ b \in Range(started)
  \/ current # 0 /\ Number[b] <= Number[jobs[current].block]

\* on_payload ignores a block that has a job, and one older than the current.
Ignored(b) ==
  \/ b \in Range(started)
  \/ current # 0 /\ Number[b] < Number[jobs[current].block]

PushStartedUnbounded(b) == Append(started, b)

\* `started` after a push: the oldest is dropped.
PushStarted(b) ==
  LET s == Append(started, b)
  IN  IF Len(s) > StartedCap THEN Tail(s) ELSE s

CancelledNot == jobs

\* The jobs after the current one's tokens are cancelled.
Cancelled == IF current = 0 THEN jobs ELSE [jobs EXCEPT ![current].cancel = TRUE]

\* on_payload: cancel the current job, spawn the block's.
OnPayload(p) ==
  IF Ignored(p.block)
  THEN UNCHANGED <<started, current, jobs, remote>>
  ELSE /\ started' = PushStarted(p.block)
       /\ jobs' = Append(Cancelled,
            [block |-> p.block, bal |-> p.bal, root |-> p.root, pc |-> "parent",
             cancel |-> FALSE, discard |-> FALSE, early |-> FALSE])
       /\ remote' = Append(remote, "none")
       /\ current' = Len(jobs) + 1

\* One branch of the loop's select: a payload.
RecvPayload ==
  /\ payloads # <<>>
  /\ payloads' = Tail(payloads)
  /\ OnPayload(Head(payloads))
  /\ UNCHANGED <<engine, events, marked, worker, added>>

\* The next engine event, of one of the given types.
NextEvent(types) ==
  /\ events # <<>>
  /\ Head(events).type \in types
  /\ events' = Tail(events)
  /\ UNCHANGED <<engine, payloads, worker>>

\* CanonicalBlockAdded: a block no source delivered is proved from its executed
\* copy, if it is recent.
OnCanonicalBlockAdded ==
  LET b == Head(events).block
  IN  /\ NextEvent({"CanonicalBlockAdded"})
      /\ marked' = marked \cup {b}
      /\ \/ /\ OnPayload(Incoming(b, FALSE, FALSE))
            /\ added' = added \cup {b}
         \/ UNCHANGED <<started, current, jobs, remote, added>>

OnForkBlockAdded ==
  /\ NextEvent({"ForkBlockAdded"})
  /\ marked' = marked \cup {Head(events).block}
  /\ UNCHANGED <<started, current, jobs, remote, added>>

\* Does the event make the current job's block invalid or reorged out?
Drops(e) ==
  /\ current # 0
  /\ LET b == jobs[current].block
     IN  IF e.type = "InvalidBlock"
         THEN b = e.block
         ELSE Number[e.block] <= Number[b] /\ e.block # b

\* InvalidBlock and CanonicalChainCommitted: cancel and discard.
OnInvalidOrCommitted ==
  /\ NextEvent({"InvalidBlock", "CanonicalChainCommitted"})
  /\ jobs' = IF Drops(Head(events))
             THEN [jobs EXCEPT ![current] =
                    [@ EXCEPT !.cancel = TRUE, !.discard = TRUE,
                              !.early = @ \/ jobs[current].pc \in Proving]]
             ELSE jobs
  /\ UNCHANGED <<loop, remote>>

-----------------------------------------------------------------------------
(* A job: run_job, and the coordinator client's prove.                     *)

At(j, pc) == jobs[j].pc = pc

Goto(j, pc) == jobs' = [jobs EXCEPT ![j].pc = pc]

\* What a job's step leaves alone; the coordinator's part apart.
JobStep == UNCHANGED <<engine, payloads, events, loop>>

\* Wait until the parent's state is served, the token is cancelled or 36 s
\* pass.
JobParent(j) ==
  LET served == Parent[jobs[j].block] \in Chain[head]
  IN
  /\ At(j, "parent")
  /\ \/ /\ served
        /\ Goto(j, IF AfterExecution /\ jobs[j].bal THEN "executed" ELSE "build")
     \/ ~served /\ jobs[j].cancel /\ Goto(j, "cancelled")
     \/ ~served /\ ~jobs[j].cancel /\ "timeout" \in Faults /\ Goto(j, "failed")
  /\ JobStep /\ UNCHANGED coordinator

\* Wait until reth has executed the block, or 12 s.
JobExecuted(j) ==
  LET done == jobs[j].block \in marked
  IN
  /\ At(j, "executed")
  /\ \/ done /\ Goto(j, "build")
     \/ ~done /\ jobs[j].cancel /\ Goto(j, "cancelled")
     \/ ~done /\ ~jobs[j].cancel /\ "timeout" \in Faults /\ Goto(j, "failed")
  /\ JobStep /\ UNCHANGED coordinator

\* Build the input, which may fail; then the check before the prover.
JobBuild(j) ==
  /\ At(j, "build")
  /\ \/ Goto(j, IF jobs[j].cancel THEN "cancelled" ELSE "submit")
     \/ "build" \in Faults /\ Goto(j, "failed")
  /\ JobStep /\ UNCHANGED coordinator

\* The head of submit_when_free's loop: check the token, send the request.
JobSubmit(j) ==
  /\ At(j, "submit")
  /\ Goto(j, IF jobs[j].cancel THEN "cancelled" ELSE "requesting")
  /\ JobStep /\ UNCHANGED coordinator

\* The coordinator takes the request if its worker is free.
CoordinatorTakes(j) ==
  /\ At(j, "requesting")
  /\ remote[j] = "none" /\ worker = 0
  /\ worker' = j
  /\ remote' = [remote EXCEPT ![j] = IF jobs[j].block \in Streamed THEN "input" ELSE "running"]
  /\ JobStep /\ UNCHANGED jobs

\* The reply to job_request, which the token does not interrupt: accepted, or
\* busy and to be retried.
JobRequested(j) ==
  /\ At(j, "requesting")
  /\ \/ /\ remote[j] # "none"
        /\ Goto(j, IF jobs[j].block \in Streamed THEN "push" ELSE "wait")
     \/ /\ remote[j] = "none" /\ worker # 0
        /\ Goto(j, "submit")
  /\ JobStep /\ UNCHANGED coordinator

JobBusyForever(j) == FALSE

\* Still busy after BUSY_RETRY.
JobBusyTooLong(j) ==
  /\ At(j, "requesting")
  /\ remote[j] = "none" /\ worker # 0
  /\ "timeout" \in Faults
  /\ Goto(j, "failed")
  /\ JobStep /\ UNCHANGED coordinator

\* The last chunk of a pushed input reaches the coordinator.
CoordinatorHasInput(j) ==
  /\ At(j, "push")
  /\ remote[j] = "input"
  /\ remote' = [remote EXCEPT ![j] = "running"]
  /\ JobStep /\ UNCHANGED <<jobs, worker>>

\* The reply to push_job_input.
JobPushed(j) ==
  /\ At(j, "push")
  /\ remote[j] # "input"
  /\ Goto(j, "wait")
  /\ JobStep /\ UNCHANGED coordinator

\* The reply to wait_job_result, once it is terminal.  A completed job without
\* a result counts as cancelled; prove fails on a result of another kind,
\* without a proof or too large.
JobWait(j) ==
  /\ At(j, "wait")
  /\ \/ remote[j] = "completed" /\ Goto(j, "proved")
     \/ /\ remote[j] = "completed" /\ "proof" \in Faults
        /\ \E pc \in {"failed", "cancelled"} : Goto(j, pc)
     \/ remote[j] = "failed" /\ Goto(j, "failed")
     \/ remote[j] = "cancelled" /\ Goto(j, "cancelled")
  /\ JobStep /\ UNCHANGED coordinator

JobTokenAbandonsUpload(j) ==
  /\ jobs[j].pc \in {"push", "wait"}
  /\ jobs[j].cancel
  /\ Goto(j, IF At(j, "push") THEN "cancelled" ELSE "cancelling")
  /\ JobStep /\ UNCHANGED coordinator

JobTokenOnlyInUpload(j) ==
  /\ At(j, "push")
  /\ jobs[j].cancel
  /\ Goto(j, "cancelling")
  /\ JobStep /\ UNCHANGED coordinator

\* The other branch of the selects in push_input and wait: the token.  It may
\* be taken although a reply is there too.
JobToken(j) ==
  /\ jobs[j].pc \in {"push", "wait"}
  /\ jobs[j].cancel
  /\ Goto(j, "cancelling")
  /\ JobStep /\ UNCHANGED coordinator

\* The reply to cancel_job: the coordinator freed the worker if the job still
\* ran.
JobCancel(j) ==
  /\ At(j, "cancelling")
  /\ Goto(j, "cancelled")
  /\ IF worker = j
     THEN /\ worker' = 0
          /\ remote' = [remote EXCEPT ![j] = "cancelled"]
     ELSE UNCHANGED coordinator
  /\ JobStep

\* A call returns an error, whether or not the other side acted on it.  That
\* of cancel_job is only logged.
JobCallFails(j) ==
  /\ "rpc" \in Faults
  /\ \/ /\ jobs[j].pc \in {"requesting", "push", "wait", "post"}
        /\ Goto(j, "failed")
     \/ /\ At(j, "cancelling")
        /\ Goto(j, "cancelled")
  /\ JobStep /\ UNCHANGED coordinator

JobProvedUnchecked(j) ==
  /\ At(j, "proved")
  /\ Goto(j, "beacon")
  /\ JobStep /\ UNCHANGED coordinator

\* The check after the proof.
JobProved(j) ==
  /\ At(j, "proved")
  /\ Goto(j, IF jobs[j].discard THEN "discarded" ELSE "beacon")
  /\ JobStep /\ UNCHANGED coordinator

\* The root of the beacon block, from the source or from the beacon node within
\* 24 s; then the proof is signed.
JobBeacon(j) ==
  /\ At(j, "beacon")
  /\ \/ Goto(j, "post")
     \/ ~jobs[j].root /\ "timeout" \in Faults /\ Goto(j, "failed")
  /\ JobStep /\ UNCHANGED coordinator

\* POST execution_proofs.
JobPost(j) ==
  /\ At(j, "post")
  /\ Goto(j, "submitted")
  /\ JobStep /\ UNCHANGED coordinator

\* The coordinator's worker ends a job, or the coordinator cancels it.  The
\* guest gives no proof of an invalid block.
WorkerEnds ==
  /\ worker # 0 /\ remote[worker] = "running"
  /\ \/ /\ jobs[worker].block \notin Invalid
        /\ remote' = [remote EXCEPT ![worker] = "completed"]
     \/ /\ jobs[worker].block \in Invalid \/ "proof" \in Faults
        /\ remote' = [remote EXCEPT ![worker] = "failed"]
     \/ /\ "proof" \in Faults
        /\ remote' = [remote EXCEPT ![worker] = "cancelled"]
  /\ worker' = 0
  /\ UNCHANGED <<engine, payloads, events, loop, jobs>>

Engine ==
  \E b \in Block : \/ ConvertPayload(b) \/ LighthouseEnvelope(b)
                   \/ Execute(b) \/ ForkchoiceUpdated(b)

Loop == \/ RecvPayload \/ OnCanonicalBlockAdded \/ OnForkBlockAdded
        \/ OnInvalidOrCommitted

\* The steps a job takes by itself: it computes, its token is cancelled, or a
\* deadline of its own passes (the beacon client's included).
LocalStep(j) ==
  \/ JobParent(j) \/ JobExecuted(j) \/ JobBuild(j) \/ JobSubmit(j) \/ JobToken(j)
  \/ JobProved(j) \/ JobBeacon(j) \/ JobPost(j)

\* Those that end a call to the coordinator with its answer.
Reply(j) == JobRequested(j) \/ JobPushed(j) \/ JobWait(j) \/ JobCancel(j)

\* What the coordinator does with what a job sent.
Serve(j) == CoordinatorTakes(j) \/ CoordinatorHasInput(j)

RunJob(j) == LocalStep(j) \/ Reply(j) \/ JobBusyTooLong(j) \/ JobCallFails(j)

Next ==
  \/ Engine
  \/ Loop
  \/ \E j \in DOMAIN jobs : RunJob(j) \/ Serve(j)
  \/ WorkerEnds

Spec == Init /\ [][Next]_vars

-----------------------------------------------------------------------------
(* Fairness.  No error is fair: a call need not fail.                      *)

JobId == 1 .. Cardinality(Block)
Spawned(j) == j \in DOMAIN jobs

\* tokio polls a task that can make progress, and time passes.
JobFairness == \A j \in JobId : WF_vars(Spawned(j) /\ LocalStep(j))

\* ASSUMED of the coordinator: it serves what a job sends and answers every
\* call, with a result or an error.  The code does not ensure it: the channel
\* has no deadline, and job_request and cancel_job are awaited outside any
\* select, so a job whose call is never answered stays for ever.
CallsReturn ==
  \A j \in JobId : /\ WF_vars(Spawned(j) /\ Serve(j))
                   /\ WF_vars(Spawned(j) /\ Reply(j))

\* Only the calls that the token cannot interrupt are assumed to return: the
\* upload and the proof may go on for ever.
CancelSpec ==
  /\ Spec
  /\ JobFairness
  /\ \A j \in JobId : /\ WF_vars(Spawned(j) /\ JobRequested(j))
                      /\ WF_vars(Spawned(j) /\ JobCancel(j))

\* A job that finds the worker busy again and again runs out of BUSY_RETRY;
\* and the worker ends a job it runs.
FairSpec ==
  /\ Spec
  /\ JobFairness
  /\ CallsReturn
  /\ \A j \in JobId : SF_vars(Spawned(j) /\ JobBusyTooLong(j))
  /\ WF_vars(WorkerEnds)

-----------------------------------------------------------------------------
(* Properties.                                                             *)

\* Types; `started` never exceeds its cap, nor the channel its capacity.
TypeOK ==
  /\ head \in canonical /\ canonical \subseteq Block \cup {Genesis}
  /\ executed \subseteq Block \cup {Genesis}
  /\ rejected \subseteq Block /\ commits \in 0 .. MaxCommits
  /\ tapped \subseteq Block /\ gossiped \subseteq Block
  /\ payloads \in Seq([block : Block, bal : BOOLEAN, root : BOOLEAN])
  /\ Len(payloads) <= ChannelCap
  /\ events \in Seq([type : {"CanonicalBlockAdded", "ForkBlockAdded", "InvalidBlock",
                             "CanonicalChainCommitted"}, block : Block])
  /\ started \in Seq(Block) /\ Len(started) <= StartedCap
  /\ marked \subseteq Block /\ added \subseteq Block
  /\ jobs \in Seq(Job)
  /\ current = Len(jobs)
  /\ remote \in [DOMAIN jobs -> {"none", "input", "running", "completed", "failed",
                                 "cancelled"}]
  /\ worker \in 0 .. Len(jobs)

\* "One proof in flight": every job but the newest has been told to stop.
OneInFlight == \A j \in DOMAIN jobs : j # current => jobs[j].cancel

\* A block gets one job, whichever sources deliver it, in whatever order and
\* however late, and although `started` forgets the oldest blocks.
JobOnce == \A i, k \in DOMAIN jobs : jobs[i].block = jobs[k].block => i = k

\* A proof that comes after its block was discarded is not published, even when
\* the proof's completion and the cancellation reach `wait` together.
StaleProofDropped ==
  \A j \in DOMAIN jobs : jobs[j].early => jobs[j].pc \notin Publishing \cup {"submitted"}

\* A block the engine made canonical in time has a job, or a higher block
\* was in flight: a payload dropped at the full channel is made up for.
CanonicalCovered ==
  \A b \in added : \/ \E j \in DOMAIN jobs : jobs[j].block = b
                   \/ Number[b] < Number[jobs[current].block]

\* When calls to the coordinator succeed, its worker only runs a job that a
\* task still waits for: no path leaves run_job with the proof running.
WorkerOwned ==
  worker # 0 => jobs[worker].pc \in {"requesting", "push", "wait", "cancelling"}

\* The worker is freed of a superseded proof, however long the upload and the
\* proof would take, if job_request and cancel_job return.
WorkerFreed ==
  \A j \in JobId : (worker = j /\ jobs[j].cancel) ~> worker # j

\* pipeline.rs:135 and :231 say that a discarded block is invalid or left the
\* canonical chain: it is not on the new head's chain, or it was canonical
\* before and the head went back to an ancestor.
DiscardedLeftTheChain ==
  [][\A j \in DOMAIN jobs :
       (jobs'[j].discard /\ ~jobs[j].discard) =>
         \/ Head(events).type = "InvalidBlock"
         \/ Head(events).block \notin Chain[jobs[j].block]
         \/ jobs[j].block \in canonical]_vars

\* If every call returns, every job ends: although the parent may never be
\* served, any call may fail, and a failed call may leave the worker for ever
\* with a job that nobody will send the input of.
JobsEnd == \A j \in JobId : Spawned(j) ~> Spawned(j) /\ jobs[j].pc \in Ended

=============================================================================

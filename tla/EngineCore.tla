----------------------------- MODULE EngineCore -----------------------------
(***************************************************************************)
(* vkwr/engine/core.py: one engine step is schedule, execute, sample,      *)
(* process aborts, update, condense, all on one thread; step() and         *)
(* step_with_batch_queue() do the same, because the only executor there is *)
(* (UniprocExecutor) returns a future that is already done.                *)
(*                                                                         *)
(* The GPU side is what the model runner keeps per slot between steps: the *)
(* recurrent state and the last sampled token.  Their contents are         *)
(* abstracted to whose they are.                                           *)
(***************************************************************************)
EXTENDS SimpleScheduler

VARIABLES
  aborts_queue,   \* ids in aborts_queue; it is always drained as a whole
  sampled,        \* ModelRunnerOutput.sampled_token_ids of this step
  state_of,       \* slot -> the one request its recurrent state has absorbed
  last_token,     \* slot -> the request _last_sampled_token[slot] was sampled for
  min_prev_negative,   \* _decode_tokens_min_prev < 0
  relocated       \* history: requests that batch_condense gave another slot

gpuVars == <<state_of, last_token, min_prev_negative, relocated>>
vars == <<schedulerVars, aborts_queue, sampled, gpuVars>>

Nobody == -1      \* zeroed: nothing absorbed; nothing sampled yet
Mixed  == -2      \* tokens of several requests, or of none, one after the other

Init ==
  /\ SchedulerInit
  /\ aborts_queue = {}
  /\ sampled = NoRequests
  /\ state_of = [s \in Slot!Slots |-> Nobody]
  /\ last_token = [s \in Slot!Slots |-> Nobody]
  /\ min_prev_negative = FALSE
  /\ relocated = {}
-----------------------------------------------------------------------------
(***************************************************************************)
(* execute_model and sample_tokens.  A first prefill chunk zeroes its      *)
(* slot; a decode is fed the last token of its slot, -1 when there never   *)
(* was one, which the next uniform decode batch notices.  Requests in the  *)
(* middle of their prompt are not sampled for.                             *)
(***************************************************************************)
IsSampled(d) == d.is_decode \/ d.is_last_prefill
\* Mutant of FirstChunk: a new request inherits the state of the slot's last owner.
FirstChunkNotZeroed(d) == FALSE

FirstChunk(d) == ~d.is_decode /\ d.num_computed_tokens = 0

\* What the forward pass of r reads is r's own.
ReadsOwnState(r) ==
  LET d == request_data[r] IN
  \/ FirstChunk(d)
  \/ state_of[d.slot_index] = r /\ (d.is_decode => last_token[d.slot_index] = r)

BatchedAt(s) == {r \in DOMAIN request_data : request_data[r].slot_index = s}

IsUniformDecode == \A r \in DOMAIN request_data : request_data[r].is_decode

\* A CUDA graph may be larger than the batch; the lowest free slots fill it up.  The
\* zeroing before and after replay indexes with a tensor, that is, it zeroes a copy: the
\* dummy rows' state stays, and the last tokens are untouched.  Which sizes are captured
\* is configuration.
PadSlots(bound) ==
  IF IsUniformDecode THEN {s \in Slot!Slots \ Slot!Used : s < bound} ELSE {}

Execute ==
  /\ pc = "execute" /\ pc' = "aborts"
  /\ ~(IsUniformDecode /\ min_prev_negative)
  /\ min_prev_negative' =
       IF IsUniformDecode
       THEN \E r \in DOMAIN request_data : last_token[request_data[r].slot_index] = Nobody
       ELSE min_prev_negative
  /\ \E bound \in Slot!Slots \cup {MaxNumSeqs} :
       /\ state_of' = [s \in Slot!Slots |->
            IF s \in PadSlots(bound) THEN Mixed
            ELSE IF BatchedAt(s) = {} THEN state_of[s]
            ELSE IF \E r \in BatchedAt(s) : BatchedAt(s) = {r} /\ ReadsOwnState(r)
                 THEN CHOOSE r \in BatchedAt(s) : TRUE ELSE Mixed]
       /\ last_token' = [s \in Slot!Slots |->
            IF \E r \in BatchedAt(s) : IsSampled(request_data[r])
            THEN CHOOSE r \in BatchedAt(s) : IsSampled(request_data[r])
            ELSE last_token[s]]
  /\ sampled' \in [{r \in DOMAIN request_data : IsSampled(request_data[r])}
                     -> {"token", "eos"}]
  /\ UNCHANGED <<requestVars, queueVars, req_to_slot, scheduleVars, outputVars, freed,
                 delivered, aborts_queue, relocated>>

\* RuntimeError: the uniform decode before this one read a slot never sampled for.
ExecuteRaises ==
  /\ pc = "execute" /\ pc' = "failed"
  /\ IsUniformDecode /\ min_prev_negative
  /\ UNCHANGED <<requestVars, queueVars, req_to_slot, scheduleVars, outputVars, freed,
                 delivered, aborts_queue, sampled, gpuVars>>

(***************************************************************************)
(* _process_aborts_queue, update_from_output and _batch_condense.          *)
(* _process_aborts_queue looks every id up in the slot map, also those     *)
(* another path aborted before.  executor.condense(moves) does nothing.    *)
(***************************************************************************)
\* Mutant of ProcessAbortsQueue: the slots of aborted requests are not collected.
ProcessAbortsQueueLeaks ==
  /\ pc = "aborts" /\ pc' = "update"
  /\ FinishRequests(aborts_queue)
  /\ aborts_queue' = {}
  /\ UNCHANGED <<req_to_slot, scheduleVars, outputVars, delivered, freed, sampled, gpuVars>>

ProcessAbortsQueue ==
  /\ pc = "aborts" /\ pc' = "update"
  /\ FinishRequests(aborts_queue)
  /\ freed' = aborts_queue \cap Slot!Holders
  /\ aborts_queue' = {}
  /\ UNCHANGED <<req_to_slot, scheduleVars, outputVars, delivered, sampled, gpuVars>>

Update ==
  /\ UpdateFromOutput(sampled)
  /\ UNCHANGED <<aborts_queue, sampled, gpuVars>>

Condense ==
  /\ pc = "condense" /\ pc' = "ready"
  /\ IF freed = {} THEN UNCHANGED req_to_slot ELSE Slot!BatchCondense(freed)
  /\ relocated' = {r \in Requests : \/ r \in relocated
                                    \/ r \in Slot!Holders \ freed
                                       /\ req_to_slot'[r] # req_to_slot[r]}
  /\ freed' = {} /\ request_data' = NoRequests /\ finished_req_ids' = {}
  /\ sampled' = NoRequests
  /\ UNCHANGED <<requestVars, queueVars, scheduleVars, delivered, aborts_queue,
                 state_of, last_token, min_prev_negative>>
-----------------------------------------------------------------------------
Schedule ==
  \/ ScheduleStart
  \/ \E r \in Requests : Phase1Schedule(r)
  \/ \E r \in Requests : Phase1Finish(r)
  \/ \E r \in Requests : Phase1Skip(r)
  \/ Phase1End
  \/ \E r \in Requests : Phase2Admit(r)
  \/ \E r \in Requests : Phase2Raise(r)
  \/ \E r \in Requests : Phase2HoldBack(r)
  \/ Phase2Blocked
  \/ ScheduleEnd

Step ==
  \/ Schedule /\ UNCHANGED <<aborts_queue, sampled, gpuVars>>
  \/ Execute
  \/ ExecuteRaises
  \/ ProcessAbortsQueue
  \/ Update
  \/ Condense

\* Ids are handed out in order of arrival.
NextId(r) == \A q \in Requests : status[q] = "NEW" => r <= q

Add ==
  /\ pc = "ready"
  /\ \E r \in Requests, prompt \in PromptLens, limit \in MaxTokens :
       NextId(r) /\ AddRequest(r, prompt, limit)
  /\ UNCHANGED <<req_to_slot, pc, scheduleVars, outputVars, freed, delivered,
                 aborts_queue, sampled, gpuVars>>

\* abort_request(id): another thread puts the id on aborts_queue at any time.
AbortLater(r) ==
  /\ status[r] \in {"WAITING", "RUNNING"}
  /\ aborts_queue' = aborts_queue \cup {r}
  /\ UNCHANGED <<schedulerVars, sampled, gpuVars>>

\* InprocClient.abort_requests: the caller aborts between two steps.
AbortNow(r) ==
  /\ pc = "ready"
  /\ r \in Unfinished
  /\ FinishRequests({r})
  /\ delivered' = [delivered EXCEPT ![r].finishes = @ + 1, ![r].reason = "abort"]
  /\ UNCHANGED <<req_to_slot, pc, scheduleVars, outputVars, freed, aborts_queue,
                 sampled, gpuVars>>

\* The engine with every abort going through aborts_queue.
Next == Add \/ (\E r \in Requests : AbortLater(r)) \/ Step

\* The engine inside LLM: InprocClient calls add, abort and step in turn.
InprocNext == Add \/ (\E r \in Requests : AbortNow(r)) \/ Step

Spec       == Init /\ [][Next]_vars
InprocSpec == Init /\ [][InprocNext]_vars

\* LLM.generate keeps stepping while there are requests.
FairInprocSpec == InprocSpec /\ WF_vars(Step)
-----------------------------------------------------------------------------
(***************************************************************************)
(* Properties                                                              *)
(***************************************************************************)
Statuses == {"NEW", "WAITING", "RUNNING", "FINISHED_STOPPED", "FINISHED_ABORTED"}

RunDatas ==
  [num_tokens : 1 .. MaxNumBatchedTokens, num_computed_tokens : 0 .. MaxModelLen,
   slot_index : Slot!Slots, is_decode : BOOLEAN, is_last_prefill : BOOLEAN]

TypeOK ==
  /\ status \in [Requests -> Statuses]
  /\ prompt_len \in [Requests -> PromptLens \cup {0}]
  /\ max_tokens \in [Requests -> MaxTokens \cup {0}]
  /\ num_computed_tokens \in [Requests -> 0 .. MaxModelLen - 1]
  /\ waiting \in Seq(Requests) /\ skipped_waiting \in Seq(Requests)
  /\ running \in SUBSET Requests
  /\ output_tokens \in [Requests -> Nat]
  /\ req_to_slot \in [Requests -> Slot!Slots \cup {Slot!NoSlot}]
  /\ pc \in {"ready", "phase1", "phase2", "raised", "execute", "failed", "aborts", "update",
             "condense"}
  /\ token_budget \in 0 .. MaxNumBatchedTokens
  /\ to_visit \in SUBSET running
  /\ partial_prefills \in Nat /\ step_skipped \in Seq(Requests)
  /\ \E S \in SUBSET Requests : request_data \in [S -> RunDatas]
  /\ finished_req_ids \in SUBSET Requests /\ freed \in SUBSET Requests
  /\ delivered \in [Requests -> [tokens : Nat, finishes : Nat,
                                 reason : {"none", "length", "eos", "abort"}]]
  /\ aborts_queue \in SUBSET Requests
  /\ \E S \in SUBSET Requests : sampled \in [S -> {"token", "eos"}]
  /\ state_of \in [Slot!Slots -> Requests \cup {Nobody, Mixed}]
  /\ last_token \in [Slot!Slots -> Requests \cup {Nobody, Mixed}]
  /\ min_prev_negative \in BOOLEAN
  /\ relocated \in SUBSET Requests

Ended == {r \in Requests : status[r] \in {"FINISHED_STOPPED", "FINISHED_ABORTED"}}

Occurrences(r, q) == Cardinality({i \in DOMAIN q : q[i] = r})

\* schedule() passes requests between three queues and the running list, and
\* aborts take them out of any of these: none is ever lost, duplicated or left
\* behind, wherever the step is.
OnePlace ==
  \A r \in Requests :
    LET queued == Occurrences(r, skipped_waiting) + Occurrences(r, waiting)
                    + Occurrences(r, step_skipped)
    IN  /\ queued = IF status[r] = "WAITING" THEN 1 ELSE 0
        /\ r \in running <=> status[r] = "RUNNING"

\* The slots in use are those of the running requests and of the requests this
\* step is about to free; between two steps none is held for a request that left.
\* phase 2 counts running requests against max_num_seqs and allocate counts slots:
\* freeing slots late never lets the two disagree, so allocate never raises.
SlotsFollowRunning ==
  /\ running \cup freed = Slot!Holders
  /\ running \cap freed = {}
  /\ pc = "ready" => freed = {}
  /\ pc # "raised"

\* A running request that has output has absorbed its prompt and all of its output
\* but the last token, which is what the next decode feeds; one without output is
\* still in its prompt.  Everything sampled was also delivered.
ProgressMatchesOutput ==
  pc = "ready" =>
    \A r \in running :
      /\ IF output_tokens[r] > 0
         THEN num_computed_tokens[r] = prompt_len[r] + output_tokens[r] - 1
         ELSE num_computed_tokens[r] < prompt_len[r]
      /\ delivered[r].tokens = output_tokens[r]

\* Outputs stop at the end: one final output, none for an aborted request once
\* the abort is processed, no token after it, and none beyond max_tokens.  The reason
\* is "length" only at a limit: max_tokens output tokens, a full context, or a prompt
\* that leaves no room for output (the token budget of a step, which is large enough
\* here for every running request, is not one).
OutputEnds ==
  \A r \in Requests :
    /\ delivered[r].finishes = IF status[r] = "FINISHED_STOPPED" THEN 1 ELSE 0
    /\ delivered[r].tokens <= max_tokens[r]
    /\ prompt_len[r] + delivered[r].tokens <= MaxModelLen
    /\ delivered[r].reason = "length" =>
         \/ delivered[r].tokens = max_tokens[r]
         \/ prompt_len[r] + delivered[r].tokens = MaxModelLen
         \/ prompt_len[r] + 1 >= MaxModelLen

\* Once a request has ended no later step changes what its client has seen, not
\* even the update of a batch that still contains it.
NothingAfterTheEnd ==
  [][\A r \in Ended : delivered'[r] = delivered[r] /\ status'[r] = status[r]]_vars

\* The in-process client aborts a running request outside a step, and its slot is
\* never given back.  That is the only way allocate can raise, and the request it
\* was called for is the only one lost.
RaiseMeansLeak ==
  pc = "raised" =>
    /\ Slot!Holders \cap Ended # {}
    /\ Cardinality({r \in Requests : status[r] = "RUNNING" /\ r \notin running}) = 1

TotalTokens(S) ==
  LET Sum[T \in SUBSET S] ==
        IF T = {} THEN 0
        ELSE LET r == CHOOSE r \in T : TRUE IN request_data[r].num_tokens + Sum[T \ {r}]
  IN Sum[S]

\* The batch fits the runner's static buffers, though two phases fill it from three
\* queues: max_num_batched_tokens tokens, one row per slot, no slot twice.  However
\* requests arrive, are skipped and come back, at most max_long_partial_prefills running
\* prompts still need more than one chunk.
StepLimits ==
  LET batch == DOMAIN request_data IN
  /\ TotalTokens(batch) + (IF pc \in {"phase1", "phase2"} THEN token_budget ELSE 0)
       <= MaxNumBatchedTokens
  /\ \A r, q \in batch : r # q => request_data[r].slot_index # request_data[q].slot_index
  /\ pc \in {"phase1", "phase2", "execute"} =>
       \A r \in batch : request_data[r].slot_index = req_to_slot[r]
  /\ MaxLongPartialPrefills > 0 =>
       Cardinality({r \in running : Remaining(r) > ChunkedPrefillThreshold})
         <= MaxLongPartialPrefills

\* Until batch_condense gives it another slot, a request computes on its own state
\* and its own last token, whoever used the slot before and whoever was aborted.
OwnStateUntilRelocated ==
  pc = "execute" =>
    \A r \in DOMAIN request_data \ relocated : ReadsOwnState(r)

\* ExecutorInterface.condense: "Each (src, dst) means move state data from src
\* position to dst position" - a request's state follows it to its new slot.
StateFollowsRequest ==
  pc = "execute" => \A r \in DOMAIN request_data : ReadsOwnState(r)

\* Every request the scheduler accepts ends, without any client's help, unless the
\* step raises (allocate, or the runner: a relocated request may read a slot that was
\* never sampled for).
EveryRequestEnds ==
  \A r \in Requests : status[r] = "WAITING" ~> r \in Ended \/ pc \in {"raised", "failed"}
=============================================================================

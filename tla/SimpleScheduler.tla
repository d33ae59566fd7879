--------------------------- MODULE SimpleScheduler ---------------------------
(***************************************************************************)
(* vkwr/scheduler/scheduler.py: SimpleScheduler, with the queues of         *)
(* request_queue.py and the slots of SlotMap.  schedule() is split where   *)
(* its loops turn: one action for one request visited in phase 1, one for  *)
(* one turn of the phase 2 loop.  No other thread touches this state, so   *)
(* the split adds no behaviour; it only names what each turn does.         *)
(*                                                                         *)
(* Module EngineCore drives these actions; the properties are there and    *)
(* at the end of this module.  Tokens are counted, their values are not    *)
(* modelled, except whether a sampled token is the end-of-sequence token.  *)
(***************************************************************************)
EXTENDS Integers, Sequences, FiniteSets

CONSTANTS
  Requests,                 \* internal request ids, numbered in order of arrival
  MaxNumSeqs, MaxNumBatchedTokens, ChunkedPrefillThreshold,     \* SchedulerConfig
  MaxNumPartialPrefills, MaxLongPartialPrefills,
  Policy,                   \* SchedulerConfig.scheduling_policy
  Priority,                 \* VkwrRequest.priority, by id; a lower value goes first
  MaxModelLen,              \* ModelConfig.max_model_len
  PromptLens, MaxTokens     \* what clients may ask for

\* VkwrConfig's validation, and what InputProcessor lets through: prompts are
\* truncated to max_model_len, max_tokens is at least 1.
ASSUME SchedulerAssumption ==
  /\ Requests \subseteq Nat
  /\ MaxNumSeqs \in Nat \ {0}
  /\ MaxNumBatchedTokens \in Nat /\ MaxNumBatchedTokens >= MaxNumSeqs
  /\ ChunkedPrefillThreshold \in Nat \ {0}
  /\ MaxNumPartialPrefills \in Nat /\ MaxLongPartialPrefills \in Nat
  /\ Policy \in {"fcfs", "priority"} /\ Priority \in [Requests -> Int]
  /\ MaxModelLen \in Nat \ {0, 1}
  /\ PromptLens \subseteq 1 .. MaxModelLen
  /\ MaxTokens \subseteq Nat \ {0}

VARIABLES
  status, prompt_len, max_tokens, num_computed_tokens,    \* VkwrRequest, by id
  waiting, skipped_waiting,         \* the two queues, in the order they are popped
  running,                          \* running and _running_map
  output_tokens,                    \* lengths of running_output_tokens
  req_to_slot,                      \* the slot manager
  pc,                               \* where the engine step is
  token_budget, to_visit, partial_prefills, step_skipped,       \* schedule's locals
  request_data, finished_req_ids,   \* SchedulerOutput
  freed,                            \* requests whose slots this step gives back
  delivered                         \* outputs sent so far, by request

requestVars  == <<status, prompt_len, max_tokens, num_computed_tokens>>
queueVars    == <<waiting, skipped_waiting, running, output_tokens>>
scheduleVars == <<token_budget, to_visit, partial_prefills, step_skipped>>
outputVars   == <<request_data, finished_req_ids>>
schedulerVars == <<requestVars, queueVars, req_to_slot, pc, scheduleVars,
                   outputVars, freed, delivered>>

Slot == INSTANCE SlotMap WITH MaxSlots <- MaxNumSeqs

NoRequests == [r \in {} |-> 0]
Elements(q) == {q[i] : i \in DOMAIN q}
Without(q, ids) ==
  LET kept[n \in 0 .. Len(q)] ==
        IF n = 0 THEN <<>>
        ELSE IF q[n] \in ids THEN kept[n - 1] ELSE Append(kept[n - 1], q[n])
  IN  kept[Len(q)]
MinOf(S) == CHOOSE x \in S : \A y \in S : x <= y
With(f, x, v) == [y \in DOMAIN f \cup {x} |-> IF y = x THEN v ELSE f[y]]

\* VkwrRequest.__lt__: by priority, then by arrival.
Precedes(r, q) ==
  \/ Priority[r] < Priority[q]
  \/ Priority[r] = Priority[q] /\ r < q

\* What a queue is popped in: an FCFS queue is a deque, a PriorityRequestQueue a heap,
\* where adding and prepending are the same.
Sorted(S) ==
  CHOOSE q \in [1 .. Cardinality(S) -> S] :
    \A i, j \in DOMAIN q : i < j => Precedes(q[i], q[j])

Queue(q) == IF Policy = "fcfs" THEN q ELSE Sorted(Elements(q))

SchedulerInit ==
  /\ status = [r \in Requests |-> "NEW"]
  /\ prompt_len = [r \in Requests |-> 0]
  /\ max_tokens = [r \in Requests |-> 0]
  /\ num_computed_tokens = [r \in Requests |-> 0]
  /\ waiting = <<>> /\ skipped_waiting = <<>>
  /\ running = {}
  /\ output_tokens = [r \in Requests |-> 0]
  /\ Slot!Init
  /\ pc = "ready"
  /\ token_budget = 0 /\ to_visit = {} /\ partial_prefills = 0 /\ step_skipped = <<>>
  /\ request_data = NoRequests /\ finished_req_ids = {}
  /\ freed = {}
  /\ delivered = [r \in Requests |-> [tokens |-> 0, finishes |-> 0, reason |-> "none"]]
-----------------------------------------------------------------------------
(***************************************************************************)
(* add_request, has_requests and finish_requests.                          *)
(***************************************************************************)
AddRequest(r, prompt, limit) ==
  /\ status[r] = "NEW"
  /\ status' = [status EXCEPT ![r] = "WAITING"]
  /\ prompt_len' = [prompt_len EXCEPT ![r] = prompt]
  /\ max_tokens' = [max_tokens EXCEPT ![r] = limit]
  /\ waiting' = Queue(Append(waiting, r))
  /\ UNCHANGED <<num_computed_tokens, skipped_waiting, running, output_tokens>>

\* Mutant of HasRequests: the queues are forgotten.
HasRequestsRunning == running # {}

HasRequests == waiting # <<>> \/ skipped_waiting # <<>> \/ running # {}

Unfinished == running \cup Elements(waiting) \cup Elements(skipped_waiting)

\* Mutant of FinishRequests: the request stays in the running list.
FinishRequestsKeepsRunning(ids) ==
  /\ status' = [r \in Requests |->
                  IF r \in ids \cap Unfinished THEN "FINISHED_ABORTED" ELSE status[r]]
  /\ waiting' = Without(waiting, ids)
  /\ skipped_waiting' = Without(skipped_waiting, ids)
  /\ UNCHANGED <<running, output_tokens, prompt_len, max_tokens, num_computed_tokens>>

\* The slots are not given back here: the engine frees them with the next step.
FinishRequests(ids) ==
  /\ status' = [r \in Requests |->
                  IF r \in ids \cap Unfinished THEN "FINISHED_ABORTED" ELSE status[r]]
  /\ running' = running \ ids
  /\ waiting' = Without(waiting, ids)
  /\ skipped_waiting' = Without(skipped_waiting, ids)
  /\ output_tokens' = [r \in Requests |->
                         IF r \in ids \cap running THEN 0 ELSE output_tokens[r]]
  /\ UNCHANGED <<prompt_len, max_tokens, num_computed_tokens>>
-----------------------------------------------------------------------------
(***************************************************************************)
(* schedule(), phase 1: the running requests in slot order.                *)
(***************************************************************************)
IsDecode(r)  == num_computed_tokens[r] >= prompt_len[r]
Remaining(r) == prompt_len[r] - num_computed_tokens[r]

NumNew(r) == MinOf({ IF IsDecode(r) THEN 1 ELSE Remaining(r),
                     ChunkedPrefillThreshold,
                     token_budget,
                     MaxModelLen - 1 - num_computed_tokens[r] })

\* Mutant of IsLastPrefill: off by one.
IsLastPrefillLate(r, n) == ~IsDecode(r) /\ n > Remaining(r)

IsLastPrefill(r, n) == ~IsDecode(r) /\ n >= Remaining(r)

\* A full prompt leaves no room for an output token.
PromptFillsModel(r) == IsLastPrefill(r, NumNew(r)) /\ prompt_len[r] + 1 >= MaxModelLen

\* Mutant of ShouldFinish: one token late.
ShouldFinishLate(r) == IsDecode(r) /\ output_tokens[r] > max_tokens[r]

ShouldFinish(r) == IsDecode(r) /\ output_tokens[r] >= max_tokens[r]

RunData(r, slot) ==
  LET n == NumNew(r) IN
  [num_tokens |-> n, num_computed_tokens |-> num_computed_tokens[r], slot_index |-> slot,
   is_decode |-> IsDecode(r), is_last_prefill |-> IsLastPrefill(r, n)]

ScheduleStart ==
  /\ pc = "ready" /\ HasRequests
  /\ pc' = "phase1"
  /\ token_budget' = MaxNumBatchedTokens
  /\ to_visit' = running
  /\ partial_prefills' = 0 /\ step_skipped' = <<>>
  /\ request_data' = NoRequests /\ finished_req_ids' = {}
  /\ UNCHANGED <<requestVars, queueVars, req_to_slot, freed, delivered>>

Phase1Visit(r) ==
  /\ pc = "phase1" /\ r \in to_visit
  /\ \A q \in to_visit : req_to_slot[r] <= req_to_slot[q]
  /\ to_visit' = to_visit \ {r}
  /\ UNCHANGED <<requestVars, queueVars, req_to_slot, pc, partial_prefills, step_skipped,
                 freed, delivered>>

Phase1Schedule(r) ==
  /\ Phase1Visit(r)
  /\ NumNew(r) > 0 /\ ~ShouldFinish(r) /\ ~PromptFillsModel(r)
  /\ request_data' = With(request_data, r, RunData(r, req_to_slot[r]))
  /\ token_budget' = token_budget - NumNew(r)
  /\ UNCHANGED finished_req_ids

Phase1Finish(r) ==
  /\ Phase1Visit(r)
  /\ IF NumNew(r) <= 0 THEN IsDecode(r) ELSE ShouldFinish(r) \/ PromptFillsModel(r)
  /\ finished_req_ids' = finished_req_ids \cup {r}
  /\ UNCHANGED <<request_data, token_budget>>

Phase1Skip(r) ==
  /\ Phase1Visit(r)
  /\ NumNew(r) <= 0 /\ ~IsDecode(r)
  /\ UNCHANGED <<request_data, token_budget, finished_req_ids>>

\* Mutant of Phase1End: requests that wait count as partial prefills too.
Phase1EndCountsWaiting ==
  /\ pc = "phase1" /\ to_visit = {}
  /\ pc' = "phase2"
  /\ partial_prefills' =
       Cardinality({r \in Unfinished : Remaining(r) > ChunkedPrefillThreshold})
  /\ UNCHANGED <<requestVars, queueVars, req_to_slot, token_budget, to_visit,
                 step_skipped, outputVars, freed, delivered>>

\* Nobody is both scheduled and finished, so nothing is removed from the batch.
Phase1End ==
  /\ pc = "phase1" /\ to_visit = {}
  /\ pc' = "phase2"
  /\ partial_prefills' =
       Cardinality({r \in running : Remaining(r) > ChunkedPrefillThreshold})
  /\ UNCHANGED <<requestVars, queueVars, req_to_slot, token_budget, to_visit,
                 step_skipped, outputVars, freed, delivered>>
-----------------------------------------------------------------------------
(***************************************************************************)
(* schedule(), phase 2: admit from skipped_waiting, then from waiting.     *)
(***************************************************************************)
\* Mutant of LimitReached: off by one.
LimitExceeded(r) ==
  LET limit == IF Remaining(r) > ChunkedPrefillThreshold
               THEN MaxLongPartialPrefills ELSE MaxNumPartialPrefills
  IN  limit > 0 /\ partial_prefills > limit

LimitReached(r) ==
  LET limit == IF Remaining(r) > ChunkedPrefillThreshold
               THEN MaxLongPartialPrefills ELSE MaxNumPartialPrefills
  IN  limit > 0 /\ partial_prefills >= limit

HeadBlocked(r) ==
  ~IsDecode(r) /\ Remaining(r) > ChunkedPrefillThreshold /\ LimitReached(r)

Eligible(q) == q # <<>> /\ ~HeadBlocked(Head(q))

\* Mutant of Phase2Open: one request more than there are slots.
Phase2OpenTooLong ==
  /\ pc = "phase2"
  /\ waiting # <<>> \/ skipped_waiting # <<>>
  /\ token_budget > 0
  /\ Cardinality(running) <= MaxNumSeqs

Phase2Open ==
  /\ pc = "phase2"
  /\ waiting # <<>> \/ skipped_waiting # <<>>
  /\ token_budget > 0
  /\ Cardinality(running) < MaxNumSeqs

Phase2Pop(r) ==
  /\ Phase2Open
  /\ \/ /\ Eligible(skipped_waiting) /\ r = Head(skipped_waiting)
        /\ skipped_waiting' = Tail(skipped_waiting)
        /\ UNCHANGED waiting
     \/ /\ ~Eligible(skipped_waiting)
        /\ Eligible(waiting) /\ r = Head(waiting)
        /\ waiting' = Tail(waiting)
        /\ UNCHANGED skipped_waiting
  /\ UNCHANGED <<prompt_len, max_tokens, num_computed_tokens, to_visit,
                 finished_req_ids, freed, delivered>>

\* The request popped is not taken after all: only the budget makes it partial.
HeldBack(r) ==
  \/ NumNew(r) <= 0
  \/ ~IsDecode(r) /\ ~IsLastPrefill(r, NumNew(r)) /\ LimitReached(r)

Phase2Admit(r) ==
  /\ Phase2Pop(r) /\ ~HeldBack(r)
  /\ Slot!Allocate(r)
  /\ status' = [status EXCEPT ![r] = "RUNNING"]
  /\ running' = running \cup {r}
  /\ output_tokens' = [output_tokens EXCEPT ![r] = 0]
  /\ partial_prefills' = IF IsDecode(r) \/ IsLastPrefill(r, NumNew(r))
                         THEN partial_prefills ELSE partial_prefills + 1
  /\ request_data' = With(request_data, r, RunData(r, req_to_slot'[r]))
  /\ token_budget' = token_budget - NumNew(r)
  /\ UNCHANGED <<pc, step_skipped>>

\* allocate raises RuntimeError; the request has already left its queue.
Phase2Raise(r) ==
  /\ Phase2Pop(r) /\ ~HeldBack(r)
  /\ Slot!Used = Slot!Slots
  /\ status' = [status EXCEPT ![r] = "RUNNING"]
  /\ pc' = "raised"
  /\ UNCHANGED <<running, output_tokens, req_to_slot, token_budget, partial_prefills,
                 step_skipped, request_data>>

\* step_skipped is kept in the order of skipping; an FCFS queue's prepend_request and
\* extendleft reverse it twice.
Phase2HoldBack(r) ==
  /\ Phase2Pop(r) /\ HeldBack(r)
  /\ step_skipped' = Append(step_skipped, r)
  /\ UNCHANGED <<status, running, output_tokens, req_to_slot, pc, token_budget,
                 partial_prefills, request_data>>

\* Mutant of FirstOf: a blocked head is popped and forgotten.
FirstOfLost(q) == <<>>

FirstOf(q) == IF q = <<>> THEN <<>> ELSE <<Head(q)>>
RestOf(q)  == IF q = <<>> THEN <<>> ELSE Tail(q)

\* No head may go: one request of each queue is put aside.
Phase2Blocked ==
  /\ Phase2Open
  /\ ~Eligible(skipped_waiting) /\ ~Eligible(waiting)
  /\ step_skipped' = step_skipped \o FirstOf(skipped_waiting) \o FirstOf(waiting)
  /\ skipped_waiting' = RestOf(skipped_waiting)
  /\ waiting' = RestOf(waiting)
  /\ UNCHANGED <<requestVars, running, output_tokens, req_to_slot, pc, token_budget,
                 to_visit, partial_prefills, outputVars, freed, delivered>>

\* Nothing scheduled and nothing finished: step() returns at once.
ScheduleEnd ==
  /\ pc = "phase2" /\ ~Phase2Open
  /\ skipped_waiting' = Queue(step_skipped \o skipped_waiting)
  /\ step_skipped' = <<>>
  /\ num_computed_tokens' =
       [r \in Requests |-> IF r \in DOMAIN request_data
                           THEN num_computed_tokens[r] + request_data[r].num_tokens
                           ELSE num_computed_tokens[r]]
  /\ pc' = IF DOMAIN request_data # {} THEN "execute"
           ELSE IF finished_req_ids # {} THEN "aborts" ELSE "ready"
  /\ UNCHANGED <<status, prompt_len, max_tokens, waiting, running, output_tokens,
                 req_to_slot, token_budget, to_visit, partial_prefills, outputVars,
                 freed, delivered>>
-----------------------------------------------------------------------------
(***************************************************************************)
(* update_from_output.  sampled gives the token of every request that was  *)
(* sampled for: "eos", or "token" for any other.  Everyone running holds a *)
(* slot, so every request that finishes gives one back.                    *)
(***************************************************************************)
UpdateFromOutput(sampled) ==
  LET live     == DOMAIN sampled \cap running
      finished == (finished_req_ids \cup {r \in live : sampled[r] = "eos"}) \cap running
      New(r)   == IF r \in live THEN 1 ELSE 0
      Reason(r) == IF r \in finished_req_ids THEN "length" ELSE "eos"
  IN
  /\ pc = "update" /\ pc' = "condense"
  /\ status' = [r \in Requests |-> IF r \in finished THEN "FINISHED_STOPPED" ELSE status[r]]
  /\ running' = running \ finished
  /\ output_tokens' = [r \in Requests |->
                         IF r \in finished THEN 0 ELSE output_tokens[r] + New(r)]
  /\ freed' = freed \cup finished
  /\ delivered' = [r \in Requests |->
       IF r \in finished
       THEN [tokens   |-> delivered[r].tokens + New(r),
             finishes |-> delivered[r].finishes + 1,
             reason   |-> Reason(r)]
       ELSE [delivered[r] EXCEPT !.tokens = @ + New(r)]]
  /\ UNCHANGED <<prompt_len, max_tokens, num_computed_tokens, waiting, skipped_waiting,
                 req_to_slot, scheduleVars, outputVars>>
=============================================================================

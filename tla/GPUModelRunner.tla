--------------------------- MODULE GPUModelRunner ---------------------------
(***************************************************************************)
(* vkwr/worker/gpu_model_runner.py, with its CUDAGraphManager and          *)
(* GPUWorker: start-up (load, capture a graph per size), then batches.  A  *)
(* batch of prefill chunks, or mixed, runs eagerly; a batch of decodes     *)
(* alone replays the next larger graph, its extra rows on borrowed slots,  *)
(* or runs eagerly if there is none or not enough slots are free.          *)
(*                                                                         *)
(* Token k of request r is <<r, k>>.  A recurrent state is the request and *)
(* the number of its tokens absorbed, in order and without a gap, or       *)
(* Garbage.  The scheduler is the environment: any batch its SchedulerOutput *)
(* may hold, over requests that keep their slots.                          *)
(***************************************************************************)
EXTENDS VkwrConfig

CONSTANTS
  Requests, PromptLens,
  MaxOutput      \* bound: tokens sampled for one request

\* Request 0 is none; prompts have a token at least, and a greatest length.
ASSUME RunnerAssumption ==
  /\ Requests \subseteq Nat \ {0} /\ MaxOutput \in Nat
  /\ Max(PromptLens) \in Nat \ {0} /\ \A n \in PromptLens : n \in 1 .. Max(PromptLens)

VARIABLES
  args, pc,
  to_capture,       \* shapes not captured yet, the next one last
  entries,          \* CUDAGraphManager._entries: sizes that have a graph
  req,              \* the scheduler's requests: slot, prompt length, tokens computed, output
  free_slots,       \* StateSlotManager, outside execute_model
  batch,            \* scheduled_req_ids with their run data
  rows,             \* what the forward pass reads: per row a slot and a run of tokens
  state,            \* slot -> _state_shift, _state_wkv, _state_elapsed
  last_token,       \* slot -> _last_sampled_token
  min_prev_negative,\* _decode_tokens_min_prev < 0
  uniform_slots,    \* _uniform_slot_indices
  uniform_tokens    \* _uniform_tokens

bufferVars == <<uniform_slots, uniform_tokens>>
gpuVars == <<state, last_token, min_prev_negative, bufferVars>>
vars == <<args, pc, to_capture, entries, req, free_slots, batch, rows, gpuVars>>

Slots == 0 .. args.max_num_seqs - 1
Garbage == [of |-> 0, n |-> 0]
Zero    == [of |-> 0, n |-> -1]
Unsampled == <<0, -1>>
Dummy     == <<0, 1>>
NotYet == [live |-> FALSE, slot |-> 0, prompt |-> 0, computed |-> 0, output |-> 0, done |-> FALSE]

Init ==
  /\ args \in Args
  /\ pc = "args"
  /\ to_capture = <<>> /\ entries = {}
  /\ req = [r \in Requests |-> NotYet]
  /\ free_slots = {} /\ batch = <<>> /\ rows = <<>>
  /\ state = <<>> /\ last_token = <<>> /\ min_prev_negative = FALSE
  /\ uniform_slots = <<>> /\ uniform_tokens = <<>>
-----------------------------------------------------------------------------
(***************************************************************************)
(* Start-up: EngineArgs, then EngineCore.initialize.                       *)
(***************************************************************************)
Reject ==
  /\ pc = "args" /\ Rejected(args)
  /\ pc' = "rejected"
  /\ UNCHANGED <<args, to_capture, entries, req, free_slots, batch, rows, gpuVars>>

LoadModel ==
  /\ pc = "args" /\ ~Rejected(args)
  /\ pc' = "capture"
  /\ to_capture' = CaptureShapes(args)
  /\ free_slots' = Slots
  /\ state' = [s \in Slots |-> Zero]
  /\ last_token' = [s \in Slots |-> Unsampled]
  /\ uniform_slots' = [s \in Slots |-> 0]
  /\ uniform_tokens' = [s \in Slots |-> Dummy]
  /\ UNCHANGED <<args, entries, req, batch, rows, min_prev_negative>>

\* CUDAGraphManager._capture_for_shape: a warm-up and the capture, both of which run the
\* forward pass on the slots in the buffer.
Capture(size) ==
  /\ entries' = entries \cup {size}
  /\ state' = [s \in Slots |-> IF s < size THEN Garbage ELSE state[s]]

\* Mutant of CaptureForShape: rows past the buffers are captured, too.
CaptureForShapeUnchecked ==
  /\ pc = "capture" /\ to_capture # <<>>
  /\ LET size == Last(to_capture) IN
       /\ uniform_slots' = [i \in Slots |-> IF i < size THEN i ELSE uniform_slots[i]]
       /\ Capture(size)
  /\ to_capture' = Front(to_capture)
  /\ UNCHANGED <<args, pc, req, free_slots, batch, rows, last_token, min_prev_negative,
                 uniform_tokens>>

\* The buffers hold max_num_seqs rows; row i is captured on slot i.
CaptureForShape ==
  /\ pc = "capture" /\ to_capture # <<>>
  /\ LET size == Last(to_capture) IN
       /\ size \in 1 .. args.max_num_seqs
       /\ uniform_slots' = [i \in Slots |-> IF i < size THEN i ELSE uniform_slots[i]]
       /\ Capture(size)
  /\ to_capture' = Front(to_capture)
  /\ UNCHANGED <<args, pc, req, free_slots, batch, rows, last_token, min_prev_negative,
                 uniform_tokens>>

CaptureRaises ==
  /\ pc = "capture" /\ to_capture # <<>>
  /\ Last(to_capture) \notin 1 .. args.max_num_seqs
  /\ pc' = "no start"
  /\ UNCHANGED <<args, to_capture, entries, req, free_slots, batch, rows, gpuVars>>

CaptureEnd ==
  /\ pc = "capture" /\ to_capture = <<>>
  /\ pc' = "ready"
  /\ UNCHANGED <<args, to_capture, entries, req, free_slots, batch, rows, gpuVars>>
-----------------------------------------------------------------------------
(***************************************************************************)
(* The scheduler's side.                                                   *)
(***************************************************************************)
Admit(r) ==
  /\ pc = "ready" /\ free_slots # {} /\ ~req[r].live /\ ~req[r].done
  /\ \A q \in Requests : ~req[q].live /\ ~req[q].done => r <= q
  /\ \E prompt \in PromptLens :
       req' = [req EXCEPT ![r] = [NotYet EXCEPT !.live = TRUE, !.slot = Min(free_slots),
                                                !.prompt = prompt]]
  /\ free_slots' = free_slots \ {Min(free_slots)}
  /\ UNCHANGED <<args, pc, to_capture, entries, batch, rows, gpuVars>>

Finish(r) ==
  /\ pc = "ready" /\ req[r].live
  /\ req' = [req EXCEPT ![r].live = FALSE, ![r].done = TRUE]
  /\ free_slots' = free_slots \cup {req[r].slot}
  /\ UNCHANGED <<args, pc, to_capture, entries, batch, rows, gpuVars>>

IsDecode(r) == req[r].computed >= req[r].prompt

\* One token for a decode, a chunk of what is left for a prompt.
RunData(r, num) ==
  [req |-> r, slot |-> req[r].slot, first |-> req[r].computed + 1,
   last |-> req[r].computed + num, is_decode |-> IsDecode(r),
   samples |-> IsDecode(r) \/ req[r].computed + num >= req[r].prompt]

Nums(r) == IF IsDecode(r) THEN {1} ELSE 1 .. req[r].prompt - req[r].computed

Schedule ==
  /\ pc = "ready"
  /\ \E S \in SUBSET {r \in Requests : req[r].live /\ req[r].output < MaxOutput} :
       /\ S # {}
       /\ \E order \in SetToSeqs(S), num \in [S -> 1 .. Max(PromptLens)] :
            /\ \A r \in S : num[r] \in Nums(r)
            /\ batch' = [i \in DOMAIN order |-> RunData(order[i], num[order[i]])]
  /\ pc' = "execute"
  /\ UNCHANGED <<args, to_capture, entries, req, free_slots, rows, gpuVars>>
-----------------------------------------------------------------------------
(***************************************************************************)
(* execute_model.                                                          *)
(***************************************************************************)
B == Len(batch)
IsUniformDecode == \A i \in 1 .. B : batch[i].is_decode

\* A run of tokens on a state: Garbage unless it continues what the state has absorbed.
Run(token) == [req |-> token[1], first |-> token[2], last |-> token[2]]
Absorb(s, run) ==
  IF /\ run.req # 0
     /\ s = IF run.first = 1 THEN Zero ELSE [of |-> run.req, n |-> run.first - 1]
  THEN [of |-> run.req, n |-> run.last] ELSE Garbage

RowsOn(theRows, s) == {i \in DOMAIN theRows : theRows[i].slot = s}

\* The forward pass updates the states its rows name; two rows on one state race.
Forward(theRows, from) ==
  /\ rows' = theRows
  /\ state' = [s \in Slots |->
       IF RowsOn(theRows, s) = {} THEN from[s]
       ELSE IF Cardinality(RowsOn(theRows, s)) > 1 THEN Garbage
       ELSE Absorb(from[s], theRows[CHOOSE i \in RowsOn(theRows, s) : TRUE].run)]

FirstChunk(d) == ~d.is_decode /\ d.first = 1

\* _execute_eager: new requests' slots are zeroed; a decode reads its slot's last token.
ExecuteEager ==
  /\ pc = "execute" /\ ~IsUniformDecode /\ pc' = "sample"
  /\ LET zeroed == [s \in Slots |->
              IF \E i \in 1 .. B : batch[i].slot = s /\ FirstChunk(batch[i]) THEN Zero ELSE state[s]]
         row(d) == [slot |-> d.slot,
                    run |-> IF d.is_decode THEN Run(last_token[d.slot])
                            ELSE [req |-> d.req, first |-> d.first, last |-> d.last]]
     IN  Forward([i \in 1 .. B |-> row(batch[i])], zeroed)
  /\ UNCHANGED <<args, to_capture, entries, req, free_slots, batch, last_token,
                 min_prev_negative, bufferVars>>

DecodeToken(i) == last_token[batch[i].slot]

\* The check for a slot never sampled for looks at the batch before this one; it raises
\* when that had one, and the engine's step fails.
CheckTokens ==
  /\ ~min_prev_negative
  /\ min_prev_negative' = \E i \in 1 .. B : DecodeToken(i) = Unsampled

\* get_graph_with_padding: the smallest captured size that holds the batch; 0 for none.
PaddedSize(n) == Min({s \in entries \cup {args.max_num_seqs + 1} : s >= n})
Padded == IF PaddedSize(B) > args.max_num_seqs THEN 0 ELSE PaddedSize(B)
CanPad == Padded - B <= Cardinality(free_slots)

ExecuteDecodeEager ==
  /\ pc = "execute" /\ IsUniformDecode /\ pc' = "sample"
  /\ Padded = 0 \/ ~CanPad
  /\ CheckTokens
  /\ Forward([i \in 1 .. B |-> [slot |-> batch[i].slot, run |-> Run(DecodeToken(i))]], state)
  /\ UNCHANGED <<args, to_capture, entries, req, free_slots, batch, last_token, bufferVars>>

\* reserve_pad_slots: the lowest free slots; they come back before the step ends.
PadSlots == SubSeq(Sorted(free_slots), 1, Padded - B)

\* Mutant of FillBuffers: without padding the slot indices of the last replay are kept.
FillBuffersStale ==
  /\ uniform_slots' = [i \in Slots |-> IF i >= Padded \/ Padded = B THEN uniform_slots[i]
                                       ELSE IF i < B THEN batch[i + 1].slot
                                       ELSE PadSlots[i + 1 - B]]
  /\ uniform_tokens' = [i \in Slots |-> IF i >= Padded THEN uniform_tokens[i]
                                        ELSE IF i < B THEN DecodeToken(i + 1) ELSE Dummy]

FillBuffers ==
  /\ uniform_slots' = [i \in Slots |-> IF i >= Padded THEN uniform_slots[i]
                                       ELSE IF i < B THEN batch[i + 1].slot
                                       ELSE PadSlots[i + 1 - B]]
  /\ uniform_tokens' = [i \in Slots |-> IF i >= Padded THEN uniform_tokens[i]
                                        ELSE IF i < B THEN DecodeToken(i + 1) ELSE Dummy]

\* _prepare_padding_slots and _cleanup_dummy_slots: a slot indexed by a tensor is a copy,
\* and it is the copy that is zeroed.  So the dummy rows compute on, and leave behind,
\* whatever is in their slots.
ZeroedPads(from) == from

\* CUDAGraphManager.replay: the graph reads slots and tokens from the buffers.
Replay(from) ==
  Forward([i \in 1 .. Padded |-> [slot |-> uniform_slots'[i - 1],
                                  run |-> Run(uniform_tokens'[i - 1])]], from)

ReplayGraph ==
  /\ pc = "execute" /\ IsUniformDecode /\ pc' = "sample"
  /\ Padded > 0 /\ CanPad
  /\ CheckTokens
  /\ FillBuffers
  /\ Replay(ZeroedPads(state))
  /\ UNCHANGED <<args, to_capture, entries, req, free_slots, batch, last_token>>
-----------------------------------------------------------------------------
(***************************************************************************)
(* sample_tokens, and the scheduler's account of the step.                 *)
(***************************************************************************)
\* The rows that sample for slot s: not those of a prompt that goes on.
Sampling(s) == {i \in 1 .. B : batch[i].samples /\ batch[i].slot = s}

\* The token that follows what row i has computed on.
SampledFor(i) == LET s == state[rows[i].slot] IN <<s.of, s.n + 1>>

\* _last_sampled_token[: n] when the slots are 0 .. n-1 in order, else by index: the same.
SampleTokens ==
  /\ pc = "sample" /\ pc' = "ready"
  /\ last_token' = [s \in Slots |-> IF Sampling(s) = {} THEN last_token[s]
                                    ELSE SampledFor(CHOOSE i \in Sampling(s) : TRUE)]
  /\ req' = [r \in Requests |->
       IF \E i \in 1 .. B : batch[i].req = r
       THEN LET d == batch[CHOOSE i \in 1 .. B : batch[i].req = r] IN
            [req[r] EXCEPT !.computed = d.last,
                           !.output = @ + (IF d.samples THEN 1 ELSE 0)]
       ELSE req[r]]
  /\ batch' = <<>> /\ rows' = <<>>
  /\ UNCHANGED <<args, to_capture, entries, free_slots, state, min_prev_negative, bufferVars>>

Shutdown ==
  /\ pc = "ready" /\ pc' = "down"
  /\ entries' = {} /\ state' = <<>> /\ last_token' = <<>> /\ min_prev_negative' = FALSE
  /\ uniform_slots' = <<>> /\ uniform_tokens' = <<>>
  /\ UNCHANGED <<args, to_capture, req, free_slots, batch, rows>>

Next ==
  \/ Reject \/ LoadModel \/ CaptureForShape \/ CaptureRaises \/ CaptureEnd
  \/ \E r \in Requests : Admit(r) \/ Finish(r)
  \/ Schedule
  \/ ExecuteEager \/ ExecuteDecodeEager \/ ReplayGraph
  \/ SampleTokens
  \/ Shutdown

Spec == Init /\ [][Next]_vars
-----------------------------------------------------------------------------
(***************************************************************************)
(* Properties                                                              *)
(***************************************************************************)
Live == {r \in Requests : req[r].live}
Tokens == (Requests \X (1 .. Max(PromptLens) + MaxOutput)) \cup {Dummy, Unsampled}
States == [of : Requests \cup {0}, n : -1 .. Max(PromptLens) + MaxOutput]

RunnerTypeOK ==
  /\ pc \in {"args", "rejected", "capture", "no start", "ready", "execute", "sample", "down"}
  /\ entries \in SUBSET (1 .. args.max_num_seqs)
  /\ free_slots \in SUBSET Slots
  /\ pc \in {"ready", "execute", "sample"} =>
       /\ state \in [Slots -> States]
       /\ last_token \in [Slots -> Tokens]
       /\ uniform_slots \in [Slots -> Slots] /\ uniform_tokens \in [Slots -> Tokens]
       /\ free_slots = Slots \ {req[r].slot : r \in Live}

\* Whatever was batched with it, on whichever path and padded however, a request's slot
\* holds the state after exactly its own tokens, and once its prompt is done the token
\* that follows them; a new request inherits nothing from the slot's earlier users,
\* and no decode finds a slot that was never sampled for.
OwnTokensOnly ==
  /\ ~min_prev_negative
  /\ pc = "ready" => \A r \in Live :
      /\ req[r].computed > 0 => state[req[r].slot] = [of |-> r, n |-> req[r].computed]
      /\ req[r].output > 0 => last_token[req[r].slot] = <<r, req[r].computed + 1>>

\* A configuration that neither names capture sizes nor asks for eager mode starts.
DefaultsStart ==
  pc = "no start" => args.named \/ args.enforce_eager
=============================================================================

---------------------------- MODULE RWKV7Forward ----------------------------
(***************************************************************************)
(* RWKV7.forward (vkwr/model_executor/models/rwkv7_varlen_v2x.py) with its *)
(* time mix, channel mix and choice of paths: one pass over a batch of     *)
(* chunks, laid end to end, whose requests keep their states in slots.     *)
(*                                                                         *)
(* What is computed is abstracted to where it comes from.  The value       *)
(* [of |-> r, n |-> k], in a row or in a slot, is the one that request r   *)
(* computed alone would have at that place after its token k.  n = 0 is a  *)
(* wrong value that depends on r's tokens only; Foreign mixes requests.    *)
(* Kernels run one after the other; the threads of one kernel run at once. *)
(***************************************************************************)
EXTENDS Integers, Sequences, SequencesExt, FiniteSets, FiniteSetsExt

CONSTANTS
  Requests, Slots,
  Configs,        \* WeightConfig, RWKV7InferenceConfig and the checkpoint's width
  L,              \* layers
  InRowsT, OutRowsT, NofcMaxRows, Row20, Row20MaxT,   \* LowrankConfig, CmixThresholds
  MaxTokens       \* bound: tokens of one request

\* What the two classes check of a configuration, and LowrankConfig's order, without which
\* time mix leaves the value residual out.
ASSUME ForwardAssumption ==
  /\ IsFiniteSet(Requests) /\ Requests \subseteq Nat \ {0} /\ Slots \subseteq Nat
  /\ L \in Nat \ {0} /\ MaxTokens \in Nat
  /\ InRowsT \in Nat /\ OutRowsT \in Nat /\ OutRowsT <= InRowsT
  /\ \A c \in Configs :
       /\ c.orig_linear_groups \subseteq {"att_c2c", "ffn_key", "head"}
       /\ c.lowrank_weight \in {"orig", "transpose", "both"}
       /\ c.cmix_sparse \in {"auto", "no-fc", "off"}
       /\ c.rkv_mode \in {"auto", "on", "off"}

VARIABLES
  cfg,
  weights,        \* the tensors in z: name and layout
  pc, layer,
  req,            \* the scheduler's requests: live, slot, tokens computed
  batch,          \* per request of the pass: its slot, first token and number of tokens
  x, xx,          \* the residual stream and the branch's output, per row
  v_first,        \* layer 0's values, per row
  pre_mix,        \* rows that the last layer's kernel has mixed already, or none
  shift_state,    \* layer -> {"att", "ffn"} -> slot
  wkv_state,      \* layer -> slot
  elapsed,        \* slot -> tokens
  logits,         \* per request of the last pass
  raced           \* history: requests for which a race has come out wrong

stateVars == <<shift_state, wkv_state, elapsed>>
rowVars == <<x, xx, v_first, pre_mix>>
vars == <<cfg, weights, pc, layer, req, batch, rowVars, stateVars, logits, raced>>

Layers == 0 .. L - 1
Zero == [of |-> 0, n |-> 0]
Wrong(r) == [of |-> r, n |-> 0]
Foreign == [of |-> -1, n |-> 0]
NoRequest == [live |-> FALSE, slot |-> 0, computed |-> 0]

\* RWKV7.__init__ has the checkpoint in z, GPUModelRunner.load_model zeroes the states.
Init ==
  /\ cfg \in Configs
  /\ weights = {} /\ pc = "load" /\ layer = 0
  /\ req = [r \in Requests |-> NoRequest]
  /\ batch = <<>> /\ x = <<>> /\ xx = <<>> /\ v_first = <<>> /\ pre_mix = <<>>
  /\ shift_state = [l \in Layers |-> [k \in {"att", "ffn"} |-> [s \in Slots |-> Zero]]]
  /\ wkv_state = [l \in Layers |-> [s \in Slots |-> Zero]]
  /\ elapsed = [s \in Slots |-> 0]
  /\ logits = <<>> /\ raced = {}
-----------------------------------------------------------------------------
(***************************************************************************)
(* Weights.  A checkpoint has linear weights as [out, in] and low-rank     *)
(* ones as [in, out].                                                      *)
(***************************************************************************)
Linears == {"att_c2c", "ffn_key", "ffn_value", "head"}
Orig(group) == group \in cfg.orig_linear_groups

Layout(name) == IF Orig(name) THEN "out_in" ELSE "in_out"

\* Mutant of LowRank: with "transpose" only the original is kept.
LowRankSwapped ==
  IF cfg.lowrank_weight = "both" THEN {<<"lowrank", "in_out">>, <<"lowrank.t", "out_in">>}
  ELSE {<<"lowrank", "in_out">>}

LowRank ==
  (IF cfg.lowrank_weight \in {"orig", "both"} THEN {<<"lowrank", "in_out">>} ELSE {})
  \cup (IF cfg.lowrank_weight \in {"transpose", "both"} THEN {<<"lowrank.t", "out_in">>} ELSE {})

SparseKey == IF cfg.cmix_sparse = "auto" THEN {<<"ffn_key.fc", "out_in">>} ELSE {}
StackedRkv ==
  IF cfg.rkv_mode # "off" /\ ~Orig("att_c2c") THEN {<<"rkv", "in_out">>} ELSE {}

PreprocessWeights ==
  /\ pc = "load" /\ pc' = "idle"
  /\ weights' = {<<w, Layout(w)>> : w \in Linears} \cup LowRank \cup SparseKey \cup StackedRkv
  /\ UNCHANGED <<cfg, layer, req, batch, rowVars, stateVars, logits, raced>>
-----------------------------------------------------------------------------
(***************************************************************************)
(* The batch, as the runner hands it over.                                 *)
(***************************************************************************)
B == Len(batch)
MaxT == Max({batch[b].num : b \in 1 .. B})

\* Of a batch d, how many tokens its first b chunks have.
Offsets(d) == LET upto[b \in 0 .. Len(d)] == IF b = 0 THEN 0 ELSE upto[b - 1] + d[b].num IN upto
QueryStartLoc(b) == Offsets(batch)[b - 1]
Total == QueryStartLoc(B + 1)
IsUniform == Total = B * MaxT

\* Uniform kernels find the rows of a request by its index and T, the others by
\* query_start_loc and req_id.
FirstRow(b) == IF IsUniform THEN (b - 1) * MaxT + 1 ELSE QueryStartLoc(b) + 1
LastRow(b)  == IF IsUniform THEN b * MaxT ELSE QueryStartLoc(b + 1)
ReqId(i)    == CHOOSE b \in 1 .. B : i \in FirstRow(b) .. LastRow(b)
InBatch(s)  == {b \in 1 .. B : batch[b].slot = s}

Live == {r \in Requests : req[r].live}
FreeSlots == Slots \ {req[r].slot : r \in Live}

\* The last pass's logits have been sampled from.
Sampled == batch' = <<>> /\ logits' = <<>>

Admit(r) ==
  /\ pc = "idle" /\ r \notin Live /\ req[r].computed = 0
  /\ \A q \in Requests : q < r => q \in Live \/ req[q].computed > 0
  /\ FreeSlots # {} /\ req' = [req EXCEPT ![r].live = TRUE, ![r].slot = Min(FreeSlots)]
  /\ Sampled
  /\ UNCHANGED <<cfg, weights, pc, layer, rowVars, stateVars, raced>>

Finish(r) ==
  /\ pc = "idle" /\ r \in Live /\ req[r].computed > 0
  /\ req' = [req EXCEPT ![r].live = FALSE, ![r].slot = 0]
  /\ Sampled
  /\ UNCHANGED <<cfg, weights, pc, layer, rowVars, stateVars, raced>>

Chunk(r, num) == [req |-> r, slot |-> req[r].slot, first |-> req[r].computed + 1, num |-> num]

\* GPUModelRunner._execute_eager: the slots of new requests are zeroed.
IsNew(s) == \E b \in DOMAIN batch' : batch'[b].slot = s /\ batch'[b].first = 1
Zeroed(f, zero) == [s \in Slots |-> IF IsNew(s) THEN zero ELSE f[s]]

\* The tokens of d, one chunk behind the other.
AllTokens(d) ==
  LET upto == Offsets(d) IN
  [i \in 1 .. upto[Len(d)] |->
     LET b == CHOOSE c \in DOMAIN d : i \in upto[c - 1] + 1 .. upto[c]
     IN  [of |-> d[b].req, n |-> d[b].first + i - upto[b - 1] - 1]]

\* _execute_eager, forward and the head of forward_from_x: embed, layer norm.
Forward ==
  /\ pc = "idle" /\ pc' = "tmix" /\ layer' = 0
  /\ \E S \in (SUBSET Live) \ {{}} :
       \E order \in SetToSeqs(S), num \in [S -> 1 .. MaxTokens] :
         /\ \A r \in S : req[r].computed + num[r] <= MaxTokens
         /\ batch' = [b \in DOMAIN order |-> Chunk(order[b], num[order[b]])]
  /\ x' = AllTokens(batch') /\ xx' = x' /\ v_first' = x' /\ pre_mix' = <<>>
  /\ shift_state' = [l \in Layers |-> [k \in {"att", "ffn"} |-> Zeroed(shift_state[l][k], Zero)]]
  /\ wkv_state' = [l \in Layers |-> Zeroed(wkv_state[l], Zero)]
  /\ elapsed' = Zeroed(elapsed, 0)
  /\ logits' = <<>>
  /\ UNCHANGED <<cfg, weights, req, raced>>
-----------------------------------------------------------------------------
(***************************************************************************)
(* What kernels do with values.                                            *)
(***************************************************************************)
\* Elementwise: both operands must belong to one token.
Join(a, b) ==
  IF a = b THEN a ELSE IF a.of = b.of THEN Wrong(a.of) ELSE Foreign
JoinRows(f, g) == [i \in 1 .. Total |-> Join(f[i], g[i])]

\* A recurrence: what precedes must be of the token before, or the zero state.
Follow(prev, cur) ==
  IF cur.n > 0 /\ prev = (IF cur.n = 1 THEN Zero ELSE [cur EXCEPT !.n = @ - 1]) THEN cur
  ELSE IF prev.of \in {0, cur.of} THEN Wrong(cur.of) ELSE Foreign

\* tmix_mix6_kernel and cmix_mix_kernel of csrc/v2 read the shift state for a request's
\* first row and write it for the last one in the same launch: with more than one row per
\* request, other threads, so the first row may read what the last one has written.  The
\* varlen kernels write in a second launch.
Early == IF IsUniform /\ MaxT > 1 THEN SUBSET (1 .. B) ELSE {{}}

TokenShift(rows, shift, early) ==
  [i \in 1 .. Total |->
     LET b == ReqId(i) IN
     IF i > FirstRow(b) THEN Follow(rows[i - 1], rows[i])
     ELSE IF b \in early THEN Follow(rows[LastRow(b)], rows[i])
     ELSE Follow(shift[batch[b].slot], rows[i])]

\* Mutant of Shifted: the state is taken from the row after the request's last one.
ShiftedPast(rows, shift) ==
  [s \in Slots |-> IF InBatch(s) = {} THEN shift[s]
                   ELSE rows[Min({Total, LastRow(CHOOSE b \in InBatch(s) : TRUE) + 1})]]

Shifted(rows, shift) ==
  [s \in Slots |-> IF InBatch(s) = {} THEN shift[s]
                   ELSE rows[LastRow(CHOOSE b \in InBatch(s) : TRUE)]]

RacedNow(early) == raced \cup {batch[b].req : b \in early}
-----------------------------------------------------------------------------
(***************************************************************************)
(* RWKV7TimeMixDispatcher.forward.                                         *)
(***************************************************************************)
\* PathSelector.select
UseBatchedRkv ==
  /\ ~Orig("att_c2c")
  /\ \/ cfg.rkv_mode = "on"
     \/ cfg.rkv_mode = "auto" /\ B * MaxT \in {1} \cup 4 .. 64

\* linear_orig_layout: which of its kernels it takes is a matter of speed and rounding.
LinearReads(group) == <<group, IF Orig(group) THEN "out_in" ELSE "in_out">>

RkvReads == IF UseBatchedRkv THEN <<"rkv", "in_out">> ELSE LinearReads("att_c2c")

\* For a uniform batch the three inputs are stacked as [3, B, T, C]: bmm takes no fourth
\* dimension.
RkvRaises == UseBatchedRkv /\ IsUniform

CanUseLowrankFused    == cfg.wide /\ Total <= InRowsT
CanUseLowrankOutFused == cfg.wide /\ Total <= OutRowsT
InFused  == cfg.lowrank_weight # "orig" /\ CanUseLowrankFused
OutFused == cfg.lowrank_weight # "orig" /\ CanUseLowrankOutFused

Transposed == <<"lowrank.t", "out_in">>
Original   == <<"lowrank", "in_out">>
\* linear_rank_in, linear_rank_out and linear_rank_out_act: small inputs take the
\* transposed weight if there is one, others the original one if there is one.
RankReads(small) ==
  IF Transposed \in weights /\ (small \/ Original \notin weights) THEN Transposed ELSE Original

LowRankReads ==
  {IF InFused THEN Transposed ELSE RankReads(Total <= InRowsT),
   IF OutFused THEN Transposed ELSE RankReads(CanUseLowrankOutFused)}

\* The value residual of layers above the first: in the fused low-rank kernel or, if the
\* value's rank input was not computed with the others, in a kernel of its own.
WithV1  == InFused /\ CanUseLowrankOutFused /\ layer # 0
VDone   == OutFused /\ layer # 0 /\ WithV1
VGate   == layer # 0 /\ ~VDone /\ ~OutFused
Values(mixed) ==
  IF layer = 0 THEN mixed
  ELSE IF VDone \/ VGate THEN JoinRows(mixed, v_first)
  ELSE [i \in 1 .. Total |-> Wrong(mixed[i].of)]

\* The wkv kernels: one block goes through the rows of one request.  In fp16 they round
\* by the request's position, elapsed.
OnTime(b) == cfg.wkv_mode = "fp32io16" \/ elapsed[batch[b].slot] = batch[b].first - 1
Wkv(v) ==
  LET y[i \in 1 .. Total] ==
        LET b == ReqId(i)
            prev == IF i > FirstRow(b) THEN y[i - 1] ELSE wkv_state[layer][batch[b].slot]
        IN  IF OnTime(b) THEN Follow(prev, v[i]) ELSE Wrong(v[i].of)
  IN  y

TimeMixReads == {RkvReads, LinearReads("att_c2c")} \cup LowRankReads

TimeMix ==
  /\ pc = "tmix" /\ ~RkvRaises /\ TimeMixReads \subseteq weights
  /\ \E early \in Early :
       LET mixed == IF pre_mix # <<>> THEN pre_mix
                    ELSE TokenShift(xx, shift_state[layer]["att"], early)
           v == Values(mixed)
       IN  /\ shift_state' = IF pre_mix # <<>> THEN shift_state
                             ELSE [shift_state EXCEPT ![layer]["att"] = Shifted(xx, @)]
           /\ v_first' = IF layer = 0 THEN v ELSE v_first
           /\ xx' = JoinRows(Wkv(v), mixed)
           /\ wkv_state' = [wkv_state EXCEPT ![layer] = Shifted(Wkv(v), @)]
           /\ raced' = RacedNow(early)
  /\ pc' = "cmix"
  /\ UNCHANGED <<cfg, weights, layer, req, batch, x, pre_mix, elapsed, logits>>
-----------------------------------------------------------------------------
(***************************************************************************)
(* RWKV7ChannelMixDispatcher.forward.                                      *)
(***************************************************************************)
UseNofc == Total <= NofcMaxRows \/ (Total = Row20 /\ MaxT <= Row20MaxT)

\* _compute_cmix_mode
CmixMode ==
  IF ~IsUniform \/ cfg.cmix_sparse = "off" THEN "dense"
  ELSE IF cfg.cmix_sparse = "no-fc"
  THEN IF Total = 1 \/ UseNofc THEN "nofc" ELSE "dense"
  ELSE IF Total = 1 THEN "sparse"
  ELSE IF Total = 2 \/ UseNofc THEN "nofc" ELSE "dense"

\* The kernels that skip zeros, and the dense product, both want the value as [in, out].
ChannelMixReads ==
  {IF CmixMode = "sparse" THEN <<"ffn_key.fc", "out_in">> ELSE LinearReads("ffn_key"),
   <<"ffn_value", "in_out">>}

ChannelMix ==
  /\ pc = "cmix" /\ ChannelMixReads \subseteq weights
  /\ x' = JoinRows(x, xx)
  /\ \E early \in Early :
       /\ xx' = TokenShift(x', shift_state[layer]["ffn"], early)
       /\ raced' = RacedNow(early)
  /\ shift_state' = [shift_state EXCEPT ![layer]["ffn"] = Shifted(x', @)]
  /\ pc' = IF layer + 1 < L THEN "next" ELSE "last"
  /\ UNCHANGED <<cfg, weights, layer, req, batch, v_first, pre_mix, wkv_state, elapsed, logits>>
-----------------------------------------------------------------------------
\* _compute_next_layer_pre_mix: for a single row, one kernel adds, normalises and mixes.
Ln1TmixFuse == cfg.ln1_tmix_fuse /\ IsUniform /\ MaxT = 1 /\ B = 1

NextLayer ==
  /\ pc = "next" /\ pc' = "tmix" /\ layer' = layer + 1
  /\ x' = JoinRows(x, xx) /\ xx' = x'
  /\ IF Ln1TmixFuse
     THEN /\ pre_mix' = TokenShift(x', shift_state[layer']["att"], {})
          /\ shift_state' = [shift_state EXCEPT ![layer']["att"] = Shifted(x', @)]
     ELSE pre_mix' = <<>> /\ UNCHANGED shift_state
  /\ UNCHANGED <<cfg, weights, req, batch, v_first, wkv_state, elapsed, logits, raced>>

\* _finalize_last_layer: the last row of each request; elapsed advances once.
FinalizeLastLayer ==
  /\ pc = "last" /\ LinearReads("head") \in weights /\ pc' = "idle"
  /\ logits' = [b \in 1 .. B |-> Join(x[LastRow(b)], xx[LastRow(b)])]
  /\ elapsed' = [s \in Slots |->
       IF InBatch(s) = {} THEN elapsed[s]
       ELSE LET b == CHOOSE c \in InBatch(s) : TRUE IN
            elapsed[s] + QueryStartLoc(b + 1) - QueryStartLoc(b)]
  /\ req' = [r \in Requests |->
       IF \E b \in 1 .. B : batch[b].req = r
       THEN [req[r] EXCEPT !.computed = @ + batch[CHOOSE b \in 1 .. B : batch[b].req = r].num]
       ELSE req[r]]
  /\ x' = <<>> /\ xx' = <<>> /\ v_first' = <<>> /\ pre_mix' = <<>>
  /\ UNCHANGED <<cfg, weights, layer, batch, shift_state, wkv_state, raced>>

\* A missing weight is a KeyError, one in the wrong layout an error or a wrong product.
Raise ==
  /\ \/ pc = "tmix" /\ (RkvRaises \/ ~(TimeMixReads \subseteq weights))
     \/ pc = "cmix" /\ ~(ChannelMixReads \subseteq weights)
     \/ pc = "last" /\ LinearReads("head") \notin weights
  /\ pc' = "raised"
  /\ UNCHANGED <<cfg, weights, layer, req, batch, rowVars, stateVars, logits, raced>>

Next ==
  \/ PreprocessWeights
  \/ \E r \in Requests : Admit(r) \/ Finish(r)
  \/ Forward \/ TimeMix \/ ChannelMix \/ NextLayer \/ FinalizeLastLayer
  \/ Raise

Spec == Init /\ [][Next]_vars
-----------------------------------------------------------------------------
(***************************************************************************)
(* Properties                                                              *)
(***************************************************************************)
\* The values that a request's slot and row hold after its token k.
SlotValues(s) ==
  {shift_state[l][k][s] : l \in Layers, k \in {"att", "ffn"}} \cup {wkv_state[l][s] : l \in Layers}

\* As if r had been computed alone; after a race, r's own at least.
Right(r, k, value) ==
  \/ value = [of |-> r, n |-> k]
  \/ r \in raced /\ value.of = r

\* Between two passes every layer's state in a request's slot, and the logits, are what
\* the request computed alone has after the same tokens, whatever it was batched with, in
\* chunks of whatever size, on whichever kernels and in a slot of whatever past.  Where a
\* token shift has raced they are wrong, but depend on the request's own tokens still.
AloneOrRaced ==
  pc = "idle" =>
    /\ \A r \in Live : req[r].computed > 0 =>
         /\ \A value \in SlotValues(req[r].slot) : Right(r, req[r].computed, value)
         /\ elapsed[req[r].slot] = req[r].computed
    /\ \A d \in DOMAIN logits :
         Right(batch[d].req, batch[d].first + batch[d].num - 1, logits[d])

\* Over all choices of path and of weight preparation, every batch finds the weights its
\* path reads, in the layout it expects them in; only r, k and v computed in one product
\* fail, for a uniform batch.  (What the kernels check themselves, dtypes and dimensions,
\* is outside the model.)
RaisesOnlyOnStackedRkv ==
  pc = "raised" => IsUniform /\ cfg.rkv_mode # "off" /\ ~Orig("att_c2c")
=============================================================================

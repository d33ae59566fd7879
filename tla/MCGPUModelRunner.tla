-------------------------- MODULE MCGPUModelRunner --------------------------
(***************************************************************************)
(* Configurations that start and that do not.  The default sizes are also  *)
(* compared with what they promise, for every limit up to 600: a graph     *)
(* for every batch up to 512, none too large, less than 16 rows wasted.    *)
(***************************************************************************)
EXTENDS GPUModelRunner

Default(seqs) ==
  [max_num_seqs |-> seqs, max_num_batched_tokens |-> 8, dtype |-> "float16",
   enforce_eager |-> FALSE, cudagraph_mode |-> "full", named |-> FALSE,
   cudagraph_capture_size |-> <<>>]
Named(seqs, sizes) ==
  [Default(seqs) EXCEPT !.named = TRUE, !.cudagraph_capture_size = sizes]

ArgsChecked ==
  {Default(2), Default(3), Named(3, <<3>>), Named(3, <<2>>), Named(3, <<1, 4>>),
   Named(2, <<0, 2>>), Named(3, <<>>),
   [Default(2) EXCEPT !.enforce_eager = TRUE],
   [Default(3) EXCEPT !.enforce_eager = TRUE],
   [Default(3) EXCEPT !.cudagraph_mode = "none"],
   [Default(3) EXCEPT !.max_num_batched_tokens = 2],
   [Default(3) EXCEPT !.dtype = "bfloat16"]}

ASSUME DefaultSizesCover ==
  \A seqs \in 1 .. 600 :
    LET sizes == DefaultCaptureSizes(seqs, 2048) IN
    /\ Max(sizes) = Min({seqs, 512})
    /\ \A n \in 1 .. Max(sizes) : Min({s \in sizes : s >= n}) - n < 16
=============================================================================

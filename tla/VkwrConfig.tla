----------------------------- MODULE VkwrConfig -----------------------------
(***************************************************************************)
(* vkwr/config: how the command line's arguments become the configuration  *)
(* of the engine, as far as the CUDA graphs and the batch limits go.       *)
(***************************************************************************)
EXTENDS Integers, Sequences, FiniteSets, SequencesExt, FiniteSetsExt

CONSTANTS
  Args,           \* EngineArgs: max_num_seqs, max_num_batched_tokens, enforce_eager,
                  \* cudagraph_mode, and cudagraph_capture_size: named, or None
  FallbackTop     \* 64: CUDAGraphManager captures 1 .. 64 when it is given no shapes

\* Limits are numbers, and a batch may hold a request.
ASSUME ConfigAssumption ==
  /\ FallbackTop \in Nat
  /\ \A args \in Args :
       /\ args.max_num_seqs \in Nat \ {0} /\ args.max_num_batched_tokens \in Nat
       /\ args.cudagraph_capture_size \in Seq(Int)

\* get_default_cudagraph_capture_sizes, as a set: exact sizes, then steps of 8 and of 16,
\* and the maximum itself.
DefaultCaptureSizes(max_num_seqs, max_num_batched_tokens) ==
  LET max_size == Min({max_num_seqs, 512, max_num_batched_tokens})
      strided  == {1, 2, 4} \cup {8 * k : k \in 1 .. 31} \cup {256 + 16 * k : k \in 0 .. 16}
  IN  IF max_size < 1 THEN {} ELSE {s \in strided : s <= max_size} \cup {max_size}

\* VkwrConfig.__post_init__ raises ValueError.
Rejected(args) ==
  args.dtype # "float16" \/ args.max_num_batched_tokens < args.max_num_seqs

\* The numbers of S in order: as many are below the k-th as come before it.
Sorted(S) ==
  [k \in 1 .. Cardinality(S) |-> CHOOSE s \in S : Cardinality({t \in S : t < s}) = k - 1]

\* Mutant of CaptureSize: the default sizes are computed and not stored.
CaptureSizeForgotten(args) == args.cudagraph_capture_size

\* compilation_config.cudagraph_capture_size after __post_init__; <<>> for None.
CaptureSize(args) ==
  IF ~args.named /\ ~args.enforce_eager /\ args.cudagraph_mode # "none"
  THEN Sorted(DefaultCaptureSizes(args.max_num_seqs, args.max_num_batched_tokens))
  ELSE args.cudagraph_capture_size

\* The shapes of the graph manager, which exists unless the mode is none: no sizes, or an
\* empty list, means every size up to 64.
CaptureShapes(args) ==
  IF args.cudagraph_mode = "none" THEN <<>>
  ELSE IF CaptureSize(args) = <<>> THEN Sorted(1 .. FallbackTop)
  ELSE CaptureSize(args)
=============================================================================

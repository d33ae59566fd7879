------------------------------ MODULE MCSyncLLM ------------------------------
(***************************************************************************)
(* Calls one after the other, with aborts, an abandoned stream, a refused  *)
(* prompt, a call without prompts; a utility call; an engine that stops.   *)
(***************************************************************************)
EXTENDS SyncLLM

Call(kind, prompts) == [kind |-> kind, prompts |-> prompts]

Plain == [external_of |-> <<"req-0", "req-1", "req-0">>,
          output_kind |-> <<"FINAL_ONLY", "FINAL_ONLY", "FINAL_ONLY">>,
          max_tokens |-> <<2, 1, 1>>, refused |-> {}, faults |-> {},
          calls |-> <<Call("list", <<1, 2>>), Call("list", <<3>>)>>]

Scenarios ==
  {Plain,
   [Plain EXCEPT !.refused = {2}, !.calls[2] = Call("utility", <<>>)],
   [Plain EXCEPT !.output_kind = <<"DELTA", "CUMULATIVE", "FINAL_ONLY">>,
                 !.calls[1] = Call("stream", <<1, 2>>),
                 !.faults = {"abort", "abandon", "close"}],
   [Plain EXCEPT !.output_kind = <<"DELTA", "DELTA", "FINAL_ONLY">>,
                 !.calls = <<Call("stream", <<1>>), Call("utility", <<>>)>>,
                 !.faults = {"engine", "start", "frame", "abort", "close"}],
   [Plain EXCEPT !.output_kind = <<"FINAL_ONLY", "DELTA", "CUMULATIVE">>,
                 !.calls = <<Call("list", <<1>>), Call("stream", <<2, 3>>)>>,
                 !.faults = {"engine", "abort", "abandon"}],
   [Plain EXCEPT !.output_kind = <<"DELTA", "CUMULATIVE", "FINAL_ONLY">>,
                 !.max_tokens = <<2, 2, 1>>,
                 !.calls = <<Call("stream", <<1, 2>>)>>,
                 !.faults = {"engine", "abort"}],
   [Plain EXCEPT !.refused = {2},
                 !.calls = <<Call("list", <<1, 2>>), Call("list", <<>>), Call("list", <<3>>)>>,
                 !.faults = {"engine"}]}
=============================================================================

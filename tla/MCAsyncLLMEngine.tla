-------------------------- MODULE MCAsyncLLMEngine --------------------------
(***************************************************************************)
(* Two requests that share an external id, two that do not, and one with   *)
(* several tokens, when nothing goes wrong; one request when everything    *)
(* may; two requests when the engine process may stop.                     *)
(***************************************************************************)
EXTENDS AsyncLLMEngine

Scenarios ==
  {[external_of |-> <<"x", "x">>, output_kind |-> <<"DELTA", "DELTA">>,
    max_tokens |-> <<1, 1>>, come |-> {1, 2}, aborts |-> {"x"}, faults |-> {}],
   [external_of |-> <<"x", "y">>, output_kind |-> <<"CUMULATIVE", "FINAL_ONLY">>,
    max_tokens |-> <<1, 1>>, come |-> {1, 2}, aborts |-> {"x"}, faults |-> {}],
   [external_of |-> <<"x", "y">>, output_kind |-> <<"DELTA", "DELTA">>,
    max_tokens |-> <<3, 1>>, come |-> {1}, aborts |-> {"x"}, faults |-> {}],
   [external_of |-> <<"x", "y">>, output_kind |-> <<"DELTA", "DELTA">>,
    max_tokens |-> <<1, 1>>, come |-> {1}, aborts |-> {"x"}, faults |-> Faults],
   [external_of |-> <<"x", "y">>, output_kind |-> <<"FINAL_ONLY", "FINAL_ONLY">>,
    max_tokens |-> <<1, 1>>, come |-> {1, 2}, aborts |-> {}, faults |-> {"engine"}]}
=============================================================================

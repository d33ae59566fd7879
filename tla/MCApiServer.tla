----------------------------- MODULE MCApiServer -----------------------------
(***************************************************************************)
(* Bodies and library calls: stop strings that overlap, that a token or    *)
(* the bytes of a character part, that are kept or cut; prompts too long,  *)
(* empty, refused.  The vocabulary has characters, parts of characters, a  *)
(* token of several characters, and no token 0.  "n" and ":" are in the    *)
(* chat template.                                                          *)
(***************************************************************************)
EXTENDS ApiServer

VocabChecked ==
  (0 :> <<>>) @@ (1 :> <<"a">>) @@ (2 :> <<"b">>) @@ (3 :> <<Lead>>) @@ (4 :> <<Cont>>)
    @@ (5 :> <<"a", "b", "a">>) @@ (6 :> <<"b", Lead>>)

\* As the default: the stop string begins the next turn.
TemplateChecked ==
  [system_prefix |-> <<"a">>, user_prefix |-> <<"b">>, assistant_prefix |-> <<"a">>,
   separator |-> <<"a">>, thinking_tag |-> <<"b">>, stop_tokens |-> <<<<"a", "b">>>>]

Text(content) == [is_text |-> TRUE, content |-> content]
Ids(content)  == [is_text |-> FALSE, content |-> content]

Config == [max_model_len |-> None, max_num_batched_tokens |-> 5, default_max_tokens |-> None,
           eos_token_id |-> 2, tokenizer |-> TRUE]

Plain == [endpoint |-> "completions", stream |-> FALSE, params_valid |-> TRUE,
          output_kind |-> "DELTA", prompt |-> Text(<<"a", "b">>), messages |-> <<>>,
          stop |-> <<<<"a", "b">>>>, include_stop |-> FALSE, min_tokens |-> 0,
          max_tokens |-> 4, config |-> Config]
Stream == [Plain EXCEPT !.stream = TRUE]
Library == [Plain EXCEPT !.endpoint = "library"]

Message(role, content) == [role |-> role, content |-> content]

CallsChecked ==
  {Plain,
   [Stream EXCEPT !.stop = <<<<"b", "a">>, <<"a", Lead, "b">>>>],
   [Plain EXCEPT !.prompt = Text(<<"a", "b", "a", Lead, "b", "a", "b", "b">>)],
   [Plain EXCEPT !.prompt = Text(<<>>)], [Stream EXCEPT !.prompt = Ids(<<>>)],
   [Stream EXCEPT !.params_valid = FALSE],
   [Plain EXCEPT !.config.tokenizer = FALSE],
   [Stream EXCEPT !.config.tokenizer = FALSE, !.prompt = Ids(<<1, 2, 9>>)],
   [Stream EXCEPT !.endpoint = "chat", !.stop = None, !.max_tokens = 2,
                  !.messages = <<Message("user", <<"a">>), Message("tool", <<"b">>)>>],
   [Plain EXCEPT !.endpoint = "chat", !.stop = None, !.max_tokens = None,
                 !.messages = <<Message("system", <<>>)>>],
   [Plain EXCEPT !.endpoint = "chat"],
   [Stream EXCEPT !.max_tokens = None, !.config.max_model_len = 3],
   [Plain EXCEPT !.max_tokens = None, !.config.default_max_tokens = 2],
   [Plain EXCEPT !.max_tokens = None, !.config.max_model_len = 0,
                 !.config.default_max_tokens = 0],
   [Library EXCEPT !.include_stop = TRUE, !.min_tokens = 2],
   [Library EXCEPT !.min_tokens = 1, !.stop = <<<<Lead>>, <<"b", "a", "a">>>>],
   [Library EXCEPT !.output_kind = "CUMULATIVE", !.stop = None, !.max_tokens = 2],
   [Library EXCEPT !.output_kind = "FINAL_ONLY", !.prompt = Ids(<<>>)]}

\* The walk down the trie finds the longest token: on all short strings of bytes.
ASSUME WalkFindsTheLongest ==
  \A src \in BoundedSeq({"a", "b", Lead, Cont}, 4) : \A i \in DOMAIN src :
    LET here == {t \in DOMAIN Vocab \ {0} : IsPrefix(Vocab[t], SubSeq(src, i, Len(src)))}
    IN  /\ Walk(src, i) \in here
        /\ \A t \in here : Len(Vocab[t]) <= Len(Vocab[Walk(src, i)])
=============================================================================

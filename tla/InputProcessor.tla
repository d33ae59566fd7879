---------------------------- MODULE InputProcessor ----------------------------
(***************************************************************************)
(* vkwr/engine/input_processor.py and prompts.py: from what a user sends   *)
(* to the tokens, the budget and the end-of-sequence token of a request.   *)
(*                                                                         *)
(* A prompt is [is_text, content], content a text or a sequence of tokens. *)
(* A limit nobody sets is None.                                            *)
(***************************************************************************)
EXTENDS RWKVTokenizer

CONSTANTS
  None,
  Template     \* RWKV_CHAT_TEMPLATE: prefixes with their colon, separator, tag, stop

Roles == {"system", "developer", "user", "assistant"}

\* apply_chat_template: a message of an unknown role is left out.
Prefix(role) == CASE role \in {"system", "developer"} -> Template.system_prefix
                  [] role = "user" -> Template.user_prefix
                  [] role = "assistant" -> Template.assistant_prefix
ApplyChatTemplate(messages) ==
  LET known == Kept(messages, {i \in DOMAIN messages : messages[i].role \in Roles})
      parts == [i \in DOMAIN known |-> (IF i = 1 THEN <<>> ELSE Template.separator)
                                       \o Prefix(known[i].role) \o known[i].content]
  IN  FlattenSeq(parts) \o Template.separator \o Template.assistant_prefix
        \o Template.thinking_tag

GetDefaultStopTokens == Template.stop_tokens

\* process_input raises.
EmptyPrompt(prompt) == prompt.content = <<>>
NoTokenizer(config, prompt) == prompt.is_text /\ ~config.tokenizer

\* _get_max_prompt_len
MaxPromptLen(config) ==
  IF config.max_model_len # None THEN config.max_model_len ELSE config.max_num_batched_tokens

\* Mutant of PromptTokens: a prompt that is too long keeps its end.
PromptTokensEnd(config, prompt) ==
  LET tokens == IF prompt.is_text THEN encode(prompt.content) ELSE prompt.content
  IN  SubSeq(tokens, Max({1, Len(tokens) - MaxPromptLen(config) + 1}), Len(tokens))

\* encode, and the truncation to the longest prompt allowed.
PromptTokens(config, prompt) ==
  LET tokens == IF prompt.is_text THEN encode(prompt.content) ELSE prompt.content
  IN  SubSeq(tokens, 1, Min({Len(tokens), MaxPromptLen(config)}))

\* _infer_max_tokens
InferMaxTokens(config, max_tokens, tokens) ==
  IF max_tokens # None THEN max_tokens
  ELSE IF config.default_max_tokens # None THEN config.default_max_tokens
  ELSE Max({MaxPromptLen(config) - Len(tokens), 1})

\* _inject_eos_token_id
InjectEosTokenId(config, eos) ==
  IF eos # None THEN eos ELSE IF config.tokenizer THEN 0 ELSE config.eos_token_id

ProcessInput(config, prompt, params) ==
  LET tokens == PromptTokens(config, prompt) IN
  [prompt_token_ids |-> tokens,
   max_tokens |-> InferMaxTokens(config, params.max_tokens, tokens),
   eos |-> InjectEosTokenId(config, params.eos)]
=============================================================================

------------------------------ MODULE ApiServer ------------------------------
(***************************************************************************)
(* One request from its HTTP body, or from a caller of                     *)
(* AsyncLLMEngine.generate, to the last byte of its answer: the handlers   *)
(* of vkwr/entrypoints/api.py, process_input, the detokenizer and          *)
(* process_outputs, and the collector that merges what the reader is too   *)
(* slow to take.  The engine is the environment: it sends tokens and ends  *)
(* the request, or dies.  AsyncLLMEngine has the tasks and their races;    *)
(* this module has the text.                                               *)
(***************************************************************************)
EXTENDS IncrementalDetokenizer, InputProcessor

CONSTANTS
  Calls        \* what users send: see CallsAssumption

Endpoints == {"completions", "chat", "library"}
OutputKinds == {"DELTA", "CUMULATIVE", "FINAL_ONLY"}

Limits == Nat \cup {None}

ASSUME NoneAssumption ==
  /\ None \notin Nat
  /\ None \notin {"eos", "length", "abort", "stop", "error"}

\* The chat template is text.
ASSUME TemplateAssumption ==
  /\ \A part \in {Template.system_prefix, Template.user_prefix, Template.assistant_prefix,
                  Template.separator, Template.thinking_tag} : IsText(part)
  /\ Template.stop_tokens \in Seq(Seq(Bytes \ {Cont}) \ {<<>>})

\* params_valid: SamplingParams.__post_init__ accepts the parameters, those named here and
\* the others.  The library's caller chooses its output kind and more of the parameters
\* than an HTTP body has.
ASSUME CallsAssumption ==
  \A c \in Calls :
    /\ c.endpoint \in Endpoints /\ c.stream \in BOOLEAN /\ c.params_valid \in BOOLEAN
    /\ c.output_kind \in OutputKinds /\ c.include_stop \in BOOLEAN
    /\ c.endpoint # "library" => c.min_tokens = 0 /\ ~c.include_stop
    /\ c.prompt.is_text \in BOOLEAN
    /\ IF c.prompt.is_text THEN IsText(c.prompt.content) ELSE c.prompt.content \in Seq(Nat)
    /\ c.messages \in Seq([role : STRING, content : Seq(Bytes \ {Cont})])
    /\ c.config.tokenizer \in BOOLEAN /\ c.config.max_num_batched_tokens \in Nat
    /\ c.config.max_model_len \in Limits /\ c.config.default_max_tokens \in Limits
    /\ c.min_tokens \in Int /\ (c.stop = None \/ c.stop \in Seq(Seq(Bytes \ {Cont})))
    /\ c.params_valid => /\ c.min_tokens \in Nat /\ c.max_tokens \in Limits \ {0}
                         /\ c.stop # None => \A k \in DOMAIN c.stop : c.stop[k] # <<>>

VARIABLES
  call,          \* never changes
  pc,            \* the handler: see States
  request,       \* the VkwrRequest
  token_ids, reason, sent_tokens,   \* _RequestState; reason is None until finished
  detokenizer,
  left_out,      \* history: the engine's end came with a token, whose text is left out
  collector,     \* what RequestOutputCollector holds: an output, an error or Nothing
  taken,         \* outputs generate() has yielded
  response       \* what the client has: the events of a stream, or one answer

stateVars == <<token_ids, reason, sent_tokens, detokenizer, left_out>>
vars == <<call, pc, request, stateVars, collector, taken, response>>

States == {"new", "generate", "running", "done"}

\* _make_sampling_params and SamplingParams.__post_init__
Chat == call.endpoint = "chat"
Stop == IF call.stop # None THEN call.stop ELSE IF Chat THEN GetDefaultStopTokens ELSE <<>>
Kind == CASE call.endpoint = "library" -> call.output_kind
          [] call.stream -> "DELTA"
          [] OTHER -> "FINAL_ONLY"
Params == [stop |-> Stop, include_stop |-> call.include_stop, min_tokens |-> call.min_tokens,
           max_tokens |-> call.max_tokens, eos |-> None, tokenizer |-> call.config.tokenizer]

Prompt == IF Chat THEN [is_text |-> TRUE, content |-> ApplyChatTemplate(call.messages)]
          ELSE call.prompt

Nothing == [kind |-> "nothing"]
Error(e) == [kind |-> "error", error |-> e]

Event(type, text, why) == [type |-> type, text |-> text, reason |-> why, tokens |-> 0]
Status(code) == Event(code, <<>>, None)
Role == Event("role", <<>>, None)
Done == Event("[DONE]", <<>>, None)

Init ==
  /\ call \in Calls /\ pc = "new"
  /\ request = [prompt_token_ids |-> <<>>, max_tokens |-> 0, eos |-> 0]
  /\ token_ids = <<>> /\ reason = None /\ sent_tokens = 0
  /\ detokenizer = NewDetokenizer /\ left_out = FALSE
  /\ collector = Nothing /\ taken = <<>> /\ response = <<>>
-----------------------------------------------------------------------------
(***************************************************************************)
(* The handlers.                                                           *)
(***************************************************************************)
Answer(events) == pc' = "done" /\ response' = response \o events

\* HTTPException(400) comes before anything else.  What SamplingParams rejects is an
\* exception nobody handles, 500, also for a stream: it has not begun.
Reject ==
  /\ pc = "new"
  /\ \/ Chat /\ call.messages = <<>> /\ Answer(<<Status("400")>>)
     \/ /\ ~(Chat /\ call.messages = <<>>) /\ ~call.params_valid
        /\ Answer(<<Status(IF call.endpoint = "library" THEN "ValueError" ELSE "500")>>)
  /\ UNCHANGED <<call, request, stateVars, collector, taken>>

Accept ==
  /\ pc = "new" /\ ~(Chat /\ call.messages = <<>>) /\ call.params_valid
  /\ pc' = "generate"
  /\ response' = IF Chat /\ call.stream THEN <<Role>> ELSE <<>>
  /\ UNCHANGED <<call, request, stateVars, collector, taken>>

\* An exception of generate(): e is ValueError, EngineDeadError or EngineGenerateError.
\* A stream that has begun has sent its 200; a ValueError cuts it off without a word.
Raised(e) ==
  CASE call.endpoint = "library" -> Answer(<<Status(e)>>)
    [] call.endpoint # "library" /\ call.stream ->
         Answer(IF e = "ValueError" THEN <<>> ELSE <<Event("chunk", <<>>, "error")>>)
    [] OTHER -> Answer(<<Status(IF e = "EngineDeadError" THEN "503" ELSE "500")>>)

GenerateRaises ==
  /\ pc = "generate"
  /\ \/ Raised("EngineDeadError")                 \* the engine died before
     \/ EmptyPrompt(Prompt) /\ Raised("ValueError")
     \/ ~EmptyPrompt(Prompt) /\ NoTokenizer(call.config, Prompt) /\ Raised("EngineGenerateError")
  /\ UNCHANGED <<call, request, stateVars, collector, taken>>

AddRequest ==
  /\ pc = "generate" /\ ~EmptyPrompt(Prompt) /\ ~NoTokenizer(call.config, Prompt)
  /\ request' = ProcessInput(call.config, Prompt, Params)
  /\ pc' = "running"
  /\ UNCHANGED <<call, stateVars, collector, taken, response>>
-----------------------------------------------------------------------------
(***************************************************************************)
(* process_outputs for one EngineCoreOutput.                               *)
(***************************************************************************)
\* make_request_output
MakeRequestOutput(tokens, from, d, why) ==
  LET delta == Kind = "DELTA" IN
  [kind |-> "output",
   tokens |-> Len(tokens) - (IF delta THEN from ELSE 0),
   text |-> NextText(d, Params, why # None, delta),
   reason |-> why]

\* Mutant of Merge: the text of a later output replaces the text held.
MergeReplaces(held, new) == [new EXCEPT !.tokens = held.tokens + @]

\* RequestOutput.add
Merge(held, new) ==
  IF Kind = "DELTA"
  THEN [new EXCEPT !.text = held.text \o @, !.tokens = held.tokens + @,
                   !.reason = IF @ = None THEN held.reason ELSE @]
  ELSE [new EXCEPT !.reason = IF @ = None THEN held.reason ELSE @]

Put(new) ==
  collector' = CASE collector.kind = "nothing" \/ new.kind = "error" -> new
                 [] collector.kind = "output" /\ new.kind = "output" -> Merge(collector, new)
                 [] OTHER -> collector

Process(tokens, ended) ==
  LET update == Update(detokenizer, Params, tokens, ended # None)
      why == IF update.matched THEN "stop" ELSE ended
      all == token_ids \o tokens
  IN  /\ token_ids' = all
      /\ reason' = why
      /\ left_out' = (ended # None /\ tokens # <<>> /\ ~call.include_stop)
      /\ detokenizer' = Advanced(update.d, Params, why # None, Kind = "DELTA")
      /\ IF Kind = "FINAL_ONLY" /\ why = None THEN UNCHANGED <<collector, sent_tokens>>
         ELSE /\ Put(MakeRequestOutput(all, sent_tokens, update.d, why))
              /\ sent_tokens' = IF why = None THEN Len(all) ELSE sent_tokens

\* What the scheduler lets end: an end-of-sequence token, the budget, any token (a stop
\* token, the length of the context).
EngineToken ==
  /\ pc = "running" /\ reason = None /\ collector.kind # "error"
  /\ \E token \in DOMAIN Vocab :
       \E ended \in CASE token = request.eos -> {"eos"}
                      [] token # request.eos /\ Len(token_ids) + 1 >= request.max_tokens -> {"length"}
                      [] OTHER -> {None, "length"} :
         Process(<<token>>, ended)
  /\ UNCHANGED <<call, pc, request, taken, response>>

\* An end without a token: an abort, or no room for the next token.
EngineEnds ==
  /\ pc = "running" /\ reason = None /\ collector.kind # "error"
  /\ \E ended \in {"abort", "length"} : Process(<<>>, ended)
  /\ UNCHANGED <<call, pc, request, taken, response>>

\* propagate_error reaches every request that is still registered.
EngineFails ==
  /\ pc = "running" /\ reason = None /\ collector.kind # "error"
  /\ \E e \in {"EngineDeadError", "Error"} : Put(Error(e))
  /\ UNCHANGED <<call, pc, request, stateVars, taken, response>>
-----------------------------------------------------------------------------
(***************************************************************************)
(* generate() yields, and the handler passes on.                           *)
(***************************************************************************)
\* Usage counts the tokens of the last output.
Usage(out) == [Event("usage", <<>>, None) EXCEPT !.tokens = out.tokens]
Chunk(type, out) == [Event(type, out.text, out.reason) EXCEPT !.tokens = out.tokens]

\* The answer of a plain completion or chat: the last output, whole.
Returned(out) == IF out.reason = None THEN <<>> ELSE <<Chunk("200", out)>>

\* What the client gets when generate() has yielded out.
Passed(out) ==
  CASE call.endpoint = "library" -> <<Chunk("output", out)>>
    [] call.endpoint # "library" /\ call.stream ->
         <<Chunk("chunk", out)>> \o (IF out.reason = None THEN <<>> ELSE <<Usage(out), Done>>)
    [] OTHER -> Returned(out)

TakeOutput ==
  /\ pc = "running" /\ collector.kind = "output"
  /\ collector' = Nothing
  /\ taken' = Append(taken, collector.text)
  /\ response' = response \o Passed(collector)
  /\ pc' = IF collector.reason = None THEN pc ELSE "done"
  /\ UNCHANGED <<call, request, stateVars>>

TakeError ==
  /\ pc = "running" /\ collector.kind = "error"
  /\ collector' = Nothing
  /\ Raised(IF collector.error = "EngineDeadError" THEN collector.error ELSE "EngineGenerateError")
  /\ UNCHANGED <<call, request, stateVars, taken>>

Next ==
  \/ Reject \/ Accept \/ GenerateRaises \/ AddRequest
  \/ EngineToken \/ EngineEnds \/ EngineFails
  \/ TakeOutput \/ TakeError

Spec == Init /\ [][Next]_vars
-----------------------------------------------------------------------------
(***************************************************************************)
(* Properties                                                              *)
(***************************************************************************)
Ended == reason # None
Held == IF collector.kind = "output" THEN collector.text ELSE <<>>
Streamed == FlattenSeq(taken) \o Held

\* A streamed answer never takes back what it sent: what the reader has and what waits for
\* it is the beginning of the text as the detokenizer has it now, cut or not, and at the
\* end it is the text a reader of the final output alone would get (stop buffer, delta
\* offset, merging in the collector).
StreamedIsWhole ==
  Kind = "DELTA" /\ collector.kind # "error" /\ pc = "running" =>
    /\ IsPrefix(Streamed, detokenizer.output_text)
    /\ Ended => Streamed = detokenizer.output_text

\* The text of the first n tokens that count; an engine end takes its token for a stop
\* token, which does not.
Counting == IF left_out THEN Front(token_ids) ELSE token_ids
BytesAfter(n) == Joined(SubSeq(Counting, 1, n))
TextAfter(n)  == TextOf(SubSeq(BytesAfter(n), 1, ErrorStart(BytesAfter(n))))

\* No byte that UTF-8 rules out, only perhaps a character not complete yet.
WellFormed ==
  LET bytes == BytesAfter(Len(Counting))
  IN  SubSeq(bytes, ErrorStart(bytes) + 1, Len(bytes)) \in {<<>>, <<Lead>>}

\* Places of stop string k in a text that end in what comes after the first min_tokens.
StopsIn(text, k) ==
  {i \in Places(text, Stop[k], 0) :
     i + Len(Stop[k]) > Len(TextAfter(Min({Params.min_tokens, Len(Counting)})))}

\* A stop string ends the text with the token that completes it, wherever the tokens and
\* the characters part it, and the text is cut at its beginning, or end if it is wanted;
\* if nothing matched the text is that of all tokens (update, _check_stop_strings).
StopAtOnce ==
  call.config.tokenizer /\ WellFormed =>
    LET whole == TextAfter(Len(Counting)) IN
    IF reason = "stop"
    THEN /\ \A k \in DOMAIN Stop : StopsIn(TextAfter(Len(Counting) - 1), k) = {}
         /\ \E k \in DOMAIN Stop :
              /\ StopsIn(whole, k) # {}
              /\ detokenizer.output_text =
                   SubSeq(whole, 1, Min(StopsIn(whole, k))
                                    + (IF Params.include_stop THEN Len(Stop[k]) ELSE 0))
    ELSE /\ detokenizer.output_text = whole
         /\ \A k \in DOMAIN Stop : StopsIn(whole, k) = {}

EventsOf(types) == Kept(response, {i \in DOMAIN response : response[i].type \in types})
SumOfTokens(events) ==
  LET sum[i \in 0 .. Len(events)] == IF i = 0 THEN 0 ELSE sum[i - 1] + events[i].tokens
  IN  sum[Len(events)]

\* An answer that ends well has everything: a stream one chunk with the reason of the end,
\* after it only the usage and [DONE], and in its chunks every token and all the text; a
\* plain answer the same at once.  Any other ends with an error, or breaks off.
AnswerIsTrue ==
  pc = "done" /\ call.endpoint # "library" =>
    LET chunks == EventsOf({"chunk", "200"})
        good == Done \in Range(response) \/ EventsOf({"200"}) # <<>>
    IN  /\ good => /\ Ended
                   /\ Last(chunks).reason = reason
                   /\ \A i \in 1 .. Len(chunks) - 1 : chunks[i].reason = None
                   /\ SumOfTokens(chunks) = Len(token_ids)
                   /\ FlattenSeq([i \in DOMAIN chunks |-> chunks[i].text])
                        = detokenizer.output_text
                   /\ call.stream => Len(EventsOf({"usage"})) = 1 /\ Last(response) = Done
        /\ ~good => \A i \in DOMAIN chunks : chunks[i].reason \in {None, "error"}

\* The prompt the engine gets is the beginning of the prompt, all of it if it is not too
\* long; it has a token, and so has the budget, unless the configuration's limit is zero;
\* and prompt and budget fit the limit as long as nobody names a budget (encode,
\* process_input).
PromptExact ==
  pc = "running" =>
    LET tokens == request.prompt_token_ids
        limit == MaxPromptLen(call.config)
        content == Prompt.content
    IN  /\ Len(tokens) \in Min({1, limit}) .. limit
        /\ call.config.default_max_tokens # 0 => request.max_tokens >= 1
        /\ IF Prompt.is_text THEN IsPrefix(Joined(tokens), BytesOf(content))
           ELSE IsPrefix(tokens, content)
        /\ Len(tokens) < limit =>
             IF Prompt.is_text THEN Joined(tokens) = BytesOf(content) ELSE tokens = content
        /\ call.max_tokens = None /\ call.config.default_max_tokens = None =>
             Len(tokens) + request.max_tokens <= Max({limit, Len(tokens) + 1})
=============================================================================

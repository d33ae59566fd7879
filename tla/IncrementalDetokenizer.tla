------------------------ MODULE IncrementalDetokenizer ------------------------
(***************************************************************************)
(* vkwr/engine/detokenizer.py: one request's tokens become text as they    *)
(* come.  Bytes that are no character yet wait in a buffer; a stop string  *)
(* ends the text; while one may still begin, its length less one is held   *)
(* back from the reader.                                                   *)
(*                                                                         *)
(* The operators take the detokenizer d and the parameters p, with p.stop  *)
(* the list of stop strings.                                               *)
(***************************************************************************)
EXTENDS RWKVTokenizer

NewDetokenizer ==
  [output_text |-> <<>>, byte_buffer |-> <<>>, count |-> 0,
   sent |-> 0,          \* _last_output_text_offset
   min_offset |-> 0]    \* _min_tokens_stop_check_offset

Largest(lengths) == IF lengths = {} THEN 0 ELSE Max(lengths)
MaxStop(p)      == Largest({Len(p.stop[k]) : k \in DOMAIN p.stop})
MaxStopBytes(p) == Largest({Len(BytesOf(p.stop[k])) : k \in DOMAIN p.stop})

\* Mutant of StopBufferLength: a stop string of one character is what is held back.
StopBufferLengthShort(p) == 0

StopBufferLength(p) ==
  IF p.stop = <<>> \/ p.include_stop THEN 0 ELSE MaxStop(p) - 1

\* Mutant of TryDecodeBuffer: what cannot be decoded yet is dropped.
TryDecodeBufferDrops(d, bytes) ==
  [d EXCEPT !.output_text = @ \o TextOf(SubSeq(bytes, 1, ErrorStart(bytes))),
            !.byte_buffer = <<>>]

\* _try_decode_buffer, when the buffer holds bytes.
TryDecodeBuffer(d, bytes) ==
  [d EXCEPT !.output_text = @ \o TextOf(SubSeq(bytes, 1, ErrorStart(bytes))),
            !.byte_buffer = SubSeq(bytes, ErrorStart(bytes) + 1, Len(bytes))]

\* One turn of update's loop.
AddToken(d, p, token) ==
  LET counted == [d EXCEPT !.count = @ + 1]
      decoded == TryDecodeBuffer(counted, d.byte_buffer \o get_token_bytes(token))
  IN  IF ~p.tokenizer \/ is_special(token) THEN counted
      ELSE IF decoded.count <= p.min_tokens
           THEN [decoded EXCEPT !.min_offset = Len(decoded.output_text)]
      ELSE decoded

\* 0-based places of sub in s, from a place on.
Places(s, sub, from) ==
  {i \in from .. Len(s) - Len(sub) : SubSeq(s, i + 1, i + Len(sub)) = sub}

\* Where stop string k is found among the last new characters of the text, or in the bytes.
TextPlaces(d, p, k, new) ==
  Places(d.output_text, p.stop[k],
         Max({0, Len(d.output_text) - new - Len(p.stop[k]) + 1}))

FullBytes(d) == BytesOf(d.output_text) \o d.byte_buffer
BytePlaces(d, p, k) ==
  LET stop == BytesOf(p.stop[k]) IN
  Places(FullBytes(d), stop,
         Max({Len(BytesOf(SubSeq(d.output_text, 1, d.min_offset))),
              Len(FullBytes(d)) - Len(stop) - MaxStopBytes(p)}))

\* The first stop string of the list that is found decides.
FirstFound(ks) == CHOOSE k \in ks : \A other \in ks : k <= other

\* _check_stop_strings
CheckStopStrings(d, p, new) ==
  LET inText  == {k \in DOMAIN p.stop : new > 0 /\ TextPlaces(d, p, k, new) # {}}
      inBytes == {k \in DOMAIN p.stop : d.byte_buffer # <<>> /\ BytePlaces(d, p, k) # {}}
      k == FirstFound(IF inText # {} THEN inText ELSE inBytes)
      kept(s, place, stop) == SubSeq(s, 1, place + (IF p.include_stop THEN Len(stop) ELSE 0))
  IN  IF inText # {}
      THEN [matched |-> TRUE,
            d |-> [d EXCEPT !.output_text = kept(@, Min(TextPlaces(d, p, k, new)), p.stop[k])]]
      ELSE IF inBytes # {}
      THEN [matched |-> TRUE,
            d |-> [d EXCEPT !.output_text = Ignoring(kept(FullBytes(d), Min(BytePlaces(d, p, k)),
                                                          BytesOf(p.stop[k]))),
                            !.byte_buffer = <<>>]]
      ELSE [matched |-> FALSE, d |-> d]

\* update.  The last token of a request the engine has ended is taken for a stop token,
\* and its text left out.
Update(d, p, tokens, stop_terminated) ==
  LET leftOut == stop_terminated /\ ~p.include_stop
      after == FoldLeft(LAMBDA acc, token : AddToken(acc, p, token), d,
                        IF leftOut THEN Front(tokens) ELSE tokens)
      new == Len(after.output_text) - Max({Len(d.output_text), after.min_offset})
      counted == [after EXCEPT !.count = @ + (IF leftOut THEN 1 ELSE 0)]
  IN  IF tokens = <<>> THEN [matched |-> FALSE, d |-> d]
      ELSE IF counted.count > p.min_tokens /\ p.tokenizer
           THEN CheckStopStrings(counted, p, new)
      ELSE [matched |-> FALSE, d |-> counted]

\* get_next_output_text(finished, delta): the text and, for a delta, what is sent with it.
Shown(d, p, finished) ==
  Len(d.output_text) - (IF finished THEN 0 ELSE StopBufferLength(p))
NextText(d, p, finished, delta) ==
  SubSeq(d.output_text, IF delta THEN d.sent + 1 ELSE 1, Shown(d, p, finished))
Advanced(d, p, finished, delta) ==
  IF delta THEN [d EXCEPT !.sent = Max({@, Shown(d, p, finished)})] ELSE d
=============================================================================

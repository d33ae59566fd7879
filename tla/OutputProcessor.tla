--------------------------- MODULE OutputProcessor ---------------------------
(***************************************************************************)
(* vkwr/engine/output_processor.py and RequestOutput of outputs.py: what   *)
(* the engine sends is turned into what a user reads.  A request is known  *)
(* here by its internal id, from add_request until it is removed or        *)
(* aborted, and by the user's external id, which several may share.  Its   *)
(* collector holds at most one output: a later one is merged into it.      *)
(*                                                                         *)
(* A token is its position in the request's output.  Whether a stop string *)
(* matches is chosen by the caller.                                        *)
(***************************************************************************)
EXTENDS Naturals, Sequences, Functions

CONSTANTS
  Requests,        \* internal ids
  ExternalIds,     \* what users call them
  Givens,          \* what requests may come with: records of functions on Requests
  None

OutputKinds == {"DELTA", "CUMULATIVE", "FINAL_ONLY"}

ASSUME OutputAssumption ==
  /\ \A g \in Givens : /\ g.external_of \in [Requests -> ExternalIds]
                       /\ g.output_kind \in [Requests -> OutputKinds]
  /\ None \notin {"length", "stop", "abort", "cancelled", "Error", "EngineDeadError",
                  "EngineGenerateError"}

VARIABLES
  requests,          \* _requests: id -> request state
  external_req_ids,  \* external id -> internal ids
  output,            \* what each collector holds
  given              \* never changes

processorVars == <<requests, external_req_ids, output, given>>

external_of == given.external_of
output_kind == given.output_kind

Empty == [kind |-> "none", tokens |-> <<>>, reason |-> None]
ErrorOutput(e) == [kind |-> "error", tokens |-> <<>>, reason |-> e]
OutputOf(tokens, reason) == [kind |-> "output", tokens |-> tokens, reason |-> reason]

Registered == DOMAIN requests

OutputInit ==
  /\ requests = <<>> /\ external_req_ids = <<>>
  /\ output = [r \in Requests |-> Empty]
  /\ given \in Givens
-----------------------------------------------------------------------------
\* Mutant of Merge: outputs replace each other, whatever their kind.
MergeReplaces(r, old, new) ==
  [new EXCEPT !.reason = IF new.reason # None THEN @ ELSE old.reason]

\* RequestOutput.add: a DELTA output grows, any other is replaced; an end stays.
Merge(r, old, new) ==
  OutputOf(IF output_kind[r] = "DELTA" THEN old.tokens \o new.tokens ELSE new.tokens,
           IF new.reason # None THEN new.reason ELSE old.reason)

\* Mutant of Put: an error waits its turn.
PutErrorBehind(r, held, new) ==
  CASE held.kind = "none"   -> new
    [] held.kind = "error"  -> held
    [] held.kind = "output" -> IF new.kind = "error" THEN held ELSE Merge(r, held, new)

\* RequestOutputCollector.put: what a collector that held something holds after it.
\* An error replaces an output, and nothing replaces an error but another error.
Put(r, held, new) ==
  CASE held.kind = "none" \/ new.kind = "error" -> new
    [] held.kind = "error" /\ new.kind # "error" -> held
    [] held.kind = "output" /\ new.kind = "output" -> Merge(r, held, new)

\* make_request_output for the request state st.
MakeRequestOutput(r, st) ==
  OutputOf(IF output_kind[r] = "DELTA"
           THEN SubSeq(st.token_ids, st.sent + 1, Len(st.token_ids))
           ELSE st.token_ids,
           st.reason)
-----------------------------------------------------------------------------
NewState == [token_ids |-> <<>>, sent |-> 0, reason |-> None]

Extended(f, x, v) == [y \in DOMAIN f \cup {x} |-> IF y = x THEN v ELSE f[y]]
Without(f, S) == Restrict(f, DOMAIN f \ S)

IdsOf(ext) == IF ext \in DOMAIN external_req_ids THEN external_req_ids[ext] ELSE {}

\* add_request
AddRequest(r) ==
  /\ requests' = Extended(requests, r, NewState)
  /\ external_req_ids' = Extended(external_req_ids, external_of[r],
                                  IdsOf(external_of[r]) \cup {r})

\* Mutant of ReleasedIds: a finished request takes its external id with it.
ReleasedIdsAll(S) ==
  Without(external_req_ids, {external_of[r] : r \in S \cap Registered})

\* remove_request, for each of S: an external id goes with its last request.
ReleasedIds(S) ==
  LET left == [ext \in DOMAIN external_req_ids |->
                 external_req_ids[ext] \ (S \cap Registered)]
  IN Without(left, {ext \in DOMAIN left : left[ext] = {}})

\* abort_requests(S) when the collectors hold held; external_req_ids keeps the ids.
AbortRequests(S, held) ==
  LET Aborted(r) == [requests[r] EXCEPT !.reason = "abort"]
  IN /\ requests' = Without(requests, S)
     /\ output' = [r \in Requests |->
          IF r \in S \cap Registered
          THEN Put(r, held[r], MakeRequestOutput(r, Aborted(r)))
          ELSE held[r]]
     /\ UNCHANGED external_req_ids
-----------------------------------------------------------------------------
(***************************************************************************)
(* process_outputs.  A batch maps each of some requests to its new tokens  *)
(* and the reason of its end, if it ended; outputs for a request nobody    *)
(* knows are skipped.  matched are the requests whose stop string is found *)
(* in this batch, which only new tokens can bring about.                   *)
(***************************************************************************)
Known(batch) == DOMAIN batch \cap Registered

MayMatch(batch) == {r \in Known(batch) : batch[r].tokens # <<>>}

\* The request with the tokens and the end of this batch, before its output is made.
Grown(batch, matched, r) ==
  [token_ids |-> requests[r].token_ids \o batch[r].tokens,
   sent      |-> requests[r].sent,
   reason    |-> IF r \in matched THEN "stop"
                 ELSE IF batch[r].reason # None THEN batch[r].reason
                 ELSE requests[r].reason]

Finished(batch, matched) ==
  {r \in Known(batch) : Grown(batch, matched, r).reason # None}

Emitted(batch, matched) ==
  {r \in Known(batch) :
     output_kind[r] = "FINAL_ONLY" => r \in Finished(batch, matched)}

\* Mutant of Processed: sent_tokens_offset is one too many.
ProcessedPastEnd(batch, matched) ==
  [r \in Registered |->
     IF r \notin Known(batch) THEN requests[r]
     ELSE LET st == Grown(batch, matched, r)
          IN IF r \in Emitted(batch, matched) \ Finished(batch, matched)
             THEN [st EXCEPT !.sent = Len(st.token_ids) + 1]
             ELSE st]

Processed(batch, matched) ==
  [r \in Registered |->
     IF r \notin Known(batch) THEN requests[r]
     ELSE LET st == Grown(batch, matched, r)
          IN IF r \in Emitted(batch, matched) \ Finished(batch, matched)
             THEN [st EXCEPT !.sent = Len(st.token_ids)]
             ELSE st]

OutputsFor(batch, matched) ==
  [r \in Emitted(batch, matched) |-> MakeRequestOutput(r, Grown(batch, matched, r))]

\* A stop string ends a request the engine does not know to have ended.
ReqsToAbort(batch, matched) == {r \in matched : batch[r].reason = None}
=============================================================================

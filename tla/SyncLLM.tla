------------------------------- MODULE SyncLLM -------------------------------
(***************************************************************************)
(* The synchronous front end: LLM of vkwr/entrypoints/llm.py over          *)
(* LLMEngine of engine/llm_engine.py over SyncMPClient of core_client.py.  *)
(* The caller's thread makes one call after the other; beside it run the   *)
(* reader thread of the output socket, the thread that watches the engine  *)
(* process, and that process.  Requests are processed without collectors:  *)
(* step() returns their outputs.                                           *)
(*                                                                         *)
(* The external id of a prompt is its place in its call, "req-i": calls    *)
(* share them.  A call made while a stream is open is not modelled.        *)
(***************************************************************************)
EXTENDS OutputProcessor, SequencesExt

CONSTANT MaxFrames,    \* bound: the engine steps while fewer frames are on their way
         MaxMessages   \* bound: the caller aborts while fewer messages are on their way

\* A scenario of Givens has the calls in order, each [kind, prompts], the prompts that
\* process_input refuses, how many tokens a request may have, what may happen.
Kinds == {"list", "stream", "utility"}
Faults == {"engine", "frame", "start", "abort", "abandon", "close"}

ASSUME SyncAssumption ==
  /\ IsFiniteSet(Requests) /\ Requests \subseteq Nat /\ None # "returned"
  /\ \A g \in Givens :
    /\ g.calls \in Seq([kind : Kinds, prompts : Seq(Requests)])
    \* an internal id is new, an external one is new in its call
    /\ \A i, j \in DOMAIN g.calls : \A a \in DOMAIN g.calls[i].prompts, b \in DOMAIN g.calls[j].prompts :
         g.calls[i].prompts[a] = g.calls[j].prompts[b] => i = j /\ a = b
    /\ \A i \in DOMAIN g.calls : \A r, s \in Range(g.calls[i].prompts) :
         g.external_of[r] = g.external_of[s] => r = s
    /\ g.refused \subseteq Requests /\ g.faults \subseteq Faults
    /\ g.max_tokens \in [Requests -> Nat]
    \* generate() replaces the output kind of a list call
    /\ \A i \in DOMAIN g.calls : g.calls[i].kind = "list" =>
         \A r \in Range(g.calls[i].prompts) : g.output_kind[r] = "FINAL_ONLY"

VARIABLES
  thread,          \* the caller's thread: see Threads
  call, added,     \* the current call, and how many of its prompts are registered
  step_outputs,    \* what step() has returned and the loop has not come to
  results,         \* of the current call: what it returns, or has yielded so far
  outcome,         \* how each call ended
  outputs_queue, reader,
  woken,           \* a message is on the inproc shutdown socket
  future,          \* of call_utility: "none", "pending", "set"
  engine_dead,     \* MPClient._engine_dead
  closed,          \* the finalizer has run, or shutdown() has detached it
  monitor,
  engine, to_engine, socket, produced, running,
  aborted, matched, orphaned   \* history: aborted by the caller, stopped by a stop
                               \* string; a call has left requests behind

callVars == <<thread, call, added, step_outputs, results, outcome>>
clientVars == <<outputs_queue, reader, woken, future, engine_dead, closed, monitor>>
engineVars == <<engine, to_engine, socket, produced, running>>
historyVars == <<aborted, matched, orphaned>>
vars == <<processorVars, callVars, clientVars, engineVars, historyVars>>

\* In "loop" and "drain" the thread is in get_output, or about to be.
Threads == {"start", "idle", "adding", "unstarted", "loop", "handle", "yielded", "drain",
            "discard", "utility", "closing", "closed"}

Frame(kind, f) == [kind |-> kind, outputs |-> f]
Batch(f) == Frame("batch", f)
Dead == Frame("dead", <<>>)
UtilityOutput == Frame("utility", <<>>)

Init ==
  /\ OutputInit
  /\ thread = "start" /\ call = 0 /\ added = 0
  /\ step_outputs = <<>> /\ results = <<>>
  /\ outcome = [i \in DOMAIN given.calls |-> None]
  /\ outputs_queue = <<>> /\ reader = "none" /\ woken = FALSE /\ future = "none"
  /\ engine_dead = FALSE /\ closed = FALSE /\ monitor = "watching"
  /\ engine = "loading" /\ to_engine = <<>> /\ socket = <<>>
  /\ produced = [r \in Requests |-> 0] /\ running = {}
  /\ aborted = {} /\ matched = {} /\ orphaned = FALSE

Current == given.calls[call]
Prompts == Current.prompts

\* _send_input: ensure_alive, then the socket.
Alive == ~engine_dead /\ engine # "gone"
Sends(msg) == Alive /\ to_engine' = Append(to_engine, msg) /\ UNCHANGED engine_dead
Raises == ~Alive /\ engine_dead' = TRUE /\ UNCHANGED to_engine
Message(type, ids) == [type |-> type, ids |-> ids]

\* The call ends; requests it leaves registered nobody waits for.
Ends(how, left) ==
  /\ thread' = "idle" /\ step_outputs' = <<>>
  /\ outcome' = [outcome EXCEPT ![call] = how]
  /\ orphaned' = (orphaned \/ left # {})
-----------------------------------------------------------------------------
(***************************************************************************)
(* MPClient.__init__: READY, or a time-out that raises zmq.Again; the      *)
(* finalizer then terminates the process.                                  *)
(***************************************************************************)
StartFrame == UNCHANGED <<processorVars, call, added, step_outputs, results, outcome,
                          outputs_queue, woken, future, engine_dead, monitor, to_engine,
                          socket, produced, running, historyVars>>

Started ==
  /\ thread = "start" /\ engine = "loading"
  /\ engine' = "up" /\ thread' = "idle" /\ reader' = "reading"
  /\ UNCHANGED closed /\ StartFrame

StartTimesOut ==
  /\ thread = "start" /\ "start" \in given.faults
  /\ engine' = "gone" /\ thread' = "closed" /\ closed' = TRUE
  /\ UNCHANGED reader /\ StartFrame
-----------------------------------------------------------------------------
(***************************************************************************)
(* LLM.generate and its two loops.                                         *)
(***************************************************************************)
CallFrame == UNCHANGED <<given, output, outputs_queue, reader, woken, closed, monitor,
                         engine, socket, produced, running>>

BeginCall ==
  /\ thread = "idle" /\ call < Len(given.calls)
  /\ call' = call + 1 /\ added' = 0 /\ results' = <<>>
  /\ thread' = IF given.calls[call'].kind = "utility" THEN "utility" ELSE "adding"
  /\ UNCHANGED <<requests, external_req_ids, step_outputs, outcome, future, engine_dead,
                 to_engine, historyVars>>
  /\ CallFrame

\* All prompts are registered before anything is run.  process_input refuses a prompt, or
\* the engine is found dead: the ones before it stay.
AddPrompt ==
  /\ thread = "adding" /\ added < Len(Prompts)
  /\ LET r == Prompts[added + 1] IN
     \/ /\ r \in given.refused
        /\ Ends("raised", Registered)
        /\ UNCHANGED <<requests, external_req_ids, added, to_engine, engine_dead>>
     \/ /\ r \notin given.refused
        /\ AddRequest(r)
        /\ \/ Sends(Message("ADD", {r})) /\ added' = added + 1
              /\ UNCHANGED <<thread, step_outputs, outcome, orphaned>>
           \/ Raises /\ Ends("raised", Registered \cup {r}) /\ UNCHANGED added
  /\ UNCHANGED <<call, results, future, aborted, matched>> /\ CallFrame

\* A call without prompts returns at once.  A list call goes on; a stream is a generator
\* nobody has started, which may be dropped.
AllAdded ==
  /\ thread = "adding" /\ added = Len(Prompts)
  /\ IF Prompts = <<>> THEN Ends("returned", Registered)
     ELSE /\ thread' = IF Current.kind = "stream" THEN "unstarted" ELSE "loop"
          /\ UNCHANGED <<step_outputs, outcome, orphaned>>
  /\ UNCHANGED <<requests, external_req_ids, call, added, results, future, engine_dead,
                 to_engine, aborted, matched>>
  /\ CallFrame

StartStream ==
  /\ thread = "unstarted"
  /\ \/ /\ thread' = "loop"
        /\ UNCHANGED <<step_outputs, outcome, orphaned>>
     \/ "abandon" \in given.faults /\ Ends("dropped", Registered)
  /\ UNCHANGED <<requests, external_req_ids, call, added, results, future, engine_dead,
                 to_engine, aborted, matched>>
  /\ CallFrame

\* Mutant of HasUnfinishedRequests: the ids are counted, which an abort leaves behind.
HasUnfinishedIds == DOMAIN external_req_ids # {}

HasUnfinishedRequests == Registered # {}

Return ==
  /\ thread \in {"loop", "drain"} /\ ~HasUnfinishedRequests
  /\ Ends(IF thread = "drain" THEN "abandoned" ELSE "returned", {})
  /\ UNCHANGED <<requests, external_req_ids, call, added, results, future, engine_dead,
                 to_engine, aborted, matched>>
  /\ CallFrame

\* What step() may return: the outputs, each its request's, in the order of the batch,
\* which may be any.
StepOutputs(batch, M) ==
  LET outs == OutputsFor(batch, M)
  IN  {[i \in DOMAIN order |-> [of |-> order[i], output |-> outs[order[i]]]] :
         order \in SetToSeqs(DOMAIN outs)}

\* get_output waits without a time limit.
GetOutput == outputs_queue # <<>> /\ outputs_queue' = Tail(outputs_queue)

\* LLMEngine.step: an error is raised to the caller.  process_outputs; an ABORT for what a
\* stop string ended, which may find the engine dead; the finished are removed.
Step ==
  /\ thread \in {"loop", "drain"} /\ HasUnfinishedRequests
  /\ GetOutput
  /\ LET item == Head(outputs_queue)
         batch == item.outputs
     IN \/ /\ item.kind = "batch"
           /\ \E M \in SUBSET MayMatch(batch) :
                /\ matched' = matched \cup M
                /\ \/ /\ IF ReqsToAbort(batch, M) = {} \/ closed
                         THEN UNCHANGED <<to_engine, engine_dead>>
                         ELSE Sends(Message("ABORT", ReqsToAbort(batch, M)))
                      /\ requests' = Without(Processed(batch, M), Finished(batch, M))
                      /\ external_req_ids' = ReleasedIds(Finished(batch, M))
                      /\ thread' = IF thread = "loop" THEN "handle" ELSE "discard"
                      /\ step_outputs' \in StepOutputs(batch, M)
                      /\ UNCHANGED <<outcome, orphaned>>
                   \/ /\ ReqsToAbort(batch, M) # {} /\ ~closed
                      /\ Raises
                      /\ requests' = Processed(batch, M)
                      /\ Ends("raised", Registered)
                      /\ UNCHANGED external_req_ids
        \/ /\ item.kind # "batch"
           /\ Ends("raised", Registered)
           /\ UNCHANGED <<requests, external_req_ids, matched, to_engine, engine_dead>>
  /\ UNCHANGED <<given, output, call, added, results, reader, woken, future, closed, monitor,
                 engine, socket, produced, running, aborted>>

\* remove_request(external id) goes through the list of its internal ids while it removes
\* from it: of those still registered that follow each other every second is passed over.
Swept(ids) ==
  LET here == ids \cap Registered
      Before(r) == {s \in here : s < r /\ \A t \in ids : s < t /\ t < r => t \in here}
  IN  {r \in here : Cardinality(Before(r)) % 2 = 0}

RemoveRequests(S) == requests' = Without(requests, S) /\ external_req_ids' = ReleasedIds(S)

\* A finished output is removed by its external id.
Cleared(out) ==
  IF out.output.reason = None THEN UNCHANGED <<requests, external_req_ids>>
  ELSE RemoveRequests(Swept(IdsOf(external_of[out.of])))

HandleFrame ==
  /\ UNCHANGED <<call, added, outcome, future, engine_dead, to_engine, historyVars>>
  /\ CallFrame

\* The loop comes to the next output, which is the caller's at once in a stream, and removed
\* after that.
Handle ==
  /\ thread = "handle"
  /\ IF step_outputs = <<>>
     THEN thread' = "loop" /\ UNCHANGED <<results, step_outputs, requests, external_req_ids>>
     ELSE /\ results' = Append(results, Head(step_outputs))
          /\ IF Current.kind = "stream"
             THEN thread' = "yielded" /\ UNCHANGED <<step_outputs, requests, external_req_ids>>
             ELSE /\ Cleared(Head(step_outputs))
                  /\ step_outputs' = Tail(step_outputs) /\ UNCHANGED thread
  /\ HandleFrame

Resume ==
  /\ thread = "yielded" /\ thread' = "handle"
  /\ Cleared(Head(step_outputs)) /\ step_outputs' = Tail(step_outputs)
  /\ UNCHANGED results /\ HandleFrame

\* An abandoned stream drops what it gets.
Discard ==
  /\ thread = "discard"
  /\ IF step_outputs = <<>>
     THEN thread' = "drain" /\ UNCHANGED <<step_outputs, requests, external_req_ids>>
     ELSE /\ Cleared(Head(step_outputs))
          /\ step_outputs' = Tail(step_outputs) /\ UNCHANGED thread
  /\ UNCHANGED results /\ HandleFrame

\* GeneratorExit where the stream waits: the rest is drained.
Abandon ==
  /\ thread = "yielded" /\ "abandon" \in given.faults
  /\ thread' = "drain" /\ step_outputs' = <<>>
  /\ UNCHANGED <<requests, external_req_ids, call, added, results, outcome, future,
                 engine_dead, to_engine, historyVars>>
  /\ CallFrame

\* abort_request, between two calls or while a stream waits: no output is made without a
\* collector.  It sends whether the id is known or not; an unknown one is no request's.
AbortRequest(ext) ==
  /\ thread \in {"idle", "unstarted", "yielded"} /\ "abort" \in given.faults
  /\ Len(to_engine) < MaxMessages
  /\ requests' = Without(requests, IdsOf(ext))
  /\ aborted' = aborted \cup (IdsOf(ext) \cap Registered)
  /\ IF closed THEN UNCHANGED <<to_engine, engine_dead>>
     ELSE Sends(Message("ABORT", IdsOf(ext))) \/ Raises
  /\ UNCHANGED <<external_req_ids, callVars, future, matched, orphaned>>
  /\ CallFrame
-----------------------------------------------------------------------------
(***************************************************************************)
(* call_utility: a future per call, set by the reader.                     *)
(***************************************************************************)
CallUtility ==
  /\ thread = "utility" /\ future = "none"
  /\ \/ Sends(Message("UTILITY", {})) /\ future' = "pending"
        /\ UNCHANGED <<thread, step_outputs, outcome, orphaned>>
     \/ Raises /\ Ends("raised", {}) /\ UNCHANGED future
  /\ UNCHANGED <<requests, external_req_ids, call, added, results, aborted, matched>>
  /\ CallFrame

UtilityReturns ==
  /\ thread = "utility" /\ future = "set" /\ future' = "none"
  /\ Ends("returned", {})
  /\ UNCHANGED <<requests, external_req_ids, call, added, results, engine_dead, to_engine,
                 aborted, matched>>
  /\ CallFrame
-----------------------------------------------------------------------------
(***************************************************************************)
(* The reader thread.  A message on the shutdown socket ends it, whatever  *)
(* else there is to read.                                                  *)
(***************************************************************************)
ReaderFrame == UNCHANGED <<processorVars, callVars, engine_dead, closed, monitor, engine,
                           to_engine, produced, running, historyVars>>

ReaderReads ==
  /\ reader = "reading" /\ ~woken /\ socket # <<>>
  /\ socket' = Tail(socket)
  /\ IF Head(socket).kind = "utility"
     THEN /\ future' = IF future = "pending" THEN "set" ELSE future
          /\ UNCHANGED outputs_queue
     ELSE outputs_queue' = Append(outputs_queue, Head(socket)) /\ UNCHANGED future
  /\ reader' = IF Head(socket).kind = "dead" THEN "done" ELSE reader
  /\ UNCHANGED woken /\ ReaderFrame

ReaderFails ==
  /\ reader = "reading" /\ ~woken /\ socket # <<>> /\ "frame" \in given.faults
  /\ reader' = "done" /\ outputs_queue' = Append(outputs_queue, Dead)
  /\ UNCHANGED <<woken, socket, future>> /\ ReaderFrame

ReaderWoken ==
  /\ reader = "reading" /\ woken /\ reader' = "done"
  /\ UNCHANGED <<outputs_queue, woken, socket, future>> /\ ReaderFrame

\* The monitor thread: it runs the finalizer, unless the death is known or it is detached.
Monitor ==
  /\ engine = "gone" /\ monitor = "watching" /\ monitor' = "done"
  /\ engine_dead' = TRUE
  /\ IF engine_dead \/ closed THEN UNCHANGED <<closed, woken>> ELSE closed' = TRUE /\ woken' = TRUE
  /\ UNCHANGED <<processorVars, callVars, outputs_queue, reader, future, engineVars, historyVars>>

\* LLM.close: SyncMPClient.shutdown wakes the reader and waits for it, then has the process
\* terminated, unless the finalizer has run.
CloseBegins ==
  /\ thread = "idle" /\ "close" \in given.faults
  /\ thread' = "closing" /\ woken' = (woken \/ reader = "reading")
  /\ UNCHANGED <<processorVars, call, added, step_outputs, results, outcome, outputs_queue,
                 reader, future, engine_dead, closed, monitor, engineVars, historyVars>>

CloseEnds ==
  /\ thread = "closing" /\ reader = "done" /\ thread' = "closed"
  /\ closed' = TRUE
  /\ IF closed THEN UNCHANGED <<engine, to_engine, running>>
     ELSE engine' = "gone" /\ to_engine' = <<>> /\ running' = {}
  /\ UNCHANGED <<processorVars, call, added, step_outputs, results, outcome, outputs_queue,
                 reader, woken, future, engine_dead, monitor, socket, produced, historyVars>>
-----------------------------------------------------------------------------
(***************************************************************************)
(* The engine process, as EngineCoreProc keeps its word.                   *)
(***************************************************************************)
EngineFrame == UNCHANGED <<processorVars, callVars, clientVars, historyVars>>

Output(tokens, reason) == [tokens |-> tokens, reason |-> reason]
AllAborted(S) == IF S = {} THEN socket
                 ELSE Append(socket, Batch([r \in S |-> Output(<<>>, "abort")]))

EngineReceives ==
  /\ engine = "up" /\ to_engine # <<>> /\ to_engine' = Tail(to_engine)
  /\ LET msg == Head(to_engine)
         gone == msg.ids \cap running
     IN CASE msg.type = "ADD" -> running' = running \cup msg.ids /\ UNCHANGED socket
          [] msg.type = "ABORT" -> running' = running \ gone /\ socket' = AllAborted(gone)
          [] msg.type = "UTILITY" -> socket' = Append(socket, UtilityOutput) /\ UNCHANGED running
  /\ UNCHANGED <<engine, produced>> /\ EngineFrame

EngineSteps(S) ==
  /\ engine = "up" /\ S # {} /\ S \subseteq running
  /\ Len(socket) + Len(outputs_queue) < MaxFrames
  /\ \E last \in SUBSET S :
       /\ \A r \in S : produced[r] + 1 = given.max_tokens[r] => r \in last
       /\ produced' = [r \in Requests |-> produced[r] + (IF r \in S THEN 1 ELSE 0)]
       /\ running' = running \ last
       /\ socket' = Append(socket, Batch([r \in S |->
            Output(<<produced[r] + 1>>, IF r \in last THEN "length" ELSE None)]))
  /\ UNCHANGED <<engine, to_engine>> /\ EngineFrame

\* A failed step answers the running requests; a fatal error says ENGINE_CORE_DEAD; a
\* killed process says nothing.
EngineStops ==
  /\ engine = "up" /\ "engine" \in given.faults
  /\ running' = {}
  /\ \/ engine' = "exiting" /\ socket' = AllAborted(running) /\ UNCHANGED to_engine
     \/ engine' = "exiting" /\ socket' = Append(socket, Dead) /\ UNCHANGED to_engine
     \/ engine' = "gone" /\ to_engine' = <<>> /\ UNCHANGED socket
  /\ UNCHANGED produced /\ EngineFrame

EngineExits ==
  /\ engine = "exiting" /\ engine' = "gone" /\ to_engine' = <<>>
  /\ UNCHANGED <<socket, produced, running>> /\ EngineFrame
-----------------------------------------------------------------------------
Main == \/ BeginCall \/ AddPrompt \/ AllAdded \/ StartStream \/ Return \/ Step \/ Handle
        \/ Resume \/ Discard \/ CallUtility \/ UtilityReturns \/ CloseEnds

Next ==
  \/ Started \/ StartTimesOut \/ Main
  \/ Abandon \/ \E ext \in ExternalIds : AbortRequest(ext)
  \/ ReaderReads \/ ReaderFails \/ ReaderWoken
  \/ Monitor \/ CloseBegins
  \/ EngineReceives \/ EngineStops \/ EngineExits
  \/ \E S \in SUBSET Requests : EngineSteps(S)

Spec == Init /\ [][Next]_vars

\* The threads run, the caller takes what a stream yields, the engine computes what it has.
FairSpec ==
  /\ Spec
  /\ WF_vars(Main)
  /\ WF_vars(ReaderReads \/ ReaderWoken) /\ WF_vars(Monitor)
  /\ WF_vars(EngineReceives) /\ WF_vars(EngineExits)
  /\ \A r \in Requests : WF_vars(\E S \in SUBSET Requests : r \in S /\ EngineSteps(S))
-----------------------------------------------------------------------------
(***************************************************************************)
(* Properties                                                              *)
(***************************************************************************)
Numbers(n) == [i \in 1 .. n |-> i]

\* What outs has for r, in order, and the tokens in such outputs.
OutputsTo(r, outs) ==
  FlattenSeq([i \in DOMAIN outs |-> IF outs[i].of = r THEN <<outs[i].output>> ELSE <<>>])
TokensIn(outs) == FlattenSeq([i \in DOMAIN outs |-> outs[i].tokens])

\* What the current call has given for r.
ResultsOf(r) == OutputsTo(r, results)
TokensOf(r) ==
  LET outs == ResultsOf(r) IN
  IF output_kind[r] = "DELTA" THEN TokensIn(outs)
  ELSE IF outs = <<>> THEN <<>> ELSE Last(outs).tokens

\* A call gives results of its own prompts only, each prompt's tokens in order and none
\* twice; when it returns, every prompt that nobody aborted has ended once, as its last
\* result, with all its tokens if its length ended it, and a list has one result of it.  It
\* holds as long as no call before has left a request behind: one whose later prompt was
\* refused, or a stream never started.
OwnResults ==
  call > 0 /\ ~orphaned =>
    /\ \A i \in DOMAIN results : results[i].of \in Range(Prompts)
    /\ \A r \in Range(Prompts) :
         LET outs == ResultsOf(r)
             tokens == TokensOf(r)
         IN
         /\ tokens = Numbers(Len(tokens))
         /\ outcome[call] = "returned" /\ Current.kind # "utility" /\ r \notin aborted =>
              /\ outs # <<>>
              /\ \A i \in DOMAIN outs : (outs[i].reason # None) <=> (i = Len(outs))
              /\ Last(outs).reason = "length" => tokens = Numbers(produced[r])
              /\ Current.kind = "list" => Len(outs) = 1

\* A send found the process dead before the monitor thread did, which then left it at that:
\* nobody runs the finalizer and nobody wakes the reader.
DeathMissed == engine = "gone" /\ monitor = "done" /\ ~closed

\* get_output has nothing to take and nothing will come: the reader has ended, or it polls a
\* socket on which nobody writes any more.
Unheard == outputs_queue = <<>> /\ (reader = "done" \/ (DeathMissed /\ socket = <<>>))

\* A call that waits for the engine ends, whatever was aborted, abandoned or left behind
\* before, unless it has taken all there was and nobody will tell it more; the future of
\* call_utility has nobody to set it once the reader has ended.
CallsEnd ==
  thread \in {"loop", "drain", "utility"} ~>
    \/ thread \in {"idle", "closed"}
    \/ thread \in {"loop", "drain"} /\ Unheard
    \/ thread = "utility" /\ future = "pending" /\ reader = "done"
=============================================================================

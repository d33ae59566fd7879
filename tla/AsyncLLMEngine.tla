--------------------------- MODULE AsyncLLMEngine ---------------------------
(***************************************************************************)
(* vkwr/engine/async_llm.py over AsyncMPClient of core_client.py: tasks of *)
(* one event loop, the thread that watches the engine process, and that    *)
(* process.                                                                *)
(*                                                                         *)
(* A task runs until it waits.  It waits for a frame, for outputs_queue,   *)
(* for its collector, or while its caller holds a yielded output; a send   *)
(* never waits, since the sockets have no high-water mark, so add_request  *)
(* and abort each are one step.  An iteration of the output handler is one *)
(* step, too, and while it has not come to wait (handler = "running") no   *)
(* other task runs.                                                        *)
(*                                                                         *)
(* Of the engine process only what EngineCoreProc is shown to keep is      *)
(* modelled: it takes messages in order, gives every request it runs       *)
(* tokens and then one end, answers an ABORT once, and may die.            *)
(***************************************************************************)
EXTENDS OutputProcessor

CONSTANT MaxFrames     \* bound: the engine steps while fewer frames are on their way

\* A scenario of Givens also says how many tokens a request may have at most and, to
\* bound the runs, which requests come, which ids somebody aborts and what may go wrong
\* together.
Faults == {"engine", "frame", "shutdown"}

ASSUME AsyncAssumption ==
  /\ MaxFrames \in Nat
  /\ \A g \in Givens : /\ g.max_tokens \in [Requests -> Nat]
                       /\ g.come \subseteq Requests /\ g.aborts \subseteq ExternalIds
                       /\ g.faults \subseteq Faults

VARIABLES
  task,            \* generate() of each request: "new", "waiting", "yielded", "last", "done"
  outcome,         \* how it ended
  delivered,       \* the tokens its caller has
  handler,         \* _output_handler: "none", "created", "running", "get", "done"
  errored,         \* _errored
  reader,          \* _output_task: "none", "reading", "cancelling", "done", "failed"
  outputs_queue,
  engine_dead,     \* MPClient._engine_dead
  closed,          \* _BackgroundResources.engine_dead: the resources are released
  monitor,         \* the monitor thread: "watching" or "done"
  shut,            \* shutdown(): "no", "begun", "reader", "done"
  engine,          \* the process: "up", "exiting", "gone"
  to_engine, socket, \* the two sockets
  produced, ended, \* per request: tokens it has sent, the end it has sent
  running,         \* requests the engine runs
  asked, matched   \* history: external ids someone aborted, stop strings found

taskVars == <<task, outcome, delivered>>
loopVars == <<handler, errored, reader, outputs_queue>>
clientVars == <<engine_dead, closed, monitor, shut>>
engineVars == <<engine, to_engine, socket, produced, ended, running>>
askVars == <<asked, matched>>
vars == <<processorVars, taskVars, loopVars, clientVars, engineVars, askVars>>

Batch(f) == [kind |-> "batch", outputs |-> f, error |-> None]
ErrorItem(e) == [kind |-> "error", outputs |-> <<>>, error |-> e]
AddOf(r) == [type |-> "ADD", ids |-> {r}]
AbortOf(S) == [type |-> "ABORT", ids |-> S]
End(reason) == [tokens |-> <<>>, reason |-> reason]

Init ==
  /\ OutputInit
  /\ task = [r \in Requests |-> "new"]
  /\ outcome = [r \in Requests |-> None]
  /\ delivered = [r \in Requests |-> <<>>]
  /\ handler = "none" /\ errored = FALSE
  /\ reader = "none" /\ outputs_queue = <<>>
  /\ engine_dead = FALSE /\ closed = FALSE /\ monitor = "watching" /\ shut = "no"
  /\ engine = "up" /\ to_engine = <<>> /\ socket = <<>>
  /\ produced = [r \in Requests |-> 0]
  /\ ended = [r \in Requests |-> None] /\ running = {}
  /\ asked = {} /\ matched = {}
-----------------------------------------------------------------------------
LoopFree == handler # "running"
Errored == errored \/ handler = "done"
Alive == ~engine_dead /\ engine # "gone"

\* A send finds the process dead.
EnsureAliveRaises == ~Alive /\ engine_dead' = TRUE /\ UNCHANGED to_engine

Send(msg) == Alive /\ to_engine' = Append(to_engine, msg) /\ UNCHANGED engine_dead

\* AsyncMPClient.abort_requests: whether it raises.
SendAbort(S, raises) ==
  \/ closed /\ ~raises /\ UNCHANGED <<to_engine, engine_dead>>
  \/ ~closed /\ ~raises /\ Send(AbortOf(S))
  \/ ~closed /\ raises /\ EnsureAliveRaises

(***************************************************************************)
(* generate(): add_request, then the loop over its collector.              *)
(***************************************************************************)
Refuse(r) ==
  /\ task' = [task EXCEPT ![r] = "done"]
  /\ outcome' = [outcome EXCEPT ![r] = "EngineDeadError"]
  /\ UNCHANGED delivered

StartReader == reader' = IF reader = "none" THEN "reading" ELSE reader

Generate(r) ==
  /\ LoopFree /\ task[r] = "new" /\ r \in given.come
  /\ \/ /\ Errored
        /\ Refuse(r)
        /\ UNCHANGED <<requests, external_req_ids, loopVars, to_engine, engine_dead>>
     \/ /\ ~Errored /\ StartReader
        /\ EnsureAliveRaises
        /\ Refuse(r)
        /\ UNCHANGED <<requests, external_req_ids, handler, errored, outputs_queue>>
     \/ /\ ~Errored /\ StartReader
        /\ AddRequest(r)
        /\ Send(AddOf(r))
        /\ handler' = IF handler = "none" THEN "created" ELSE handler
        /\ task' = [task EXCEPT ![r] = "waiting"]
        /\ UNCHANGED <<outcome, delivered, errored, outputs_queue>>
  /\ UNCHANGED <<output, given, closed, monitor, shut, engine, socket, produced,
                 ended, running, askVars>>

\* What abort(ext) does before its send.
AbortInProcessor(ext, held) ==
  /\ AbortRequests(IdsOf(ext), held)
  /\ asked' = asked \cup {ext}
  /\ UNCHANGED <<given, matched>>

AbortFrame == UNCHANGED <<loopVars, closed, monitor, shut, engine, socket, produced,
                          ended, running>>

End_(r, how) ==
  /\ task' = [task EXCEPT ![r] = "done"]
  /\ outcome' = [outcome EXCEPT ![r] = how]

OutputTaken(r) == [output EXCEPT ![r] = Empty]

Taken(r) ==
  /\ output' = OutputTaken(r)
  /\ UNCHANGED <<requests, external_req_ids, given>>

TakeOutput(r) ==
  /\ LoopFree /\ task[r] = "waiting" /\ output[r].kind = "output"
  /\ Taken(r)
  /\ delivered' = [delivered EXCEPT ![r] =
       IF output_kind[r] = "DELTA" THEN @ \o output[r].tokens ELSE output[r].tokens]
  /\ task' = [task EXCEPT ![r] = IF output[r].reason = None THEN "yielded" ELSE "last"]
  /\ outcome' = [outcome EXCEPT ![r] = output[r].reason]
  /\ UNCHANGED <<loopVars, clientVars, engineVars, askVars>>

\* EngineDeadError goes to the caller as it is.
TakeDeadError(r) ==
  /\ LoopFree /\ task[r] = "waiting"
  /\ output[r].kind = "error" /\ output[r].reason = "EngineDeadError"
  /\ Taken(r)
  /\ End_(r, "EngineDeadError")
  /\ UNCHANGED <<delivered, loopVars, clientVars, engineVars, askVars>>

\* Any other error aborts the request; the abort may find the engine dead.
TakeOtherError(r) ==
  /\ LoopFree /\ task[r] = "waiting"
  /\ output[r].kind = "error" /\ output[r].reason # "EngineDeadError"
  /\ AbortInProcessor(external_of[r], OutputTaken(r))
  /\ \E raises \in BOOLEAN :
       /\ SendAbort(IdsOf(external_of[r]), raises)
       /\ End_(r, IF raises THEN "EngineDeadError" ELSE "EngineGenerateError")
  /\ UNCHANGED delivered /\ AbortFrame

Resume(r) ==
  /\ LoopFree
  /\ \/ task[r] = "yielded" /\ task' = [task EXCEPT ![r] = "waiting"]
     \/ task[r] = "last" /\ task' = [task EXCEPT ![r] = "done"]
  /\ UNCHANGED <<outcome, delivered, processorVars, loopVars, clientVars, engineVars,
                 askVars>>

\* Mutant of Cancel: only a request that waits is aborted.
CancelSilently(r) ==
  /\ LoopFree /\ task[r] \in {"waiting", "yielded", "last"}
  /\ End_(r, "cancelled")
  /\ IF task[r] = "waiting"
     THEN /\ AbortInProcessor(external_of[r], output)
          /\ SendAbort(IdsOf(external_of[r]), FALSE)
     ELSE UNCHANGED <<processorVars, askVars, to_engine, engine_dead>>
  /\ UNCHANGED delivered /\ AbortFrame

\* CancelledError or GeneratorExit where the generator waits.
Cancel(r) ==
  /\ LoopFree /\ task[r] \in {"waiting", "yielded", "last"}
  /\ AbortInProcessor(external_of[r], output)
  /\ \E raises \in BOOLEAN :
       /\ SendAbort(IdsOf(external_of[r]), raises)
       /\ End_(r, IF raises THEN "EngineDeadError" ELSE "cancelled")
  /\ UNCHANGED delivered /\ AbortFrame

\* abort(), called by somebody else.
Abort(ext) ==
  /\ LoopFree /\ ext \in given.aborts \ asked
  /\ AbortInProcessor(ext, output)
  /\ \E raises \in BOOLEAN : SendAbort(IdsOf(ext), raises)
  /\ UNCHANGED taskVars /\ AbortFrame
-----------------------------------------------------------------------------
(***************************************************************************)
(* The output handler.  Every iteration begins with get_output_async, which*)
(* raises once the reader has ended, even if outputs are left.             *)
(***************************************************************************)
HandlerWaits ==
  /\ handler \in {"created", "running"}
  /\ reader \notin {"done", "failed"} /\ outputs_queue = <<>>
  /\ handler' = "get"
  /\ UNCHANGED <<processorVars, taskVars, errored, reader, outputs_queue, clientVars,
                 engineVars, askVars>>

\* The collectors when each request's output in f has been put.
AllPut(f) == [r \in Requests |-> IF r \in DOMAIN f THEN Put(r, output[r], f[r])
                                 ELSE output[r]]

\* propagate_error to the requests of S, whose collectors hold held.
PropagateTo(S, held, e) ==
  [r \in Requests |-> IF r \in S THEN Put(r, held[r], ErrorOutput(e)) ELSE held[r]]

HandlerEnds == handler' = "done" /\ errored' = TRUE

HandlerFails(e) ==
  /\ HandlerEnds
  /\ output' = PropagateTo(Registered, output, e)
  /\ UNCHANGED <<requests, external_req_ids, given>>

\* get_output_async raises: the reader has ended, or the next item is an error.
HandlerRaises ==
  /\ \/ /\ handler \in {"created", "running"} /\ reader \in {"done", "failed"}
        /\ HandlerFails("EngineDeadError")
        /\ UNCHANGED outputs_queue
     \/ /\ outputs_queue # <<>> /\ Head(outputs_queue).kind = "error"
        /\ \/ handler = "get"
           \/ handler \in {"created", "running"} /\ reader \notin {"done", "failed"}
        /\ HandlerFails(IF engine_dead THEN "EngineDeadError" ELSE Head(outputs_queue).error)
        /\ outputs_queue' = Tail(outputs_queue)
  /\ UNCHANGED <<taskVars, reader, clientVars, engineVars, askVars>>

\* process_outputs, then an ABORT for the requests a stop string ended, then the
\* removal of the finished; the ABORT may find the engine dead.
ProcessBatch(batch, M) ==
  LET put == AllPut(OutputsFor(batch, M))
      abort == ReqsToAbort(batch, M)
      DiesOfIt ==
        /\ abort # {}
        /\ SendAbort(abort, TRUE)
        /\ HandlerEnds
        /\ requests' = Processed(batch, M)
        /\ output' = PropagateTo(Registered, put, "EngineDeadError")
        /\ UNCHANGED external_req_ids
      GoesOn ==
        /\ IF abort = {} THEN UNCHANGED <<to_engine, engine_dead>>
           ELSE SendAbort(abort, FALSE)
        /\ handler' = "running" /\ UNCHANGED errored
        /\ requests' = Without(Processed(batch, M), Finished(batch, M))
        /\ output' = put
        /\ external_req_ids' = ReleasedIds(Finished(batch, M))
  IN DiesOfIt \/ GoesOn

HandlerProcesses ==
  /\ outputs_queue # <<>> /\ Head(outputs_queue).kind = "batch"
  /\ \/ handler = "get"
     \/ handler \in {"created", "running"} /\ reader \notin {"done", "failed"}
  /\ outputs_queue' = Tail(outputs_queue)
  /\ LET batch == Head(outputs_queue).outputs
     IN \E M \in SUBSET MayMatch(batch) :
          /\ ProcessBatch(batch, M)
          /\ matched' = matched \cup M
  /\ UNCHANGED <<given, taskVars, reader, closed, monitor, shut, engine, socket,
                 produced, ended, running, asked>>
-----------------------------------------------------------------------------
(***************************************************************************)
(* process_outputs_socket, the reader task: frames to outputs_queue.       *)
(***************************************************************************)
ReaderReads ==
  /\ LoopFree /\ reader = "reading" /\ socket # <<>>
  /\ socket' = Tail(socket)
  /\ outputs_queue' = Append(outputs_queue, Head(socket))
  /\ reader' = IF Head(socket).kind = "error" THEN "done" ELSE reader
  /\ UNCHANGED <<processorVars, taskVars, handler, errored, clientVars, engine,
                 to_engine, produced, ended, running, askVars>>

\* A frame that cannot be decoded, or a socket that cannot be read.
ReaderFails ==
  /\ LoopFree /\ reader = "reading"
  /\ closed \/ (socket # <<>> /\ "frame" \in given.faults)
  /\ outputs_queue' = Append(outputs_queue, ErrorItem("Error"))
  /\ reader' = "failed"
  /\ UNCHANGED <<processorVars, taskVars, handler, errored, clientVars, engineVars,
                 askVars>>

ReaderCancelled ==
  /\ LoopFree /\ reader = "cancelling"
  /\ outputs_queue' = Append(outputs_queue, ErrorItem("EngineDeadError"))
  /\ reader' = "done"
  /\ UNCHANGED <<processorVars, taskVars, handler, errored, clientVars, engineVars,
                 askVars>>

CancelReader == reader' = IF reader = "reading" THEN "cancelling" ELSE reader

\* _BackgroundResources.__call__: sockets are closed, with what is in them.
ReleaseResources == closed' = TRUE /\ socket' = <<>> /\ CancelReader

\* The process has gone, and its messages with it.
ProcessGone == engine' = "gone" /\ to_engine' = <<>> /\ running' = {}

(***************************************************************************)
(* The monitor thread.  It leaves the resources alone if somebody else has *)
(* found the process dead, or if shutdown has detached the finalizer.      *)
(***************************************************************************)
Monitor ==
  /\ engine = "gone" /\ monitor = "watching"
  /\ monitor' = "done" /\ engine_dead' = TRUE
  /\ IF engine_dead \/ shut = "done" THEN UNCHANGED <<closed, socket, reader>>
     ELSE ReleaseResources
  /\ UNCHANGED <<processorVars, taskVars, handler, errored, outputs_queue, shut,
                 engine, to_engine, produced, ended, running, askVars>>

(***************************************************************************)
(* shutdown(): the handler is cancelled and forgotten, unless it has ended;*)
(* then, in a thread, the reader is cancelled and the process terminated.  *)
(***************************************************************************)
ShutdownBegins ==
  /\ "shutdown" \in given.faults
  /\ LoopFree /\ shut = "no" /\ shut' = "begun"
  /\ handler' = IF handler = "done" THEN handler ELSE "none"
  /\ UNCHANGED <<processorVars, taskVars, errored, reader, outputs_queue, engine_dead,
                 closed, monitor, engineVars, askVars>>

ShutdownReader ==
  /\ shut = "begun" /\ shut' = "reader"
  /\ CancelReader
  /\ UNCHANGED <<processorVars, taskVars, handler, errored, outputs_queue, engine_dead,
                 closed, monitor, engineVars, askVars>>

\* If the monitor has run the finalizer there is nothing left to do.
ShutdownProcess ==
  /\ shut = "reader" /\ shut' = "done"
  /\ IF closed THEN UNCHANGED <<closed, socket, reader, engine, to_engine, running>>
     ELSE ReleaseResources /\ ProcessGone
  /\ UNCHANGED <<processorVars, taskVars, handler, errored, outputs_queue, engine_dead,
                 monitor, produced, ended, askVars>>
-----------------------------------------------------------------------------
(***************************************************************************)
(* The engine process.                                                     *)
(***************************************************************************)
EngineFrame == UNCHANGED <<processorVars, taskVars, loopVars, clientVars, askVars>>

\* Ends S with an abort output each.
AbortAll(S) ==
  /\ running' = running \ S
  /\ ended' = [r \in Requests |-> IF r \in S THEN "abort" ELSE ended[r]]
  /\ socket' = IF S = {} THEN socket
               ELSE Append(socket, Batch([r \in S |-> End("abort")]))

EngineReceives ==
  /\ engine = "up" /\ to_engine # <<>>
  /\ to_engine' = Tail(to_engine)
  /\ LET msg == Head(to_engine)
     IN \/ msg.type = "ADD" /\ running' = running \cup msg.ids /\ UNCHANGED <<socket, ended>>
        \/ msg.type = "ABORT" /\ AbortAll(msg.ids \cap running)
  /\ UNCHANGED <<engine, produced>> /\ EngineFrame

\* A step gives each of S a token, the end, or both.
EngineSteps(S) ==
  /\ engine = "up" /\ S # {} /\ S \subseteq running
  /\ Len(socket) + Len(outputs_queue) < MaxFrames
  /\ \E gets \in [S -> {"token", "end", "both"}] :
       LET more == {r \in S : gets[r] # "end"}
           ends == {r \in S : gets[r] # "token"}
       IN /\ \A r \in more : produced[r] < given.max_tokens[r]
          /\ produced' = [r \in Requests |-> IF r \in more THEN produced[r] + 1
                                              ELSE produced[r]]
          /\ running' = running \ ends
          /\ ended' = [r \in Requests |-> IF r \in ends THEN "length" ELSE ended[r]]
          /\ socket' = Append(socket, Batch([r \in S |->
               [tokens |-> IF r \in more THEN <<produced[r] + 1>> ELSE <<>>,
                reason |-> IF r \in ends THEN "length" ELSE None]]))
  /\ UNCHANGED <<engine, to_engine>> /\ EngineFrame

\* A failed step answers all requests and leaves the loop; a fatal error says
\* ENGINE_CORE_DEAD; a killed process says nothing.
EngineStops ==
  /\ engine = "up" /\ "engine" \in given.faults
  /\ \/ engine' = "exiting" /\ AbortAll(running) /\ UNCHANGED to_engine
     \/ /\ engine' = "exiting" /\ socket' = Append(socket, ErrorItem("EngineDeadError"))
        /\ UNCHANGED <<to_engine, running, ended>>
     \/ ProcessGone /\ UNCHANGED <<socket, ended>>
  /\ UNCHANGED produced /\ EngineFrame

EngineExits ==
  /\ engine = "exiting" /\ ProcessGone
  /\ UNCHANGED <<socket, ended, produced>> /\ EngineFrame
-----------------------------------------------------------------------------
Next ==
  \/ \E r \in Requests : \/ Generate(r) \/ Resume(r) \/ Cancel(r)
                         \/ TakeOutput(r) \/ TakeDeadError(r) \/ TakeOtherError(r)
  \/ \E ext \in ExternalIds : Abort(ext)
  \/ HandlerWaits \/ HandlerProcesses \/ HandlerRaises
  \/ ReaderReads \/ ReaderFails \/ ReaderCancelled
  \/ Monitor
  \/ ShutdownBegins \/ ShutdownReader \/ ShutdownProcess
  \/ EngineReceives \/ EngineStops \/ EngineExits
  \/ \E S \in SUBSET Requests : EngineSteps(S)

Spec == Init /\ [][Next]_vars

(***************************************************************************)
(* Tasks that can run do; a caller goes on with what it is given; the      *)
(* engine keeps its promise; the monitor thread runs.                      *)
(***************************************************************************)
FairSpec ==
  /\ Spec
  /\ \A r \in Requests :
       /\ WF_vars(TakeOutput(r) \/ TakeDeadError(r) \/ TakeOtherError(r))
       /\ WF_vars(Resume(r))
       /\ WF_vars(\E S \in SUBSET Requests : r \in S /\ EngineSteps(S))
  /\ WF_vars(HandlerWaits \/ HandlerProcesses \/ HandlerRaises)
  /\ WF_vars(ReaderReads \/ ReaderCancelled)
  /\ WF_vars(Monitor)
  /\ WF_vars(EngineReceives) /\ WF_vars(EngineExits)
-----------------------------------------------------------------------------
Numbers(n) == [i \in 1..n |-> i]

Reading(r) == task[r] \in {"waiting", "yielded"}

\* What the caller of r has when it has taken what its collector holds.
Received(r) ==
  IF output[r].kind # "output" THEN delivered[r]
  ELSE IF output_kind[r] = "DELTA" THEN delivered[r] \o output[r].tokens
  ELSE output[r].tokens

(***************************************************************************)
(* A caller gets every token once and in order, however slowly it reads:   *)
(* what it has and what its collector holds are the first tokens of the    *)
(* request, all that are known if outputs are sent before the end          *)
(* (RequestOutput.add, sent_tokens_offset, the output of an abort).        *)
(***************************************************************************)
StreamExact ==
  \A r \in Requests : Reading(r) =>
    /\ Received(r) = Numbers(Len(Received(r)))
    /\ r \in Registered /\ output_kind[r] # "FINAL_ONLY" /\ output[r].kind # "error"
         => Received(r) = requests[r].token_ids

(***************************************************************************)
(* The end a caller is told is what happened: "length" with all the tokens *)
(* the engine made, "stop" after a stop string, "abort" if somebody aborted*)
(* its external id or the engine gave up, an error only if the engine, the *)
(* reader or shutdown() ended the output (process_outputs, abort_requests, *)
(* propagate_error).                                                       *)
(***************************************************************************)
EndIsTrue ==
  \A r \in Requests :
    CASE outcome[r] = "length" -> ended[r] = "length" /\ delivered[r] = Numbers(produced[r])
      [] outcome[r] = "stop"   -> r \in matched
      [] outcome[r] = "abort"  -> external_of[r] \in asked \/ engine # "up"
      [] outcome[r] = "EngineDeadError" ->
           engine # "up" \/ reader \in {"done", "failed"} \/ shut # "no"
      [] outcome[r] = "EngineGenerateError" -> reader = "failed"
      [] OTHER -> TRUE

AbortPending(r) ==
  \E i \in DOMAIN to_engine : to_engine[i].type = "ABORT" /\ r \in to_engine[i].ids

(***************************************************************************)
(* While outputs are handled, the engine computes no request whose caller  *)
(* has gone, but for those whose ABORT is on its way (generate's except    *)
(* clause, reqs_to_abort).                                                 *)
(***************************************************************************)
NoOrphan ==
  engine = "up" /\ ~Errored =>
    \A r \in running : task[r] # "done" \/ AbortPending(r)

(***************************************************************************)
(* A registered request is found under its external id: abort(id) reaches  *)
(* it, whatever was aborted or finished under that id before it            *)
(* (external_req_ids, which abort_requests does not clean).                *)
(***************************************************************************)
AbortReaches == \A r \in Registered : r \in IdsOf(external_of[r])

\* Somebody found the process dead before the monitor thread did, and so nobody
\* releases the resources and nobody wakes the reader.
DeathMissed == engine = "gone" /\ monitor = "done" /\ ~closed

(***************************************************************************)
(* Everyone who waits for an output gets to an end, through any death of   *)
(* the engine process that the monitor thread notices first, unless        *)
(* shutdown() takes the output handler away.                               *)
(***************************************************************************)
CallersEnd ==
  \A r \in Requests :
    task[r] = "waiting" ~> task[r] = "done" \/ shut # "no" \/ DeathMissed
=============================================================================

--------------------------- MODULE EngineCoreProc ---------------------------
(***************************************************************************)
(* vkwr/engine/core_proc.py: EngineCore in a process of its own.  Three    *)
(* threads share it: the input thread decodes what the client sends, the   *)
(* signal-callback thread wakes a sleeping engine, and the main thread     *)
(* runs the busy loop, whose step is EngineCore's.  An ABORT travels twice,*)
(* on aborts_queue for the step in progress and on input_queue for the     *)
(* busy loop.                                                              *)
(*                                                                         *)
(* The socket delivers in order; outputs are counted in delivered when     *)
(* they are put on output_queue.  Utility calls and EXECUTOR_FAILED, which *)
(* nobody sends, are left out.                                             *)
(***************************************************************************)
EXTENDS EngineCore

CONSTANT ShutdownTimeouts     \* the values of config.shutdown_timeout, 0 for no draining

VARIABLES
  loop,             \* where run_busy_loop is
  input_queue,
  in_hand,          \* ABORTs the input thread has put on aborts_queue only
  sent, abort_sent, \* what the client has sent; it aborts a request once
  shutdown_state,
  callback,         \* the SignalCallback: "armed", "triggered", "done"
  shutdown_timeout  \* never changes

procVars == <<loop, input_queue, in_hand, sent, abort_sent, shutdown_state, callback,
              shutdown_timeout>>
allVars == <<vars, procVars>>

Wakeup == [type |-> "WAKEUP"]
AddOf(r) == [type |-> "ADD", req |-> r]
AbortOf(r) == [type |-> "ABORT", req |-> r]

ProcInit ==
  /\ Init
  /\ loop = "top"
  /\ input_queue = <<>> /\ in_hand = {}
  /\ sent = {} /\ abort_sent = {}
  /\ shutdown_state = "RUNNING" /\ callback = "armed"
  /\ shutdown_timeout \in ShutdownTimeouts
-----------------------------------------------------------------------------
(***************************************************************************)
(* The input thread, _decode_input, and the client behind it.  The process *)
(* ends with the busy loop, and its threads with it.                       *)
(***************************************************************************)
ReceiveAdd(r) ==
  /\ loop # "exited" /\ in_hand = {}
  /\ r \notin sent /\ \A q \in Requests \ sent : r <= q
  /\ sent' = sent \cup {r}
  /\ input_queue' = Append(input_queue, AddOf(r))
  /\ UNCHANGED <<vars, loop, in_hand, abort_sent, shutdown_state, callback,
                 shutdown_timeout>>

ReceiveAbort(r) ==
  /\ loop # "exited" /\ in_hand = {}
  /\ r \in sent \ abort_sent
  /\ abort_sent' = abort_sent \cup {r}
  /\ aborts_queue' = aborts_queue \cup {r}
  /\ in_hand' = {r}
  /\ UNCHANGED <<schedulerVars, sampled, gpuVars, loop, input_queue, sent,
                 shutdown_state, callback, shutdown_timeout>>

\* Mutant of QueueAbort: an ABORT goes to aborts_queue only.
QueueAbortNot ==
  /\ in_hand # {} /\ in_hand' = {}
  /\ UNCHANGED <<vars, loop, input_queue, sent, abort_sent, shutdown_state, callback,
                 shutdown_timeout>>

QueueAbort ==
  /\ loop # "exited"
  /\ \E r \in in_hand : input_queue' = Append(input_queue, AbortOf(r))
  /\ in_hand' = {}
  /\ UNCHANGED <<vars, loop, sent, abort_sent, shutdown_state, callback,
                 shutdown_timeout>>

(***************************************************************************)
(* SIGTERM or SIGINT, any number of times: the handler runs in the main    *)
(* thread wherever it is.  The callback thread runs once.                  *)
(***************************************************************************)
Signal ==
  /\ loop # "exited"
  /\ shutdown_state' = "REQUESTED"
  /\ callback' = IF callback = "armed" THEN "triggered" ELSE callback
  /\ UNCHANGED <<vars, loop, input_queue, in_hand, sent, abort_sent,
                 shutdown_timeout>>

\* Mutant of SignalCallback: no WAKEUP.
SignalCallbackSilent ==
  /\ callback = "triggered" /\ callback' = "done"
  /\ UNCHANGED <<vars, loop, input_queue, in_hand, sent, abort_sent, shutdown_state,
                 shutdown_timeout>>

SignalCallback ==
  /\ loop # "exited"
  /\ callback = "triggered" /\ callback' = "done"
  /\ input_queue' = Append(input_queue, Wakeup)
  /\ UNCHANGED <<vars, loop, in_hand, sent, abort_sent, shutdown_state,
                 shutdown_timeout>>
-----------------------------------------------------------------------------
\* Mutant of AbortAndReply: it replies for ids it did not find, too.
AbortAndReplyAll(ids) ==
  /\ FinishRequests(ids)
  /\ delivered' = [r \in Requests |->
       IF r \in ids
       THEN [delivered[r] EXCEPT !.finishes = @ + 1, !.reason = "abort"]
       ELSE delivered[r]]

\* finish_requests(ids) and an abort output for each request it found.
AbortAndReply(ids) ==
  /\ FinishRequests(ids)
  /\ delivered' = [r \in Requests |->
       IF r \in ids \cap Unfinished
       THEN [delivered[r] EXCEPT !.finishes = @ + 1, !.reason = "abort"]
       ELSE delivered[r]]

stepVars == <<req_to_slot, scheduleVars, outputVars, freed, aborts_queue, sampled, gpuVars>>

(***************************************************************************)
(* _handle_shutdown.                                                       *)
(***************************************************************************)
HandleShutdown ==
  /\ loop = "top"
  /\ IF shutdown_state = "REQUESTED" /\ shutdown_timeout = 0
     THEN AbortAndReply(Unfinished)
     ELSE UNCHANGED <<requestVars, queueVars, delivered>>
  /\ shutdown_state' = IF shutdown_state = "RUNNING" THEN "RUNNING" ELSE "SHUTTING_DOWN"
  /\ loop' = IF shutdown_state = "RUNNING" \/ HasRequests' THEN "input" ELSE "exited"
  /\ UNCHANGED <<pc, stepVars, input_queue, in_hand, sent, abort_sent, callback,
                 shutdown_timeout>>

(***************************************************************************)
(* _handle_client_request of the head of input_queue.  A rejected request  *)
(* never reaches the scheduler; it counts as aborted.                      *)
(***************************************************************************)
AcceptAdd(r) ==
  /\ shutdown_state = "RUNNING"
  /\ \E prompt \in PromptLens, limit \in MaxTokens : AddRequest(r, prompt, limit)
  /\ UNCHANGED delivered

RejectAddInShutdown(r) ==
  /\ shutdown_state # "RUNNING"
  /\ status' = [status EXCEPT ![r] = "FINISHED_ABORTED"]
  /\ delivered' = [delivered EXCEPT ![r].finishes = @ + 1, ![r].reason = "abort"]
  /\ UNCHANGED <<prompt_len, max_tokens, num_computed_tokens, queueVars>>

HandleClientRequest ==
  LET msg == Head(input_queue) IN
  /\ input_queue # <<>>
  /\ input_queue' = Tail(input_queue)
  /\ \/ msg.type = "ADD" /\ (AcceptAdd(msg.req) \/ RejectAddInShutdown(msg.req))
     \/ msg.type = "ABORT" /\ AbortAndReply({msg.req})
     \/ msg.type = "WAKEUP" /\ UNCHANGED <<requestVars, queueVars, delivered>>
  /\ UNCHANGED <<pc, stepVars, in_hand, sent, abort_sent, shutdown_state, callback,
                 shutdown_timeout>>

(***************************************************************************)
(* _process_input_queue.  "input": the condition of the outer while;       *)
(* "clear": between the test for an empty input_queue and the clearing of  *)
(* aborts_queue; "get": the blocking get; "drain": the second while.       *)
(***************************************************************************)
\* Mutant of Idle: it waits for requests in shutdown too.
IdleInShutdown == ~HasRequests

Idle == ~HasRequests /\ shutdown_state = "RUNNING"

InputQueue ==
  /\ loop = "input"
  /\ loop' = IF ~Idle THEN "drain" ELSE IF input_queue = <<>> THEN "clear" ELSE "get"
  /\ UNCHANGED <<vars, input_queue, in_hand, sent, abort_sent, shutdown_state,
                 callback, shutdown_timeout>>

ClearAborts ==
  /\ loop = "clear" /\ loop' = "get"
  /\ aborts_queue' = {}
  /\ UNCHANGED <<schedulerVars, sampled, gpuVars, input_queue, in_hand, sent,
                 abort_sent, shutdown_state, callback, shutdown_timeout>>

BlockingGet ==
  /\ loop = "get" /\ loop' = "input"
  /\ HandleClientRequest

Drain ==
  /\ loop = "drain" /\ loop' = "drain"
  /\ HandleClientRequest

DrainEnd ==
  /\ loop = "drain" /\ input_queue = <<>>
  /\ loop' = "step"
  /\ UNCHANGED <<vars, input_queue, in_hand, sent, abort_sent, shutdown_state,
                 callback, shutdown_timeout>>

(***************************************************************************)
(* _process_engine_step, and the except clause of run_busy_loop.           *)
(***************************************************************************)
\* Mutant of EngineStep: it returns when the model has run.
EngineStepTooEarly ==
  /\ loop = "step"
  /\ Step
  /\ loop' = IF pc' \in {"ready", "aborts"} THEN "top" ELSE "step"
  /\ UNCHANGED <<input_queue, in_hand, sent, abort_sent, shutdown_state, callback,
                 shutdown_timeout>>

EngineStep ==
  /\ loop = "step"
  /\ Step
  /\ loop' = IF pc' = "ready" THEN "top" ELSE "step"
  /\ UNCHANGED <<input_queue, in_hand, sent, abort_sent, shutdown_state, callback,
                 shutdown_timeout>>

NothingToStep ==
  /\ loop = "step" /\ pc = "ready" /\ ~HasRequests
  /\ loop' = "top"
  /\ UNCHANGED <<vars, input_queue, in_hand, sent, abort_sent, shutdown_state,
                 callback, shutdown_timeout>>

StepFailed ==
  /\ loop = "step" /\ pc \in {"raised", "failed"}
  /\ AbortAndReply(Unfinished)
  /\ loop' = "exited"
  /\ UNCHANGED <<pc, stepVars, input_queue, in_hand, sent, abort_sent, shutdown_state,
                 callback, shutdown_timeout>>
-----------------------------------------------------------------------------
BusyLoop ==
  \/ HandleShutdown \/ InputQueue \/ ClearAborts \/ BlockingGet \/ Drain \/ DrainEnd
  \/ EngineStep \/ NothingToStep \/ StepFailed

ProcNext ==
  \/ \E r \in Requests : ReceiveAdd(r)
  \/ \E r \in Requests : ReceiveAbort(r)
  \/ QueueAbort
  \/ Signal
  \/ SignalCallback
  \/ BusyLoop

ProcSpec == ProcInit /\ [][ProcNext]_allVars

\* The operating system schedules every thread.
FairProcSpec ==
  /\ ProcSpec
  /\ WF_allVars(BusyLoop)
  /\ WF_allVars(QueueAbort)
  /\ WF_allVars(SignalCallback)
-----------------------------------------------------------------------------
(***************************************************************************)
(* Properties                                                              *)
(***************************************************************************)
Messages == {Wakeup} \cup {AddOf(r) : r \in Requests} \cup {AbortOf(r) : r \in Requests}

ProcTypeOK ==
  /\ TypeOK
  /\ loop \in {"top", "input", "clear", "get", "drain", "step", "exited"}
  /\ input_queue \in Seq(Messages)
  /\ in_hand \in SUBSET Requests
  /\ sent \in SUBSET Requests /\ abort_sent \in SUBSET sent
  /\ shutdown_state \in {"RUNNING", "REQUESTED", "SHUTTING_DOWN"}
  /\ callback \in {"armed", "triggered", "done"}
  /\ shutdown_timeout \in ShutdownTimeouts
  /\ loop # "step" => pc \in {"ready", "raised", "failed"}

\* An abort is handled on two queues, shutdown aborts again and a late ADD is
\* rejected: no client ever gets a second final output, or one while its request
\* is still in the scheduler.
AnsweredOnce ==
  \A r \in Requests :
    /\ delivered[r].finishes <= 1
    /\ status[r] \in {"NEW", "WAITING", "RUNNING"} => delivered[r].finishes = 0
    /\ delivered[r].finishes = 0 /\ r \in Ended => r \in abort_sent

\* Although an idle engine clears aborts_queue, and a step consumes ids whose ADD
\* it has not seen, no abort is lost: its request has ended, or the other copy of
\* the ABORT is still on its way.
AbortNotLost ==
  \A r \in abort_sent :
    \/ r \in Ended \cup in_hand
    \/ AbortOf(r) \in Elements(input_queue)
    \/ loop = "exited"

\* run_busy_loop: "EngineCore step failed - aborting all in-flight requests to avoid
\* hanging clients".  When the loop ends, every request the engine accepted has ended; if
\* it ends because allocate raised, all but those that schedule() had in hand: the one
\* it was admitting and the ones it had set aside.
ExitEndsRequests ==
  loop = "exited" =>
    LET left == {r \in Requests : status[r] \in {"WAITING", "RUNNING"}} IN
    IF pc = "raised" THEN Cardinality(left \ Elements(step_skipped)) = 1 ELSE left = {}

\* The engine never sleeps through a signal: blocked on an empty input_queue in
\* shutdown, it has a wake-up coming.
NoLostWakeup ==
  loop = "get" /\ input_queue = <<>> /\ shutdown_state # "RUNNING" => callback = "triggered"

\* A signal ends the process, whether it drains or aborts, and every request the client
\* sends gets out of the engine before that, or with it.
AllEnds ==
  /\ shutdown_state = "REQUESTED" ~> loop = "exited"
  /\ \A r \in Requests : r \in sent ~> r \in Ended \/ loop = "exited"
=============================================================================

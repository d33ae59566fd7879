----------------------- MODULE AsyncLLMEngine_proofs -----------------------
(***************************************************************************)
(* What callers of generate() get, for any requests, names, tokens and     *)
(* scenarios: AbortReaches, NoOrphan, StreamExact and EndIsTrue.           *)
(*                                                                         *)
(* AbortReaches is inductive.  The others need AsyncInv, which says where  *)
(* a token, an end and an error may come from: a registered request has a  *)
(* reader and no end in its collector (Readers); its tokens come through   *)
(* frames and outputs_queue in order, and its end last (Flow); the engine  *)
(* runs a request nobody is registered for only until an ABORT that is on  *)
(* its way (Covered).                                                      *)
(***************************************************************************)
EXTENDS AsyncLLMEngine, SequenceTheorems, TLAPS

\* The ids found under ext once a function f has replaced external_req_ids.
Under(f, ext) == IF ext \in DOMAIN f THEN f[ext] ELSE {}

-----------------------------------------------------------------------------
(***************************************************************************)
(* The inductive invariant                                                 *)
(***************************************************************************)
Reasons == {None, "length", "stop", "abort"}
Errors == {"EngineDeadError", "Error"}
RequestStates == [token_ids : Seq(Nat), sent : Nat, reason : Reasons]
CollectorOutputs ==
  [kind : {"none", "output", "error"}, tokens : Seq(Nat), reason : Reasons \cup Errors]
EngineOutputs == [tokens : Seq(Nat), reason : {None, "length", "abort"}]
Batches ==
  [kind : {"batch"}, outputs : UNION {[S -> EngineOutputs] : S \in SUBSET Requests},
   error : {None}]
ErrorItems == [kind : {"error"}, outputs : {<<>>}, error : Errors]
Items == ErrorItems \cup Batches
Messages == [type : {"ADD", "ABORT"}, ids : SUBSET Requests]

ProcessorTypes ==
  /\ given \in Givens
  /\ Registered \subseteq Requests
  /\ \A r \in Registered : requests[r] \in RequestStates
  /\ \A ext \in DOMAIN external_req_ids :
       external_req_ids[ext] \subseteq {r \in Requests : external_of[r] = ext}
  /\ output \in [Requests -> CollectorOutputs]
TaskTypes ==
  /\ task \in [Requests -> {"new", "waiting", "yielded", "last", "done"}]
  /\ outcome \in [Requests -> Reasons \cup Errors \cup {"EngineGenerateError", "cancelled"}]
  /\ delivered \in [Requests -> Seq(Nat)]
LoopTypes ==
  /\ handler \in {"none", "created", "running", "get", "done"}
  /\ errored \in BOOLEAN /\ engine_dead \in BOOLEAN /\ closed \in BOOLEAN
  /\ reader \in {"none", "reading", "cancelling", "done", "failed"}
  /\ outputs_queue \in Seq(Items)
EngineTypes ==
  /\ engine \in {"up", "exiting", "gone"}
  /\ to_engine \in Seq(Messages) /\ socket \in Seq(Items)
  /\ produced \in [Requests -> Nat] /\ ended \in [Requests -> {None, "length", "abort"}]
  /\ running \subseteq Requests /\ matched \subseteq Requests
AsyncTypes == ProcessorTypes /\ TaskTypes /\ LoopTypes /\ EngineTypes

\* An error is nobody's invention: the engine, the reader or shutdown() ended the outputs.
Fallen == engine # "up" \/ reader \in {"done", "failed"} \/ shut # "no"

ErrorIsTrue(e) == e \in Errors /\ (e # "EngineDeadError" => reader = "failed")

Falls ==
  /\ errored <=> handler = "done"
  /\ engine_dead \/ closed => engine = "gone"
  /\ errored => Fallen
  /\ \A i \in DOMAIN outputs_queue : outputs_queue[i].kind = "error" =>
       reader \in {"done", "failed"} /\ ErrorIsTrue(outputs_queue[i].error)
  /\ \A i \in DOMAIN socket : socket[i].kind = "error" => socket[i].error = "EngineDeadError"
  /\ \A r \in Requests : output[r].kind = "error" => errored /\ ErrorIsTrue(output[r].reason)

Adds(i, r) == to_engine[i].type = "ADD" /\ r \in to_engine[i].ids
Aborts(i, r) == to_engine[i].type = "ABORT" /\ r \in to_engine[i].ids

\* Nobody has heard of a request whose generate() has not begun.
Unseen(r) ==
  /\ r \notin Registered \cup running \cup matched
  /\ output[r] = Empty /\ delivered[r] = <<>> /\ outcome[r] = None
  /\ produced[r] = 0 /\ ended[r] = None
  /\ \A i \in DOMAIN to_engine : ~Adds(i, r)
  /\ \A i \in DOMAIN outputs_queue : r \notin DOMAIN outputs_queue[i].outputs
  /\ \A i \in DOMAIN socket : r \notin DOMAIN socket[i].outputs

Fresh == \A r \in Requests : task[r] = "new" => Unseen(r)

\* Until the handler ends, a registered request has a caller and no end in its collector;
\* when it ends, everyone who still reads finds the error.
Readers ==
  \A r \in Registered :
    IF errored THEN Reading(r) => output[r].kind = "error"
    ELSE /\ Reading(r) /\ requests[r].reason = None
         /\ output[r].kind = "output" => output[r].reason = None

\* The engine runs r, or will, only until an ABORT that is on its way.
Covered(r) ==
  /\ r \in running => \E j \in DOMAIN to_engine : Aborts(j, r)
  /\ \A i \in DOMAIN to_engine : Adds(i, r) => \E j \in DOMAIN to_engine : i < j /\ Aborts(j, r)

\* The engine sends one token at a time.
SentSingly(p) ==
  \A i \in DOMAIN p : \A r \in DOMAIN p[i].outputs : Len(p[i].outputs[r].tokens) <= 1

Endings ==
  /\ \A r \in Requests, i \in DOMAIN to_engine : Adds(i, r) =>
       /\ r \notin running /\ ended[r] = None
       /\ \A j \in DOMAIN to_engine : Adds(j, r) => i = j
  /\ \A r \in running : ended[r] = None
  /\ \A i \in DOMAIN outputs_queue : \A r \in DOMAIN outputs_queue[i].outputs :
       outputs_queue[i].outputs[r].reason \in {None, ended[r]}
  /\ \A i \in DOMAIN socket : \A r \in DOMAIN socket[i].outputs :
       socket[i].outputs[r].reason \in {None, ended[r]}
  /\ engine = "up" => \A r \in Requests \ Registered : task[r] # "new" => Covered(r)

\* Why a request is aborted.
Reasoned ==
  /\ \A r \in Requests, i \in DOMAIN to_engine :
       Aborts(i, r) => external_of[r] \in asked \/ r \in matched
  /\ \A r \in Requests :
       ended[r] = "abort" => external_of[r] \in asked \/ r \in matched \/ engine # "up"
  /\ \A r \in matched : r \notin Registered \/ engine # "up"

\* What the output handler will get, if nothing more comes.
Pipeline ==
  IF reader \in {"none", "reading"} THEN outputs_queue \o socket ELSE outputs_queue

HasToken(m, r) == r \in DOMAIN m.outputs /\ m.outputs[r].tokens # <<>>
TokenIn(m, r) == m.outputs[r].tokens[1]
EndsIn(m, r) == r \in DOMAIN m.outputs /\ m.outputs[r].reason = "length"

\* In p come the tokens of r from n + 1 on, none missing and none twice; if its end comes,
\* the last of its m tokens has come before.
Flow(p, r, n, m) ==
  /\ \A i \in DOMAIN p : HasToken(p[i], r) => n < TokenIn(p[i], r) /\ TokenIn(p[i], r) <= m
  /\ \A i, j \in DOMAIN p : i < j /\ HasToken(p[i], r) /\ HasToken(p[j], r) =>
       TokenIn(p[i], r) < TokenIn(p[j], r)
  /\ \A j \in DOMAIN p : HasToken(p[j], r) =>
       \/ TokenIn(p[j], r) = n + 1
       \/ \E i \in DOMAIN p : i < j /\ HasToken(p[i], r) /\ TokenIn(p[i], r) = TokenIn(p[j], r) - 1
  /\ \A j \in DOMAIN p : EndsIn(p[j], r) =>
       \/ n = m
       \/ \E i \in DOMAIN p : i <= j /\ HasToken(p[i], r) /\ TokenIn(p[i], r) = m

\* All m tokens of r have come.
Reaches(p, r, n, m) == n = m \/ \E i \in DOMAIN p : HasToken(p[i], r) /\ TokenIn(p[i], r) = m

Flowing ==
  \A r \in Registered :
    LET n == Len(requests[r].token_ids) IN
    /\ requests[r].token_ids = Numbers(n)
    /\ Flow(Pipeline, r, n, produced[r])
    /\ reader \in {"none", "reading"} /\ engine # "gone" => Reaches(Pipeline, r, n, produced[r])

Streams ==
  \A r \in Requests : Reading(r) =>
    /\ delivered[r] = Numbers(Len(delivered[r]))
    /\ Received(r) = Numbers(Len(Received(r)))
    /\ r \in Registered /\ output_kind[r] # "FINAL_ONLY" /\ output[r].kind # "error" =>
         Received(r) = requests[r].token_ids /\ requests[r].sent = Len(requests[r].token_ids)

\* The end in a collector.
Told ==
  \A r \in Requests : output[r].kind = "output" =>
    /\ output[r].reason \in Reasons
    /\ output[r].reason = "length" /\ Reading(r) =>
         ended[r] = "length" /\ Received(r) = Numbers(produced[r])
    /\ output[r].reason = "stop" => r \in matched
    /\ output[r].reason = "abort" => external_of[r] \in asked \/ engine # "up"

AsyncInv ==
  /\ AsyncTypes /\ SentSingly(outputs_queue) /\ SentSingly(socket)
  /\ Falls /\ AbortReaches /\ Fresh /\ Readers /\ Endings /\ Reasoned
  /\ Flowing /\ Streams /\ Told /\ EndIsTrue

-----------------------------------------------------------------------------
(***************************************************************************)
(* The two dicts                                                           *)
(***************************************************************************)
\* Restrict as the library defines it.
LEMMA WithoutDomain ==
  ASSUME NEW f, NEW S
  PROVE  /\ DOMAIN Without(f, S) = DOMAIN f \ S
         /\ \A x \in DOMAIN f \ S : Without(f, S)[x] = f[x]
BY DEF Without, Restrict

\* A registered request that is not finished keeps its place when the finished are
\* removed (remove_request).
LEMMA ReleasedKeeps ==
  ASSUME AbortReaches, NEW S, NEW r \in Registered \ S
  PROVE  r \in Under(ReleasedIds(S), external_of[r])
<1> DEFINE left == [ext \in DOMAIN external_req_ids |->
                      external_req_ids[ext] \ (S \cap Registered)]
           gone == {ext \in DOMAIN left : left[ext] = {}}
<1>1. external_of[r] \in DOMAIN external_req_ids /\ r \in external_req_ids[external_of[r]]
  BY DEF AbortReaches, IdsOf
<1>2. external_of[r] \in DOMAIN left \ gone /\ r \in left[external_of[r]]
  BY <1>1
<1>3. ReleasedIds(S) = Without(left, gone)
  BY DEF ReleasedIds
<1>4. HIDE DEF left, gone
<1>5. /\ DOMAIN Without(left, gone) = DOMAIN left \ gone
      /\ \A x \in DOMAIN left \ gone : Without(left, gone)[x] = left[x]
  BY WithoutDomain
<1> QED
  BY <1>2, <1>3, <1>5 DEF Under

\* add_request puts the new request under its external id and takes nobody away.
LEMMA AddKeeps ==
  ASSUME AbortReaches, given' = given, NEW q, AddRequest(q)
  PROVE  AbortReaches'
<1> SUFFICES ASSUME NEW r \in Registered'
             PROVE  r \in IdsOf(external_of[r])'
  BY DEF AbortReaches
<1>1. Registered' = Registered \cup {q}
  BY DEF AddRequest, Extended, Registered
<1>2. \A ext : IdsOf(ext)' = IF ext = external_of[q] THEN IdsOf(ext) \cup {q} ELSE IdsOf(ext)
  BY DEF AddRequest, Extended, IdsOf
<1>3. external_of' = external_of
  BY DEF external_of
<1> QED
  BY <1>1, <1>2, <1>3 DEF AbortReaches

\* A step that leaves the external ids alone and registers nobody.
LEMMA FewerKeeps ==
  ASSUME AbortReaches, given' = given, external_req_ids' = external_req_ids,
         Registered' \subseteq Registered
  PROVE  AbortReaches'
BY DEF AbortReaches, IdsOf, external_of

\* abort_requests takes requests away and leaves the external ids.
LEMMA AbortKeeps ==
  ASSUME AbortReaches, given' = given, NEW S, NEW held, AbortRequests(S, held)
  PROVE  AbortReaches'
<1>1. requests' = Without(requests, S) /\ external_req_ids' = external_req_ids
  BY DEF AbortRequests
<1>2. Registered' = Registered \ S
  BY <1>1, WithoutDomain DEF Registered
<1> QED
  BY <1>1, <1>2, FewerKeeps

\* The output handler: outputs processed, the finished removed.
LEMMA BatchKeeps ==
  ASSUME AbortReaches, given' = given, NEW batch, NEW M, ProcessBatch(batch, M)
  PROVE  AbortReaches'
<1>1. DOMAIN Processed(batch, M) = Registered
  BY DEF Processed
<1>2. CASE requests' = Processed(batch, M) /\ UNCHANGED external_req_ids
  BY <1>1, <1>2, FewerKeeps DEF Registered
<1>3. CASE /\ requests' = Without(Processed(batch, M), Finished(batch, M))
           /\ external_req_ids' = ReleasedIds(Finished(batch, M))
  <2>1. Registered' = Registered \ Finished(batch, M)
    BY <1>1, <1>3, WithoutDomain DEF Registered
  <2>2. \A ext : IdsOf(ext)' = Under(ReleasedIds(Finished(batch, M)), ext)
    BY <1>3 DEF IdsOf, Under
  <2>3. external_of' = external_of
    BY DEF external_of
  <2> QED
    BY <2>1, <2>2, <2>3, ReleasedKeeps DEF AbortReaches
<1> QED
  BY <1>2, <1>3 DEF ProcessBatch

LEMMA InitReaches == Init => AbortReaches
BY DEF Init, OutputInit, AbortReaches, Registered

LEMMA StepReaches == AbortReaches /\ [Next]_vars => AbortReaches'
<1> SUFFICES ASSUME AbortReaches, [Next]_vars
             PROVE  AbortReaches'
  OBVIOUS
<1>1. ASSUME UNCHANGED <<requests, external_req_ids, given>>
      PROVE  AbortReaches'
  BY <1>1, FewerKeeps DEF Registered
<1>2. ASSUME NEW r \in Requests, Generate(r)
      PROVE  AbortReaches'
  BY <1>1, <1>2, AddKeeps DEF Generate
<1>3. ASSUME NEW ext, NEW held, AbortInProcessor(ext, held)
      PROVE  AbortReaches'
  BY <1>3, AbortKeeps DEF AbortInProcessor
<1>4. ASSUME NEW r \in Requests, TakeOtherError(r) \/ Cancel(r)
      PROVE  AbortReaches'
  BY <1>3, <1>4 DEF TakeOtherError, Cancel
<1>5. ASSUME NEW ext \in ExternalIds, Abort(ext)
      PROVE  AbortReaches'
  BY <1>3, <1>5 DEF Abort
<1>6. ASSUME HandlerProcesses
      PROVE  AbortReaches'
  BY <1>6, BatchKeeps DEF HandlerProcesses
<1>7. ASSUME NEW r \in Requests, TakeOutput(r) \/ TakeDeadError(r) \/ Resume(r)
      PROVE  AbortReaches'
  BY <1>1, <1>7 DEF TakeOutput, TakeDeadError, Resume, Taken, processorVars
<1>8. ASSUME HandlerWaits \/ HandlerRaises \/ ReaderReads \/ ReaderFails \/ ReaderCancelled
             \/ Monitor \/ ShutdownBegins \/ ShutdownReader \/ ShutdownProcess
      PROVE  AbortReaches'
  BY <1>1, <1>8 DEF HandlerWaits, HandlerRaises, HandlerFails, ReaderReads, ReaderFails,
     ReaderCancelled, Monitor, ShutdownBegins, ShutdownReader, ShutdownProcess,
     processorVars
<1>9. ASSUME EngineReceives \/ EngineStops \/ EngineExits
             \/ \E S \in SUBSET Requests : EngineSteps(S)
      PROVE  AbortReaches'
  BY <1>1, <1>9 DEF EngineReceives, EngineStops, EngineExits, EngineSteps, EngineFrame,
     processorVars
<1>10. CASE UNCHANGED vars
  BY <1>1, <1>10 DEF vars, processorVars
<1> QED
  BY <1>2, <1>4, <1>5, <1>6, <1>7, <1>8, <1>9, <1>10 DEF Next

(***************************************************************************)
(* abort(id) finds every registered request of that id, whatever was       *)
(* finished or aborted under it before (external_req_ids of                *)
(* output_processor.py).                                                   *)
(***************************************************************************)
THEOREM AbortReachesHolds == Spec => []AbortReaches
BY InitReaches, StepReaches, PTL DEF Spec

-----------------------------------------------------------------------------
(***************************************************************************)
(* Sequences and collectors                                                *)
(***************************************************************************)
LEMMA NumbersSeq ==
  ASSUME NEW n \in Nat
  PROVE  /\ Numbers(n) \in Seq(Nat) /\ Len(Numbers(n)) = n
         /\ \A i \in 1 .. n : Numbers(n)[i] = i
         /\ DOMAIN Numbers(n) = 1 .. n
  BY DEF Numbers

\* A sequence of numbers is what it is by its length and elements.
LEMMA IsNumbers ==
  ASSUME NEW s \in Seq(Nat), \A i \in 1 .. Len(s) : s[i] = i
  PROVE  s = Numbers(Len(s))
  BY DEF Numbers

LEMMA NextNumber ==
  ASSUME NEW n \in Nat PROVE Numbers(n) \o <<n + 1>> = Numbers(n + 1)
<1> DEFINE one == <<n + 1>>
           p == Numbers(n)
           s == p \o one
<1>1. one \in Seq(Nat) /\ Len(one) = 1 /\ one[1] = n + 1
  OBVIOUS
<1>2. p \in Seq(Nat) /\ Len(p) = n /\ \A i \in 1 .. n : p[i] = i
  BY NumbersSeq
<1> HIDE DEF one, p
<1>3. /\ s \in Seq(Nat) /\ Len(s) = n + 1
      /\ \A i \in 1 .. n + 1 : s[i] = IF i <= n THEN p[i] ELSE one[i - n]
  <2>1. /\ s \in Seq(Nat) /\ Len(s) = Len(p) + Len(one)
        /\ \A i \in 1 .. Len(p) + Len(one) : s[i] = IF i <= Len(p) THEN p[i] ELSE one[i - Len(p)]
    BY <1>1, <1>2, ConcatProperties
  <2> QED BY <1>1, <1>2, <2>1
<1> HIDE DEF s
<1>4. ASSUME NEW i \in 1 .. Len(s) PROVE s[i] = i
  <2>1. CASE i <= n
    BY <1>2, <1>3, <2>1
  <2>2. CASE i = n + 1
    <3>1. ~(i <= n) /\ i - n = 1
      BY <2>2
    <3>2. s[i] = one[i - n]
      BY <1>3, <3>1
    <3> QED BY <1>1, <2>2, <3>1, <3>2
  <2> QED BY <1>3, <2>1, <2>2
<1>5. s = Numbers(n + 1)
  BY <1>3, <1>4, IsNumbers
<1> QED BY <1>5 DEF s, p, one

LEMMA OneToken ==
  ASSUME NEW s \in Seq(Nat), s # <<>>, Len(s) <= 1
  PROVE  s = <<s[1]>>
<1> DEFINE one == <<s[1]>>
<1>1. Len(s) = 1 /\ s[1] \in Nat
  <2> DEFINE l == Len(s)
  <2>1. l \in Nat /\ l # 0 /\ l <= 1
    BY EmptySeq
  <2> HIDE DEF l
  <2>2. l = 1
    BY <2>1
  <2> QED BY <2>2 DEF l
<1>2. one \in Seq(Nat) /\ Len(one) = 1 /\ one[1] = s[1]
  BY <1>1
<1> HIDE DEF one
<1>3. \A i \in 1 .. Len(s) : i = 1
  BY <1>1
<1>4. s = one
  BY <1>1, <1>2, <1>3, SeqEqual
<1> QED BY <1>4 DEF one

LEMMA FirstNumbers ==
  ASSUME NEW p \in Seq(Nat), NEW q \in Seq(Nat), p \o q = Numbers(Len(p \o q))
  PROVE  p = Numbers(Len(p))
<1>1. /\ p \o q \in Seq(Nat) /\ Len(p \o q) = Len(p) + Len(q)
      /\ \A i \in 1 .. Len(p) + Len(q) : (p \o q)[i] = IF i <= Len(p) THEN p[i] ELSE q[i - Len(p)]
  BY ConcatProperties
<1>2. \A i \in 1 .. Len(p) : p[i] = i
  <2> SUFFICES ASSUME NEW i \in 1 .. Len(p) PROVE p[i] = i
    OBVIOUS
  <2>1. (p \o q)[i] = p[i] /\ i \in 1 .. Len(p \o q) /\ Len(p \o q) \in Nat
    BY <1>1
  <2> QED BY <2>1, NumbersSeq
<1> QED BY <1>2, IsNumbers

\* What a DELTA output adds to what was sent.
LEMMA SentAndRest ==
  ASSUME NEW s \in Seq(Nat), NEW t \in Seq(Nat)
  PROVE  /\ SubSeq(s \o t, Len(s) + 1, Len(s \o t)) = t
         /\ s \o t \in Seq(Nat)
<1> DEFINE w == s \o t
           x == SubSeq(w, Len(s) + 1, Len(w))
<1>1. /\ w \in Seq(Nat) /\ Len(w) = Len(s) + Len(t)
      /\ \A i \in 1 .. Len(s) + Len(t) : w[i] = IF i <= Len(s) THEN s[i] ELSE t[i - Len(s)]
  BY ConcatProperties
<1> HIDE DEF w
<1>2. /\ x \in Seq(Nat) /\ Len(x) = Len(t)
      /\ \A i \in 1 .. Len(t) : x[i] = w[Len(s) + i]
  <2>1. \A i \in Len(s) + 1 .. Len(w) : w[i] \in Nat
    BY <1>1
  <2>2. Len(s) + 1 \in Int /\ Len(w) \in Int
    BY <1>1
  <2>3. /\ x \in Seq(Nat)
        /\ Len(x) = IF Len(s) + 1 <= Len(w) THEN Len(w) - (Len(s) + 1) + 1 ELSE 0
        /\ \A i \in 1 .. Len(w) - (Len(s) + 1) + 1 : x[i] = w[Len(s) + 1 + i - 1]
    BY <2>1, <2>2, SubSeqProperties
  <2> QED BY <1>1, <2>3
<1> HIDE DEF x
<1>3. ASSUME NEW i \in 1 .. Len(t) PROVE x[i] = t[i]
  <2>1. Len(s) \in Nat /\ Len(s) + i \in 1 .. Len(s) + Len(t) /\ ~(Len(s) + i <= Len(s))
        /\ (Len(s) + i) - Len(s) = i
    OBVIOUS
  <2>2. w[Len(s) + i] = t[(Len(s) + i) - Len(s)]
    BY <1>1, <2>1
  <2>3. t[(Len(s) + i) - Len(s)] = t[i]
    BY <2>1
  <2> QED BY <1>2, <2>2, <2>3
<1>4. x = t
  BY <1>2, <1>3, SeqEqual
<1> QED BY <1>1, <1>4 DEF x, w

LEMMA MadeOutput ==
  ASSUME NEW r \in Requests, NEW st, st.token_ids \in Seq(Nat), st.sent \in Nat,
         st.reason \in Reasons
  PROVE  /\ MakeRequestOutput(r, st) \in CollectorOutputs
         /\ MakeRequestOutput(r, st).kind = "output"
         /\ MakeRequestOutput(r, st).reason = st.reason
         /\ MakeRequestOutput(r, st).tokens =
              IF output_kind[r] = "DELTA" THEN SubSeq(st.token_ids, st.sent + 1, Len(st.token_ids))
              ELSE st.token_ids
<1>1. SubSeq(st.token_ids, st.sent + 1, Len(st.token_ids)) \in Seq(Nat)
  <2>1. st.sent + 1 \in Int /\ Len(st.token_ids) \in Int
    OBVIOUS
  <2>2. \A i \in st.sent + 1 .. Len(st.token_ids) : st.token_ids[i] \in Nat
    OBVIOUS
  <2> QED BY <2>1, <2>2, SubSeqProperties
<1> QED BY <1>1 DEF MakeRequestOutput, OutputOf, CollectorOutputs

\* A collector after put: an error stays, an output is merged.
PutMakes(r, held, new) ==
  /\ Put(r, held, new) \in CollectorOutputs
  /\ IF held.kind = "error" THEN Put(r, held, new) = held
     ELSE /\ Put(r, held, new).kind = "output"
          /\ Put(r, held, new).reason =
               IF new.reason # None \/ held.kind = "none" THEN new.reason ELSE held.reason
          /\ Put(r, held, new).tokens =
               IF held.kind = "output" /\ output_kind[r] = "DELTA"
               THEN held.tokens \o new.tokens ELSE new.tokens

LEMMA PutOutput ==
  ASSUME NEW r, NEW held \in CollectorOutputs, NEW new \in CollectorOutputs, new.kind = "output"
  PROVE  PutMakes(r, held, new)
<1>1. CASE held.kind = "none"
  BY <1>1 DEF Put, PutMakes, CollectorOutputs
<1>2. CASE held.kind = "error"
  BY <1>2 DEF Put, PutMakes, CollectorOutputs
<1>3. CASE held.kind = "output"
  <2>1. Put(r, held, new) = Merge(r, held, new)
    BY <1>3 DEF Put
  <2>2. held.tokens \o new.tokens \in Seq(Nat)
    BY ConcatProperties DEF CollectorOutputs
  <2> QED BY <1>3, <2>1, <2>2 DEF Merge, OutputOf, PutMakes, CollectorOutputs
<1> QED BY <1>1, <1>2, <1>3 DEF CollectorOutputs

LEMMA PutError ==
  ASSUME NEW r, NEW held \in CollectorOutputs, NEW e \in Errors
  PROVE  /\ Put(r, held, ErrorOutput(e)) = ErrorOutput(e)
         /\ ErrorOutput(e) \in CollectorOutputs
         /\ ErrorOutput(e).kind = "error" /\ ErrorOutput(e).reason = e
  BY DEF Put, ErrorOutput, CollectorOutputs

-----------------------------------------------------------------------------
(***************************************************************************)
(* What a step does: aborts and batches                                    *)
(***************************************************************************)
AbortMove(ext, held) ==
  /\ AbortInProcessor(ext, held)
  /\ \E raises \in BOOLEAN : SendAbort(IdsOf(ext), raises)
  /\ UNCHANGED delivered /\ AbortFrame
  /\ \/ held = output /\ UNCHANGED <<task, outcome>>
     \/ \E r \in Requests :
          /\ ext = external_of[r] /\ held \in {output, OutputTaken(r)} /\ task[r] # "new"
          /\ \E how \in {"EngineDeadError", "EngineGenerateError", "cancelled"} : End_(r, how)

\* The three ways to abort.
LEMMA EveryAbort ==
  /\ \A r \in Requests : Cancel(r) => AbortMove(external_of[r], output)
  /\ \A r \in Requests : TakeOtherError(r) => AbortMove(external_of[r], OutputTaken(r))
  /\ \A ext \in ExternalIds : Abort(ext) => AbortMove(ext, output)
<1>1. ASSUME NEW r \in Requests, Cancel(r) PROVE AbortMove(external_of[r], output)
  <2>1. PICK raises \in BOOLEAN :
          /\ SendAbort(IdsOf(external_of[r]), raises)
          /\ End_(r, IF raises THEN "EngineDeadError" ELSE "cancelled")
    BY <1>1 DEF Cancel
  <2> QED BY <1>1, <2>1 DEF Cancel, AbortMove
<1>2. ASSUME NEW r \in Requests, TakeOtherError(r)
      PROVE  AbortMove(external_of[r], OutputTaken(r))
  <2>1. PICK raises \in BOOLEAN :
          /\ SendAbort(IdsOf(external_of[r]), raises)
          /\ End_(r, IF raises THEN "EngineDeadError" ELSE "EngineGenerateError")
    BY <1>2 DEF TakeOtherError
  <2> QED BY <1>2, <2>1 DEF TakeOtherError, AbortMove
<1>3. \A ext \in ExternalIds : Abort(ext) => AbortMove(ext, output)
  BY DEF Abort, AbortMove, taskVars
<1> QED BY <1>1, <1>2, <1>3

LEMMA EmptyTaken ==
  ASSUME AsyncTypes, NEW r \in Requests
  PROVE  /\ Empty \in CollectorOutputs
         /\ OutputTaken(r) \in [Requests -> CollectorOutputs]
         /\ OutputTaken(r)[r] = Empty
         /\ \A q \in Requests : q # r => OutputTaken(r)[q] = output[q]
<1>1. Empty \in CollectorOutputs
  BY DEF Empty, CollectorOutputs, Reasons
<1>2. output \in [Requests -> CollectorOutputs]
  BY DEF AsyncTypes, ProcessorTypes
<1> QED BY <1>1, <1>2 DEF OutputTaken

\* The tokens of r that its collector has not been given.
Unsent(r) == SubSeq(requests[r].token_ids, requests[r].sent + 1, Len(requests[r].token_ids))

LEMMA AbortMoves ==
  ASSUME AsyncInv, NEW ext, NEW held \in [Requests -> CollectorOutputs], AbortMove(ext, held)
  PROVE  /\ IdsOf(ext) \subseteq {r \in Requests : external_of[r] = ext}
         /\ asked' = asked \cup {ext}
         /\ Registered' = Registered \ IdsOf(ext)
         /\ \A r \in Registered' : requests'[r] = requests[r]
         /\ output' \in [Requests -> CollectorOutputs]
         /\ \A r \in Requests \ (IdsOf(ext) \cap Registered) : output'[r] = held[r]
         /\ \A r \in IdsOf(ext) \cap Registered :
              IF held[r].kind = "error" THEN output'[r] = held[r]
              ELSE /\ output'[r].kind = "output" /\ output'[r].reason = "abort"
                   /\ output'[r].tokens =
                        IF output_kind[r] = "DELTA"
                        THEN IF held[r].kind = "output" THEN held[r].tokens \o Unsent(r)
                             ELSE Unsent(r)
                        ELSE requests[r].token_ids
         /\ \/ engine = "gone" /\ to_engine' = to_engine
            \/ to_engine' = Append(to_engine, AbortOf(IdsOf(ext))) /\ engine_dead' = engine_dead
         /\ engine_dead' \in BOOLEAN /\ (engine_dead' => engine = "gone")
         /\ UNCHANGED <<given, matched, external_req_ids, delivered, loopVars, closed, monitor,
                        shut, engine, socket, produced, ended, running>>
<1>0. /\ AsyncTypes /\ Falls
      /\ \A e \in DOMAIN external_req_ids :
           external_req_ids[e] \subseteq {r \in Requests : external_of[r] = e}
      /\ Registered \subseteq Requests
      /\ \A r \in Registered : requests[r] \in RequestStates
  BY DEF AsyncInv, AsyncTypes, ProcessorTypes
<1> DEFINE S == IdsOf(ext)
           St(r) == [requests[r] EXCEPT !.reason = "abort"]
<1>1. S \subseteq {r \in Requests : external_of[r] = ext}
  BY <1>0 DEF IdsOf
<1>2. /\ requests' = Without(requests, S)
      /\ output' = [r \in Requests |->
           IF r \in S \cap Registered THEN Put(r, held[r], MakeRequestOutput(r, St(r))) ELSE held[r]]
      /\ UNCHANGED <<external_req_ids, given, matched>>
      /\ asked' = asked \cup {ext}
  BY DEF AbortMove, AbortInProcessor, AbortRequests
<1> HIDE DEF S
<1>3. Registered' = Registered \ S /\ \A r \in Registered' : requests'[r] = requests[r]
  <2>1. /\ DOMAIN Without(requests, S) = DOMAIN requests \ S
        /\ \A r \in DOMAIN requests \ S : Without(requests, S)[r] = requests[r]
    BY WithoutDomain
  <2> QED BY <1>2, <2>1 DEF Registered
<1>4. ASSUME NEW r \in S \cap Registered
      PROVE  /\ MakeRequestOutput(r, St(r)) \in CollectorOutputs
             /\ MakeRequestOutput(r, St(r)).kind = "output"
             /\ MakeRequestOutput(r, St(r)).reason = "abort"
             /\ MakeRequestOutput(r, St(r)).tokens =
                  IF output_kind[r] = "DELTA" THEN Unsent(r) ELSE requests[r].token_ids
  <2>1. requests[r] \in RequestStates /\ r \in Requests
    BY <1>0
  <2>2. /\ St(r).token_ids = requests[r].token_ids /\ St(r).sent = requests[r].sent
        /\ St(r).reason = "abort" /\ St(r).token_ids \in Seq(Nat) /\ St(r).sent \in Nat
        /\ St(r).reason \in Reasons
    BY <2>1 DEF RequestStates, Reasons
  <2> HIDE DEF St
  <2> QED BY <2>1, <2>2, MadeOutput DEF Unsent
<1> DEFINE New(r) == MakeRequestOutput(r, St(r))
<1>5. ASSUME NEW r \in S \cap Registered
      PROVE  /\ output'[r] \in CollectorOutputs
             /\ IF held[r].kind = "error" THEN output'[r] = held[r]
                ELSE /\ output'[r].kind = "output" /\ output'[r].reason = "abort"
                     /\ output'[r].tokens =
                          IF output_kind[r] = "DELTA"
                          THEN IF held[r].kind = "output" THEN held[r].tokens \o Unsent(r)
                               ELSE Unsent(r)
                          ELSE requests[r].token_ids
  <2>1. /\ New(r) \in CollectorOutputs /\ New(r).kind = "output" /\ New(r).reason = "abort"
        /\ New(r).tokens = IF output_kind[r] = "DELTA" THEN Unsent(r) ELSE requests[r].token_ids
    BY <1>4
  <2>2. output'[r] = Put(r, held[r], New(r)) /\ held[r] \in CollectorOutputs
    BY <1>0, <1>2
  <2> HIDE DEF New
  <2>3. "abort" # None
    BY OutputAssumption
  <2>4. PutMakes(r, held[r], New(r))
    BY <2>1, <2>2, PutOutput
  <2> QED BY <2>1, <2>2, <2>3, <2>4 DEF PutMakes
<1>6. /\ \A r \in Requests \ (S \cap Registered) : output'[r] = held[r]
      /\ output' \in [Requests -> CollectorOutputs]
  BY <1>2, <1>5
<1>7. /\ \/ engine = "gone" /\ to_engine' = to_engine
         \/ to_engine' = Append(to_engine, AbortOf(S)) /\ engine_dead' = engine_dead
      /\ engine_dead' \in BOOLEAN /\ (engine_dead' => engine = "gone")
  <2>1. engine_dead \in BOOLEAN /\ (engine_dead \/ closed => engine = "gone")
    BY <1>0 DEF AsyncTypes, LoopTypes, Falls
  <2>2. PICK raises \in BOOLEAN : SendAbort(S, raises)
    BY DEF AbortMove, S
  <2>3. CASE closed
    BY <2>1, <2>2, <2>3 DEF SendAbort
  <2>4. CASE ~closed /\ Send(AbortOf(S))
    BY <2>1, <2>4 DEF Send
  <2>5. CASE ~closed /\ EnsureAliveRaises
    BY <2>1, <2>5 DEF EnsureAliveRaises, Alive
  <2> QED BY <2>2, <2>3, <2>4, <2>5 DEF SendAbort
<1>8. UNCHANGED <<given, matched, external_req_ids, delivered, loopVars, closed, monitor,
                  shut, engine, socket, produced, ended, running>>
  BY <1>2 DEF AbortMove, AbortFrame
<1>9. S = IdsOf(ext)
  BY DEF S
<1> HIDE DEF New, St
<1> QED BY <1>1, <1>2, <1>3, <1>5, <1>6, <1>7, <1>8, <1>9

\* The output handler processes batch, in which M find their stop strings.
BatchMove(batch, M) ==
  /\ outputs_queue # <<>> /\ Head(outputs_queue).kind = "batch"
  /\ handler \in {"get", "created", "running"}
  /\ batch = Head(outputs_queue).outputs /\ M \in SUBSET MayMatch(batch)
  /\ outputs_queue' = Tail(outputs_queue)
  /\ ProcessBatch(batch, M)
  /\ matched' = matched \cup M
  /\ UNCHANGED <<given, taskVars, reader, closed, monitor, shut, engine, socket,
                 produced, ended, running, asked>>

LEMMA EveryBatch == HandlerProcesses => \E batch, M : BatchMove(batch, M)
  BY DEF HandlerProcesses, BatchMove

\* The ABORT finds the engine dead: the handler ends.
BatchEnds(batch, M) ==
  /\ handler' = "done" /\ errored' = TRUE /\ engine = "gone" /\ engine_dead' = TRUE
  /\ to_engine' = to_engine /\ external_req_ids' = external_req_ids
  /\ requests' = Processed(batch, M) /\ Registered' = Registered
  /\ output' = PropagateTo(Registered, AllPut(OutputsFor(batch, M)), "EngineDeadError")

BatchGoes(batch, M) ==
  /\ handler' = "running" /\ errored' = errored /\ engine_dead' = engine_dead
  /\ \/ engine = "gone" /\ to_engine' = to_engine
     \/ ReqsToAbort(batch, M) = {} /\ to_engine' = to_engine
     \/ to_engine' = Append(to_engine, AbortOf(ReqsToAbort(batch, M)))
  /\ Registered' = Registered \ Finished(batch, M)
  /\ \A r \in Registered' : requests'[r] = Processed(batch, M)[r]
  /\ output' = AllPut(OutputsFor(batch, M))
  /\ external_req_ids' = ReleasedIds(Finished(batch, M))

LEMMA BatchMoves ==
  ASSUME AsyncInv, NEW batch, NEW M, BatchMove(batch, M)
  PROVE  /\ ~errored /\ handler # "done"
         /\ DOMAIN batch \subseteq Requests
         /\ \A r \in DOMAIN batch : batch[r] \in EngineOutputs /\ Len(batch[r].tokens) <= 1
         /\ M \subseteq Known(batch) /\ \A r \in M : batch[r].tokens # <<>>
         /\ BatchEnds(batch, M) \/ BatchGoes(batch, M)
<1>0. AsyncTypes /\ Falls /\ SentSingly(outputs_queue)
  BY DEF AsyncInv
<1>1. /\ outputs_queue \in Seq(Items) /\ outputs_queue # <<>>
      /\ Head(outputs_queue).kind = "batch" /\ batch = Head(outputs_queue).outputs
      /\ M \in SUBSET MayMatch(batch) /\ ProcessBatch(batch, M)
      /\ handler \in {"get", "created", "running"}
  BY <1>0 DEF AsyncTypes, LoopTypes, BatchMove
<1>2. Head(outputs_queue) \in Items /\ 1 \in DOMAIN outputs_queue
      /\ Head(outputs_queue) = outputs_queue[1]
  BY <1>1
<1>3. Head(outputs_queue) \in Batches
  BY <1>1, <1>2 DEF Items, ErrorItems
<1>4. PICK T \in SUBSET Requests : batch \in [T -> EngineOutputs]
  BY <1>1, <1>3 DEF Batches
<1>5. \A r \in DOMAIN batch : Len(batch[r].tokens) <= 1
  BY <1>0, <1>1, <1>2 DEF SentSingly
<1>6. ~errored /\ handler # "done"
  BY <1>0, <1>1 DEF Falls
<1>7. M \subseteq Known(batch) /\ \A r \in M : batch[r].tokens # <<>>
  BY <1>1 DEF MayMatch
<1>8. DOMAIN Processed(batch, M) = Registered
  BY DEF Processed
<1>9. engine_dead \in BOOLEAN /\ (engine_dead \/ closed => engine = "gone")
  BY <1>0 DEF AsyncTypes, LoopTypes, Falls
<1>10. CASE /\ SendAbort(ReqsToAbort(batch, M), TRUE) /\ HandlerEnds
            /\ requests' = Processed(batch, M)
            /\ output' = PropagateTo(Registered, AllPut(OutputsFor(batch, M)), "EngineDeadError")
            /\ UNCHANGED external_req_ids
  <2>1. engine = "gone" /\ engine_dead' = TRUE /\ to_engine' = to_engine
    BY <1>9, <1>10 DEF SendAbort, EnsureAliveRaises, Alive
  <2>2. Registered' = Registered
    BY <1>8, <1>10 DEF Registered
  <2> QED BY <1>4, <1>5, <1>6, <1>7, <1>10, <2>1, <2>2 DEF HandlerEnds, BatchEnds
<1>11. CASE /\ IF ReqsToAbort(batch, M) = {} THEN UNCHANGED <<to_engine, engine_dead>>
               ELSE SendAbort(ReqsToAbort(batch, M), FALSE)
            /\ handler' = "running" /\ UNCHANGED errored
            /\ requests' = Without(Processed(batch, M), Finished(batch, M))
            /\ output' = AllPut(OutputsFor(batch, M))
            /\ external_req_ids' = ReleasedIds(Finished(batch, M))
  <2>1. /\ engine_dead' = engine_dead
        /\ \/ engine = "gone" /\ to_engine' = to_engine
           \/ ReqsToAbort(batch, M) = {} /\ to_engine' = to_engine
           \/ to_engine' = Append(to_engine, AbortOf(ReqsToAbort(batch, M)))
    BY <1>9, <1>11 DEF SendAbort, Send
  <2>2. /\ Registered' = Registered \ Finished(batch, M)
        /\ \A r \in Registered' : requests'[r] = Processed(batch, M)[r]
    <3> DEFINE f == Processed(batch, M)
               F == Finished(batch, M)
    <3>1. DOMAIN f = DOMAIN requests /\ requests' = Without(f, F)
      BY <1>8, <1>11 DEF Registered
    <3> HIDE DEF f, F
    <3>2. /\ DOMAIN Without(f, F) = DOMAIN f \ F
          /\ \A r \in DOMAIN f \ F : Without(f, F)[r] = f[r]
      BY WithoutDomain
    <3> QED BY <3>1, <3>2 DEF Registered, f, F
  <2> QED BY <1>4, <1>5, <1>6, <1>7, <1>11, <2>1, <2>2 DEF BatchGoes
<1> QED BY <1>1, <1>10, <1>11 DEF ProcessBatch

\* Whom an abort leaves registered or reading, it leaves alone.
LEMMA AbortReaders ==
  ASSUME AsyncInv, NEW ext, NEW held \in [Requests -> CollectorOutputs], AbortMove(ext, held)
  PROVE  /\ task' \in [Requests -> {"new", "waiting", "yielded", "last", "done"}]
         /\ outcome' \in [Requests -> Reasons \cup Errors \cup {"EngineGenerateError", "cancelled"}]
         /\ \A q \in Requests : task'[q] = "new" <=> task[q] = "new"
         /\ \A q \in Requests : task'[q] # "done" => task'[q] = task[q] /\ outcome'[q] = outcome[q]
         /\ \A q \in Registered' : task'[q] = task[q] /\ held[q] = output[q]
         /\ \A q \in Requests : held[q] = output[q] \/ held[q] = Empty
         /\ \A q \in Requests : task'[q] # "done" => held[q] = output[q]
<1>0. AsyncTypes /\ AbortReaches /\ Registered' = Registered \ IdsOf(ext)
  BY AbortMoves DEF AsyncInv
<1>1. /\ task \in [Requests -> {"new", "waiting", "yielded", "last", "done"}]
      /\ outcome \in [Requests -> Reasons \cup Errors \cup {"EngineGenerateError", "cancelled"}]
      /\ Registered \subseteq Requests
  BY <1>0 DEF AsyncTypes, TaskTypes, ProcessorTypes
<1>2. CASE held = output /\ UNCHANGED <<task, outcome>>
  BY <1>0, <1>1, <1>2
<1>3. ASSUME NEW r \in Requests, ext = external_of[r], held \in {output, OutputTaken(r)},
             task[r] # "new",
             NEW how \in {"EngineDeadError", "EngineGenerateError", "cancelled"}, End_(r, how)
      PROVE  /\ task' \in [Requests -> {"new", "waiting", "yielded", "last", "done"}]
             /\ outcome' \in [Requests -> Reasons \cup Errors \cup {"EngineGenerateError", "cancelled"}]
             /\ \A q \in Requests : task'[q] = "new" <=> task[q] = "new"
             /\ \A q \in Requests : task'[q] # "done" => task'[q] = task[q] /\ outcome'[q] = outcome[q]
             /\ \A q \in Registered' : task'[q] = task[q] /\ held[q] = output[q]
             /\ \A q \in Requests : held[q] = output[q] \/ held[q] = Empty
             /\ \A q \in Requests : task'[q] # "done" => held[q] = output[q]
  <2>1. /\ task' = [task EXCEPT ![r] = "done"] /\ outcome' = [outcome EXCEPT ![r] = how]
    BY <1>3 DEF End_
  <2>2. r \notin Registered'
    BY <1>0, <1>3 DEF AbortReaches
  <2>3. \A q \in Requests : q # r => held[q] = output[q]
    BY <1>0, <1>3, EmptyTaken
  <2>4. held[r] = output[r] \/ held[r] = Empty
    BY <1>0, <1>3, EmptyTaken
  <2>5. how \in Errors \cup {"EngineGenerateError", "cancelled"}
    BY <1>3 DEF Errors
  <2>6. task'[r] = "done"
    BY <1>1, <2>1
  <2>7. /\ task' \in [Requests -> {"new", "waiting", "yielded", "last", "done"}]
        /\ outcome' \in [Requests -> Reasons \cup Errors \cup {"EngineGenerateError", "cancelled"}]
    BY <1>1, <2>1, <2>5
  <2>8. \A q \in Requests : q # r => task'[q] = task[q] /\ outcome'[q] = outcome[q]
    BY <1>1, <2>1
  <2>9. Registered' \subseteq Requests
    BY <1>0, <1>1
  <2> QED BY <1>3, <2>2, <2>3, <2>4, <2>6, <2>7, <2>8, <2>9
<1> QED BY <1>2, <1>3 DEF AbortMove

\* What each request has, and each collector, when the outputs of a batch have been put.
BatchMakes(batch, M) ==
  LET put == AllPut(OutputsFor(batch, M))
      done == Processed(batch, M)
  IN /\ put \in [Requests -> CollectorOutputs]
     /\ Finished(batch, M) \subseteq Known(batch)
     /\ \A r \in Requests \ Known(batch) : put[r] = output[r]
     /\ \A r \in Registered \ Known(batch) : done[r] = requests[r]
     /\ \A r \in Known(batch) :
          /\ done[r] \in RequestStates
          /\ done[r].token_ids = requests[r].token_ids \o batch[r].tokens
          /\ done[r].reason = IF r \in M THEN "stop" ELSE batch[r].reason
          /\ r \in Finished(batch, M) <=> done[r].reason # None
          /\ done[r].sent =
               IF r \notin Finished(batch, M) /\ output_kind[r] # "FINAL_ONLY"
               THEN Len(done[r].token_ids) ELSE requests[r].sent
          /\ IF output_kind[r] = "FINAL_ONLY" /\ r \notin Finished(batch, M)
             THEN put[r] = output[r]
             ELSE /\ put[r].kind = "output"
                  /\ put[r].reason = done[r].reason
                  /\ put[r].tokens =
                       IF output_kind[r] # "DELTA" THEN done[r].token_ids
                       ELSE LET new == SubSeq(done[r].token_ids, requests[r].sent + 1,
                                              Len(done[r].token_ids))
                            IN IF output[r].kind = "output" THEN output[r].tokens \o new ELSE new

LEMMA BatchMade ==
  ASSUME AsyncInv, NEW batch, NEW M, BatchMove(batch, M)
  PROVE  BatchMakes(batch, M)
<1> DEFINE put == AllPut(OutputsFor(batch, M))
           done == Processed(batch, M)
           G(r) == Grown(batch, M, r)
           New(r) == MakeRequestOutput(r, G(r))
<1>0. /\ ~errored /\ DOMAIN batch \subseteq Requests
      /\ \A r \in DOMAIN batch : batch[r] \in EngineOutputs
      /\ M \subseteq Known(batch)
      /\ output \in [Requests -> CollectorOutputs] /\ Registered \subseteq Requests
      /\ \A r \in Registered : requests[r] \in RequestStates /\ requests[r].reason = None
      /\ \A r \in Registered : output[r].kind = "output" => output[r].reason = None
      /\ \A r \in Requests : output[r].kind # "error"
  <2>1. AsyncTypes /\ Falls /\ Readers
    BY DEF AsyncInv
  <2>2. /\ ~errored /\ DOMAIN batch \subseteq Requests
        /\ \A r \in DOMAIN batch : batch[r] \in EngineOutputs
        /\ M \subseteq Known(batch)
    BY BatchMoves
  <2> QED BY <2>1, <2>2 DEF AsyncTypes, ProcessorTypes, Falls, Readers
<1>1. Known(batch) = DOMAIN batch \cap Registered
  BY DEF Known
<1>2. ASSUME NEW r \in Known(batch)
      PROVE  /\ G(r) \in RequestStates
             /\ G(r).token_ids = requests[r].token_ids \o batch[r].tokens
             /\ G(r).reason = IF r \in M THEN "stop" ELSE batch[r].reason
             /\ G(r).sent = requests[r].sent
             /\ G(r) = [token_ids |-> G(r).token_ids, sent |-> G(r).sent, reason |-> G(r).reason]
  <2>1. requests[r] \in RequestStates /\ requests[r].reason = None /\ batch[r] \in EngineOutputs
    BY <1>0, <1>1
  <2>2. requests[r].token_ids \o batch[r].tokens \in Seq(Nat)
    BY <2>1, ConcatProperties DEF RequestStates, EngineOutputs
  <2>3. (IF r \in M THEN "stop" ELSE batch[r].reason) \in Reasons
    BY <2>1 DEF EngineOutputs, Reasons
  <2>4. (IF r \in M THEN "stop"
         ELSE IF batch[r].reason # None THEN batch[r].reason ELSE requests[r].reason)
        = IF r \in M THEN "stop" ELSE batch[r].reason
    BY <2>1
  <2>5. requests[r].sent \in Nat
    BY <2>1 DEF RequestStates
  <2> QED BY <2>2, <2>3, <2>4, <2>5 DEF Grown, RequestStates
<1>3. \A r \in Known(batch) : r \in Finished(batch, M) <=> G(r).reason # None
  BY DEF Finished
<1>4. Finished(batch, M) \subseteq Known(batch)
  BY DEF Finished
<1>5. Emitted(batch, M) = {r \in Known(batch) : output_kind[r] = "FINAL_ONLY" => r \in Finished(batch, M)}
  BY DEF Emitted
<1>6. \A r \in Known(batch) :
        done[r] = IF r \in Emitted(batch, M) \ Finished(batch, M)
                  THEN [G(r) EXCEPT !.sent = Len(G(r).token_ids)] ELSE G(r)
  BY <1>1 DEF Processed
<1>7. \A r \in Registered \ Known(batch) : done[r] = requests[r]
  BY DEF Processed
<1>8. \A r \in Requests : put[r] = IF r \in Emitted(batch, M) THEN Put(r, output[r], New(r)) ELSE output[r]
  BY DEF AllPut, OutputsFor
<1>9. put = [r \in Requests |-> put[r]]
  BY DEF AllPut
<1> HIDE DEF G, done, put
<1>10. ASSUME NEW r \in Known(batch)
       PROVE  /\ done[r] \in RequestStates
              /\ done[r].token_ids = G(r).token_ids
              /\ done[r].reason = G(r).reason
              /\ done[r].sent =
                   IF r \notin Finished(batch, M) /\ output_kind[r] # "FINAL_ONLY"
                   THEN Len(G(r).token_ids) ELSE requests[r].sent
  <2>1. Len(G(r).token_ids) \in Nat
    BY <1>2 DEF RequestStates
  <2>2. CASE r \in Emitted(batch, M) \ Finished(batch, M)
    <3>1. output_kind[r] # "FINAL_ONLY" /\ r \notin Finished(batch, M)
      BY <1>5, <2>2
    <3>2. done[r] = [G(r) EXCEPT !.sent = Len(G(r).token_ids)]
      BY <1>6, <2>2
    <3> QED BY <1>2, <2>1, <3>1, <3>2 DEF RequestStates
  <2>3. CASE r \notin Emitted(batch, M) \ Finished(batch, M)
    <3>1. ~(r \notin Finished(batch, M) /\ output_kind[r] # "FINAL_ONLY")
      BY <1>5, <2>3
    <3>2. done[r] = G(r)
      BY <1>6, <2>3
    <3> QED BY <1>2, <3>1, <3>2
  <2> QED BY <2>2, <2>3
<1>11. ASSUME NEW r \in Emitted(batch, M)
       PROVE  /\ put[r] \in CollectorOutputs
              /\ put[r].kind = "output"
              /\ put[r].reason = G(r).reason
              /\ put[r].tokens =
                   IF output_kind[r] # "DELTA" THEN G(r).token_ids
                   ELSE LET new == SubSeq(G(r).token_ids, requests[r].sent + 1, Len(G(r).token_ids))
                        IN IF output[r].kind = "output" THEN output[r].tokens \o new ELSE new
  <2>1. r \in Known(batch) /\ r \in Requests /\ r \in Registered
    BY <1>0, <1>1, <1>5
  <2>2. /\ G(r).token_ids \in Seq(Nat) /\ G(r).sent \in Nat /\ G(r).reason \in Reasons
        /\ G(r).sent = requests[r].sent
    BY <1>2, <2>1 DEF RequestStates
  <2>3. /\ New(r) \in CollectorOutputs /\ New(r).kind = "output" /\ New(r).reason = G(r).reason
        /\ New(r).tokens =
             IF output_kind[r] = "DELTA"
             THEN SubSeq(G(r).token_ids, requests[r].sent + 1, Len(G(r).token_ids))
             ELSE G(r).token_ids
    BY <2>1, <2>2, MadeOutput
  <2>4. output[r] \in CollectorOutputs /\ output[r].kind # "error"
        /\ (output[r].kind = "output" => output[r].reason = None)
        /\ output[r].kind \in {"none", "output", "error"}
    BY <1>0, <2>1 DEF CollectorOutputs
  <2> HIDE DEF New
  <2>5. PutMakes(r, output[r], New(r))
    BY <2>3, <2>4, PutOutput
  <2>6. put[r] = Put(r, output[r], New(r))
    BY <1>8, <2>1
  <2>7. /\ put[r] \in CollectorOutputs
        /\ put[r].kind = "output"
        /\ put[r].reason = IF New(r).reason # None \/ output[r].kind = "none" THEN New(r).reason
                           ELSE output[r].reason
        /\ put[r].tokens = IF output[r].kind = "output" /\ output_kind[r] = "DELTA"
                           THEN output[r].tokens \o New(r).tokens ELSE New(r).tokens
    BY <2>4, <2>5, <2>6 DEF PutMakes
  <2>8. put[r].reason = G(r).reason
    BY <2>3, <2>4, <2>7
  <2> QED BY <2>3, <2>7, <2>8
<1>12. ASSUME NEW r \in Requests PROVE put[r] \in CollectorOutputs
  BY <1>0, <1>8, <1>11
<1>13. put \in [Requests -> CollectorOutputs]
  BY <1>9, <1>12
<1>14. \A r \in Requests \ Known(batch) : put[r] = output[r]
  BY <1>5, <1>8
<1>15. ASSUME NEW r \in Known(batch)
       PROVE  IF output_kind[r] = "FINAL_ONLY" /\ r \notin Finished(batch, M)
              THEN put[r] = output[r]
              ELSE /\ put[r].kind = "output"
                   /\ put[r].reason = done[r].reason
                   /\ put[r].tokens =
                        IF output_kind[r] # "DELTA" THEN done[r].token_ids
                        ELSE LET new == SubSeq(done[r].token_ids, requests[r].sent + 1,
                                               Len(done[r].token_ids))
                             IN IF output[r].kind = "output" THEN output[r].tokens \o new ELSE new
  <2>1. r \in Requests
    BY <1>0, <1>1
  <2>2. CASE r \in Emitted(batch, M)
    BY <1>5, <1>10, <1>11, <2>2
  <2>3. CASE r \notin Emitted(batch, M)
    BY <1>5, <1>8, <2>1, <2>3
  <2> QED BY <2>2, <2>3
<1>16. \A r \in Known(batch) :
         /\ done[r] \in RequestStates
         /\ done[r].token_ids = requests[r].token_ids \o batch[r].tokens
         /\ done[r].reason = IF r \in M THEN "stop" ELSE batch[r].reason
         /\ r \in Finished(batch, M) <=> done[r].reason # None
         /\ done[r].sent =
              IF r \notin Finished(batch, M) /\ output_kind[r] # "FINAL_ONLY"
              THEN Len(done[r].token_ids) ELSE requests[r].sent
  BY <1>2, <1>3, <1>10
<1> QED BY <1>4, <1>7, <1>13, <1>14, <1>15, <1>16 DEF BatchMakes, put, done

-----------------------------------------------------------------------------
(***************************************************************************)
(* What a step does: errors and the engine                                 *)
(***************************************************************************)
LEMMA Propagated ==
  ASSUME NEW held \in [Requests -> CollectorOutputs], NEW S, NEW e \in Errors
  PROVE  /\ PropagateTo(S, held, e) \in [Requests -> CollectorOutputs]
         /\ \A r \in Requests : PropagateTo(S, held, e)[r] = IF r \in S THEN ErrorOutput(e) ELSE held[r]
         /\ ErrorOutput(e).kind = "error" /\ ErrorOutput(e).reason = e
<1>1. \A r \in Requests : Put(r, held[r], ErrorOutput(e)) = ErrorOutput(e)
  BY DEF Put, ErrorOutput
<1>2. ErrorOutput(e) \in CollectorOutputs /\ ErrorOutput(e).kind = "error" /\ ErrorOutput(e).reason = e
  BY DEF ErrorOutput, CollectorOutputs
<1> QED BY <1>1, <1>2 DEF PropagateTo

\* The output handler ends with e.
RaiseMove(e) ==
  /\ e \in Errors /\ ErrorIsTrue(e) /\ reader \in {"done", "failed"}
  /\ ~errored /\ errored' = TRUE /\ handler' = "done"
  /\ output' = PropagateTo(Registered, output, e)
  /\ \/ outputs_queue' = outputs_queue
     \/ /\ outputs_queue # <<>> /\ Head(outputs_queue).kind = "error"
        /\ outputs_queue' = Tail(outputs_queue)
  /\ UNCHANGED <<requests, external_req_ids, given, taskVars, reader, clientVars, engineVars,
                 askVars>>

LEMMA ItemKinds ==
  ASSUME NEW m \in Items
  PROVE  /\ m.kind \in {"error", "batch"}
         /\ m.kind = "error" => m.error \in Errors /\ m.outputs = <<>>
         /\ m.kind = "batch" =>
              DOMAIN m.outputs \subseteq Requests /\ \A r \in DOMAIN m.outputs : m.outputs[r] \in EngineOutputs
         /\ \A r \in DOMAIN m.outputs : m.kind = "batch" /\ r \in Requests /\ m.outputs[r] \in EngineOutputs
<1>1. CASE m \in ErrorItems
  BY <1>1 DEF ErrorItems
<1>2. CASE m \in Batches
  <2>1. PICK S \in SUBSET Requests : m.outputs \in [S -> EngineOutputs]
    BY <1>2 DEF Batches
  <2> QED BY <1>2, <2>1 DEF Batches
<1> QED BY <1>1, <1>2 DEF Items

LEMMA HeadOfQueue ==
  ASSUME NEW T, NEW p \in Seq(T), p # <<>>
  PROVE  /\ Head(p) = p[1] /\ 1 \in DOMAIN p /\ Head(p) \in T
         /\ Tail(p) \in Seq(T) /\ Len(Tail(p)) = Len(p) - 1 /\ Len(p) \in Nat
         /\ DOMAIN p = 1 .. Len(p) /\ DOMAIN Tail(p) = 1 .. Len(p) - 1
         /\ \A i \in DOMAIN Tail(p) : i + 1 \in DOMAIN p /\ Tail(p)[i] = p[i + 1]
  OBVIOUS

LEMMA EndOfQueue ==
  ASSUME NEW T, NEW p \in Seq(T), NEW m \in T
  PROVE  /\ Append(p, m) \in Seq(T) /\ Len(Append(p, m)) = Len(p) + 1 /\ Len(p) \in Nat
         /\ DOMAIN p = 1 .. Len(p) /\ DOMAIN Append(p, m) = 1 .. Len(p) + 1
         /\ \A i \in DOMAIN p : i \in DOMAIN Append(p, m) /\ Append(p, m)[i] = p[i]
         /\ Append(p, m)[Len(p) + 1] = m
  OBVIOUS

LEMMA RaiseMoves ==
  ASSUME AsyncInv, HandlerRaises
  PROVE  \E e \in Errors : RaiseMove(e)
<1>0. AsyncTypes /\ Falls
  BY DEF AsyncInv
<1>1. "EngineDeadError" \in Errors /\ ErrorIsTrue("EngineDeadError")
  BY DEF Errors, ErrorIsTrue
<1>2. UNCHANGED <<requests, external_req_ids, given, taskVars, reader, clientVars, engineVars,
                  askVars>>
  BY DEF HandlerRaises, HandlerFails
<1>3. handler \in {"get", "created", "running"} /\ ~errored
  BY <1>0 DEF HandlerRaises, Falls
<1>4. CASE /\ handler \in {"created", "running"} /\ reader \in {"done", "failed"}
           /\ HandlerFails("EngineDeadError")
           /\ UNCHANGED outputs_queue
  <2>1. RaiseMove("EngineDeadError")
    BY <1>1, <1>2, <1>3, <1>4 DEF RaiseMove, HandlerFails, HandlerEnds
  <2> QED BY <1>1, <2>1
<1>5. CASE /\ outputs_queue # <<>> /\ Head(outputs_queue).kind = "error"
           /\ HandlerFails(IF engine_dead THEN "EngineDeadError" ELSE Head(outputs_queue).error)
           /\ outputs_queue' = Tail(outputs_queue)
  <2> DEFINE e == IF engine_dead THEN "EngineDeadError" ELSE Head(outputs_queue).error
  <2>1. outputs_queue \in Seq(Items)
    BY <1>0 DEF AsyncTypes, LoopTypes
  <2>2. Head(outputs_queue) = outputs_queue[1] /\ 1 \in DOMAIN outputs_queue
    BY <1>5, <2>1, HeadOfQueue
  <2>3. reader \in {"done", "failed"} /\ ErrorIsTrue(Head(outputs_queue).error)
    BY <1>0, <1>5, <2>2 DEF Falls
  <2>4. ErrorIsTrue(e)
    BY <1>1, <2>3
  <2> HIDE DEF e
  <2>5. e \in Errors
    BY <2>4 DEF ErrorIsTrue
  <2>6. HandlerFails(e)
    BY <1>5 DEF e
  <2>7. RaiseMove(e)
    BY <1>2, <1>3, <1>5, <2>3, <2>4, <2>5, <2>6 DEF RaiseMove, HandlerFails, HandlerEnds
  <2> QED BY <2>5, <2>7
<1> QED BY <1>4, <1>5 DEF HandlerRaises

\* The engine sends f: at most a token for each, after which it no longer runs the ended.
Answers(S, f) ==
  /\ S \subseteq running /\ f \in [S -> EngineOutputs]
  /\ \A r \in S : /\ Len(f[r].tokens) <= 1
                  /\ f[r].tokens # <<>> => f[r].tokens[1] = produced[r] + 1
  /\ socket' = Append(socket, Batch(f))
  /\ running' = {r \in running : r \in S => f[r].reason = None}
  /\ ended' = [r \in Requests |-> IF r \in S THEN f[r].reason ELSE ended[r]]
  /\ produced' = [r \in Requests |-> IF r \in S /\ f[r].tokens # <<>> THEN produced[r] + 1
                                     ELSE produced[r]]

Silence == UNCHANGED <<socket, running, ended, produced>>

AddHeard ==
  /\ engine = "up" /\ to_engine # <<>> /\ Head(to_engine).type = "ADD"
  /\ to_engine' = Tail(to_engine) /\ running' = running \cup Head(to_engine).ids
  /\ UNCHANGED <<engine, socket, ended, produced>>

AbortHeard(S, f) ==
  /\ engine = "up" /\ to_engine # <<>> /\ Head(to_engine).type = "ABORT"
  /\ to_engine' = Tail(to_engine) /\ S = Head(to_engine).ids \cap running
  /\ IF S = {} THEN Silence ELSE Answers(S, f) /\ \A r \in S : f[r].reason = "abort"
  /\ UNCHANGED engine

Stepped(S, f) ==
  /\ engine = "up" /\ Answers(S, f)
  /\ \A r \in S : f[r].reason \in {None, "length"}
  /\ UNCHANGED <<engine, to_engine>>

Stopped(S, f) ==
  /\ engine = "up" /\ engine' = "exiting" /\ UNCHANGED to_engine
  /\ IF S = {} THEN Silence ELSE Answers(S, f)

Failed ==
  /\ engine = "up" /\ engine' = "exiting"
  /\ socket' = Append(socket, ErrorItem("EngineDeadError"))
  /\ UNCHANGED <<to_engine, running, ended, produced>>

Gone ==
  /\ engine' = "gone" /\ to_engine' = <<>> /\ running' = {}
  /\ UNCHANGED <<socket, ended, produced>>

LEMMA AllAborted ==
  ASSUME AsyncTypes, NEW S \in SUBSET running, AbortAll(S), produced' = produced
  PROVE  IF S = {} THEN Silence
         ELSE LET f == [r \in S |-> End("abort")]
              IN Answers(S, f) /\ \A r \in S : f[r].reason = "abort"
<1>0. /\ running \subseteq Requests /\ ended \in [Requests -> {None, "length", "abort"}]
      /\ produced \in [Requests -> Nat]
  BY DEF AsyncTypes, EngineTypes
<1>1. CASE S = {}
  BY <1>0, <1>1 DEF AbortAll, Silence
<1>2. CASE S # {}
  <2> DEFINE f == [r \in S |-> End("abort")]
  <2>1. /\ End("abort") \in EngineOutputs /\ End("abort").tokens = <<>>
        /\ End("abort").reason = "abort"
    BY DEF End, EngineOutputs
  <2>2. f \in [S -> EngineOutputs] /\ \A r \in S : f[r] = End("abort")
    BY <2>1
  <2>3. \A r \in S : f[r].tokens = <<>> /\ f[r].reason = "abort"
    BY <2>1, <2>2
  <2>4. socket' = Append(socket, Batch(f))
    BY <1>2 DEF AbortAll
  <2> HIDE DEF f
  <2>5. running' = {r \in running : r \in S => f[r].reason = None}
    BY <2>3, OutputAssumption DEF AbortAll
  <2>6. ended' = [r \in Requests |-> IF r \in S THEN f[r].reason ELSE ended[r]]
    BY <2>3 DEF AbortAll
  <2>7. produced' = [r \in Requests |-> IF r \in S /\ f[r].tokens # <<>> THEN produced[r] + 1
                                     ELSE produced[r]]
    BY <1>0, <2>3
  <2>8. \A r \in S : Len(f[r].tokens) <= 1
    BY <2>3
  <2>9. Answers(S, f)
    BY <2>2, <2>3, <2>4, <2>5, <2>6, <2>7, <2>8 DEF Answers
  <2> QED BY <1>2, <2>3, <2>9 DEF f
<1> QED BY <1>1, <1>2

LEMMA StepsAnswer ==
  ASSUME AsyncInv, NEW S \in SUBSET Requests, EngineSteps(S)
  PROVE  \E f : Stepped(S, f)
<1>0. /\ running \subseteq Requests /\ ended \in [Requests -> {None, "length", "abort"}]
      /\ produced \in [Requests -> Nat] /\ \A r \in running : ended[r] = None
  BY DEF AsyncInv, AsyncTypes, EngineTypes, Endings
<1>1. PICK gets \in [S -> {"token", "end", "both"}] :
        LET more == {r \in S : gets[r] # "end"}
            ends == {r \in S : gets[r] # "token"}
        IN /\ produced' = [r \in Requests |-> IF r \in more THEN produced[r] + 1 ELSE produced[r]]
           /\ running' = running \ ends
           /\ ended' = [r \in Requests |-> IF r \in ends THEN "length" ELSE ended[r]]
           /\ socket' = Append(socket, Batch([r \in S |->
                [tokens |-> IF r \in more THEN <<produced[r] + 1>> ELSE <<>>,
                 reason |-> IF r \in ends THEN "length" ELSE None]]))
  BY DEF EngineSteps
<1> DEFINE more == {r \in S : gets[r] # "end"}
           ends == {r \in S : gets[r] # "token"}
           x(r) == [tokens |-> IF r \in more THEN <<produced[r] + 1>> ELSE <<>>,
                    reason |-> IF r \in ends THEN "length" ELSE None]
           f == [r \in S |-> x(r)]
<1>2. more \subseteq S /\ ends \subseteq S
  OBVIOUS
<1>3. /\ produced' = [r \in Requests |-> IF r \in more THEN produced[r] + 1 ELSE produced[r]]
      /\ running' = running \ ends
      /\ ended' = [r \in Requests |-> IF r \in ends THEN "length" ELSE ended[r]]
      /\ socket' = Append(socket, Batch(f))
  BY <1>1
<1>4. engine = "up" /\ S \subseteq running /\ UNCHANGED <<engine, to_engine>>
  BY DEF EngineSteps
<1> HIDE DEF more, ends
<1>5. ASSUME NEW r \in S
      PROVE  /\ x(r) \in EngineOutputs /\ x(r).reason = (IF r \in ends THEN "length" ELSE None)
             /\ Len(x(r).tokens) <= 1 /\ (x(r).tokens # <<>> <=> r \in more)
             /\ x(r).tokens # <<>> => x(r).tokens[1] = produced[r] + 1
  <2>1. produced[r] + 1 \in Nat
    BY <1>0, <1>4
  <2>2. <<produced[r] + 1>> \in Seq(Nat) /\ <<>> \in Seq(Nat) /\ Len(<<produced[r] + 1>>) = 1
        /\ Len(<<>>) = 0 /\ <<produced[r] + 1>> # <<>> /\ <<produced[r] + 1>>[1] = produced[r] + 1
    BY <2>1
  <2>3. /\ x(r).reason = IF r \in ends THEN "length" ELSE None
        /\ x(r).tokens = IF r \in more THEN <<produced[r] + 1>> ELSE <<>>
        /\ x(r) \in EngineOutputs
    BY <2>2 DEF EngineOutputs
  <2> HIDE DEF x
  <2> QED BY <2>2, <2>3
<1>6. f \in [S -> EngineOutputs] /\ \A r \in S : f[r] = x(r)
  BY <1>5
<1> HIDE DEF x, f
<1>7. running' = {r \in running : r \in S => f[r].reason = None}
  BY <1>2, <1>3, <1>5, <1>6, OutputAssumption
<1>8. ended' = [r \in Requests |-> IF r \in S THEN f[r].reason ELSE ended[r]]
  <2>1. \A r \in Requests : (IF r \in ends THEN "length" ELSE ended[r])
                            = IF r \in S THEN f[r].reason ELSE ended[r]
    BY <1>0, <1>2, <1>4, <1>5, <1>6
  <2> QED BY <1>3, <2>1
<1>9. produced' = [r \in Requests |-> IF r \in S /\ f[r].tokens # <<>> THEN produced[r] + 1
                                     ELSE produced[r]]
  <2>1. \A r \in Requests : r \in more <=> r \in S /\ f[r].tokens # <<>>
    BY <1>2, <1>5, <1>6
  <2> QED BY <1>3, <2>1
<1>10. Answers(S, f)
  BY <1>3, <1>4, <1>5, <1>6, <1>7, <1>8, <1>9 DEF Answers
<1>11. Stepped(S, f)
  BY <1>4, <1>5, <1>6, <1>10 DEF Stepped
<1> QED BY <1>11

\* Everything the engine process does.
EngineMove ==
  \/ AddHeard \/ Failed \/ Gone
  \/ \E S, f : AbortHeard(S, f) \/ Stepped(S, f) \/ Stopped(S, f)

LEMMA EngineMoves ==
  ASSUME AsyncInv,
         EngineReceives \/ EngineStops \/ EngineExits \/ \E S \in SUBSET Requests : EngineSteps(S)
  PROVE  EngineMove /\ EngineFrame
<1>0. AsyncTypes
  BY DEF AsyncInv
<1>1. EngineFrame
  BY DEF EngineReceives, EngineStops, EngineExits, EngineSteps
<1>2. ASSUME EngineReceives PROVE EngineMove
  <2>1. engine = "up" /\ to_engine # <<>> /\ to_engine' = Tail(to_engine)
        /\ UNCHANGED <<engine, produced>>
    BY <1>2 DEF EngineReceives
  <2>2. CASE /\ Head(to_engine).type = "ADD" /\ running' = running \cup Head(to_engine).ids
             /\ UNCHANGED <<socket, ended>>
    BY <2>1, <2>2 DEF AddHeard, EngineMove
  <2>3. CASE Head(to_engine).type = "ABORT" /\ AbortAll(Head(to_engine).ids \cap running)
    <3> DEFINE S == Head(to_engine).ids \cap running
    <3>1. S \in SUBSET running /\ AbortAll(S)
      BY <2>3
    <3> HIDE DEF S
    <3>2. \E f : IF S = {} THEN Silence ELSE Answers(S, f) /\ \A r \in S : f[r].reason = "abort"
      BY <1>0, <2>1, <3>1, AllAborted
    <3>3. \E f : AbortHeard(S, f)
      BY <2>1, <2>3, <3>2 DEF AbortHeard, S
    <3> QED BY <3>3 DEF EngineMove
  <2> QED BY <1>2, <2>2, <2>3 DEF EngineReceives
<1>3. ASSUME EngineStops PROVE EngineMove
  <2>1. engine = "up" /\ UNCHANGED produced
    BY <1>3 DEF EngineStops
  <2>2. CASE engine' = "exiting" /\ AbortAll(running) /\ UNCHANGED to_engine
    <3>1. \E f : IF running = {} THEN Silence
                 ELSE Answers(running, f) /\ \A r \in running : f[r].reason = "abort"
      BY <1>0, <2>1, <2>2, AllAborted
    <3>2. \E f : Stopped(running, f)
      BY <2>1, <2>2, <3>1 DEF Stopped
    <3> QED BY <3>2 DEF EngineMove
  <2>3. CASE /\ engine' = "exiting" /\ socket' = Append(socket, ErrorItem("EngineDeadError"))
             /\ UNCHANGED <<to_engine, running, ended>>
    BY <2>1, <2>3 DEF Failed, EngineMove
  <2>4. CASE ProcessGone /\ UNCHANGED <<socket, ended>>
    BY <2>1, <2>4 DEF ProcessGone, Gone, EngineMove
  <2> QED BY <1>3, <2>2, <2>3, <2>4 DEF EngineStops
<1>4. ASSUME EngineExits PROVE EngineMove
  BY <1>4 DEF EngineExits, ProcessGone, Gone, EngineMove
<1>5. ASSUME NEW S \in SUBSET Requests, EngineSteps(S) PROVE EngineMove
  BY <1>5, StepsAnswer DEF EngineMove
<1> QED BY <1>1, <1>2, <1>3, <1>4, <1>5

-----------------------------------------------------------------------------
(***************************************************************************)
(* Types                                                                   *)
(***************************************************************************)
LEMMA ReleasedShrink ==
  ASSUME NEW S
  PROVE  \A ext \in DOMAIN ReleasedIds(S) :
           ext \in DOMAIN external_req_ids /\ ReleasedIds(S)[ext] \subseteq external_req_ids[ext]
<1> DEFINE left == [ext \in DOMAIN external_req_ids |->
                      external_req_ids[ext] \ (S \cap Registered)]
           gone == {ext \in DOMAIN left : left[ext] = {}}
<1>1. ReleasedIds(S) = Without(left, gone)
  BY DEF ReleasedIds
<1>2. \A x \in DOMAIN left : x \in DOMAIN external_req_ids /\ left[x] \subseteq external_req_ids[x]
  OBVIOUS
<1> HIDE DEF left, gone
<1>3. /\ DOMAIN Without(left, gone) = DOMAIN left \ gone
      /\ \A x \in DOMAIN left \ gone : Without(left, gone)[x] = left[x]
  BY WithoutDomain
<1> QED BY <1>1, <1>2, <1>3

LEMMA GenerateProcessor ==
  ASSUME AsyncInv, NEW r \in Requests, Generate(r)
  PROVE  /\ given' = given /\ output' = output
         /\ \/ requests' = requests /\ external_req_ids' = external_req_ids
            \/ /\ Registered' = Registered \cup {r} /\ requests'[r] = NewState
               /\ \A q \in Registered : q # r => requests'[q] = requests[q]
               /\ \A ext \in DOMAIN external_req_ids' :
                    external_req_ids'[ext] =
                      IF ext = external_of[r] THEN IdsOf(ext) \cup {r} ELSE external_req_ids[ext]
               /\ DOMAIN external_req_ids' = DOMAIN external_req_ids \cup {external_of[r]}
<1>1. given' = given /\ output' = output
  BY DEF Generate
<1>2. CASE AddRequest(r)
  BY <1>1, <1>2 DEF AddRequest, Extended, Registered
<1>3. CASE requests' = requests /\ external_req_ids' = external_req_ids
  BY <1>1, <1>3
<1> QED BY <1>2, <1>3 DEF Generate

\* Every step is one of these.
LEMMA EveryMove ==
  ASSUME AsyncInv, [Next]_vars
  PROVE  \/ \E r \in Requests : Generate(r)
         \/ \E r \in Requests : TakeOutput(r) \/ TakeDeadError(r)
         \/ \E ext, held : held \in [Requests -> CollectorOutputs] /\ AbortMove(ext, held)
         \/ \E batch, M : BatchMove(batch, M)
         \/ \E e \in Errors : RaiseMove(e)
         \/ HandlerWaits \/ ReaderReads \/ ReaderFails \/ ReaderCancelled \/ Monitor
         \/ ShutdownBegins \/ ShutdownReader \/ ShutdownProcess
         \/ \E r \in Requests : Resume(r)
         \/ EngineMove /\ EngineFrame
         \/ UNCHANGED vars
<1>0. AsyncTypes
  BY DEF AsyncInv
<1>1. output \in [Requests -> CollectorOutputs]
  BY <1>0 DEF AsyncTypes, ProcessorTypes
<1>2. \A r \in Requests : OutputTaken(r) \in [Requests -> CollectorOutputs]
  BY <1>0, EmptyTaken
<1>3. ASSUME NEW r \in Requests, Cancel(r) \/ TakeOtherError(r)
      PROVE  \E ext, held : held \in [Requests -> CollectorOutputs] /\ AbortMove(ext, held)
  BY <1>1, <1>2, <1>3, EveryAbort
<1>4. ASSUME NEW ext \in ExternalIds, Abort(ext)
      PROVE  \E x, held : held \in [Requests -> CollectorOutputs] /\ AbortMove(x, held)
  BY <1>1, <1>4, EveryAbort
<1>5. HandlerRaises => \E e \in Errors : RaiseMove(e)
  BY RaiseMoves
<1>6. EngineReceives \/ EngineStops \/ EngineExits \/ (\E S \in SUBSET Requests : EngineSteps(S))
      => EngineMove /\ EngineFrame
  BY EngineMoves
<1> QED BY <1>3, <1>4, <1>5, <1>6, EveryBatch DEF Next

LEMMA ProcessorTyped ==
  ASSUME AsyncInv, [Next]_vars
  PROVE  ProcessorTypes'
<1>0. AsyncTypes /\ ProcessorTypes
  BY DEF AsyncInv, AsyncTypes
<1>1. ASSUME UNCHANGED processorVars PROVE ProcessorTypes'
  BY <1>0, <1>1 DEF processorVars, ProcessorTypes, Registered, external_of
<1>2. ASSUME NEW r \in Requests, Generate(r) PROVE ProcessorTypes'
  <2>1. NewState \in RequestStates
    BY DEF NewState, RequestStates, Reasons
  <2>2. CASE requests' = requests /\ external_req_ids' = external_req_ids
    BY <1>1, <1>2, <2>2, GenerateProcessor DEF processorVars
  <2>3. CASE Registered' = Registered \cup {r}
    <3>1. given' = given /\ output' = output
      BY <1>2, GenerateProcessor
    <3>2. CASE requests' = requests /\ external_req_ids' = external_req_ids
      BY <1>1, <3>1, <3>2 DEF processorVars
    <3>3. CASE /\ Registered' = Registered \cup {r} /\ requests'[r] = NewState
               /\ \A q \in Registered : q # r => requests'[q] = requests[q]
               /\ \A ext \in DOMAIN external_req_ids' :
                    external_req_ids'[ext] =
                      IF ext = external_of[r] THEN IdsOf(ext) \cup {r} ELSE external_req_ids[ext]
               /\ DOMAIN external_req_ids' = DOMAIN external_req_ids \cup {external_of[r]}
      <4>1. \A q \in Registered' : q \in Requests /\ requests'[q] \in RequestStates
        BY <1>0, <2>1, <3>3 DEF ProcessorTypes
      <4>2. external_of' = external_of
        BY <3>1 DEF external_of
      <4>3. IdsOf(external_of[r]) \subseteq {q \in Requests : external_of[q] = external_of[r]}
        BY <1>0 DEF IdsOf, ProcessorTypes
      <4>4. \A ext \in DOMAIN external_req_ids' :
              external_req_ids'[ext] \subseteq {q \in Requests : external_of[q] = ext}
        <5> SUFFICES ASSUME NEW ext \in DOMAIN external_req_ids', NEW q \in external_req_ids'[ext]
                     PROVE  q \in Requests /\ external_of[q] = ext
          OBVIOUS
        <5>1. CASE ext = external_of[r]
          BY <3>3, <4>3, <5>1
        <5>2. CASE ext # external_of[r]
          BY <1>0, <3>3, <5>2 DEF ProcessorTypes
        <5> QED BY <5>1, <5>2
      <4> QED BY <1>0, <3>1, <4>1, <4>2, <4>4 DEF ProcessorTypes
    <3> QED BY <1>2, <3>2, <3>3, GenerateProcessor
  <2> QED BY <1>2, <2>2, <2>3, GenerateProcessor
<1>3. ASSUME NEW r \in Requests, TakeOutput(r) \/ TakeDeadError(r) PROVE ProcessorTypes'
  <2>1. output' = OutputTaken(r) /\ UNCHANGED <<requests, external_req_ids, given>>
    BY <1>3 DEF TakeOutput, TakeDeadError, Taken
  <2>2. OutputTaken(r) \in [Requests -> CollectorOutputs]
    BY <1>0, EmptyTaken
  <2> QED BY <1>0, <2>1, <2>2 DEF ProcessorTypes, Registered, external_of
<1>4. ASSUME NEW ext, NEW held \in [Requests -> CollectorOutputs], AbortMove(ext, held)
      PROVE  ProcessorTypes'
  <2>1. /\ Registered' = Registered \ IdsOf(ext)
        /\ \A r \in Registered' : requests'[r] = requests[r]
        /\ output' \in [Requests -> CollectorOutputs]
        /\ given' = given /\ external_req_ids' = external_req_ids
    BY <1>4, AbortMoves
  <2> QED BY <1>0, <2>1 DEF ProcessorTypes, external_of
<1>5. ASSUME NEW batch, NEW M, BatchMove(batch, M) PROVE ProcessorTypes'
  <2> DEFINE put == AllPut(OutputsFor(batch, M))
             done == Processed(batch, M)
  <2>1. /\ put \in [Requests -> CollectorOutputs]
        /\ \A r \in Registered : done[r] \in RequestStates
    <3>1. BatchMakes(batch, M)
      BY <1>5, BatchMade
    <3>2. /\ put \in [Requests -> CollectorOutputs]
          /\ \A r \in Known(batch) : done[r] \in RequestStates
          /\ \A r \in Registered \ Known(batch) : done[r] = requests[r]
      BY <3>1 DEF BatchMakes
    <3> QED BY <1>0, <3>2 DEF ProcessorTypes
  <2>2. "EngineDeadError" \in Errors
    BY DEF Errors
  <2> HIDE DEF put, done
  <2>3. PropagateTo(Registered, put, "EngineDeadError") \in [Requests -> CollectorOutputs]
    BY <2>1, <2>2, Propagated
  <2>4. /\ output' \in [Requests -> CollectorOutputs]
        /\ Registered' \subseteq Registered
        /\ \A r \in Registered' : requests'[r] = done[r]
        /\ external_req_ids' = external_req_ids \/ \E S : external_req_ids' = ReleasedIds(S)
    <3>1. CASE BatchEnds(batch, M)
      BY <2>3, <3>1 DEF BatchEnds, put, done
    <3>2. CASE BatchGoes(batch, M)
      BY <2>1, <3>2 DEF BatchGoes, put, done
    <3> QED BY <1>5, <3>1, <3>2, BatchMoves
  <2>5. \A ext \in DOMAIN external_req_ids' :
          ext \in DOMAIN external_req_ids /\ external_req_ids'[ext] \subseteq external_req_ids[ext]
    BY <2>4, ReleasedShrink
  <2>6. given' = given /\ external_of' = external_of
    BY <1>5 DEF BatchMove, external_of
  <2> QED BY <1>0, <2>1, <2>4, <2>5, <2>6 DEF ProcessorTypes
<1>6. ASSUME NEW e \in Errors, RaiseMove(e) PROVE ProcessorTypes'
  <2>2. output \in [Requests -> CollectorOutputs]
    BY <1>0 DEF ProcessorTypes
  <2>3. /\ output' = PropagateTo(Registered, output, e)
        /\ UNCHANGED <<requests, external_req_ids, given>>
    BY <1>6 DEF RaiseMove
  <2>4. output' \in [Requests -> CollectorOutputs]
    BY <2>2, <2>3, Propagated
  <2> QED BY <1>0, <2>3, <2>4 DEF ProcessorTypes, Registered, external_of
<1>7. ASSUME HandlerWaits \/ ReaderReads \/ ReaderFails \/ ReaderCancelled \/ Monitor
             \/ ShutdownBegins \/ ShutdownReader \/ ShutdownProcess
             \/ \E r \in Requests : Resume(r)
      PROVE  ProcessorTypes'
  BY <1>1, <1>7 DEF HandlerWaits, ReaderReads, ReaderFails, ReaderCancelled, Monitor,
     ShutdownBegins, ShutdownReader, ShutdownProcess, Resume
<1>8. ASSUME EngineMove /\ EngineFrame PROVE ProcessorTypes'
  BY <1>1, <1>8 DEF EngineFrame
<1>9. CASE UNCHANGED vars
  BY <1>1, <1>9 DEF vars
<1> QED BY <1>2, <1>3, <1>4, <1>5, <1>6, <1>7, <1>8, <1>9, EveryMove

LEMMA TaskTyped ==
  ASSUME AsyncInv, [Next]_vars
  PROVE  TaskTypes'
<1>0. AsyncTypes /\ TaskTypes /\ ProcessorTypes
  BY DEF AsyncInv, AsyncTypes
<1>1. ASSUME UNCHANGED taskVars PROVE TaskTypes'
  BY <1>0, <1>1 DEF taskVars, TaskTypes
<1>2. ASSUME NEW r \in Requests, Generate(r) PROVE TaskTypes'
  <2>1. CASE Refuse(r)
    BY <1>0, <2>1 DEF Refuse, TaskTypes, Errors
  <2>2. CASE task' = [task EXCEPT ![r] = "waiting"] /\ UNCHANGED <<outcome, delivered>>
    BY <1>0, <2>2 DEF TaskTypes
  <2> QED BY <1>2, <2>1, <2>2 DEF Generate
<1>3. ASSUME NEW r \in Requests, TakeOutput(r) PROVE TaskTypes'
  <2>1. /\ output[r].tokens \in Seq(Nat) /\ output[r].reason \in Reasons \cup Errors
        /\ delivered[r] \in Seq(Nat)
    BY <1>0 DEF ProcessorTypes, CollectorOutputs, TaskTypes
  <2>2. delivered[r] \o output[r].tokens \in Seq(Nat)
    BY <2>1, ConcatProperties
  <2>3. /\ delivered' = [delivered EXCEPT ![r] =
             IF output_kind[r] = "DELTA" THEN delivered[r] \o output[r].tokens ELSE output[r].tokens]
        /\ task' = [task EXCEPT ![r] = IF output[r].reason = None THEN "yielded" ELSE "last"]
        /\ outcome' = [outcome EXCEPT ![r] = output[r].reason]
    BY <1>3 DEF TakeOutput
  <2>4. delivered' \in [Requests -> Seq(Nat)]
    BY <1>0, <2>1, <2>2, <2>3 DEF TaskTypes
  <2>5. task' \in [Requests -> {"new", "waiting", "yielded", "last", "done"}]
    BY <1>0, <2>3 DEF TaskTypes
  <2>6. outcome' \in [Requests -> Reasons \cup Errors \cup {"EngineGenerateError", "cancelled"}]
    BY <1>0, <2>1, <2>3 DEF TaskTypes
  <2> QED BY <2>4, <2>5, <2>6 DEF TaskTypes
<1>4. ASSUME NEW r \in Requests, TakeDeadError(r) PROVE TaskTypes'
  BY <1>0, <1>4 DEF TakeDeadError, End_, TaskTypes, Errors
<1>5. ASSUME NEW ext, NEW held \in [Requests -> CollectorOutputs], AbortMove(ext, held)
      PROVE  TaskTypes'
  <2>1. delivered' = delivered
    BY <1>5 DEF AbortMove
  <2>2. /\ task' \in [Requests -> {"new", "waiting", "yielded", "last", "done"}]
        /\ outcome' \in [Requests -> Reasons \cup Errors \cup {"EngineGenerateError", "cancelled"}]
    BY <1>5, AbortReaders
  <2> QED BY <1>0, <2>1, <2>2 DEF TaskTypes
<1>6. ASSUME NEW r \in Requests, Resume(r) PROVE TaskTypes'
  BY <1>0, <1>6 DEF Resume, TaskTypes
<1>7. ASSUME \/ \E batch, M : BatchMove(batch, M)
             \/ \E e \in Errors : RaiseMove(e)
             \/ HandlerWaits \/ ReaderReads \/ ReaderFails \/ ReaderCancelled \/ Monitor
             \/ ShutdownBegins \/ ShutdownReader \/ ShutdownProcess
      PROVE  TaskTypes'
  BY <1>1, <1>7 DEF BatchMove, RaiseMove, HandlerWaits, ReaderReads, ReaderFails,
     ReaderCancelled, Monitor, ShutdownBegins, ShutdownReader, ShutdownProcess
<1>8. ASSUME EngineMove /\ EngineFrame PROVE TaskTypes'
  BY <1>1, <1>8 DEF EngineFrame
<1>9. CASE UNCHANGED vars
  BY <1>1, <1>9 DEF vars
<1> QED BY <1>2, <1>3, <1>4, <1>5, <1>6, <1>7, <1>8, <1>9, EveryMove

LEMMA ErrorItemTyped ==
  ASSUME NEW e \in Errors
  PROVE  ErrorItem(e) \in Items /\ ErrorItem(e).kind = "error" /\ ErrorItem(e).error = e
         /\ ErrorItem(e).outputs = <<>> /\ DOMAIN ErrorItem(e).outputs = {}
BY DEF ErrorItem, Items, ErrorItems

LEMMA BatchTyped ==
  ASSUME NEW S \in SUBSET Requests, NEW f \in [S -> EngineOutputs]
  PROVE  Batch(f) \in Items /\ Batch(f).kind = "batch" /\ Batch(f).outputs = f
BY DEF Batch, Items, Batches

LEMMA LoopTyped ==
  ASSUME AsyncInv, [Next]_vars
  PROVE  LoopTypes' /\ SentSingly(outputs_queue)'
<1>0. /\ LoopTypes /\ SentSingly(outputs_queue) /\ outputs_queue \in Seq(Items)
      /\ socket \in Seq(Items) /\ SentSingly(socket)
  BY DEF AsyncInv, AsyncTypes, LoopTypes, EngineTypes
<1> DEFINE Same == outputs_queue' = outputs_queue
           Took == outputs_queue # <<>> /\ outputs_queue' = Tail(outputs_queue)
           Got(m) == outputs_queue' = Append(outputs_queue, m)
           Fine == outputs_queue' \in Seq(Items) /\ SentSingly(outputs_queue)'
<1>1. Same => Fine
  BY <1>0 DEF SentSingly
<1>2. Took => Fine
  <2> SUFFICES ASSUME Took PROVE Fine
    OBVIOUS
  <2>1. /\ Tail(outputs_queue) \in Seq(Items)
        /\ \A i \in DOMAIN Tail(outputs_queue) :
             i + 1 \in DOMAIN outputs_queue /\ Tail(outputs_queue)[i] = outputs_queue[i + 1]
    BY <1>0, HeadOfQueue
  <2> QED BY <1>0, <2>1 DEF SentSingly
<1>3. ASSUME NEW m \in Items, Got(m), \A r \in DOMAIN m.outputs : Len(m.outputs[r].tokens) <= 1
      PROVE  Fine
  <2>1. /\ Append(outputs_queue, m) \in Seq(Items) /\ DOMAIN outputs_queue = 1 .. Len(outputs_queue)
        /\ DOMAIN Append(outputs_queue, m) = 1 .. Len(outputs_queue) + 1
        /\ \A i \in DOMAIN outputs_queue : Append(outputs_queue, m)[i] = outputs_queue[i]
        /\ Append(outputs_queue, m)[Len(outputs_queue) + 1] = m
        /\ Len(outputs_queue) \in Nat
    BY <1>0, EndOfQueue
  <2>2. \A i \in DOMAIN Append(outputs_queue, m) : i \in DOMAIN outputs_queue \/ i = Len(outputs_queue) + 1
    BY <2>1
  <2>3. \A i \in DOMAIN Append(outputs_queue, m) :
          \A r \in DOMAIN Append(outputs_queue, m)[i].outputs :
             Len(Append(outputs_queue, m)[i].outputs[r].tokens) <= 1
    BY <1>0, <1>3, <2>1, <2>2 DEF SentSingly
  <2> QED BY <1>3, <2>1, <2>3 DEF SentSingly
<1>4. ASSUME NEW e \in Errors, Got(ErrorItem(e)) PROVE Fine
  BY <1>3, <1>4, ErrorItemTyped
<1> HIDE DEF Same, Took, Got
<1>5. ASSUME NEW r \in Requests, Generate(r) PROVE LoopTypes' /\ Fine
  <2>1. Same /\ errored' = errored /\ closed' = closed
    BY <1>5 DEF Generate, loopVars, Same
  <2>2. reader' \in {"none", "reading", "cancelling", "done", "failed"}
    BY <1>0, <1>5 DEF Generate, loopVars, StartReader, LoopTypes
  <2>3. handler' \in {"none", "created", "running", "get", "done"}
    BY <1>0, <1>5 DEF Generate, loopVars, LoopTypes
  <2>4. engine_dead' \in BOOLEAN
    BY <1>0, <1>5 DEF Generate, loopVars, EnsureAliveRaises, Send, LoopTypes
  <2> QED BY <1>0, <1>1, <2>1, <2>2, <2>3, <2>4 DEF LoopTypes
<1>6. ASSUME NEW ext, NEW held \in [Requests -> CollectorOutputs], AbortMove(ext, held)
      PROVE  LoopTypes' /\ Fine
  <2>1. UNCHANGED loopVars /\ UNCHANGED closed /\ engine_dead' \in BOOLEAN
    BY <1>6, AbortMoves
  <2> QED BY <1>0, <1>1, <2>1 DEF loopVars, LoopTypes, Same
<1>7. ASSUME NEW batch, NEW M, BatchMove(batch, M) PROVE LoopTypes' /\ Fine
  <2>1. /\ Took /\ UNCHANGED <<reader, closed>>
    BY <1>7 DEF BatchMove, Took
  <2>2. BatchEnds(batch, M) \/ BatchGoes(batch, M)
    BY <1>7, BatchMoves
  <2>3. /\ handler' \in {"running", "done"} /\ errored' \in {errored, TRUE}
        /\ engine_dead' \in {engine_dead, TRUE}
    BY <2>2 DEF BatchEnds, BatchGoes
  <2> QED BY <1>0, <1>2, <2>1, <2>3 DEF LoopTypes
<1>8. ASSUME NEW e \in Errors, RaiseMove(e) PROVE LoopTypes' /\ Fine
  <2>1. Same \/ Took
    BY <1>8 DEF RaiseMove, Same, Took
  <2> QED BY <1>0, <1>1, <1>2, <1>8, <2>1 DEF RaiseMove, clientVars, LoopTypes
<1>9. ASSUME ReaderReads PROVE LoopTypes' /\ Fine
  <2>1. socket # <<>> /\ Got(Head(socket))
    BY <1>9 DEF ReaderReads, Got
  <2>2. Head(socket) \in Items /\ 1 \in DOMAIN socket /\ Head(socket) = socket[1]
    BY <1>0, <2>1, HeadOfQueue
  <2>3. \A r \in DOMAIN Head(socket).outputs : Len(Head(socket).outputs[r].tokens) <= 1
    BY <1>0, <2>2 DEF SentSingly
  <2>4. Fine
    BY <1>3, <2>1, <2>2, <2>3 DEF Got
  <2> QED BY <1>0, <1>9, <2>4 DEF ReaderReads, clientVars, LoopTypes
<1>10. ASSUME ReaderFails \/ ReaderCancelled PROVE LoopTypes' /\ Fine
  <2>1. "Error" \in Errors /\ "EngineDeadError" \in Errors
    BY DEF Errors
  <2>2. Fine
    BY <1>4, <1>10, <2>1 DEF ReaderFails, ReaderCancelled, Got
  <2> QED BY <1>0, <1>10, <2>2 DEF ReaderFails, ReaderCancelled, clientVars, LoopTypes
<1>11. ASSUME \/ HandlerWaits \/ Monitor \/ ShutdownBegins \/ ShutdownReader \/ ShutdownProcess
       PROVE  LoopTypes' /\ Fine
  BY <1>0, <1>1, <1>11 DEF HandlerWaits, Monitor, ShutdownBegins, ShutdownReader, ShutdownProcess,
     CancelReader, ReleaseResources, clientVars, LoopTypes, Same
<1>12. ASSUME \/ \E r \in Requests : TakeOutput(r) \/ TakeDeadError(r) \/ Resume(r)
              \/ (EngineMove /\ EngineFrame) \/ UNCHANGED vars
       PROVE  LoopTypes' /\ Fine
  <2>1. UNCHANGED <<loopVars, clientVars>>
    BY <1>12 DEF TakeOutput, TakeDeadError, Resume, EngineFrame, vars
  <2> QED BY <1>0, <1>1, <2>1 DEF loopVars, clientVars, LoopTypes, Same
<1> HIDE DEF Fine
<1>13. LoopTypes' /\ Fine
  BY <1>5, <1>6, <1>7, <1>8, <1>9, <1>10, <1>11, <1>12, EveryMove
<1> QED BY <1>13 DEF Fine

LEMMA AnswersTyped ==
  ASSUME AsyncInv, NEW S, NEW f, Answers(S, f)
  PROVE  /\ S \in SUBSET Requests /\ f \in [S -> EngineOutputs] /\ Batch(f) \in Items
         /\ Batch(f).kind = "batch" /\ Batch(f).outputs = f /\ DOMAIN Batch(f).outputs = S
         /\ running' \subseteq running
         /\ ended' \in [Requests -> {None, "length", "abort"}]
         /\ produced' \in [Requests -> Nat]
         /\ \A r \in Requests : r \notin running =>
              r \notin S /\ ended'[r] = ended[r] /\ produced'[r] = produced[r]
         /\ \A r \in running' : ended'[r] = ended[r]
         /\ \A r \in S : ended'[r] = f[r].reason
<1>0. /\ running \subseteq Requests /\ ended \in [Requests -> {None, "length", "abort"}]
      /\ produced \in [Requests -> Nat] /\ \A r \in running : ended[r] = None
  BY DEF AsyncInv, AsyncTypes, EngineTypes, Endings
<1>1. /\ S \subseteq running /\ f \in [S -> EngineOutputs]
      /\ running' = {r \in running : r \in S => f[r].reason = None}
      /\ ended' = [r \in Requests |-> IF r \in S THEN f[r].reason ELSE ended[r]]
      /\ produced' = [r \in Requests |-> IF r \in S /\ f[r].tokens # <<>> THEN produced[r] + 1
                                         ELSE produced[r]]
  BY DEF Answers
<1>2. S \in SUBSET Requests /\ Batch(f) \in Items /\ Batch(f).kind = "batch" /\ Batch(f).outputs = f
  BY <1>0, <1>1, BatchTyped
<1>3. \A r \in S : f[r].reason \in {None, "length", "abort"}
  BY <1>1 DEF EngineOutputs
<1>4. ended' \in [Requests -> {None, "length", "abort"}]
  BY <1>0, <1>1, <1>3
<1>5. produced' \in [Requests -> Nat]
  BY <1>0, <1>1
<1>6. \A r \in Requests : r \notin running =>
        r \notin S /\ ended'[r] = ended[r] /\ produced'[r] = produced[r]
  BY <1>0, <1>1
<1>7. \A r \in running' : ended'[r] = ended[r]
  BY <1>0, <1>1
<1>8. \A r \in S : ended'[r] = f[r].reason
  BY <1>1, <1>2
<1> QED BY <1>1, <1>2, <1>4, <1>5, <1>6, <1>7, <1>8

LEMMA EngineTyped ==
  ASSUME AsyncInv, [Next]_vars
  PROVE  EngineTypes' /\ SentSingly(socket)'
<1>0. /\ EngineTypes /\ SentSingly(socket) /\ socket \in Seq(Items) /\ to_engine \in Seq(Messages)
      /\ running \subseteq Requests /\ Registered \subseteq Requests
      /\ matched \subseteq Requests
  BY DEF AsyncInv, AsyncTypes, EngineTypes, ProcessorTypes
<1> DEFINE Fine == socket' \in Seq(Items) /\ SentSingly(socket)'
<1>1. socket' = socket => Fine
  BY <1>0 DEF SentSingly
<1>2. socket' = <<>> => Fine
  BY <1>0 DEF SentSingly
<1>3. socket # <<>> /\ socket' = Tail(socket) => Fine
  <2> SUFFICES ASSUME socket # <<>> /\ socket' = Tail(socket) PROVE Fine
    OBVIOUS
  <2>1. /\ Tail(socket) \in Seq(Items)
        /\ \A i \in DOMAIN Tail(socket) : i + 1 \in DOMAIN socket /\ Tail(socket)[i] = socket[i + 1]
    BY <1>0, HeadOfQueue
  <2> QED BY <1>0, <2>1 DEF SentSingly
<1>4. ASSUME NEW m \in Items, socket' = Append(socket, m),
             \A r \in DOMAIN m.outputs : Len(m.outputs[r].tokens) <= 1
      PROVE  Fine
  <2>1. /\ Append(socket, m) \in Seq(Items) /\ DOMAIN socket = 1 .. Len(socket)
        /\ DOMAIN Append(socket, m) = 1 .. Len(socket) + 1
        /\ \A i \in DOMAIN socket : Append(socket, m)[i] = socket[i]
        /\ Append(socket, m)[Len(socket) + 1] = m
        /\ Len(socket) \in Nat
    BY <1>0, EndOfQueue
  <2>2. \A i \in DOMAIN Append(socket, m) : i \in DOMAIN socket \/ i = Len(socket) + 1
    BY <2>1
  <2>3. \A i \in DOMAIN Append(socket, m) :
          \A r \in DOMAIN Append(socket, m)[i].outputs :
             Len(Append(socket, m)[i].outputs[r].tokens) <= 1
    BY <1>0, <1>4, <2>1, <2>2 DEF SentSingly
  <2> QED BY <1>4, <2>1, <2>3 DEF SentSingly
<1>5. ASSUME NEW S, NEW f, Answers(S, f)
      PROVE  /\ Fine /\ running' \subseteq Requests /\ produced' \in [Requests -> Nat]
             /\ ended' \in [Requests -> {None, "length", "abort"}]
  <2>1. /\ Batch(f) \in Items /\ Batch(f).outputs = f /\ f \in [S -> EngineOutputs]
        /\ running' \subseteq running
        /\ ended' \in [Requests -> {None, "length", "abort"}]
        /\ produced' \in [Requests -> Nat]
    BY <1>5, AnswersTyped
  <2>2. socket' = Append(socket, Batch(f)) /\ \A r \in S : Len(f[r].tokens) <= 1
    BY <1>5 DEF Answers
  <2> QED BY <1>0, <1>4, <2>1, <2>2
<1>6. to_engine # <<>> => Tail(to_engine) \in Seq(Messages) /\ Head(to_engine) \in Messages
  BY <1>0, HeadOfQueue
<1>7. ASSUME NEW ids \in SUBSET Requests
      PROVE  Append(to_engine, AbortOf(ids)) \in Seq(Messages)
  BY <1>0 DEF AbortOf, Messages
<1>8. ASSUME NEW r \in Requests, Generate(r) PROVE EngineTypes' /\ Fine
  <2>1. UNCHANGED <<engine, socket, produced, ended, running, matched>>
    BY <1>8 DEF Generate, askVars
  <2>2. to_engine' = to_engine \/ to_engine' = Append(to_engine, AddOf(r))
    BY <1>8 DEF Generate, EnsureAliveRaises, Send
  <2>3. AddOf(r) \in Messages
    BY DEF AddOf, Messages
  <2> HIDE DEF AddOf
  <2>4. to_engine' \in Seq(Messages)
    BY <1>0, <2>2, <2>3
  <2> QED BY <1>0, <1>1, <2>1, <2>4 DEF EngineTypes
<1>9. ASSUME NEW ext, NEW held \in [Requests -> CollectorOutputs], AbortMove(ext, held)
      PROVE  EngineTypes' /\ Fine
  <2>1. UNCHANGED <<engine, socket, produced, ended, running, matched>>
        /\ IdsOf(ext) \in SUBSET Requests
        /\ (to_engine' = to_engine \/ to_engine' = Append(to_engine, AbortOf(IdsOf(ext))))
    BY <1>9, AbortMoves
  <2> QED BY <1>0, <1>1, <1>7, <2>1 DEF EngineTypes
<1>10. ASSUME NEW batch, NEW M, BatchMove(batch, M) PROVE EngineTypes' /\ Fine
  <2>1. UNCHANGED <<engine, socket, produced, ended, running>> /\ matched' = matched \cup M
    BY <1>10 DEF BatchMove
  <2>2. M \subseteq Requests /\ ReqsToAbort(batch, M) \in SUBSET Requests
    BY <1>0, <1>10, BatchMoves DEF Known, ReqsToAbort
  <2>3. to_engine' = to_engine \/ to_engine' = Append(to_engine, AbortOf(ReqsToAbort(batch, M)))
    <3>1. BatchEnds(batch, M) \/ BatchGoes(batch, M)
      BY <1>10, BatchMoves
    <3> QED BY <3>1 DEF BatchEnds, BatchGoes
  <2>4. to_engine' \in Seq(Messages)
    BY <1>0, <1>7, <2>2, <2>3
  <2> QED BY <1>0, <1>1, <2>1, <2>2, <2>4 DEF EngineTypes
<1>11. ASSUME ReaderReads PROVE EngineTypes' /\ Fine
  BY <1>0, <1>3, <1>11 DEF ReaderReads, askVars, EngineTypes
<1>12. ASSUME Monitor \/ ShutdownProcess PROVE EngineTypes' /\ Fine
  <2>1. /\ socket' = socket \/ socket' = <<>>
        /\ \/ UNCHANGED <<engine, to_engine, running>>
           \/ engine' = "gone" /\ to_engine' = <<>> /\ running' = {}
        /\ UNCHANGED <<produced, ended, matched>>
    BY <1>12 DEF Monitor, ShutdownProcess, ReleaseResources, ProcessGone, askVars
  <2>2. Fine
    BY <1>1, <1>2, <2>1
  <2>3. <<>> \in Seq(Messages)
    OBVIOUS
  <2>4. to_engine' \in Seq(Messages)
    BY <1>0, <2>1, <2>3
  <2> QED BY <1>0, <2>1, <2>2, <2>4 DEF EngineTypes
<1>13. ASSUME \/ \E r \in Requests : TakeOutput(r) \/ TakeDeadError(r) \/ Resume(r)
              \/ \E e \in Errors : RaiseMove(e)
              \/ HandlerWaits \/ ReaderFails \/ ReaderCancelled \/ ShutdownBegins
              \/ ShutdownReader \/ UNCHANGED vars
       PROVE  EngineTypes' /\ Fine
  <2>1. UNCHANGED <<engineVars, askVars>>
    BY <1>13 DEF TakeOutput, TakeDeadError, Resume, RaiseMove, HandlerWaits, ReaderFails,
       ReaderCancelled, ShutdownBegins, ShutdownReader, vars
  <2> QED BY <1>0, <1>1, <2>1 DEF engineVars, askVars, EngineTypes
<1>14. ASSUME EngineMove, EngineFrame PROVE EngineTypes' /\ Fine
  <2>1. matched' = matched
    BY <1>14 DEF EngineFrame, askVars
  <2>2. CASE AddHeard
    <3>1. Head(to_engine).ids \subseteq Requests
      BY <1>6, <2>2 DEF AddHeard, Messages
    <3> QED BY <1>0, <1>1, <1>6, <2>1, <2>2, <3>1 DEF AddHeard, EngineTypes
  <2>3. ASSUME NEW S, NEW f, AbortHeard(S, f) \/ Stepped(S, f) \/ Stopped(S, f)
        PROVE  EngineTypes' /\ Fine
    <3>1. Silence \/ Answers(S, f)
      BY <2>3 DEF AbortHeard, Stepped, Stopped
    <3>2. /\ engine' \in {engine, "exiting"}
          /\ to_engine' = to_engine \/ (to_engine # <<>> /\ to_engine' = Tail(to_engine))
      BY <2>3 DEF AbortHeard, Stepped, Stopped
    <3>5. to_engine' \in Seq(Messages)
      BY <1>0, <1>6, <3>2
    <3>3. CASE Silence
      BY <1>0, <1>1, <2>1, <3>2, <3>3, <3>5 DEF Silence, EngineTypes
    <3>4. CASE Answers(S, f)
      BY <1>0, <1>5, <2>1, <3>2, <3>4, <3>5 DEF EngineTypes
    <3> QED BY <3>1, <3>3, <3>4
  <2>4. CASE Failed
    <3>1. "EngineDeadError" \in Errors
      BY DEF Errors
    <3>2. Fine
      BY <1>4, <2>4, <3>1, ErrorItemTyped DEF Failed
    <3> QED BY <1>0, <2>1, <2>4, <3>2 DEF Failed, EngineTypes
  <2>5. CASE Gone
    <3>1. /\ socket' = socket /\ engine' = "gone" /\ to_engine' = <<>> /\ running' = {}
          /\ ended' = ended /\ produced' = produced
      BY <2>5 DEF Gone
    <3>2. Fine /\ to_engine' \in Seq(Messages)
      BY <1>1, <3>1
    <3> QED BY <1>0, <2>1, <3>1, <3>2 DEF EngineTypes
  <2> QED BY <1>14, <2>2, <2>3, <2>4, <2>5 DEF EngineMove
<1>15. EngineTypes' /\ Fine
  BY <1>8, <1>9, <1>10, <1>11, <1>12, <1>13, <1>14, EveryMove
<1> QED BY <1>15

-----------------------------------------------------------------------------
(***************************************************************************)
(* Errors                                                                  *)
(***************************************************************************)
\* What has gone wrong stays wrong, and what was asked for and found stays known.
LEMMA Persists ==
  ASSUME AsyncInv, [Next]_vars
  PROVE  /\ engine = "gone" => engine' = "gone"
         /\ engine # "up" => engine' # "up"
         /\ reader \in {"done", "failed"} => reader' = reader
         /\ shut # "no" => shut' # "no"
         /\ asked \subseteq asked' /\ matched \subseteq matched' /\ given' = given
<1> DEFINE Engine == /\ engine = "gone" => engine' = "gone"
                     /\ engine # "up" => engine' # "up"
           Reader == reader \in {"done", "failed"} => reader' = reader
           Shut == shut # "no" => shut' # "no"
           Known_ == asked \subseteq asked' /\ matched \subseteq matched' /\ given' = given
<1>1. ASSUME NEW r \in Requests, Generate(r) PROVE Engine /\ Reader /\ Shut /\ Known_
  BY <1>1 DEF Generate, StartReader, askVars, loopVars
<1>2. ASSUME NEW ext, NEW held \in [Requests -> CollectorOutputs], AbortMove(ext, held)
      PROVE  Engine /\ Reader /\ Shut /\ Known_
  <2>1. /\ asked' = asked \cup {ext}
        /\ UNCHANGED <<given, matched, loopVars, shut, engine>>
    BY <1>2, AbortMoves
  <2> QED BY <2>1 DEF loopVars
<1>3. ASSUME NEW batch, NEW M, BatchMove(batch, M) PROVE Engine /\ Reader /\ Shut /\ Known_
  BY <1>3 DEF BatchMove
<1>4. ASSUME NEW e \in Errors, RaiseMove(e) PROVE Engine /\ Reader /\ Shut /\ Known_
  BY <1>4 DEF RaiseMove, clientVars, engineVars, askVars
<1>5. ASSUME \/ HandlerWaits \/ ReaderReads \/ ReaderFails \/ ReaderCancelled \/ Monitor
             \/ ShutdownBegins \/ ShutdownReader \/ ShutdownProcess
      PROVE  Engine /\ Reader /\ Shut /\ Known_
  BY <1>5 DEF HandlerWaits, ReaderReads, ReaderFails, ReaderCancelled, Monitor, ShutdownBegins,
     ShutdownReader, ShutdownProcess, CancelReader, ReleaseResources, ProcessGone, clientVars,
     engineVars, askVars, processorVars
<1>6. ASSUME EngineMove, EngineFrame PROVE Engine /\ Reader /\ Shut /\ Known_
  <2>1. Reader /\ Shut /\ Known_
    BY <1>6 DEF EngineFrame, loopVars, clientVars, askVars, processorVars
  <2>2. Engine
    BY <1>6 DEF EngineMove, AddHeard, AbortHeard, Stepped, Stopped, Failed, Gone
  <2> QED BY <2>1, <2>2
<1>7. ASSUME \/ \E r \in Requests : TakeOutput(r) \/ TakeDeadError(r) \/ Resume(r)
             \/ UNCHANGED vars
      PROVE  Engine /\ Reader /\ Shut /\ Known_
  BY <1>7 DEF TakeOutput, TakeDeadError, Taken, Resume, vars, loopVars, clientVars, engineVars,
     askVars, processorVars
<1> HIDE DEF Engine, Reader, Shut, Known_
<1>8. Engine /\ Reader /\ Shut /\ Known_
  BY <1>1, <1>2, <1>3, <1>4, <1>5, <1>6, <1>7, EveryMove
<1> QED BY <1>8 DEF Engine, Reader, Shut, Known_

LEMMA FallsByProcess ==
  ASSUME AsyncInv, [Next]_vars
  PROVE  /\ (errored <=> handler = "done")'
         /\ (engine_dead \/ closed => engine = "gone")'
         /\ (errored => Fallen)'
<1>0. /\ errored <=> handler = "done"
      /\ engine_dead \/ closed => engine = "gone"
      /\ errored => Fallen
      /\ errored \in BOOLEAN /\ engine_dead \in BOOLEAN
  BY DEF AsyncInv, Falls, AsyncTypes, LoopTypes
<1>1. Fallen => Fallen'
  BY Persists DEF Fallen
<1>2. engine = "gone" => engine' = "gone"
  BY Persists
<1> DEFINE Goal == /\ errored' <=> handler' = "done"
                   /\ engine_dead' \/ closed' => engine' = "gone"
                   /\ errored' => Fallen'
<1>3. ASSUME NEW r \in Requests, Generate(r) PROVE Goal
  <2>1. (errored' <=> handler' = "done") /\ errored' = errored /\ closed' = closed
    BY <1>0, <1>3 DEF Generate, loopVars, Errored
  <2>2. engine_dead' => engine_dead \/ engine = "gone"
    BY <1>3 DEF Generate, EnsureAliveRaises, Send, Alive
  <2> QED BY <1>0, <1>1, <1>2, <2>1, <2>2
<1>4. ASSUME NEW ext, NEW held \in [Requests -> CollectorOutputs], AbortMove(ext, held) PROVE Goal
  <2>1. /\ UNCHANGED loopVars /\ closed' = closed /\ (engine_dead' => engine = "gone")
    BY <1>4, AbortMoves
  <2> QED BY <1>0, <1>1, <1>2, <2>1 DEF loopVars
<1>5. ASSUME NEW batch, NEW M, BatchMove(batch, M) PROVE Goal
  <2>1. ~errored /\ (BatchEnds(batch, M) \/ BatchGoes(batch, M))
    BY <1>5, BatchMoves
  <2>2. closed' = closed /\ engine' = engine
    BY <1>5 DEF BatchMove
  <2> QED BY <1>0, <1>1, <1>2, <2>1, <2>2 DEF BatchEnds, BatchGoes, Fallen
<1>6. ASSUME NEW e \in Errors, RaiseMove(e) PROVE Goal
  BY <1>0, <1>6 DEF RaiseMove, clientVars, engineVars, Fallen
<1>7. ASSUME HandlerWaits \/ ReaderReads \/ ReaderFails \/ ReaderCancelled \/ ShutdownBegins
             \/ ShutdownReader
      PROVE  Goal
  BY <1>0, <1>1, <1>2, <1>7 DEF HandlerWaits, ReaderReads, ReaderFails, ReaderCancelled,
     ShutdownBegins, ShutdownReader, clientVars, engineVars
<1>8. ASSUME Monitor \/ ShutdownProcess PROVE Goal
  BY <1>0, <1>1, <1>2, <1>8 DEF Monitor, ShutdownProcess, ReleaseResources, ProcessGone
<1>9. ASSUME \/ \E r \in Requests : TakeOutput(r) \/ TakeDeadError(r) \/ Resume(r)
             \/ (EngineMove /\ EngineFrame) \/ UNCHANGED vars
      PROVE  Goal
  <2>1. UNCHANGED <<loopVars, clientVars>>
    BY <1>9 DEF TakeOutput, TakeDeadError, Resume, EngineFrame, vars
  <2> QED BY <1>0, <1>1, <1>2, <2>1 DEF loopVars, clientVars
<1> HIDE DEF Goal
<1>10. Goal
  BY <1>3, <1>4, <1>5, <1>6, <1>7, <1>8, <1>9, EveryMove
<1> QED BY <1>10 DEF Goal

\* Where what is in outputs_queue comes from.
LEMMA QueueItems ==
  ASSUME AsyncInv, [Next]_vars, NEW i \in DOMAIN outputs_queue'
  PROVE  \/ \E j \in DOMAIN outputs_queue : outputs_queue'[i] = outputs_queue[j]
         \/ ReaderReads /\ \E j \in DOMAIN socket : outputs_queue'[i] = socket[j] /\ socket[j] = Head(socket)
         \/ ReaderFails /\ outputs_queue'[i] = ErrorItem("Error")
         \/ ReaderCancelled /\ outputs_queue'[i] = ErrorItem("EngineDeadError")
<1>0. outputs_queue \in Seq(Items) /\ socket \in Seq(Items)
  BY DEF AsyncInv, AsyncTypes, LoopTypes, EngineTypes
<1> DEFINE Old == \E j \in DOMAIN outputs_queue : outputs_queue'[i] = outputs_queue[j]
<1>1. outputs_queue' = outputs_queue => Old
  OBVIOUS
<1>2. outputs_queue # <<>> /\ outputs_queue' = Tail(outputs_queue) => Old
  BY <1>0, HeadOfQueue
<1>3. ASSUME NEW m \in Items, outputs_queue' = Append(outputs_queue, m)
      PROVE  Old \/ outputs_queue'[i] = m
  <2>1. /\ DOMAIN outputs_queue = 1 .. Len(outputs_queue) /\ Len(outputs_queue) \in Nat
        /\ DOMAIN Append(outputs_queue, m) = 1 .. Len(outputs_queue) + 1
        /\ \A j \in DOMAIN outputs_queue : Append(outputs_queue, m)[j] = outputs_queue[j]
        /\ Append(outputs_queue, m)[Len(outputs_queue) + 1] = m
    BY <1>0, EndOfQueue
  <2>2. i \in DOMAIN outputs_queue \/ i = Len(outputs_queue) + 1
    BY <1>3, <2>1
  <2> QED BY <1>3, <2>1, <2>2
<1> HIDE DEF Old
<1>4. "Error" \in Errors /\ "EngineDeadError" \in Errors
  BY DEF Errors
<1>5. ASSUME ReaderReads
      PROVE  Old \/ \E j \in DOMAIN socket : outputs_queue'[i] = socket[j] /\ socket[j] = Head(socket)
  <2>1. socket # <<>> /\ outputs_queue' = Append(outputs_queue, Head(socket))
    BY <1>5 DEF ReaderReads
  <2>2. Head(socket) \in Items /\ 1 \in DOMAIN socket /\ Head(socket) = socket[1]
    BY <1>0, <2>1, HeadOfQueue
  <2>3. Old \/ outputs_queue'[i] = Head(socket)
    BY <1>3, <2>1, <2>2
  <2> QED BY <2>2, <2>3
<1>6. ReaderFails => Old \/ outputs_queue'[i] = ErrorItem("Error")
  BY <1>3, <1>4, ErrorItemTyped DEF ReaderFails
<1>7. ReaderCancelled => Old \/ outputs_queue'[i] = ErrorItem("EngineDeadError")
  BY <1>3, <1>4, ErrorItemTyped DEF ReaderCancelled
<1>8. ASSUME \/ \E batch, M : BatchMove(batch, M)
             \/ \E e \in Errors : RaiseMove(e)
      PROVE  Old
  BY <1>1, <1>2, <1>8 DEF BatchMove, RaiseMove
<1>9. ASSUME NEW ext, NEW held \in [Requests -> CollectorOutputs], AbortMove(ext, held)
      PROVE  Old
  BY <1>1, <1>9 DEF AbortMove, AbortFrame, loopVars
<1>10. ASSUME \/ \E r \in Requests : Generate(r) \/ TakeOutput(r) \/ TakeDeadError(r) \/ Resume(r)
              \/ HandlerWaits \/ Monitor \/ ShutdownBegins \/ ShutdownReader \/ ShutdownProcess
              \/ (EngineMove /\ EngineFrame) \/ UNCHANGED vars
       PROVE  Old
  BY <1>1, <1>10 DEF Generate, TakeOutput, TakeDeadError, Resume, HandlerWaits, Monitor,
     ShutdownBegins, ShutdownReader, ShutdownProcess, EngineFrame, vars, loopVars
<1>11. \/ Old
       \/ ReaderReads /\ \E j \in DOMAIN socket : outputs_queue'[i] = socket[j] /\ socket[j] = Head(socket)
       \/ ReaderFails /\ outputs_queue'[i] = ErrorItem("Error")
       \/ ReaderCancelled /\ outputs_queue'[i] = ErrorItem("EngineDeadError")
  BY <1>5, <1>6, <1>7, <1>8, <1>9, <1>10, EveryMove
<1> QED BY <1>11 DEF Old

\* Where what is in the socket comes from.
LEMMA SocketItems ==
  ASSUME AsyncInv, [Next]_vars, NEW i \in DOMAIN socket'
  PROVE  \/ \E j \in DOMAIN socket : socket'[i] = socket[j]
         \/ \E S, f : Answers(S, f) /\ EngineFrame /\ socket'[i] = Batch(f)
         \/ socket'[i] = ErrorItem("EngineDeadError")
<1>0. socket \in Seq(Items)
  BY DEF AsyncInv, AsyncTypes, EngineTypes
<1> DEFINE Old == \E j \in DOMAIN socket : socket'[i] = socket[j]
           New == \E S, f : Answers(S, f) /\ EngineFrame /\ socket'[i] = Batch(f)
<1>1. socket' = socket => Old
  OBVIOUS
<1>2. socket # <<>> /\ socket' = Tail(socket) => Old
  BY <1>0, HeadOfQueue
<1>3. socket' # <<>>
  OBVIOUS
<1>4. ASSUME NEW m \in Items, socket' = Append(socket, m)
      PROVE  Old \/ socket'[i] = m
  <2>1. /\ DOMAIN socket = 1 .. Len(socket) /\ Len(socket) \in Nat
        /\ DOMAIN Append(socket, m) = 1 .. Len(socket) + 1
        /\ \A j \in DOMAIN socket : Append(socket, m)[j] = socket[j]
        /\ Append(socket, m)[Len(socket) + 1] = m
    BY <1>0, EndOfQueue
  <2>2. i \in DOMAIN socket \/ i = Len(socket) + 1
    BY <1>4, <2>1
  <2> QED BY <1>4, <2>1, <2>2
<1> HIDE DEF Old
<1>5. ASSUME EngineMove, EngineFrame
      PROVE  Old \/ New \/ socket'[i] = ErrorItem("EngineDeadError")
  <2>1. ASSUME NEW S, NEW f, Answers(S, f) PROVE Old \/ New
    <3>1. socket' = Append(socket, Batch(f)) /\ Batch(f) \in Items
      BY <2>1, AnswersTyped DEF Answers
    <3>2. Old \/ socket'[i] = Batch(f)
      BY <1>4, <3>1
    <3> QED BY <1>5, <2>1, <3>2
  <2>2. Silence => Old
    BY <1>1 DEF Silence
  <2>3. CASE Failed
    <3>1. "EngineDeadError" \in Errors
      BY DEF Errors
    <3> QED BY <1>4, <2>3, <3>1, ErrorItemTyped DEF Failed
  <2>4. CASE AddHeard \/ Gone
    BY <1>1, <2>4 DEF AddHeard, Gone
  <2>5. ASSUME NEW S, NEW f, AbortHeard(S, f) \/ Stepped(S, f) \/ Stopped(S, f)
        PROVE  Silence \/ Answers(S, f)
    BY <2>5 DEF AbortHeard, Stepped, Stopped
  <2> HIDE DEF New
  <2> QED BY <1>5, <2>1, <2>2, <2>3, <2>4, <2>5 DEF EngineMove
<1>6. ReaderReads => Old
  BY <1>2 DEF ReaderReads
<1>7. Monitor \/ ShutdownProcess => Old
  BY <1>1, <1>3 DEF Monitor, ShutdownProcess, ReleaseResources
<1>8. ASSUME NEW ext, NEW held \in [Requests -> CollectorOutputs], AbortMove(ext, held)
      PROVE  Old
  BY <1>1, <1>8 DEF AbortMove, AbortFrame
<1>9. ASSUME \/ \E r \in Requests : Generate(r) \/ TakeOutput(r) \/ TakeDeadError(r) \/ Resume(r)
             \/ \E batch, M : BatchMove(batch, M)
             \/ \E e \in Errors : RaiseMove(e)
             \/ HandlerWaits \/ ReaderFails \/ ReaderCancelled \/ ShutdownBegins
             \/ ShutdownReader \/ UNCHANGED vars
      PROVE  Old
  BY <1>1, <1>9 DEF Generate, TakeOutput, TakeDeadError, Resume, BatchMove, RaiseMove,
     HandlerWaits, ReaderFails, ReaderCancelled, ShutdownBegins, ShutdownReader, vars, engineVars
<1> HIDE DEF New
<1>10. Old \/ New \/ socket'[i] = ErrorItem("EngineDeadError")
  BY <1>5, <1>6, <1>7, <1>8, <1>9, EveryMove
<1> QED BY <1>10 DEF Old, New

LEMMA FallsByItems ==
  ASSUME AsyncInv, [Next]_vars
  PROVE  /\ \A i \in DOMAIN outputs_queue' : outputs_queue'[i].kind = "error" =>
              reader' \in {"done", "failed"} /\ ErrorIsTrue(outputs_queue[i].error)'
         /\ \A i \in DOMAIN socket' :
              socket'[i].kind = "error" => socket'[i].error = "EngineDeadError"
<1>0. /\ \A i \in DOMAIN outputs_queue : outputs_queue[i].kind = "error" =>
           reader \in {"done", "failed"} /\ ErrorIsTrue(outputs_queue[i].error)
      /\ \A i \in DOMAIN socket : socket[i].kind = "error" => socket[i].error = "EngineDeadError"
  BY DEF AsyncInv, Falls
<1>1. "Error" \in Errors /\ "EngineDeadError" \in Errors
  BY DEF Errors
<1>2. ASSUME NEW i \in DOMAIN outputs_queue', outputs_queue'[i].kind = "error"
      PROVE  reader' \in {"done", "failed"} /\ ErrorIsTrue(outputs_queue[i].error)'
  <2>1. CASE \E j \in DOMAIN outputs_queue : outputs_queue'[i] = outputs_queue[j]
    BY <1>0, <1>2, <2>1, Persists DEF ErrorIsTrue
  <2>2. CASE ReaderReads /\ \E j \in DOMAIN socket : outputs_queue'[i] = socket[j] /\ socket[j] = Head(socket)
    BY <1>0, <1>1, <1>2, <2>2 DEF ReaderReads, ErrorIsTrue
  <2>3. CASE ReaderFails /\ outputs_queue'[i] = ErrorItem("Error")
    BY <1>1, <2>3, ErrorItemTyped DEF ReaderFails, ErrorIsTrue
  <2>4. CASE ReaderCancelled /\ outputs_queue'[i] = ErrorItem("EngineDeadError")
    BY <1>1, <2>4, ErrorItemTyped DEF ReaderCancelled, ErrorIsTrue
  <2> QED BY <2>1, <2>2, <2>3, <2>4, QueueItems
<1>3. ASSUME NEW i \in DOMAIN socket', socket'[i].kind = "error"
      PROVE  socket'[i].error = "EngineDeadError"
  <2>1. CASE \E j \in DOMAIN socket : socket'[i] = socket[j]
    BY <1>0, <1>3, <2>1
  <2>2. CASE \E S, f : Answers(S, f) /\ EngineFrame /\ socket'[i] = Batch(f)
    BY <1>3, <2>2, AnswersTyped
  <2>3. CASE socket'[i] = ErrorItem("EngineDeadError")
    BY <1>1, <2>3, ErrorItemTyped
  <2> QED BY <2>1, <2>2, <2>3, SocketItems
<1> QED BY <1>2, <1>3

\* The collectors are left alone, or one is emptied.
LEMMA OtherOutputs ==
  ASSUME AsyncInv,
         \/ \E r \in Requests : Generate(r) \/ TakeOutput(r) \/ TakeDeadError(r) \/ Resume(r)
         \/ HandlerWaits \/ ReaderReads \/ ReaderFails \/ ReaderCancelled \/ Monitor
         \/ ShutdownBegins \/ ShutdownReader \/ ShutdownProcess
         \/ (EngineMove /\ EngineFrame) \/ UNCHANGED vars
  PROVE  \A r \in Requests : output'[r] = output[r] \/ output'[r] = Empty
<1>1. ASSUME NEW r \in Requests, TakeOutput(r) \/ TakeDeadError(r)
      PROVE  \A q \in Requests : output'[q] = output[q] \/ output'[q] = Empty
  <2>1. output' = OutputTaken(r)
    BY <1>1 DEF TakeOutput, TakeDeadError, Taken
  <2>2. OutputTaken(r)[r] = Empty /\ \A q \in Requests : q # r => OutputTaken(r)[q] = output[q]
    BY EmptyTaken DEF AsyncInv
  <2> QED BY <2>1, <2>2
<1>2. ASSUME \/ \E r \in Requests : Generate(r) \/ Resume(r)
             \/ HandlerWaits \/ ReaderReads \/ ReaderFails \/ ReaderCancelled \/ Monitor
             \/ ShutdownBegins \/ ShutdownReader \/ ShutdownProcess
             \/ (EngineMove /\ EngineFrame) \/ UNCHANGED vars
      PROVE  output' = output
  BY <1>2 DEF Generate, Resume, HandlerWaits, ReaderReads, ReaderFails, ReaderCancelled, Monitor,
     ShutdownBegins, ShutdownReader, ShutdownProcess, EngineFrame, vars, processorVars
<1> QED BY <1>1, <1>2

LEMMA FallsByCollectors ==
  ASSUME AsyncInv, [Next]_vars, NEW r \in Requests, output'[r].kind = "error"
  PROVE  errored' /\ ErrorIsTrue(output[r].reason)'
<1>0. output[r].kind = "error" => errored /\ ErrorIsTrue(output[r].reason)
  BY DEF AsyncInv, Falls
<1>1. ErrorIsTrue(output[r].reason) /\ output'[r] = output[r] => ErrorIsTrue(output[r].reason)'
  BY Persists DEF ErrorIsTrue
<1>2. Empty.kind # "error"
  BY DEF Empty
<1>3. errored => errored'
  <2>1. errored => handler = "done"
    BY DEF AsyncInv, Falls
  <2>2. ASSUME NEW batch, NEW M, BatchMove(batch, M) PROVE ~errored
    BY <2>2, BatchMoves
  <2>3. ASSUME NEW ext, NEW held \in [Requests -> CollectorOutputs], AbortMove(ext, held)
        PROVE  errored' = errored
    BY <2>3 DEF AbortMove, AbortFrame, loopVars
  <2>4. ASSUME NEW e \in Errors, RaiseMove(e) PROVE ~errored
    BY <2>4 DEF RaiseMove
  <2>5. ASSUME \/ \E q \in Requests : Generate(q) \/ TakeOutput(q) \/ TakeDeadError(q) \/ Resume(q)
               \/ HandlerWaits \/ ReaderReads \/ ReaderFails \/ ReaderCancelled \/ Monitor
               \/ ShutdownBegins \/ ShutdownReader \/ ShutdownProcess
               \/ (EngineMove /\ EngineFrame) \/ UNCHANGED vars
        PROVE  errored' = errored
    BY <2>5 DEF Generate, TakeOutput, TakeDeadError, Resume, HandlerWaits, ReaderReads,
       ReaderFails, ReaderCancelled, Monitor, ShutdownBegins, ShutdownReader, ShutdownProcess,
       EngineFrame, vars, loopVars
  <2> QED BY <2>2, <2>3, <2>4, <2>5, EveryMove
<1>4. ASSUME NEW ext, NEW held \in [Requests -> CollectorOutputs], AbortMove(ext, held)
      PROVE  errored' /\ ErrorIsTrue(output[r].reason)'
  <2>1. \/ output'[r] = held[r] \/ output'[r].kind = "output"
    BY <1>4, AbortMoves
  <2>2. held[r] = output[r] \/ held[r] = Empty
    BY <1>4, AbortReaders
  <2>3. output'[r] = output[r]
    BY <1>2, <2>1, <2>2
  <2> QED BY <1>0, <1>1, <1>3, <2>3
<1>5. ASSUME NEW batch, NEW M, BatchMove(batch, M)
      PROVE  errored' /\ ErrorIsTrue(output[r].reason)'
  <2> DEFINE put == AllPut(OutputsFor(batch, M))
  <2>1. ~errored /\ (BatchEnds(batch, M) \/ BatchGoes(batch, M))
    BY <1>5, BatchMoves
  <2>2. put \in [Requests -> CollectorOutputs] /\ (put[r] = output[r] \/ put[r].kind = "output")
    <3>1. BatchMakes(batch, M)
      BY <1>5, BatchMade
    <3>2. CASE r \in Known(batch)
      BY <3>1, <3>2 DEF BatchMakes
    <3>3. CASE r \notin Known(batch)
      BY <3>1, <3>3 DEF BatchMakes
    <3> QED BY <3>2, <3>3
  <2>3. put[r].kind # "error"
    BY <1>0, <2>1, <2>2
  <2> HIDE DEF put
  <2>4. "EngineDeadError" \in Errors
    BY DEF Errors
  <2>5. CASE BatchGoes(batch, M)
    BY <2>3, <2>5 DEF BatchGoes, put
  <2>6. CASE BatchEnds(batch, M)
    <3>1. errored' /\ output' = PropagateTo(Registered, put, "EngineDeadError")
      BY <2>6 DEF BatchEnds, put
    <3>2. output'[r] = put[r] \/ output'[r].reason = "EngineDeadError"
      BY <2>2, <2>4, <3>1, Propagated
    <3> QED BY <2>3, <2>4, <3>1, <3>2 DEF ErrorIsTrue
  <2> QED BY <2>1, <2>5, <2>6
<1>6. ASSUME NEW e \in Errors, RaiseMove(e)
      PROVE  errored' /\ ErrorIsTrue(output[r].reason)'
  <2>1. errored' /\ ErrorIsTrue(e) /\ reader' = reader /\ output' = PropagateTo(Registered, output, e)
    BY <1>6 DEF RaiseMove
  <2>2. output \in [Requests -> CollectorOutputs]
    BY DEF AsyncInv, AsyncTypes, ProcessorTypes
  <2>3. output'[r] = output[r] \/ output'[r].reason = e
    BY <2>1, <2>2, Propagated
  <2> QED BY <1>0, <1>1, <2>1, <2>3 DEF ErrorIsTrue
<1>7. ASSUME \A q \in Requests : output'[q] = output[q] \/ output'[q] = Empty
      PROVE  errored' /\ ErrorIsTrue(output[r].reason)'
  BY <1>0, <1>1, <1>2, <1>3, <1>7
<1> QED BY <1>4, <1>5, <1>6, <1>7, EveryMove, OtherOutputs

LEMMA FallsStep == AsyncInv /\ [Next]_vars => Falls'
BY FallsByProcess, FallsByItems, FallsByCollectors DEF Falls

-----------------------------------------------------------------------------
(***************************************************************************)
(* Requests that have not come                                             *)
(***************************************************************************)
\* What the engine hears: nothing new, an ADD of a new request, an ABORT, or one less.
HeardMove ==
  \/ to_engine' = to_engine \/ to_engine' = <<>>
  \/ to_engine # <<>> /\ to_engine' = Tail(to_engine)
  \/ \E r \in Requests : Generate(r) /\ to_engine' = Append(to_engine, AddOf(r))
  \/ \E S \in SUBSET Requests : to_engine' = Append(to_engine, AbortOf(S))

LEMMA HeardMoves ==
  ASSUME AsyncInv, [Next]_vars
  PROVE  HeardMove
<1>1. ASSUME NEW r \in Requests, Generate(r) PROVE HeardMove
  BY <1>1 DEF Generate, EnsureAliveRaises, Send, HeardMove
<1>2. ASSUME NEW ext, NEW held \in [Requests -> CollectorOutputs], AbortMove(ext, held)
      PROVE  HeardMove
  <2>1. IdsOf(ext) \in SUBSET Requests
        /\ (to_engine' = to_engine \/ to_engine' = Append(to_engine, AbortOf(IdsOf(ext))))
    BY <1>2, AbortMoves
  <2> QED BY <2>1 DEF HeardMove
<1>3. ASSUME NEW batch, NEW M, BatchMove(batch, M) PROVE HeardMove
  <2>1. BatchEnds(batch, M) \/ BatchGoes(batch, M)
    BY <1>3, BatchMoves
  <2>2. Registered \subseteq Requests
    BY DEF AsyncInv, AsyncTypes, ProcessorTypes
  <2>3. ReqsToAbort(batch, M) \in SUBSET Requests
    BY <1>3, <2>2, BatchMoves DEF Known, ReqsToAbort
  <2> QED BY <2>1, <2>3 DEF BatchEnds, BatchGoes, HeardMove
<1>4. ASSUME EngineMove PROVE HeardMove
  BY <1>4 DEF EngineMove, AddHeard, AbortHeard, Stepped, Stopped, Failed, Gone, HeardMove
<1>5. ASSUME ShutdownProcess PROVE HeardMove
  BY <1>5 DEF ShutdownProcess, ProcessGone, HeardMove
<1>6. ASSUME \/ \E r \in Requests : TakeOutput(r) \/ TakeDeadError(r) \/ Resume(r)
             \/ \E e \in Errors : RaiseMove(e)
             \/ HandlerWaits \/ ReaderReads \/ ReaderFails \/ ReaderCancelled \/ Monitor
             \/ ShutdownBegins \/ ShutdownReader \/ UNCHANGED vars
      PROVE  to_engine' = to_engine
  BY <1>6 DEF TakeOutput, TakeDeadError, Resume, RaiseMove, HandlerWaits, ReaderReads,
     ReaderFails, ReaderCancelled, Monitor, ShutdownBegins, ShutdownReader, vars, engineVars
<1>7. to_engine' = to_engine => HeardMove
  BY DEF HeardMove
<1> QED BY <1>1, <1>2, <1>3, <1>4, <1>5, <1>6, <1>7, EveryMove

LEMMA StillNew ==
  ASSUME AsyncInv, [Next]_vars, NEW q \in Requests, task'[q] = "new"
  PROVE  /\ task[q] = "new" /\ ~Generate(q)
         /\ q \notin Registered' /\ q \notin matched'
         /\ output'[q] = Empty /\ delivered'[q] = <<>> /\ outcome'[q] = None
<1>0. /\ task \in [Requests -> {"new", "waiting", "yielded", "last", "done"}]
      /\ outcome \in [Requests -> Reasons \cup Errors \cup {"EngineGenerateError", "cancelled"}]
      /\ delivered \in [Requests -> Seq(Nat)] /\ output \in [Requests -> CollectorOutputs]
  BY DEF AsyncInv, AsyncTypes, TaskTypes, ProcessorTypes
<1>1. task[q] = "new" => /\ q \notin Registered /\ q \notin matched
                         /\ output[q] = Empty /\ delivered[q] = <<>> /\ outcome[q] = None
  BY DEF AsyncInv, Fresh, Unseen
<1> DEFINE Goal == /\ task[q] = "new" /\ ~Generate(q)
                   /\ q \notin Registered' /\ q \notin matched'
                   /\ output'[q] = Empty /\ delivered'[q] = <<>> /\ outcome'[q] = None
<1>2. ASSUME NEW r \in Requests, Generate(r) PROVE Goal
  <2>1. task' = [task EXCEPT ![r] = "done"] \/ task' = [task EXCEPT ![r] = "waiting"]
    BY <1>2 DEF Generate, Refuse
  <2>2. q # r /\ task[q] = "new"
    BY <1>0, <2>1
  <2>3. ~Generate(q)
    <3>1. ASSUME Generate(q) PROVE FALSE
      <4>1. task' = [task EXCEPT ![q] = "done"] \/ task' = [task EXCEPT ![q] = "waiting"]
        BY <3>1 DEF Generate, Refuse
      <4> QED BY <1>0, <4>1
    <3> QED BY <3>1
  <2>4. /\ outcome' = [outcome EXCEPT ![r] = "EngineDeadError"] \/ outcome' = outcome
        /\ delivered' = delivered /\ matched' = matched
    BY <1>2 DEF Generate, Refuse, askVars
  <2>5. output' = output /\ (Registered' = Registered \/ Registered' = Registered \cup {r})
    BY <1>2, GenerateProcessor DEF Registered
  <2> QED BY <1>0, <1>1, <2>2, <2>3, <2>4, <2>5
<1>3. ASSUME NEW r \in Requests, TakeOutput(r) \/ TakeDeadError(r) PROVE Goal
  <2>1. /\ task' = [task EXCEPT ![r] = task'[r]] /\ task'[r] # "new"
        /\ outcome' = [outcome EXCEPT ![r] = outcome'[r]]
        /\ delivered' = [delivered EXCEPT ![r] = delivered'[r]]
    BY <1>0, <1>3 DEF TakeOutput, TakeDeadError, End_
  <2>2. q # r
    BY <2>1
  <2>3. task[q] = "new" /\ outcome'[q] = outcome[q] /\ delivered'[q] = delivered[q]
    BY <1>0, <2>1, <2>2
  <2>4. Registered' = Registered /\ matched' = matched /\ output' = OutputTaken(r)
    BY <1>3 DEF TakeOutput, TakeDeadError, Taken, Registered, askVars
  <2>5. output'[q] = output[q]
    BY <2>2, <2>4, EmptyTaken DEF AsyncInv
  <2>6. ~Generate(q)
    <3>1. task[r] # "new"
      BY <1>3 DEF TakeOutput, TakeDeadError
    <3>2. Generate(q) => output' = output
      BY DEF Generate
    <3>3. output' # output
      <4>1. output[r].kind # "none" /\ Empty.kind = "none"
        BY <1>3 DEF TakeOutput, TakeDeadError, Empty
      <4>2. output'[r] = Empty
        BY <2>4, EmptyTaken DEF AsyncInv
      <4> QED BY <4>1, <4>2
    <3> QED BY <3>2, <3>3
  <2> QED BY <1>1, <2>3, <2>4, <2>5, <2>6
<1>4. ASSUME NEW ext, NEW held \in [Requests -> CollectorOutputs], AbortMove(ext, held) PROVE Goal
  <2>1. /\ task[q] = "new" /\ outcome'[q] = outcome[q] /\ (held[q] = output[q] \/ held[q] = Empty)
    BY <1>4, AbortReaders
  <2>2. /\ Registered' = Registered \ IdsOf(ext) /\ matched' = matched /\ delivered' = delivered
    BY <1>4, AbortMoves
  <2>3. output'[q] = held[q]
    BY <1>1, <1>4, <2>1, AbortMoves
  <2>4. ~Generate(q)
    BY <1>0, <2>1 DEF Generate, Refuse
  <2> QED BY <1>1, <2>1, <2>2, <2>3, <2>4
<1>5. ASSUME UNCHANGED taskVars PROVE ~Generate(q) /\ task[q] = "new"
  BY <1>0, <1>5 DEF Generate, Refuse, taskVars
<1>6. ASSUME NEW batch, NEW M, BatchMove(batch, M) PROVE Goal
  <2>1. UNCHANGED taskVars /\ matched' = matched \cup M
    BY <1>6 DEF BatchMove
  <2>2. task[q] = "new" /\ ~Generate(q)
    BY <1>5, <2>1
  <2>3. q \notin M /\ q \notin Known(batch)
    BY <1>1, <1>6, <2>2, BatchMoves DEF Known
  <2>4. AllPut(OutputsFor(batch, M))[q] = output[q] /\ AllPut(OutputsFor(batch, M)) \in [Requests -> CollectorOutputs]
    <3>1. BatchMakes(batch, M)
      BY <1>6, BatchMade
    <3> QED BY <2>3, <3>1 DEF BatchMakes
  <2>5. BatchEnds(batch, M) \/ BatchGoes(batch, M)
    BY <1>6, BatchMoves
  <2>6. "EngineDeadError" \in Errors
    BY DEF Errors
  <2>7. Registered' \subseteq Registered /\ output'[q] = output[q]
    <3>1. CASE BatchEnds(batch, M)
      <4>1. /\ Registered' = Registered
            /\ output' = PropagateTo(Registered, AllPut(OutputsFor(batch, M)), "EngineDeadError")
        BY <3>1 DEF BatchEnds
      <4> DEFINE put == AllPut(OutputsFor(batch, M))
      <4> HIDE DEF put
      <4>2. output' = PropagateTo(Registered, put, "EngineDeadError")
            /\ put[q] = output[q] /\ put \in [Requests -> CollectorOutputs]
        BY <2>4, <4>1 DEF put
      <4>3. output'[q] = put[q]
        BY <1>1, <2>2, <2>6, <4>2, Propagated
      <4> QED BY <4>1, <4>2, <4>3
    <3>2. CASE BatchGoes(batch, M)
      BY <2>4, <3>2 DEF BatchGoes
    <3> QED BY <2>5, <3>1, <3>2
  <2> QED BY <1>1, <2>1, <2>2, <2>3, <2>7 DEF taskVars
<1>7. ASSUME NEW e \in Errors, RaiseMove(e) PROVE Goal
  <2>1. /\ UNCHANGED taskVars /\ matched' = matched /\ Registered' = Registered
        /\ output' = PropagateTo(Registered, output, e)
    BY <1>7 DEF RaiseMove, askVars, Registered
  <2>2. task[q] = "new" /\ ~Generate(q)
    BY <1>5, <2>1
  <2>3. output'[q] = output[q]
    BY <1>0, <1>1, <2>1, <2>2, Propagated
  <2> QED BY <1>1, <2>1, <2>2, <2>3 DEF taskVars
<1>8. ASSUME NEW r \in Requests, Resume(r) PROVE Goal
  <2>1. /\ task' = [task EXCEPT ![r] = task'[r]] /\ task'[r] # "new" /\ task'[r] # task[r]
        /\ UNCHANGED <<outcome, delivered, processorVars, askVars>>
    BY <1>0, <1>8 DEF Resume
  <2>2. q # r /\ task[q] = "new" /\ task'[q] = task[q]
    BY <1>0, <2>1
  <2>3. ~Generate(q)
    BY <1>0, <2>2 DEF Generate, Refuse
  <2> QED BY <1>1, <2>1, <2>2, <2>3 DEF processorVars, askVars, Registered
<1>9. ASSUME \/ HandlerWaits \/ ReaderReads \/ ReaderFails \/ ReaderCancelled \/ Monitor
             \/ ShutdownBegins \/ ShutdownReader \/ ShutdownProcess
             \/ (EngineMove /\ EngineFrame) \/ UNCHANGED vars
      PROVE  Goal
  <2>1. UNCHANGED <<processorVars, taskVars, askVars>>
    BY <1>9 DEF HandlerWaits, ReaderReads, ReaderFails, ReaderCancelled, Monitor,
       ShutdownBegins, ShutdownReader, ShutdownProcess, EngineFrame, vars
  <2>2. task[q] = "new" /\ ~Generate(q)
    BY <1>5, <2>1
  <2> QED BY <1>1, <2>1, <2>2 DEF processorVars, taskVars, askVars, Registered
<1> HIDE DEF Goal
<1>10. Goal
  BY <1>2, <1>3, <1>4, <1>6, <1>7, <1>8, <1>9, EveryMove
<1> QED BY <1>10 DEF Goal

LEMMA FreshStep == AsyncInv /\ [Next]_vars => Fresh'
<1> SUFFICES ASSUME AsyncInv, [Next]_vars, NEW q \in Requests, task'[q] = "new"
             PROVE  Unseen(q)'
  BY DEF Fresh
<1>1. /\ task[q] = "new" /\ ~Generate(q) /\ q \notin Registered' /\ q \notin matched'
      /\ output'[q] = Empty /\ delivered'[q] = <<>> /\ outcome'[q] = None
  BY StillNew
<1>2. Unseen(q)
  BY <1>1 DEF AsyncInv, Fresh
<1>3. /\ running \subseteq Requests /\ to_engine \in Seq(Messages)
  BY DEF AsyncInv, AsyncTypes, EngineTypes
<1>4. q \notin running' /\ produced'[q] = 0 /\ ended'[q] = None
  <2>1. ASSUME EngineMove
        PROVE  q \notin running' /\ produced'[q] = produced[q] /\ ended'[q] = ended[q]
    <3>1. ASSUME NEW S, NEW f, Answers(S, f)
          PROVE  q \notin running' /\ produced'[q] = produced[q] /\ ended'[q] = ended[q]
      <4>1. /\ running' \subseteq running
            /\ \A r \in Requests : r \notin running =>
                 r \notin S /\ ended'[r] = ended[r] /\ produced'[r] = produced[r]
        BY <3>1, AnswersTyped
      <4> QED BY <1>2, <4>1 DEF Unseen
    <3>2. Silence => q \notin running' /\ produced'[q] = produced[q] /\ ended'[q] = ended[q]
      BY <1>2 DEF Silence, Unseen
    <3>3. CASE AddHeard
      <4>1. 1 \in DOMAIN to_engine /\ Head(to_engine) = to_engine[1]
        BY <1>3, <3>3, HeadOfQueue DEF AddHeard
      <4>2. q \notin Head(to_engine).ids
        BY <1>2, <3>3, <4>1 DEF AddHeard, Unseen, Adds
      <4> QED BY <1>2, <3>3, <4>2 DEF AddHeard, Unseen
    <3>4. CASE Failed \/ Gone
      BY <1>2, <3>4 DEF Failed, Gone, Unseen
    <3>5. ASSUME NEW S, NEW f, AbortHeard(S, f) \/ Stepped(S, f) \/ Stopped(S, f)
          PROVE  Silence \/ Answers(S, f)
      BY <3>5 DEF AbortHeard, Stepped, Stopped
    <3> QED BY <2>1, <3>1, <3>2, <3>3, <3>4, <3>5 DEF EngineMove
  <2>2. ASSUME NEW ext, NEW held \in [Requests -> CollectorOutputs], AbortMove(ext, held)
        PROVE  UNCHANGED <<running, produced, ended>>
    BY <2>2 DEF AbortMove, AbortFrame
  <2>3. ASSUME \/ \E r \in Requests : Generate(r) \/ TakeOutput(r) \/ TakeDeadError(r) \/ Resume(r)
               \/ \E batch, M : BatchMove(batch, M)
               \/ \E e \in Errors : RaiseMove(e)
               \/ HandlerWaits \/ ReaderReads \/ ReaderFails \/ ReaderCancelled \/ Monitor
               \/ ShutdownBegins \/ ShutdownReader \/ UNCHANGED vars
        PROVE  UNCHANGED <<running, produced, ended>>
    BY <2>3 DEF Generate, TakeOutput, TakeDeadError, Resume, BatchMove, RaiseMove,
       HandlerWaits, ReaderReads, ReaderFails, ReaderCancelled, Monitor, ShutdownBegins,
       ShutdownReader, vars, engineVars
  <2>4. ShutdownProcess => UNCHANGED <<produced, ended>> /\ (running' = running \/ running' = {})
    BY DEF ShutdownProcess, ProcessGone
  <2>5. /\ q \notin running' /\ produced'[q] = produced[q] /\ ended'[q] = ended[q]
    <3>1. q \notin running
      BY <1>2 DEF Unseen
    <3> QED BY <2>1, <2>2, <2>3, <2>4, <3>1, EveryMove
  <2> QED BY <1>2, <2>5 DEF Unseen
<1>5. ASSUME NEW i \in DOMAIN to_engine' PROVE ~Adds(i, q)'
  <2>1. \A j \in DOMAIN to_engine : ~(to_engine[j].type = "ADD" /\ q \in to_engine[j].ids)
    BY <1>2 DEF Unseen, Adds
  <2>2. CASE to_engine' = to_engine
    BY <2>1, <2>2 DEF Adds
  <2>3. CASE to_engine' = <<>>
    BY <2>3
  <2>4. CASE to_engine # <<>> /\ to_engine' = Tail(to_engine)
    <3>1. \A j \in DOMAIN Tail(to_engine) :
             j + 1 \in DOMAIN to_engine /\ Tail(to_engine)[j] = to_engine[j + 1]
      BY <1>3, <2>4, HeadOfQueue
    <3> QED BY <2>1, <2>4, <3>1 DEF Adds
  <2>5. ASSUME NEW m \in Messages, m.type = "ADD" => q \notin m.ids, to_engine' = Append(to_engine, m)
        PROVE  ~Adds(i, q)'
    <3>1. /\ DOMAIN to_engine = 1 .. Len(to_engine) /\ Len(to_engine) \in Nat
          /\ DOMAIN Append(to_engine, m) = 1 .. Len(to_engine) + 1
          /\ \A j \in DOMAIN to_engine : Append(to_engine, m)[j] = to_engine[j]
          /\ Append(to_engine, m)[Len(to_engine) + 1] = m
      BY <1>3, EndOfQueue
    <3>2. i \in DOMAIN to_engine \/ i = Len(to_engine) + 1
      BY <2>5, <3>1
    <3> QED BY <2>1, <2>5, <3>1, <3>2 DEF Adds
  <2>6. ASSUME NEW r \in Requests, Generate(r), to_engine' = Append(to_engine, AddOf(r))
        PROVE  ~Adds(i, q)'
    <3>1. r # q
      BY <1>1, <2>6
    <3>2. AddOf(r) \in Messages /\ q \notin AddOf(r).ids
      BY <3>1 DEF AddOf, Messages
    <3> QED BY <2>5, <2>6, <3>2
  <2>7. ASSUME NEW S \in SUBSET Requests, to_engine' = Append(to_engine, AbortOf(S))
        PROVE  ~Adds(i, q)'
    <3>1. AbortOf(S) \in Messages /\ AbortOf(S).type # "ADD"
      BY DEF AbortOf, Messages
    <3> QED BY <2>5, <2>7, <3>1
  <2> QED BY <2>2, <2>3, <2>4, <2>6, <2>7, HeardMoves DEF HeardMove
<1>6. "Error" \in Errors /\ "EngineDeadError" \in Errors
  BY DEF Errors
<1>7. ASSUME NEW i \in DOMAIN outputs_queue' PROVE q \notin DOMAIN outputs_queue'[i].outputs
  <2>1. /\ \A j \in DOMAIN outputs_queue : q \notin DOMAIN outputs_queue[j].outputs
        /\ \A j \in DOMAIN socket : q \notin DOMAIN socket[j].outputs
    BY <1>2 DEF Unseen
  <2>2. q \notin DOMAIN ErrorItem("Error").outputs /\ q \notin DOMAIN ErrorItem("EngineDeadError").outputs
    BY <1>6, ErrorItemTyped
  <2> QED BY <2>1, <2>2, QueueItems
<1>8. ASSUME NEW i \in DOMAIN socket' PROVE q \notin DOMAIN socket'[i].outputs
  <2>1. \A j \in DOMAIN socket : q \notin DOMAIN socket[j].outputs
    BY <1>2 DEF Unseen
  <2>2. q \notin DOMAIN ErrorItem("EngineDeadError").outputs
    BY <1>6, ErrorItemTyped
  <2>3. ASSUME NEW S, NEW f, Answers(S, f) PROVE q \notin DOMAIN Batch(f).outputs
    <3>1. q \notin running
      BY <1>2 DEF Unseen
    <3> QED BY <2>3, <3>1, AnswersTyped
  <2> QED BY <2>1, <2>2, <2>3, SocketItems
<1> QED BY <1>1, <1>4, <1>5, <1>7, <1>8 DEF Unseen

-----------------------------------------------------------------------------
(***************************************************************************)
(* Registered requests have readers                                        *)
(***************************************************************************)
HasReader(r) ==
  IF errored THEN Reading(r) => output[r].kind = "error"
  ELSE /\ Reading(r) /\ requests[r].reason = None
       /\ output[r].kind = "output" => output[r].reason = None

\* What generate() does to a request that was registered or is so now.
LEMMA GenerateReader ==
  ASSUME AsyncInv, NEW q \in Requests, Generate(q)
  PROVE  /\ task[q] = "new" /\ Unseen(q)
         /\ \A r \in Requests : r # q => task'[r] = task[r] /\ outcome'[r] = outcome[r]
         /\ delivered' = delivered /\ output' = output /\ errored' = errored
         /\ \A r \in Registered' : r # q => r \in Registered /\ requests'[r] = requests[r]
         /\ q \in Registered' =>
              ~errored /\ task'[q] = "waiting" /\ requests'[q] = NewState
              /\ to_engine' = Append(to_engine, AddOf(q))
         /\ q \notin Registered' =>
              task'[q] = "done" /\ outcome'[q] = "EngineDeadError" /\ to_engine' = to_engine
              /\ Registered' = Registered /\ requests' = requests
         /\ \A r \in Registered : r # q /\ r \in Registered'
<1>0. /\ task \in [Requests -> {"new", "waiting", "yielded", "last", "done"}]
      /\ outcome \in [Requests -> Reasons \cup Errors \cup {"EngineGenerateError", "cancelled"}]
  BY DEF AsyncInv, AsyncTypes, TaskTypes
<1>1. task[q] = "new"
  BY DEF Generate
<1>2. Unseen(q) /\ q \notin Registered
  BY <1>1 DEF AsyncInv, Fresh, Unseen
<1>3. /\ delivered' = delivered /\ output' = output /\ errored' = errored
  BY DEF Generate, Refuse, loopVars
<1>4. CASE Refuse(q) /\ requests' = requests /\ UNCHANGED to_engine
  <2>1. Registered' = Registered
    BY <1>4 DEF Registered
  <2>2. /\ task' = [task EXCEPT ![q] = "done"] /\ outcome' = [outcome EXCEPT ![q] = "EngineDeadError"]
    BY <1>4 DEF Refuse
  <2> QED BY <1>0, <1>1, <1>2, <1>3, <1>4, <2>1, <2>2
<1>5. CASE /\ ~Errored /\ AddRequest(q) /\ Send(AddOf(q))
           /\ task' = [task EXCEPT ![q] = "waiting"] /\ UNCHANGED <<outcome, delivered>>
  <2>1. /\ Registered' = Registered \cup {q} /\ requests'[q] = NewState
        /\ \A r \in Registered : r # q => requests'[r] = requests[r]
    BY <1>5 DEF AddRequest, Extended, Registered
  <2>2. ~errored /\ to_engine' = Append(to_engine, AddOf(q))
    BY <1>5 DEF Errored, Send
  <2> QED BY <1>0, <1>1, <1>2, <1>3, <1>5, <2>1, <2>2
<1>6. \/ Refuse(q) /\ requests' = requests /\ UNCHANGED to_engine
      \/ /\ ~Errored /\ AddRequest(q) /\ Send(AddOf(q))
         /\ task' = [task EXCEPT ![q] = "waiting"] /\ UNCHANGED <<outcome, delivered>>
  BY DEF Generate, EnsureAliveRaises
<1> QED BY <1>4, <1>5, <1>6

LEMMA ReadersStep == AsyncInv /\ [Next]_vars => Readers'
<1> SUFFICES ASSUME AsyncInv, [Next]_vars, NEW r \in Registered'
             PROVE  HasReader(r)'
  BY DEF Readers, HasReader
<1>0. /\ task \in [Requests -> {"new", "waiting", "yielded", "last", "done"}]
      /\ output \in [Requests -> CollectorOutputs] /\ errored \in BOOLEAN
      /\ Registered \subseteq Requests
      /\ \A q \in Requests : output[q].kind = "error" => errored
  BY DEF AsyncInv, AsyncTypes, TaskTypes, ProcessorTypes, LoopTypes, Falls
<1>1. /\ r \in Registered => HasReader(r)
      /\ \A q \in Registered : HasReader(q)
  BY DEF AsyncInv, Readers, HasReader
<1>2. Empty.kind = "none"
  BY DEF Empty
<1>3. ASSUME NEW q \in Requests, Generate(q) PROVE HasReader(r)'
  <2>1. CASE r = q
    <3>1. ~errored /\ task'[q] = "waiting" /\ requests'[q] = NewState
          /\ output' = output /\ errored' = errored /\ Unseen(q)
      BY <1>3, <2>1, GenerateReader
    <3> QED BY <1>2, <2>1, <3>1 DEF HasReader, Reading, NewState, Unseen
  <2>2. CASE r # q
    <3>1. /\ r \in Registered /\ requests'[r] = requests[r] /\ output' = output /\ errored' = errored
      BY <1>3, <2>2, GenerateReader
    <3>2. task'[r] = task[r]
      BY <1>0, <1>3, <2>2, <3>1, GenerateReader
    <3> QED BY <1>1, <3>1, <3>2 DEF HasReader, Reading
  <2> QED BY <2>1, <2>2
<1>4. ASSUME NEW q \in Requests, TakeOutput(q) \/ TakeDeadError(q) PROVE HasReader(r)'
  <2>1. /\ output' = OutputTaken(q) /\ errored' = errored /\ requests' = requests
    BY <1>4 DEF TakeOutput, TakeDeadError, Taken, loopVars
  <2>2. r \in Registered /\ r \in Requests
    BY <1>0, <2>1 DEF Registered
  <2>3. \A p \in Requests : p # q => task'[p] = task[p] /\ output'[p] = output[p]
    <3>1. \A p \in Requests : p # q => OutputTaken(q)[p] = output[p]
      BY EmptyTaken DEF AsyncInv
    <3>2. task' = [task EXCEPT ![q] = task'[q]]
      BY <1>0, <1>4 DEF TakeOutput, TakeDeadError, End_
    <3>3. \A p \in Requests : p # q => task'[p] = task[p]
      BY <1>0, <3>2
    <3> QED BY <2>1, <3>1, <3>3
  <2>4. CASE r # q
    BY <1>1, <2>1, <2>2, <2>3, <2>4 DEF HasReader, Reading
  <2>5. CASE r = q /\ TakeOutput(q)
    <3>1. task[r] = "waiting" /\ output[r].kind = "output"
      BY <2>5 DEF TakeOutput
    <3>2. ~errored /\ requests[r].reason = None /\ output[r].reason = None
      BY <1>1, <2>2, <3>1 DEF HasReader, Reading
    <3>3. task'[r] = "yielded"
      BY <1>0, <2>2, <2>5, <3>2 DEF TakeOutput
    <3>4. output'[r] = Empty
      BY <2>1, <2>5, EmptyTaken DEF AsyncInv
    <3> QED BY <1>2, <2>1, <3>2, <3>3, <3>4 DEF HasReader, Reading
  <2>6. CASE r = q /\ TakeDeadError(q)
    <3>1. errored
      BY <1>0, <2>6 DEF TakeDeadError
    <3>2. task'[r] = "done"
      BY <1>0, <2>2, <2>6 DEF TakeDeadError, End_
    <3> QED BY <2>1, <3>1, <3>2 DEF HasReader, Reading
  <2> QED BY <1>4, <2>4, <2>5, <2>6
<1>5. ASSUME NEW ext, NEW held \in [Requests -> CollectorOutputs], AbortMove(ext, held)
      PROVE  HasReader(r)'
  <2>1. /\ r \in Registered /\ r \notin IdsOf(ext) /\ requests'[r] = requests[r]
        /\ errored' = errored
    BY <1>5, AbortMoves DEF loopVars
  <2>2. task'[r] = task[r] /\ held[r] = output[r]
    BY <1>5, AbortReaders
  <2>3. output'[r] = held[r]
    BY <1>0, <1>5, <2>1, AbortMoves
  <2> QED BY <1>1, <2>1, <2>2, <2>3 DEF HasReader, Reading
<1>6. ASSUME NEW batch, NEW M, BatchMove(batch, M) PROVE HasReader(r)'
  <2> DEFINE put == AllPut(OutputsFor(batch, M))
             done == Processed(batch, M)
  <2>1. ~errored /\ (BatchEnds(batch, M) \/ BatchGoes(batch, M)) /\ task' = task
    BY <1>6, BatchMoves DEF BatchMove, taskVars
  <2>2. BatchMakes(batch, M)
    BY <1>6, BatchMade
  <2>3. put \in [Requests -> CollectorOutputs]
    BY <2>2 DEF BatchMakes
  <2>4. CASE BatchEnds(batch, M)
    <3>1. errored' /\ output' = PropagateTo(Registered, put, "EngineDeadError") /\ r \in Registered
      BY <2>4 DEF BatchEnds
    <3>2. "EngineDeadError" \in Errors
      BY DEF Errors
    <3> HIDE DEF put
    <3>3. output'[r].kind = "error"
      BY <1>0, <2>3, <3>1, <3>2, Propagated
    <3> QED BY <3>1, <3>3 DEF HasReader
  <2>5. CASE BatchGoes(batch, M)
    <3>1. /\ r \in Registered \ Finished(batch, M) /\ requests'[r] = done[r]
          /\ output' = put /\ errored' = errored
      BY <2>5 DEF BatchGoes
    <3>2. Reading(r) /\ requests[r].reason = None /\ (output[r].kind = "output" => output[r].reason = None)
      BY <1>1, <2>1, <3>1 DEF HasReader
    <3>3. Reading(r)'
      BY <2>1, <3>2 DEF Reading
    <3>4. done[r].reason = None /\ (put[r].kind = "output" => put[r].reason = None)
      <4>1. CASE r \in Known(batch)
        <5>1. done[r].reason = None
          BY <2>2, <3>1, <4>1 DEF BatchMakes
        <5>2. put[r] = output[r] \/ put[r].reason = done[r].reason
          BY <2>2, <4>1 DEF BatchMakes
        <5> QED BY <3>2, <5>1, <5>2
      <4>2. CASE r \notin Known(batch)
        <5>1. r \in Registered \ Known(batch) /\ r \in Requests \ Known(batch)
          BY <1>0, <3>1, <4>2
        <5>2. done[r] = requests[r] /\ put[r] = output[r]
          BY <2>2, <5>1 DEF BatchMakes
        <5> QED BY <3>2, <5>2
      <4> QED BY <4>1, <4>2
    <3> QED BY <2>1, <3>1, <3>3, <3>4 DEF HasReader
  <2> QED BY <2>1, <2>4, <2>5
<1>7. ASSUME NEW e \in Errors, RaiseMove(e) PROVE HasReader(r)'
  <2>1. r \in Registered /\ errored' /\ output' = PropagateTo(Registered, output, e)
    BY <1>7 DEF RaiseMove, Registered
  <2>2. output'[r].kind = "error"
    BY <1>0, <2>1, Propagated
  <2> QED BY <2>1, <2>2 DEF HasReader
<1>8. ASSUME UNCHANGED <<requests, output, errored>>, Reading(r)' <=> Reading(r) PROVE HasReader(r)'
  BY <1>1, <1>8 DEF HasReader, Registered
<1>9. ASSUME NEW q \in Requests, Resume(q) PROVE HasReader(r)'
  <2>1. UNCHANGED <<requests, output, errored>>
    BY <1>9 DEF Resume, processorVars, loopVars
  <2>2. r \in Requests
    BY <1>0, <2>1 DEF Registered
  <2>3. Reading(r)' <=> Reading(r)
    BY <1>0, <1>9, <2>2 DEF Resume, Reading
  <2> QED BY <1>8, <2>1, <2>3
<1>10. ASSUME \/ HandlerWaits \/ ReaderReads \/ ReaderFails \/ ReaderCancelled \/ Monitor
              \/ ShutdownBegins \/ ShutdownReader \/ ShutdownProcess
              \/ (EngineMove /\ EngineFrame) \/ UNCHANGED vars
       PROVE  HasReader(r)'
  <2>1. UNCHANGED <<processorVars, taskVars, errored>>
    BY <1>10 DEF HandlerWaits, ReaderReads, ReaderFails, ReaderCancelled, Monitor,
       ShutdownBegins, ShutdownReader, ShutdownProcess, EngineFrame, vars, loopVars
  <2> QED BY <1>8, <2>1 DEF processorVars, taskVars, Reading
<1> QED BY <1>3, <1>4, <1>5, <1>6, <1>7, <1>9, <1>10, EveryMove

-----------------------------------------------------------------------------
(***************************************************************************)
(* Ends                                                                    *)
(***************************************************************************)
\* Only the engine makes tokens and ends, and only for what it runs.
LEMMA EngineMakes ==
  ASSUME AsyncInv, [Next]_vars
  PROVE  \/ EngineMove /\ EngineFrame
         \/ UNCHANGED <<produced, ended>> /\ running' = {} /\ to_engine' = <<>>
         \/ UNCHANGED <<produced, ended, running>>
<1>1. ASSUME NEW ext, NEW held \in [Requests -> CollectorOutputs], AbortMove(ext, held)
      PROVE  UNCHANGED <<running, produced, ended>>
  BY <1>1 DEF AbortMove, AbortFrame
<1>2. ASSUME \/ \E r \in Requests : Generate(r) \/ TakeOutput(r) \/ TakeDeadError(r) \/ Resume(r)
             \/ \E batch, M : BatchMove(batch, M)
             \/ \E e \in Errors : RaiseMove(e)
             \/ HandlerWaits \/ ReaderReads \/ ReaderFails \/ ReaderCancelled \/ Monitor
             \/ ShutdownBegins \/ ShutdownReader \/ UNCHANGED vars
      PROVE  UNCHANGED <<running, produced, ended>>
  BY <1>2 DEF Generate, TakeOutput, TakeDeadError, Resume, BatchMove, RaiseMove,
     HandlerWaits, ReaderReads, ReaderFails, ReaderCancelled, Monitor, ShutdownBegins,
     ShutdownReader, vars, engineVars
<1>3. ShutdownProcess => \/ UNCHANGED <<produced, ended>> /\ running' = {} /\ to_engine' = <<>>
                         \/ UNCHANGED <<produced, ended, running>>
  BY DEF ShutdownProcess, ProcessGone
<1> QED BY <1>1, <1>2, <1>3, EveryMove

LEMMA NotRunning ==
  ASSUME AsyncInv, [Next]_vars, NEW r \in Requests, r \notin running
  PROVE  ended'[r] = ended[r] /\ produced'[r] = produced[r]
<1>1. ASSUME NEW S, NEW f, Answers(S, f) PROVE ended'[r] = ended[r] /\ produced'[r] = produced[r]
  BY <1>1, AnswersTyped
<1>2. ASSUME EngineMove PROVE ended'[r] = ended[r] /\ produced'[r] = produced[r]
  <2>1. CASE AddHeard \/ Failed \/ Gone
    BY <2>1 DEF AddHeard, Failed, Gone
  <2>2. ASSUME NEW S, NEW f, AbortHeard(S, f) \/ Stepped(S, f) \/ Stopped(S, f)
        PROVE  Silence \/ Answers(S, f)
    BY <2>2 DEF AbortHeard, Stepped, Stopped
  <2>3. Silence => ended'[r] = ended[r] /\ produced'[r] = produced[r]
    BY DEF Silence
  <2> QED BY <1>1, <1>2, <2>1, <2>2, <2>3 DEF EngineMove
<1> QED BY <1>2, EngineMakes

LEMMA EndStays ==
  ASSUME AsyncInv, [Next]_vars, NEW r \in Requests, ended[r] # None
  PROVE  r \notin running /\ ended'[r] = ended[r] /\ produced'[r] = produced[r]
<1>1. r \notin running
  BY DEF AsyncInv, Endings
<1> QED BY <1>1, NotRunning

\* An ADD is of a request the engine has not heard of, and there is one.
AddsOnce ==
  \A r \in Requests, i \in DOMAIN to_engine : Adds(i, r) =>
    /\ r \notin running /\ ended[r] = None
    /\ \A j \in DOMAIN to_engine : Adds(j, r) => i = j

LEMMA AddsOnceStep == AsyncInv /\ [Next]_vars => AddsOnce'
<1> SUFFICES ASSUME AsyncInv, [Next]_vars, NEW r \in Requests, NEW i \in DOMAIN to_engine', Adds(i, r)'
             PROVE  /\ r \notin running' /\ ended'[r] = None
                    /\ \A j \in DOMAIN to_engine' : Adds(j, r)' => i = j
  BY DEF AddsOnce
<1> DEFINE Goal == /\ r \notin running' /\ ended'[r] = None
                   /\ \A j \in DOMAIN to_engine' : Adds(j, r)' => i = j
<1>0. /\ to_engine \in Seq(Messages) /\ running \subseteq Requests
      /\ \A k \in DOMAIN to_engine : Adds(k, r) =>
           /\ r \notin running /\ ended[r] = None
           /\ \A j \in DOMAIN to_engine : Adds(j, r) => k = j
  BY DEF AsyncInv, AsyncTypes, EngineTypes, Endings
<1>1. /\ \A k \in DOMAIN to_engine : Adds(k, r) <=> to_engine[k].type = "ADD" /\ r \in to_engine[k].ids
      /\ \A k \in DOMAIN to_engine' : Adds(k, r)' <=> to_engine'[k].type = "ADD" /\ r \in to_engine'[k].ids
  BY DEF Adds
<1>2. ASSUME NEW m \in Messages, to_engine' = Append(to_engine, m)
      PROVE  /\ Len(to_engine) \in Nat /\ DOMAIN to_engine = 1 .. Len(to_engine)
             /\ DOMAIN to_engine' = 1 .. Len(to_engine) + 1
             /\ \A k \in DOMAIN to_engine : Adds(k, r)' <=> Adds(k, r)
             /\ \A k \in DOMAIN to_engine' :
                  k = Len(to_engine) + 1 => (Adds(k, r)' <=> m.type = "ADD" /\ r \in m.ids)
             /\ \A k \in DOMAIN to_engine' : k \in DOMAIN to_engine \/ k = Len(to_engine) + 1
  <2>1. /\ DOMAIN to_engine = 1 .. Len(to_engine) /\ Len(to_engine) \in Nat
        /\ DOMAIN Append(to_engine, m) = 1 .. Len(to_engine) + 1
        /\ \A k \in DOMAIN to_engine : Append(to_engine, m)[k] = to_engine[k]
        /\ Append(to_engine, m)[Len(to_engine) + 1] = m
    BY <1>0, EndOfQueue
  <2>2. \A k \in DOMAIN to_engine' : k \in DOMAIN to_engine \/ k = Len(to_engine) + 1
    BY <1>2, <2>1
  <2>3. \A k \in DOMAIN to_engine : k \in DOMAIN to_engine' /\ to_engine'[k] = to_engine[k]
    BY <1>2, <2>1
  <2>4. \A k \in DOMAIN to_engine : Adds(k, r)' <=> Adds(k, r)
    BY <1>1, <2>3
  <2>5. to_engine'[Len(to_engine) + 1] = m
    BY <1>2, <2>1
  <2>6. \A k \in DOMAIN to_engine' :
          k = Len(to_engine) + 1 => (Adds(k, r)' <=> m.type = "ADD" /\ r \in m.ids)
    BY <1>1, <2>5
  <2> QED BY <1>2, <2>1, <2>2, <2>4, <2>6
<1>3. ASSUME UNCHANGED <<running, ended, to_engine>> PROVE Goal
  BY <1>0, <1>1, <1>3
<1>4. ASSUME UNCHANGED <<running, ended>>, NEW S \in SUBSET Requests,
             to_engine' = Append(to_engine, AbortOf(S))
      PROVE  Goal
  <2>1. AbortOf(S) \in Messages /\ AbortOf(S).type # "ADD"
    BY DEF AbortOf, Messages
  <2>2. /\ \A k \in DOMAIN to_engine : Adds(k, r)' <=> Adds(k, r)
        /\ \A k \in DOMAIN to_engine' : k = Len(to_engine) + 1 => ~Adds(k, r)'
        /\ \A k \in DOMAIN to_engine' : k \in DOMAIN to_engine \/ k = Len(to_engine) + 1
    BY <1>2, <1>4, <2>1
  <2>3. \A k \in DOMAIN to_engine' : Adds(k, r)' => k \in DOMAIN to_engine /\ Adds(k, r)
    BY <2>2
  <2>4. i \in DOMAIN to_engine /\ Adds(i, r)
    BY <2>3
  <2>5. \A j \in DOMAIN to_engine' : Adds(j, r)' => i = j
    BY <1>0, <2>3, <2>4
  <2> QED BY <1>0, <1>4, <2>4, <2>5
<1>5. ASSUME UNCHANGED <<running, ended>>, NEW q \in Requests, Generate(q),
             to_engine' = Append(to_engine, AddOf(q))
      PROVE  Goal
  <2>1. AddOf(q) \in Messages /\ AddOf(q).type = "ADD" /\ AddOf(q).ids = {q}
    BY DEF AddOf, Messages
  <2>2. /\ \A k \in DOMAIN to_engine : Adds(k, r)' <=> Adds(k, r)
        /\ \A k \in DOMAIN to_engine' : k = Len(to_engine) + 1 => (Adds(k, r)' <=> r = q)
        /\ \A k \in DOMAIN to_engine' : k \in DOMAIN to_engine \/ k = Len(to_engine) + 1
    BY <1>2, <1>5, <2>1
  <2>3. Unseen(q)
    BY <1>5, GenerateReader
  <2>4. CASE r = q
    <3>1. r \notin running /\ ended[r] = None /\ \A k \in DOMAIN to_engine : ~Adds(k, r)
      BY <2>3, <2>4 DEF Unseen
    <3>2. \A k \in DOMAIN to_engine' : Adds(k, r)' => k = Len(to_engine) + 1
      BY <2>2, <3>1
    <3> QED BY <1>5, <3>1, <3>2
  <2>5. CASE r # q
    <3>1. \A k \in DOMAIN to_engine' : Adds(k, r)' => k \in DOMAIN to_engine /\ Adds(k, r)
      BY <2>2, <2>5
    <3>2. i \in DOMAIN to_engine /\ Adds(i, r)
      BY <3>1
    <3>3. \A j \in DOMAIN to_engine' : Adds(j, r)' => i = j
      BY <1>0, <3>1, <3>2
    <3> QED BY <1>0, <1>5, <3>2, <3>3
  <2> QED BY <2>4, <2>5
<1>6. ASSUME to_engine # <<>>, to_engine' = Tail(to_engine),
             running' \subseteq running \cup Head(to_engine).ids,
             Head(to_engine).type = "ADD" \/ running' \subseteq running
      PROVE  Goal
  <2>1. /\ DOMAIN Tail(to_engine) = 1 .. Len(to_engine) - 1 /\ DOMAIN to_engine = 1 .. Len(to_engine)
        /\ Len(to_engine) \in Nat /\ 1 \in DOMAIN to_engine /\ Head(to_engine) = to_engine[1]
        /\ \A k \in DOMAIN Tail(to_engine) :
             k + 1 \in DOMAIN to_engine /\ Tail(to_engine)[k] = to_engine[k + 1]
    BY <1>0, <1>6, HeadOfQueue
  <2>2. \A k \in DOMAIN to_engine' : k \in Nat /\ k >= 1 /\ k + 1 \in DOMAIN to_engine
                                     /\ (Adds(k, r)' <=> Adds(k + 1, r))
    BY <1>1, <1>6, <2>1
  <2>3. Adds(i + 1, r) /\ i + 1 \in DOMAIN to_engine /\ i + 1 # 1
    BY <2>2
  <2>4. r \notin running /\ ended[r] = None /\ ~Adds(1, r)
    BY <1>0, <2>1, <2>3
  <2>5. r \notin running'
    BY <1>1, <1>6, <2>1, <2>4
  <2>6. ended'[r] = None
    BY <2>4, NotRunning
  <2>7. \A j \in DOMAIN to_engine' : Adds(j, r)' => i = j
    <3> SUFFICES ASSUME NEW j \in DOMAIN to_engine', Adds(j, r)' PROVE i = j
      OBVIOUS
    <3>1. i + 1 = j + 1
      BY <1>0, <2>2, <2>3
    <3> QED BY <2>2, <3>1
  <2> QED BY <2>5, <2>6, <2>7
<1>7. ASSUME to_engine' = to_engine, running' \subseteq running PROVE Goal
  <2>1. Adds(i, r) /\ i \in DOMAIN to_engine
    BY <1>1, <1>7
  <2>2. r \notin running /\ ended[r] = None
    BY <1>0, <2>1
  <2>3. ended'[r] = None
    BY <2>2, NotRunning
  <2> QED BY <1>0, <1>1, <1>7, <2>1, <2>2, <2>3
<1>8. ASSUME EngineMove PROVE Goal
  <2>1. ASSUME NEW S, NEW f, AbortHeard(S, f) \/ Stepped(S, f) \/ Stopped(S, f)
        PROVE  running' \subseteq running
    <3>1. Silence \/ Answers(S, f)
      BY <2>1 DEF AbortHeard, Stepped, Stopped
    <3> QED BY <3>1, AnswersTyped DEF Silence
  <2>2. CASE AddHeard
    BY <1>6, <2>2 DEF AddHeard
  <2>3. ASSUME NEW S, NEW f, AbortHeard(S, f) PROVE Goal
    BY <1>6, <2>1, <2>3 DEF AbortHeard
  <2>4. ASSUME NEW S, NEW f, Stepped(S, f) \/ Stopped(S, f) PROVE Goal
    BY <1>7, <2>1, <2>4 DEF Stepped, Stopped
  <2>5. CASE Failed
    BY <1>7, <2>5 DEF Failed
  <2>6. CASE Gone
    <3>1. to_engine' = <<>>
      BY <2>6 DEF Gone
    <3> QED BY <3>1
  <2> QED BY <1>8, <2>2, <2>3, <2>4, <2>5, <2>6 DEF EngineMove
<1>9. ASSUME UNCHANGED <<ended, running>> PROVE Goal
  <2>1. CASE to_engine' = <<>>
    BY <2>1
  <2>2. CASE to_engine # <<>> /\ to_engine' = Tail(to_engine)
    BY <1>6, <1>9, <2>2
  <2> QED BY <1>3, <1>4, <1>5, <1>9, <2>1, <2>2, HeardMoves DEF HeardMove
<1>10. ASSUME to_engine' = <<>> PROVE Goal
  BY <1>10
<1> HIDE DEF Goal
<1>11. Goal
  BY <1>8, <1>9, <1>10, EngineMakes
<1> QED BY <1>11 DEF Goal

LEMMA RunningStep ==
  ASSUME AsyncInv, [Next]_vars, NEW r \in running'
  PROVE  ended'[r] = None
<1>0. /\ to_engine \in Seq(Messages) /\ running \subseteq Requests
      /\ \A k \in DOMAIN to_engine, q \in Requests : Adds(k, q) => ended[q] = None
      /\ \A q \in running : ended[q] = None
  BY DEF AsyncInv, AsyncTypes, EngineTypes, Endings
<1>1. ASSUME NEW S, NEW f, Answers(S, f) PROVE ended'[r] = None
  <2>1. running' \subseteq running /\ ended'[r] = ended[r]
    BY <1>1, AnswersTyped
  <2> QED BY <1>0, <2>1
<1>2. ASSUME EngineMove PROVE ended'[r] = None
  <2>1. CASE AddHeard
    <3>1. /\ 1 \in DOMAIN to_engine /\ Head(to_engine) = to_engine[1] /\ to_engine[1] \in Messages
      BY <1>0, <2>1, HeadOfQueue DEF AddHeard
    <3>2. r \in running \/ (Adds(1, r) /\ r \in Requests)
      BY <2>1, <3>1 DEF AddHeard, Adds, Messages
    <3>3. ended[r] = None
      BY <1>0, <3>1, <3>2
    <3> QED BY <2>1, <3>3 DEF AddHeard
  <2>2. ASSUME NEW S, NEW f, AbortHeard(S, f) \/ Stepped(S, f) \/ Stopped(S, f)
        PROVE  Silence \/ Answers(S, f)
    BY <2>2 DEF AbortHeard, Stepped, Stopped
  <2>3. Silence => ended'[r] = None
    BY <1>0 DEF Silence
  <2>4. Failed \/ Gone => ended'[r] = None
    BY <1>0 DEF Failed, Gone
  <2> QED BY <1>1, <1>2, <2>1, <2>2, <2>3, <2>4 DEF EngineMove
<1> QED BY <1>0, <1>2, EngineMakes

\* The reason of an end on its way is that of the end the engine made.
LEMMA EndItemsStep ==
  ASSUME AsyncInv, [Next]_vars
  PROVE  /\ \A i \in DOMAIN outputs_queue' : \A r \in DOMAIN outputs_queue'[i].outputs :
              outputs_queue'[i].outputs[r].reason \in {None, ended'[r]}
         /\ \A i \in DOMAIN socket' : \A r \in DOMAIN socket'[i].outputs :
              socket'[i].outputs[r].reason \in {None, ended'[r]}
<1>0. /\ outputs_queue \in Seq(Items) /\ socket \in Seq(Items)
      /\ \A i \in DOMAIN outputs_queue : \A r \in DOMAIN outputs_queue[i].outputs :
           outputs_queue[i].outputs[r].reason \in {None, ended[r]}
      /\ \A i \in DOMAIN socket : \A r \in DOMAIN socket[i].outputs :
           socket[i].outputs[r].reason \in {None, ended[r]}
  BY DEF AsyncInv, AsyncTypes, LoopTypes, EngineTypes, Endings
<1>1. ASSUME NEW m \in Items, \A r \in DOMAIN m.outputs : m.outputs[r].reason \in {None, ended[r]}
      PROVE  \A r \in DOMAIN m.outputs : m.outputs[r].reason \in {None, ended'[r]}
  <2> SUFFICES ASSUME NEW r \in DOMAIN m.outputs, m.outputs[r].reason # None
               PROVE  m.outputs[r].reason = ended'[r]
    OBVIOUS
  <2>1. r \in Requests
    BY ItemKinds
  <2>2. m.outputs[r].reason = ended[r] /\ ended[r] # None
    BY <1>1
  <2> QED BY <2>1, <2>2, EndStays
<1>2. "Error" \in Errors /\ "EngineDeadError" \in Errors
  BY DEF Errors
<1>3. DOMAIN ErrorItem("Error").outputs = {} /\ DOMAIN ErrorItem("EngineDeadError").outputs = {}
  BY <1>2, ErrorItemTyped
<1>4. \A j \in DOMAIN outputs_queue : outputs_queue[j] \in Items
  BY <1>0
<1>5. \A j \in DOMAIN socket : socket[j] \in Items
  BY <1>0
<1>6. \A j \in DOMAIN outputs_queue : \A r \in DOMAIN outputs_queue[j].outputs :
        outputs_queue[j].outputs[r].reason \in {None, ended'[r]}
  BY <1>0, <1>1, <1>4
<1>7. \A j \in DOMAIN socket : \A r \in DOMAIN socket[j].outputs :
        socket[j].outputs[r].reason \in {None, ended'[r]}
  BY <1>0, <1>1, <1>5
<1>8. ASSUME NEW i \in DOMAIN outputs_queue', NEW r \in DOMAIN outputs_queue'[i].outputs
      PROVE  outputs_queue'[i].outputs[r].reason \in {None, ended'[r]}
  BY <1>3, <1>6, <1>7, <1>8, QueueItems
<1>9. ASSUME NEW S, NEW f, Answers(S, f)
      PROVE  \A r \in DOMAIN Batch(f).outputs : Batch(f).outputs[r].reason \in {None, ended'[r]}
  BY <1>9, AnswersTyped
<1>10. ASSUME NEW i \in DOMAIN socket', NEW r \in DOMAIN socket'[i].outputs
       PROVE  socket'[i].outputs[r].reason \in {None, ended'[r]}
  BY <1>3, <1>7, <1>9, <1>10, SocketItems
<1> QED BY <1>8, <1>10

\* One more message, of type and ids.
LEMMA MessageAppended ==
  ASSUME AsyncInv, NEW m \in Messages, to_engine' = Append(to_engine, m), NEW r
  PROVE  /\ Len(to_engine) \in Nat /\ DOMAIN to_engine = 1 .. Len(to_engine)
         /\ DOMAIN to_engine' = 1 .. Len(to_engine) + 1
         /\ \A k \in DOMAIN to_engine' : k \in DOMAIN to_engine \/ k = Len(to_engine) + 1
         /\ \A k \in DOMAIN to_engine : /\ k \in DOMAIN to_engine'
                                        /\ Adds(k, r)' <=> Adds(k, r)
                                        /\ Aborts(k, r)' <=> Aborts(k, r)
         /\ \A k \in DOMAIN to_engine' : k = Len(to_engine) + 1 =>
              /\ Adds(k, r)' <=> m.type = "ADD" /\ r \in m.ids
              /\ Aborts(k, r)' <=> m.type = "ABORT" /\ r \in m.ids
<1>0. to_engine \in Seq(Messages)
  BY DEF AsyncInv, AsyncTypes, EngineTypes
<1>1. /\ DOMAIN to_engine = 1 .. Len(to_engine) /\ Len(to_engine) \in Nat
      /\ DOMAIN Append(to_engine, m) = 1 .. Len(to_engine) + 1
      /\ \A k \in DOMAIN to_engine : Append(to_engine, m)[k] = to_engine[k]
      /\ Append(to_engine, m)[Len(to_engine) + 1] = m
  BY <1>0, EndOfQueue
<1>2. /\ \A k \in DOMAIN to_engine' : k \in DOMAIN to_engine \/ k = Len(to_engine) + 1
      /\ \A k \in DOMAIN to_engine : k \in DOMAIN to_engine' /\ to_engine'[k] = to_engine[k]
      /\ to_engine'[Len(to_engine) + 1] = m
  BY <1>1
<1>3. /\ \A k : Adds(k, r) <=> to_engine[k].type = "ADD" /\ r \in to_engine[k].ids
      /\ \A k : Aborts(k, r) <=> to_engine[k].type = "ABORT" /\ r \in to_engine[k].ids
      /\ \A k : Adds(k, r)' <=> to_engine'[k].type = "ADD" /\ r \in to_engine'[k].ids
      /\ \A k : Aborts(k, r)' <=> to_engine'[k].type = "ABORT" /\ r \in to_engine'[k].ids
  BY DEF Adds, Aborts
<1> QED BY <1>1, <1>2, <1>3

\* The first message taken.
LEMMA MessageTaken ==
  ASSUME AsyncInv, to_engine # <<>>, to_engine' = Tail(to_engine), NEW r
  PROVE  /\ 1 \in DOMAIN to_engine /\ Head(to_engine) = to_engine[1] /\ Head(to_engine) \in Messages
         /\ \A k \in DOMAIN to_engine' :
              /\ k \in Nat /\ k >= 1 /\ k + 1 \in DOMAIN to_engine
              /\ to_engine'[k] = to_engine[k + 1]
              /\ Adds(k, r)' <=> Adds(k + 1, r)
              /\ Aborts(k, r)' <=> Aborts(k + 1, r)
         /\ \A k \in DOMAIN to_engine : k \in Nat /\ k >= 1
                                        /\ (k # 1 => k - 1 \in DOMAIN to_engine')
<1>0. to_engine \in Seq(Messages)
  BY DEF AsyncInv, AsyncTypes, EngineTypes
<1>1. /\ Head(to_engine) = to_engine[1] /\ 1 \in DOMAIN to_engine /\ Head(to_engine) \in Messages
      /\ Len(to_engine) \in Nat
      /\ DOMAIN to_engine = 1 .. Len(to_engine) /\ DOMAIN Tail(to_engine) = 1 .. Len(to_engine) - 1
      /\ \A i \in DOMAIN Tail(to_engine) : i + 1 \in DOMAIN to_engine /\ Tail(to_engine)[i] = to_engine[i + 1]
  BY <1>0, HeadOfQueue
<1>2. \A k \in DOMAIN to_engine' :
        k \in Nat /\ k >= 1 /\ k + 1 \in DOMAIN to_engine /\ to_engine'[k] = to_engine[k + 1]
  BY <1>1
<1>3. /\ \A k : Adds(k, r) <=> to_engine[k].type = "ADD" /\ r \in to_engine[k].ids
      /\ \A k : Aborts(k, r) <=> to_engine[k].type = "ABORT" /\ r \in to_engine[k].ids
      /\ \A k : Adds(k, r)' <=> to_engine'[k].type = "ADD" /\ r \in to_engine'[k].ids
      /\ \A k : Aborts(k, r)' <=> to_engine'[k].type = "ABORT" /\ r \in to_engine'[k].ids
  BY DEF Adds, Aborts
<1>4. \A k \in DOMAIN to_engine : k \in Nat /\ k >= 1 /\ (k # 1 => k - 1 \in DOMAIN to_engine')
  BY <1>1
<1> QED BY <1>1, <1>2, <1>3, <1>4

\* A request stays covered when an ABORT, or an ADD of another, is sent.
LEMMA CoveredAppend ==
  ASSUME AsyncInv, NEW m \in Messages, to_engine' = Append(to_engine, m), running' = running,
         NEW r \in Requests, Covered(r), m.type = "ADD" => r \notin m.ids
  PROVE  Covered(r)'
<1>1. /\ \A k \in DOMAIN to_engine' : k \in DOMAIN to_engine \/ k = Len(to_engine) + 1
      /\ \A k \in DOMAIN to_engine : /\ k \in DOMAIN to_engine'
                                     /\ Adds(k, r)' <=> Adds(k, r)
                                     /\ Aborts(k, r)' <=> Aborts(k, r)
      /\ \A k \in DOMAIN to_engine' : k = Len(to_engine) + 1 =>
           (Adds(k, r)' <=> m.type = "ADD" /\ r \in m.ids)
  BY MessageAppended
<1>2. r \in running => \E j \in DOMAIN to_engine' : Aborts(j, r)'
  BY <1>1 DEF Covered
<1>3. ASSUME NEW i \in DOMAIN to_engine', Adds(i, r)'
      PROVE  \E j \in DOMAIN to_engine' : i < j /\ Aborts(j, r)'
  <2>1. i \in DOMAIN to_engine /\ Adds(i, r)
    BY <1>1, <1>3
  <2>2. PICK j \in DOMAIN to_engine : i < j /\ Aborts(j, r)
    BY <2>1 DEF Covered
  <2> QED BY <1>1, <2>2
<1> QED BY <1>2, <1>3 DEF Covered

\* An ABORT of r covers it.
LEMMA CoveredByAbort ==
  ASSUME AsyncInv, NEW S \in SUBSET Requests, to_engine' = Append(to_engine, AbortOf(S)),
         NEW r \in S
  PROVE  Covered(r)'
<1>1. AbortOf(S) \in Messages /\ AbortOf(S).type = "ABORT" /\ AbortOf(S).ids = S
  BY DEF AbortOf, Messages
<1>2. /\ Len(to_engine) \in Nat /\ DOMAIN to_engine = 1 .. Len(to_engine)
      /\ DOMAIN to_engine' = 1 .. Len(to_engine) + 1
      /\ \A k \in DOMAIN to_engine' : k \in DOMAIN to_engine \/ k = Len(to_engine) + 1
      /\ \A k \in DOMAIN to_engine' : k = Len(to_engine) + 1 =>
           ~Adds(k, r)' /\ Aborts(k, r)'
  BY <1>1, MessageAppended
<1> DEFINE n == Len(to_engine) + 1
<1>3. PICK k : k = n
  OBVIOUS
<1>4. k \in DOMAIN to_engine' /\ Aborts(k, r)' /\ ~Adds(k, r)'
  BY <1>2, <1>3
<1>5. \A i \in DOMAIN to_engine' : Adds(i, r)' => i < k
  BY <1>2, <1>3, <1>4
<1> QED BY <1>4, <1>5 DEF Covered

\* The engine takes a message.
LEMMA CoveredTail ==
  ASSUME AsyncInv, to_engine # <<>>, to_engine' = Tail(to_engine),
         NEW r \in Requests, Covered(r),
         r \in running' => (\/ r \in running /\ ~Aborts(1, r)
                            \/ Adds(1, r))
  PROVE  Covered(r)'
<1>1. /\ 1 \in DOMAIN to_engine
      /\ \A k \in DOMAIN to_engine' :
           /\ k \in Nat /\ k >= 1 /\ k + 1 \in DOMAIN to_engine
           /\ Adds(k, r)' <=> Adds(k + 1, r)
           /\ Aborts(k, r)' <=> Aborts(k + 1, r)
      /\ \A k \in DOMAIN to_engine : k \in Nat /\ k >= 1
                                     /\ (k # 1 => k - 1 \in DOMAIN to_engine')
  BY MessageTaken
<1>2. ASSUME NEW i \in Nat, NEW j \in DOMAIN to_engine, i < j, j # 1, Aborts(j, r)
      PROVE  \E k \in DOMAIN to_engine' : i - 1 < k /\ Aborts(k, r)'
  <2>1. PICK k : k = j - 1
    OBVIOUS
  <2>2. k \in DOMAIN to_engine' /\ k + 1 = j
    BY <1>1, <1>2, <2>1
  <2>3. Aborts(k, r)' /\ i - 1 < k
    BY <1>1, <1>2, <2>1, <2>2
  <2> QED BY <2>2, <2>3
<1>3. ASSUME r \in running' PROVE \E k \in DOMAIN to_engine' : Aborts(k, r)'
  <2>1. CASE r \in running /\ ~Aborts(1, r)
    <3>1. PICK j \in DOMAIN to_engine : Aborts(j, r)
      BY <2>1 DEF Covered
    <3>2. j # 1 /\ 0 < j /\ 0 \in Nat
      BY <1>1, <2>1, <3>1
    <3> QED BY <1>2, <3>1, <3>2
  <2>2. CASE Adds(1, r)
    <3>1. PICK j \in DOMAIN to_engine : 1 < j /\ Aborts(j, r)
      BY <1>1, <2>2 DEF Covered
    <3>2. j # 1 /\ 1 \in Nat
      BY <1>1, <3>1
    <3> QED BY <1>2, <3>1, <3>2
  <2> QED BY <1>3, <2>1, <2>2
<1>4. ASSUME NEW i \in DOMAIN to_engine', Adds(i, r)'
      PROVE  \E k \in DOMAIN to_engine' : i < k /\ Aborts(k, r)'
  <2>1. i \in Nat /\ i >= 1 /\ i + 1 \in DOMAIN to_engine /\ Adds(i + 1, r)
    BY <1>1, <1>4
  <2>2. PICK j \in DOMAIN to_engine : i + 1 < j /\ Aborts(j, r)
    BY <2>1 DEF Covered
  <2>3. j # 1 /\ i + 1 \in Nat /\ (i + 1) - 1 = i
    BY <1>1, <2>1, <2>2
  <2> QED BY <1>2, <2>2, <2>3
<1> QED BY <1>3, <1>4 DEF Covered

LEMMA CoveredStep ==
  ASSUME AsyncInv, [Next]_vars, engine' = "up", NEW r \in Requests \ Registered',
         task'[r] # "new"
  PROVE  Covered(r)'
<1>0. /\ to_engine \in Seq(Messages) /\ running \subseteq Requests
      /\ Registered \subseteq Requests
      /\ task \in [Requests -> {"new", "waiting", "yielded", "last", "done"}]
  BY DEF AsyncInv, AsyncTypes, EngineTypes, ProcessorTypes, TaskTypes
<1>1. engine = "up"
  BY Persists
<1>2. r \notin Registered /\ task[r] # "new" => Covered(r)
  BY <1>1 DEF AsyncInv, Endings
<1>3. ASSUME UNCHANGED <<to_engine, running>>, Covered(r) PROVE Covered(r)'
  BY <1>3 DEF Covered, Adds, Aborts
<1>4. ASSUME NEW q \in Requests, Generate(q) PROVE Covered(r)'
  <2>1. running' = running
    BY <1>4 DEF Generate
  <2>2. CASE r = q
    <3>1. to_engine' = to_engine /\ Unseen(r)
      BY <1>4, <2>2, GenerateReader
    <3>2. r \notin running /\ \A i \in DOMAIN to_engine : ~Adds(i, r)
      BY <3>1 DEF Unseen
    <3>3. Covered(r)
      BY <3>2 DEF Covered
    <3> QED BY <1>3, <2>1, <3>1, <3>3
  <2>3. CASE r # q
    <3>1. r \notin Registered
      BY <1>4, GenerateReader
    <3>2. task'[r] = task[r]
      BY <1>4, <2>3, GenerateReader
    <3>3. Covered(r)
      BY <1>2, <3>1, <3>2
    <3>4. to_engine' = to_engine \/ to_engine' = Append(to_engine, AddOf(q))
      BY <1>4, GenerateReader
    <3>5. AddOf(q) \in Messages /\ r \notin AddOf(q).ids
      BY <2>3 DEF AddOf, Messages
    <3>6. to_engine' = Append(to_engine, AddOf(q)) => Covered(r)'
      BY <2>1, <3>3, <3>5, CoveredAppend
    <3> QED BY <1>3, <2>1, <3>3, <3>4, <3>6
  <2> QED BY <2>2, <2>3
<1>5. ASSUME NEW ext, NEW held \in [Requests -> CollectorOutputs], AbortMove(ext, held)
      PROVE  Covered(r)'
  <2>1. /\ IdsOf(ext) \in SUBSET Requests /\ Registered' = Registered \ IdsOf(ext)
        /\ to_engine' = Append(to_engine, AbortOf(IdsOf(ext))) /\ running' = running
    BY <1>1, <1>5, AbortMoves
  <2>2. CASE r \in IdsOf(ext)
    <3> DEFINE S == IdsOf(ext)
    <3>1. S \in SUBSET Requests /\ to_engine' = Append(to_engine, AbortOf(S)) /\ r \in S
      BY <2>1, <2>2
    <3> HIDE DEF S
    <3> QED BY <3>1, CoveredByAbort
  <2>3. CASE r \notin IdsOf(ext)
    <3>1. task[r] # "new"
      BY <1>5, AbortReaders
    <3>2. Covered(r)
      BY <1>2, <2>1, <2>3, <3>1
    <3>3. AbortOf(IdsOf(ext)) \in Messages /\ AbortOf(IdsOf(ext)).type # "ADD"
      BY <2>1 DEF AbortOf, Messages
    <3> QED BY <2>1, <3>2, <3>3, CoveredAppend
  <2> QED BY <2>2, <2>3
<1>6. ASSUME NEW batch, NEW M, BatchMove(batch, M) PROVE Covered(r)'
  <2> DEFINE S == ReqsToAbort(batch, M)
             F == Finished(batch, M)
  <2>1. /\ running' = running /\ task' = task /\ outputs_queue # <<>>
        /\ batch = Head(outputs_queue).outputs
    BY <1>6 DEF BatchMove, taskVars
  <2>2. BatchGoes(batch, M)
    BY <1>1, <1>6, BatchMoves DEF BatchEnds
  <2>3. /\ \/ S = {} /\ to_engine' = to_engine
           \/ to_engine' = Append(to_engine, AbortOf(S))
        /\ Registered' = Registered \ F
    BY <1>1, <2>2 DEF BatchGoes
  <2>4. S = {q \in M : batch[q].reason = None} /\ S \in SUBSET Requests
    BY <1>0, <1>6, BatchMoves DEF ReqsToAbort, Known
  <2>5. BatchMakes(batch, M)
    BY <1>6, BatchMade
  <2>6. F \subseteq Known(batch) /\ \A q \in Known(batch) : q \in F => q \in M \/ batch[q].reason # None
    BY <2>5 DEF BatchMakes
  <2> HIDE DEF S, F
  <2>7. CASE r \in S
    <3>1. to_engine' = Append(to_engine, AbortOf(S))
      BY <2>3, <2>7
    <3> QED BY <2>4, <2>7, <3>1, CoveredByAbort
  <2>8. ASSUME r \notin S PROVE Covered(r)
    <3>1. CASE r \notin Registered
      BY <1>2, <2>1, <3>1
    <3>2. CASE r \in Registered
      <4>1. r \in F /\ r \in Known(batch)
        BY <2>3, <2>6, <3>2
      <4>2. batch[r].reason # None /\ r \in DOMAIN batch
        BY <2>4, <2>6, <2>8, <4>1 DEF Known
      <4>3. outputs_queue \in Seq(Items)
        BY DEF AsyncInv, AsyncTypes, LoopTypes
      <4>4. Head(outputs_queue) = outputs_queue[1] /\ 1 \in DOMAIN outputs_queue
        BY <2>1, <4>3, HeadOfQueue
      <4>5. batch[r].reason \in {None, ended[r]}
        BY <2>1, <4>2, <4>4 DEF AsyncInv, Endings
      <4>6. ended[r] # None
        BY <4>2, <4>5
      <4>7. r \notin running /\ \A i \in DOMAIN to_engine : ~Adds(i, r)
        BY <4>6 DEF AsyncInv, Endings
      <4> QED BY <4>7 DEF Covered
    <3> QED BY <3>1, <3>2
  <2>9. CASE r \notin S
    <3>1. AbortOf(S) \in Messages /\ AbortOf(S).type # "ADD"
      BY <2>4 DEF AbortOf, Messages
    <3>2. to_engine' = Append(to_engine, AbortOf(S)) => Covered(r)'
      BY <2>1, <2>8, <2>9, <3>1, CoveredAppend
    <3> QED BY <1>3, <2>1, <2>3, <2>8, <2>9, <3>2
  <2> QED BY <2>7, <2>9
<1>7. ASSUME EngineMove, EngineFrame PROVE Covered(r)'
  <2>1. Registered' = Registered /\ task' = task
    BY <1>7 DEF EngineFrame, processorVars, taskVars, Registered
  <2>2. Covered(r)
    BY <1>2, <2>1
  <2>3. ASSUME NEW S, NEW f, Answers(S, f) PROVE running' \subseteq running
    BY <2>3, AnswersTyped
  <2>4. ASSUME running' \subseteq running, to_engine' = to_engine PROVE Covered(r)'
    BY <2>2, <2>4 DEF Covered, Adds, Aborts
  <2>5. CASE AddHeard
    <3>1. /\ 1 \in DOMAIN to_engine /\ Head(to_engine) = to_engine[1]
      BY <1>0, <2>5, HeadOfQueue DEF AddHeard
    <3>2. r \in running' => Adds(1, r) \/ (r \in running /\ ~Aborts(1, r))
      BY <2>5, <3>1 DEF AddHeard, Adds, Aborts
    <3> QED BY <2>2, <2>5, <3>2, CoveredTail DEF AddHeard
  <2>6. ASSUME NEW S, NEW f, AbortHeard(S, f) PROVE Covered(r)'
    <3>1. /\ 1 \in DOMAIN to_engine /\ Head(to_engine) = to_engine[1]
      BY <1>0, <2>6, HeadOfQueue DEF AbortHeard
    <3>2. r \in running' => r \in running /\ ~Aborts(1, r)
      <4>1. CASE S = {}
        BY <2>6, <3>1, <4>1 DEF AbortHeard, Silence, Aborts
      <4>2. CASE S # {}
        <5>1. /\ S = Head(to_engine).ids \cap running /\ \A q \in S : f[q].reason = "abort"
              /\ running' = {q \in running : q \in S => f[q].reason = None}
          BY <2>6, <4>2 DEF AbortHeard, Answers
        <5> QED BY <3>1, <5>1, OutputAssumption DEF Aborts
      <4> QED BY <4>1, <4>2
    <3> QED BY <2>2, <2>6, <3>2, CoveredTail DEF AbortHeard
  <2>7. ASSUME NEW S, NEW f, Stepped(S, f) \/ Stopped(S, f) PROVE Covered(r)'
    <3>1. (Silence \/ Answers(S, f)) /\ to_engine' = to_engine
      BY <2>7 DEF Stepped, Stopped
    <3> QED BY <2>3, <2>4, <3>1 DEF Silence
  <2>8. CASE Failed
    BY <2>4, <2>8 DEF Failed
  <2>9. ~Gone
    BY DEF Gone
  <2> QED BY <1>7, <2>5, <2>6, <2>7, <2>8, <2>9 DEF EngineMove
<1>8. ASSUME UNCHANGED <<to_engine, running>>, Registered' = Registered, task[r] # "new"
      PROVE  Covered(r)'
  BY <1>2, <1>3, <1>8
<1>9. ASSUME NEW q \in Requests, TakeOutput(q) \/ TakeDeadError(q) \/ Resume(q) PROVE Covered(r)'
  <2>1. UNCHANGED <<to_engine, running>> /\ Registered' = Registered
    BY <1>9 DEF TakeOutput, TakeDeadError, Resume, Taken, engineVars, processorVars, Registered
  <2>2. task[q] # "new" /\ task' = [task EXCEPT ![q] = task'[q]]
    BY <1>0, <1>9 DEF TakeOutput, TakeDeadError, Resume, End_
  <2>3. task[r] # "new"
    BY <1>0, <2>2
  <2> QED BY <1>8, <2>1, <2>3
<1>10. ASSUME NEW e \in Errors, RaiseMove(e) PROVE Covered(r)'
  BY <1>8, <1>10 DEF RaiseMove, engineVars, taskVars, Registered
<1>11. ASSUME \/ HandlerWaits \/ ReaderReads \/ ReaderFails \/ ReaderCancelled \/ Monitor
              \/ ShutdownBegins \/ ShutdownReader \/ ShutdownProcess \/ UNCHANGED vars
       PROVE  Covered(r)'
  <2>1. UNCHANGED <<processorVars, taskVars>>
    BY <1>11 DEF HandlerWaits, ReaderReads, ReaderFails, ReaderCancelled, Monitor,
       ShutdownBegins, ShutdownReader, ShutdownProcess, vars
  <2>2. UNCHANGED <<to_engine, running>>
    BY <1>11 DEF HandlerWaits, ReaderReads, ReaderFails, ReaderCancelled, Monitor,
       ShutdownBegins, ShutdownReader, ShutdownProcess, ProcessGone, vars, engineVars
  <2> QED BY <1>8, <2>1, <2>2 DEF processorVars, taskVars, Registered
<1> QED BY <1>4, <1>5, <1>6, <1>7, <1>9, <1>10, <1>11, EveryMove

LEMMA EndingsStep == AsyncInv /\ [Next]_vars => Endings'
<1> SUFFICES ASSUME AsyncInv, [Next]_vars PROVE Endings'
  OBVIOUS
<1>1. AddsOnce'
  BY AddsOnceStep
<1>2. \A r \in running' : ended'[r] = None
  BY RunningStep
<1>3. engine' = "up" => \A r \in Requests \ Registered' : task'[r] # "new" => Covered(r)'
  BY CoveredStep
<1> QED BY <1>1, <1>2, <1>3, EndItemsStep DEF Endings, AddsOnce

-----------------------------------------------------------------------------
(***************************************************************************)
(* Why requests end                                                        *)
(***************************************************************************)
Wanted(r) == external_of[r] \in asked \/ r \in matched

LEMMA StillWanted ==
  ASSUME AsyncInv, [Next]_vars, NEW r \in Requests, Wanted(r)
  PROVE  Wanted(r)'
<1>1. asked \subseteq asked' /\ matched \subseteq matched' /\ given' = given
  BY Persists
<1> QED BY <1>1 DEF Wanted, external_of

LEMMA AbortsWanted ==
  ASSUME AsyncInv, [Next]_vars, NEW r \in Requests, NEW i \in DOMAIN to_engine', Aborts(i, r)'
  PROVE  Wanted(r)'
<1>0. to_engine \in Seq(Messages) /\ Registered \subseteq Requests
  BY DEF AsyncInv, AsyncTypes, EngineTypes, ProcessorTypes
<1>1. \A k \in DOMAIN to_engine : Aborts(k, r) => Wanted(r)'
  BY StillWanted DEF AsyncInv, Reasoned, Wanted
<1>2. CASE to_engine' = to_engine
  BY <1>1, <1>2 DEF Aborts
<1>3. CASE to_engine' = <<>>
  BY <1>3
<1>4. CASE to_engine # <<>> /\ to_engine' = Tail(to_engine)
  BY <1>1, <1>4, MessageTaken
<1>5. ASSUME NEW q \in Requests, to_engine' = Append(to_engine, AddOf(q)) PROVE Wanted(r)'
  <2>1. AddOf(q) \in Messages /\ AddOf(q).type # "ABORT"
    BY DEF AddOf, Messages
  <2>2. i \in DOMAIN to_engine /\ Aborts(i, r)
    BY <1>5, <2>1, MessageAppended
  <2> QED BY <1>1, <2>2
<1>6. ASSUME NEW S \in SUBSET Requests, to_engine' = Append(to_engine, AbortOf(S)),
             r \in S => Wanted(r)'
      PROVE  Wanted(r)'
  <2>1. AbortOf(S) \in Messages /\ AbortOf(S).ids = S
    BY DEF AbortOf, Messages
  <2>2. (i \in DOMAIN to_engine /\ Aborts(i, r)) \/ r \in S
    BY <1>6, <2>1, MessageAppended
  <2> QED BY <1>1, <1>6, <2>2
<1>7. ASSUME NEW ext, NEW held \in [Requests -> CollectorOutputs], AbortMove(ext, held)
      PROVE  Wanted(r)'
  <2>1. /\ IdsOf(ext) \subseteq {q \in Requests : external_of[q] = ext}
        /\ asked' = asked \cup {ext} /\ given' = given
        /\ to_engine' = to_engine \/ to_engine' = Append(to_engine, AbortOf(IdsOf(ext)))
    BY <1>7, AbortMoves
  <2>2. r \in IdsOf(ext) => Wanted(r)'
    BY <2>1 DEF Wanted, external_of
  <2>3. CASE to_engine' = Append(to_engine, AbortOf(IdsOf(ext)))
    <3> DEFINE S == IdsOf(ext)
    <3>1. S \in SUBSET Requests /\ to_engine' = Append(to_engine, AbortOf(S)) /\ (r \in S => Wanted(r)')
      BY <2>1, <2>2, <2>3
    <3> HIDE DEF S
    <3> QED BY <1>6, <3>1
  <2> QED BY <1>2, <2>1, <2>3
<1>8. ASSUME NEW batch, NEW M, BatchMove(batch, M) PROVE Wanted(r)'
  <2> DEFINE S == ReqsToAbort(batch, M)
  <2>1. BatchEnds(batch, M) \/ BatchGoes(batch, M)
    BY <1>8, BatchMoves
  <2>2. to_engine' = to_engine \/ to_engine' = Append(to_engine, AbortOf(S))
    BY <2>1 DEF BatchEnds, BatchGoes
  <2>3. S \in SUBSET Requests /\ S \subseteq M
    BY <1>0, <1>8, BatchMoves DEF ReqsToAbort, Known
  <2>4. matched' = matched \cup M
    BY <1>8 DEF BatchMove
  <2>5. r \in S => Wanted(r)'
    BY <2>3, <2>4 DEF Wanted
  <2> HIDE DEF S
  <2> QED BY <1>2, <1>6, <2>2, <2>3, <2>5
<1>9. ASSUME EngineMove PROVE Wanted(r)'
  <2>1. \/ to_engine' = to_engine \/ to_engine' = <<>>
        \/ to_engine # <<>> /\ to_engine' = Tail(to_engine)
    BY <1>9 DEF EngineMove, AddHeard, AbortHeard, Stepped, Stopped, Failed, Gone
  <2> QED BY <1>2, <1>3, <1>4, <2>1
<1>10. ASSUME NEW q \in Requests, Generate(q) PROVE Wanted(r)'
  <2>1. to_engine' = to_engine \/ to_engine' = Append(to_engine, AddOf(q))
    BY <1>10, GenerateReader
  <2> QED BY <1>2, <1>5, <2>1
<1>11. ASSUME \/ \E q \in Requests : TakeOutput(q) \/ TakeDeadError(q) \/ Resume(q)
              \/ \E e \in Errors : RaiseMove(e)
              \/ HandlerWaits \/ ReaderReads \/ ReaderFails \/ ReaderCancelled \/ Monitor
              \/ ShutdownBegins \/ ShutdownReader \/ ShutdownProcess \/ UNCHANGED vars
       PROVE  Wanted(r)'
  <2>1. to_engine' = to_engine \/ to_engine' = <<>>
    BY <1>11 DEF TakeOutput, TakeDeadError, Resume, RaiseMove, HandlerWaits, ReaderReads,
       ReaderFails, ReaderCancelled, Monitor, ShutdownBegins, ShutdownReader, ShutdownProcess,
       ProcessGone, vars, engineVars
  <2> QED BY <1>2, <1>3, <2>1
<1> QED BY <1>7, <1>8, <1>9, <1>10, <1>11, EveryMove

LEMMA AbortedWanted ==
  ASSUME AsyncInv, [Next]_vars, NEW r \in Requests, ended'[r] = "abort"
  PROVE  Wanted(r)' \/ engine' # "up"
<1>0. to_engine \in Seq(Messages)
  BY DEF AsyncInv, AsyncTypes, EngineTypes
<1>1. ended[r] = "abort" => Wanted(r)' \/ engine' # "up"
  <2>1. ended[r] = "abort" => Wanted(r) \/ engine # "up"
    BY DEF AsyncInv, Reasoned, Wanted
  <2> QED BY <2>1, StillWanted, Persists
<1>2. CASE ended' = ended
  BY <1>1, <1>2
<1>3. ASSUME EngineMove PROVE Wanted(r)' \/ engine' # "up"
  <2>1. CASE AddHeard \/ Failed \/ Gone
    BY <1>2, <2>1 DEF AddHeard, Failed, Gone
  <2>2. ASSUME NEW S, NEW f, Answers(S, f)
        PROVE  IF r \in S THEN ended'[r] = f[r].reason ELSE ended'[r] = ended[r]
    BY <2>2 DEF Answers
  <2>3. ASSUME NEW S, NEW f, AbortHeard(S, f) PROVE Wanted(r)' \/ engine' # "up"
    <3>1. CASE S = {}
      BY <1>2, <2>3, <3>1 DEF AbortHeard, Silence
    <3>2. CASE S # {}
      <4>1. Answers(S, f) /\ S = Head(to_engine).ids \cap running
        BY <2>3, <3>2 DEF AbortHeard
      <4>2. CASE r \in S
        <5>1. Head(to_engine) = to_engine[1] /\ 1 \in DOMAIN to_engine
              /\ Head(to_engine).type = "ABORT"
          BY <1>0, <2>3, HeadOfQueue DEF AbortHeard
        <5>2. Aborts(1, r)
          BY <4>1, <4>2, <5>1 DEF Aborts
        <5>3. Wanted(r)
          BY <5>1, <5>2 DEF AsyncInv, Reasoned, Wanted
        <5> QED BY <5>3, StillWanted
      <4>3. CASE r \notin S
        BY <1>1, <2>2, <4>1, <4>3
      <4> QED BY <4>2, <4>3
    <3> QED BY <3>1, <3>2
  <2>4. ASSUME NEW S, NEW f, Stepped(S, f) PROVE Wanted(r)' \/ engine' # "up"
    <3>1. Answers(S, f) /\ \A q \in S : f[q].reason \in {None, "length"}
      BY <2>4 DEF Stepped
    <3>2. r \notin S
      BY <2>2, <3>1, OutputAssumption
    <3> QED BY <1>1, <2>2, <3>1, <3>2
  <2>5. ASSUME NEW S, NEW f, Stopped(S, f) PROVE Wanted(r)' \/ engine' # "up"
    BY <2>5 DEF Stopped
  <2> QED BY <1>3, <2>1, <2>3, <2>4, <2>5 DEF EngineMove
<1> QED BY <1>2, <1>3, EngineMakes

LEMMA MatchedEnded ==
  ASSUME AsyncInv, [Next]_vars, NEW r \in matched'
  PROVE  r \notin Registered' \/ engine' # "up"
<1>1. r \in matched => r \notin Registered \/ engine' # "up"
  BY Persists DEF AsyncInv, Reasoned
<1>2. ASSUME matched' = matched, Registered' \subseteq Registered
      PROVE  r \notin Registered' \/ engine' # "up"
  BY <1>1, <1>2
<1>3. ASSUME NEW q \in Requests, Generate(q) PROVE r \notin Registered' \/ engine' # "up"
  <2>1. matched' = matched
    BY <1>3 DEF Generate, askVars
  <2>2. q \notin matched
    BY <1>3, GenerateReader DEF Unseen
  <2>3. r \in Registered' => r \in Registered
    BY <1>3, <2>1, <2>2, GenerateReader
  <2> QED BY <1>1, <2>1, <2>3
<1>4. ASSUME NEW ext, NEW held \in [Requests -> CollectorOutputs], AbortMove(ext, held)
      PROVE  r \notin Registered' \/ engine' # "up"
  <2>1. matched' = matched /\ Registered' = Registered \ IdsOf(ext)
    BY <1>4, AbortMoves
  <2> QED BY <1>2, <2>1
<1>5. ASSUME NEW batch, NEW M, BatchMove(batch, M) PROVE r \notin Registered' \/ engine' # "up"
  <2>1. matched' = matched \cup M /\ engine' = engine
    BY <1>5 DEF BatchMove
  <2>2. M \subseteq Known(batch) /\ (BatchEnds(batch, M) \/ BatchGoes(batch, M))
    BY <1>5, BatchMoves
  <2>3. CASE BatchEnds(batch, M)
    BY <2>1, <2>3 DEF BatchEnds
  <2>4. CASE BatchGoes(batch, M)
    <3>1. Registered' = Registered \ Finished(batch, M)
      BY <2>4 DEF BatchGoes
    <3>2. BatchMakes(batch, M)
      BY <1>5, BatchMade
    <3>3. \A q \in M : q \in Finished(batch, M)
      BY <2>2, <3>2, OutputAssumption DEF BatchMakes
    <3> QED BY <1>1, <2>1, <3>1, <3>3
  <2> QED BY <2>2, <2>3, <2>4
<1>6. ASSUME \/ \E q \in Requests : TakeOutput(q) \/ TakeDeadError(q) \/ Resume(q)
             \/ \E e \in Errors : RaiseMove(e)
             \/ HandlerWaits \/ ReaderReads \/ ReaderFails \/ ReaderCancelled \/ Monitor
             \/ ShutdownBegins \/ ShutdownReader \/ ShutdownProcess
             \/ (EngineMove /\ EngineFrame) \/ UNCHANGED vars
      PROVE  matched' = matched /\ requests' = requests
  BY <1>6 DEF TakeOutput, TakeDeadError, Taken, Resume, RaiseMove, HandlerWaits, ReaderReads,
     ReaderFails, ReaderCancelled, Monitor, ShutdownBegins, ShutdownReader, ShutdownProcess,
     EngineFrame, vars, askVars, processorVars
<1>7. matched' = matched /\ requests' = requests => r \notin Registered' \/ engine' # "up"
  BY <1>2 DEF Registered
<1> QED BY <1>3, <1>4, <1>5, <1>6, <1>7, EveryMove

LEMMA ReasonedStep == AsyncInv /\ [Next]_vars => Reasoned'
<1> SUFFICES ASSUME AsyncInv, [Next]_vars PROVE Reasoned'
  OBVIOUS
<1>1. \A r \in Requests, i \in DOMAIN to_engine' : Aborts(i, r)' => Wanted(r)'
  BY AbortsWanted
<1>2. \A r \in Requests : ended'[r] = "abort" => Wanted(r)' \/ engine' # "up"
  BY AbortedWanted
<1> QED BY <1>1, <1>2, MatchedEnded DEF Reasoned, Wanted

-----------------------------------------------------------------------------
(***************************************************************************)
(* The order of tokens and ends                                            *)
(***************************************************************************)
LEMMA TokenNumber ==
  ASSUME NEW m \in Items, NEW r, HasToken(m, r)
  PROVE  TokenIn(m, r) \in Nat
<1>1. m.outputs[r] \in EngineOutputs
  BY ItemKinds DEF HasToken
<1>2. m.outputs[r].tokens \in Seq(Nat) /\ m.outputs[r].tokens # <<>>
  BY <1>1 DEF EngineOutputs, HasToken
<1> QED BY <1>2 DEF TokenIn

\* An item that says nothing of r.
Quiet(m, r) == ~HasToken(m, r) /\ ~EndsIn(m, r)

\* The items of s come first in p.
Prefix(s, p) ==
  /\ DOMAIN s \subseteq DOMAIN p
  /\ \A i \in DOMAIN s : s[i] = p[i] /\ \A j \in DOMAIN p : j <= i => j \in DOMAIN s

\* What has come first is in order, too.
LEMMA FlowPrefix ==
  ASSUME NEW p \in Seq(Items), NEW s, NEW r, NEW n, NEW m, Prefix(s, p), Flow(p, r, n, m)
  PROVE  Flow(s, r, n, m)
<1>1. /\ \A i \in DOMAIN s : i \in DOMAIN p /\ s[i] = p[i]
      /\ \A i \in DOMAIN s, j \in DOMAIN p : j <= i => j \in DOMAIN s
      /\ \A i, j \in DOMAIN p : i < j => i <= j
  BY DEF Prefix
<1>2. \A i \in DOMAIN s : HasToken(s[i], r) => n < TokenIn(s[i], r) /\ TokenIn(s[i], r) <= m
  BY <1>1 DEF Flow
<1>3. \A i, j \in DOMAIN s : i < j /\ HasToken(s[i], r) /\ HasToken(s[j], r) =>
        TokenIn(s[i], r) < TokenIn(s[j], r)
  BY <1>1 DEF Flow
<1>4. ASSUME NEW j \in DOMAIN s, HasToken(s[j], r)
      PROVE  \/ TokenIn(s[j], r) = n + 1
             \/ \E i \in DOMAIN s : i < j /\ HasToken(s[i], r) /\ TokenIn(s[i], r) = TokenIn(s[j], r) - 1
  BY <1>1, <1>4 DEF Flow
<1>5. ASSUME NEW j \in DOMAIN s, EndsIn(s[j], r)
      PROVE  \/ n = m
             \/ \E i \in DOMAIN s : i <= j /\ HasToken(s[i], r) /\ TokenIn(s[i], r) = m
  BY <1>1, <1>5 DEF Flow
<1> QED BY <1>2, <1>3, <1>4, <1>5 DEF Flow

\* The engine makes a token more of a request whose end is not on its way.
LEMMA FlowGrows ==
  ASSUME NEW p \in Seq(Items), NEW r, NEW n \in Nat, NEW m \in Nat, Flow(p, r, n, m),
         \A i \in DOMAIN p : ~EndsIn(p[i], r)
  PROVE  Flow(p, r, n, m + 1)
<1>1. \A i \in DOMAIN p : HasToken(p[i], r) => TokenIn(p[i], r) \in Nat
  BY TokenNumber
<1>2. \A i \in DOMAIN p : HasToken(p[i], r) => n < TokenIn(p[i], r) /\ TokenIn(p[i], r) <= m + 1
  BY <1>1 DEF Flow
<1> QED BY <1>2 DEF Flow

\* The engine sends b, with the next token of r, its end, both, or neither.
LEMMA FlowAppends ==
  ASSUME NEW p \in Seq(Items), NEW r, NEW n \in Nat, NEW m \in Nat, NEW m2 \in Nat, NEW b \in Items,
         Flow(p, r, n, m), m2 = IF HasToken(b, r) THEN m + 1 ELSE m,
         HasToken(b, r) => TokenIn(b, r) = m + 1 /\ \A i \in DOMAIN p : ~EndsIn(p[i], r),
         ~Quiet(b, r) => Reaches(p, r, n, m)
  PROVE  /\ Flow(Append(p, b), r, n, m2)
         /\ Reaches(p, r, n, m) => Reaches(Append(p, b), r, n, m2)
<1> DEFINE s == Append(p, b)
           l == Len(p) + 1
<1>1. /\ l \in Nat /\ l \in DOMAIN s /\ s[l] = b
      /\ \A i \in DOMAIN p : i \in DOMAIN s /\ i < l /\ i <= l /\ s[i] = p[i]
      /\ \A i \in DOMAIN s : i \in Nat /\ i <= l /\ (i \in DOMAIN p \/ i = l)
  BY EndOfQueue
<1>2. \A i \in DOMAIN p : HasToken(p[i], r) => TokenIn(p[i], r) \in Nat
  BY TokenNumber
<1> HIDE DEF s, l
<1>3. HasToken(b, r) => /\ TokenIn(b, r) = m + 1 /\ n < m + 1
                        /\ n = m \/ \E i \in DOMAIN p : HasToken(p[i], r) /\ TokenIn(p[i], r) = m
  BY <1>2 DEF Reaches, Flow, Quiet
<1>4. ASSUME NEW i \in DOMAIN s, HasToken(s[i], r)
      PROVE  n < TokenIn(s[i], r) /\ TokenIn(s[i], r) <= m2
  <2>1. CASE i \in DOMAIN p
    <3>1. n < TokenIn(p[i], r) /\ TokenIn(p[i], r) <= m /\ TokenIn(p[i], r) \in Nat
      BY <1>1, <1>2, <1>4, <2>1 DEF Flow
    <3> QED BY <1>1, <2>1, <3>1
  <2>2. CASE i = l
    BY <1>1, <1>3, <1>4, <2>2
  <2> QED BY <1>1, <2>1, <2>2
<1>5. ASSUME NEW i \in DOMAIN s, NEW j \in DOMAIN s, i < j, HasToken(s[i], r), HasToken(s[j], r)
      PROVE  TokenIn(s[i], r) < TokenIn(s[j], r)
  <2>1. i \in DOMAIN p
    BY <1>1, <1>5
  <2>2. CASE j \in DOMAIN p
    BY <1>1, <1>5, <2>1, <2>2 DEF Flow
  <2>3. CASE j = l
    <3>1. HasToken(p[i], r) /\ TokenIn(p[i], r) <= m /\ TokenIn(p[i], r) \in Nat /\ s[i] = p[i]
      BY <1>1, <1>2, <1>5, <2>1 DEF Flow
    <3>2. TokenIn(s[j], r) = m + 1
      BY <1>1, <1>3, <1>5, <2>3
    <3> QED BY <3>1, <3>2
  <2> QED BY <1>1, <2>2, <2>3
<1>6. ASSUME NEW j \in DOMAIN s, HasToken(s[j], r)
      PROVE  \/ TokenIn(s[j], r) = n + 1
             \/ \E i \in DOMAIN s : i < j /\ HasToken(s[i], r) /\ TokenIn(s[i], r) = TokenIn(s[j], r) - 1
  <2>1. CASE j \in DOMAIN p
    BY <1>1, <1>6, <2>1 DEF Flow
  <2>2. CASE j = l
    BY <1>1, <1>3, <1>6, <2>2
  <2> QED BY <1>1, <2>1, <2>2
<1>7. ASSUME NEW j \in DOMAIN s, EndsIn(s[j], r)
      PROVE  \/ n = m2
             \/ \E i \in DOMAIN s : i <= j /\ HasToken(s[i], r) /\ TokenIn(s[i], r) = m2
  <2>1. CASE j \in DOMAIN p
    <3>1. EndsIn(p[j], r) /\ m2 = m
      BY <1>1, <1>7, <2>1
    <3>2. n = m \/ \E i \in DOMAIN p : i <= j /\ HasToken(p[i], r) /\ TokenIn(p[i], r) = m
      BY <2>1, <3>1 DEF Flow
    <3> QED BY <1>1, <3>1, <3>2
  <2>2. CASE j = l /\ HasToken(b, r)
    <3>1. j <= j /\ HasToken(s[j], r) /\ TokenIn(s[j], r) = m2
      BY <1>1, <1>3, <2>2
    <3> QED BY <3>1
  <2>3. CASE j = l /\ ~HasToken(b, r)
    <3>1. Reaches(p, r, n, m) /\ m2 = m
      BY <1>1, <1>7, <2>3 DEF Quiet
    <3> QED BY <1>1, <2>3, <3>1 DEF Reaches
  <2> QED BY <1>1, <2>1, <2>2, <2>3
<1>8. Reaches(p, r, n, m) => Reaches(s, r, n, m2)
  <2>1. CASE HasToken(b, r)
    BY <1>1, <1>3, <2>1 DEF Reaches
  <2>2. CASE ~HasToken(b, r)
    BY <1>1, <2>2 DEF Reaches
  <2> QED BY <2>1, <2>2
<1>9. Flow(s, r, n, m2)
  BY <1>4, <1>5, <1>6, <1>7 DEF Flow
<1> QED BY <1>8, <1>9 DEF s

\* The handler takes the first item: its token is the next, and its end the last.
LEMMA FlowPops ==
  ASSUME NEW p \in Seq(Items), p # <<>>, NEW r, NEW n \in Nat, NEW m \in Nat, NEW k,
         Flow(p, r, n, m), k = IF HasToken(Head(p), r) THEN n + 1 ELSE n
  PROVE  /\ HasToken(Head(p), r) => TokenIn(Head(p), r) = n + 1
         /\ EndsIn(Head(p), r) => k = m
         /\ Flow(Tail(p), r, k, m)
         /\ Reaches(p, r, n, m) => Reaches(Tail(p), r, k, m)
<1> DEFINE h == Head(p)
           t == Tail(p)
<1>1. /\ 1 \in DOMAIN p /\ h = p[1]
      /\ \A i \in DOMAIN t : i \in Nat /\ i >= 1 /\ i + 1 \in DOMAIN p /\ t[i] = p[i + 1]
      /\ \A i \in DOMAIN p : i \in Nat /\ i >= 1
      /\ \A i \in DOMAIN p : i # 1 => i - 1 \in DOMAIN t /\ t[i - 1] = p[i]
  BY HeadOfQueue
<1>2. \A i \in DOMAIN p : HasToken(p[i], r) => TokenIn(p[i], r) \in Nat
  BY TokenNumber
<1> HIDE DEF h, t
<1>3. HasToken(h, r) => TokenIn(h, r) = n + 1
  BY <1>1 DEF Flow
<1>4. EndsIn(h, r) => k = m
  <2> SUFFICES ASSUME EndsIn(h, r), n # m PROVE k = m
    <3>1. CASE HasToken(h, r) /\ n = m
      BY <1>1, <1>2, <3>1 DEF Flow
    <3> QED BY <3>1 DEF h
  <2>1. PICK i \in DOMAIN p : i <= 1 /\ HasToken(p[i], r) /\ TokenIn(p[i], r) = m
    BY <1>1 DEF Flow
  <2>2. i = 1
    BY <1>1, <2>1
  <2> QED BY <1>1, <1>3, <2>1, <2>2 DEF h
<1>5. \A i \in DOMAIN p : HasToken(p[i], r) /\ i # 1 => k < TokenIn(p[i], r) /\ TokenIn(p[i], r) <= m
  <2> SUFFICES ASSUME NEW i \in DOMAIN p, HasToken(p[i], r), i # 1
               PROVE  k < TokenIn(p[i], r) /\ TokenIn(p[i], r) <= m
    OBVIOUS
  <2>1. n < TokenIn(p[i], r) /\ TokenIn(p[i], r) <= m
    BY DEF Flow
  <2>2. HasToken(h, r) => TokenIn(h, r) < TokenIn(p[i], r)
    BY <1>1 DEF Flow
  <2> QED BY <1>3, <2>1, <2>2 DEF h
<1>6. ASSUME NEW i \in DOMAIN t, HasToken(t[i], r)
      PROVE  k < TokenIn(t[i], r) /\ TokenIn(t[i], r) <= m
  <2>1. i + 1 \in DOMAIN p /\ i + 1 # 1 /\ t[i] = p[i + 1]
    BY <1>1
  <2> QED BY <1>5, <1>6, <2>1
<1>7. ASSUME NEW i \in DOMAIN t, NEW j \in DOMAIN t, i < j, HasToken(t[i], r), HasToken(t[j], r)
      PROVE  TokenIn(t[i], r) < TokenIn(t[j], r)
  <2>1. i + 1 \in DOMAIN p /\ j + 1 \in DOMAIN p /\ t[i] = p[i + 1] /\ t[j] = p[j + 1] /\ i + 1 < j + 1
    BY <1>1, <1>7
  <2> QED BY <1>7, <2>1 DEF Flow
<1>8. ASSUME NEW j \in DOMAIN t, HasToken(t[j], r)
      PROVE  \/ TokenIn(t[j], r) = k + 1
             \/ \E i \in DOMAIN t : i < j /\ HasToken(t[i], r) /\ TokenIn(t[i], r) = TokenIn(t[j], r) - 1
  <2>1. j + 1 \in DOMAIN p /\ t[j] = p[j + 1] /\ j \in Nat /\ j >= 1
    BY <1>1
  <2>2. TokenIn(t[j], r) \in Nat /\ k < TokenIn(t[j], r)
    BY <1>2, <1>6, <1>8, <2>1
  <2>3. CASE TokenIn(p[j + 1], r) = n + 1
    BY <2>1, <2>2, <2>3
  <2>4. ASSUME NEW i \in DOMAIN p, i < j + 1, HasToken(p[i], r), TokenIn(p[i], r) = TokenIn(p[j + 1], r) - 1
        PROVE  \/ TokenIn(t[j], r) = k + 1
               \/ \E x \in DOMAIN t : x < j /\ HasToken(t[x], r) /\ TokenIn(t[x], r) = TokenIn(t[j], r) - 1
    <3>1. CASE i = 1
      <4>1. HasToken(h, r) /\ TokenIn(h, r) = TokenIn(t[j], r) - 1
        BY <1>1, <2>1, <2>4, <3>1
      <4> QED BY <1>3, <2>2, <4>1 DEF h
    <3>2. CASE i # 1
      <4>1. i - 1 \in DOMAIN t /\ t[i - 1] = p[i] /\ i - 1 < j
        BY <1>1, <2>1, <2>4, <3>2
      <4> QED BY <2>1, <2>4, <4>1
    <3> QED BY <3>1, <3>2
  <2> QED BY <1>8, <2>1, <2>3, <2>4 DEF Flow
<1>9. ASSUME NEW i \in DOMAIN p, HasToken(p[i], r), TokenIn(p[i], r) = m
      PROVE  k = m \/ (i # 1 /\ i - 1 \in DOMAIN t /\ HasToken(t[i - 1], r) /\ TokenIn(t[i - 1], r) = m)
  <2>1. CASE i = 1
    BY <1>1, <1>3, <1>9, <2>1 DEF h
  <2>2. CASE i # 1
    BY <1>1, <1>9, <2>2
  <2> QED BY <2>1, <2>2
<1>10. n = m => k = m
  <2>1. CASE HasToken(h, r) /\ n = m
    BY <1>1, <1>2, <2>1 DEF Flow
  <2> QED BY <2>1 DEF h
<1>11. ASSUME NEW j \in DOMAIN t, EndsIn(t[j], r)
       PROVE  \/ k = m
              \/ \E i \in DOMAIN t : i <= j /\ HasToken(t[i], r) /\ TokenIn(t[i], r) = m
  <2>1. j + 1 \in DOMAIN p /\ t[j] = p[j + 1] /\ j \in Nat
    BY <1>1
  <2>2. n = m \/ \E i \in DOMAIN p : i <= j + 1 /\ HasToken(p[i], r) /\ TokenIn(p[i], r) = m
    BY <1>11, <2>1 DEF Flow
  <2>3. \A i \in DOMAIN p : i <= j + 1 => i - 1 <= j
    BY <1>1, <2>1
  <2> QED BY <1>9, <1>10, <2>2, <2>3
<1>12. Reaches(p, r, n, m) => Reaches(t, r, k, m)
  BY <1>9, <1>10 DEF Reaches
<1>13. Flow(t, r, k, m)
  BY <1>6, <1>7, <1>8, <1>11 DEF Flow
<1> QED BY <1>3, <1>4, <1>12, <1>13 DEF h, t

LEMMA ConcatAppend ==
  ASSUME NEW T, NEW p \in Seq(T), NEW q \in Seq(T), NEW m \in T
  PROVE  p \o Append(q, m) = Append(p \o q, m)
<1>1. Append(q, m) = q \o <<m>> /\ Append(p \o q, m) = (p \o q) \o <<m>>
  BY AppendIsConcat, ConcatProperties
<1>2. <<m>> \in Seq(T)
  OBVIOUS
<1> QED BY <1>1, <1>2, ConcatAssociative

\* Frames are read in order.
LEMMA ConcatMoves ==
  ASSUME NEW T, NEW p \in Seq(T), NEW q \in Seq(T), q # <<>>
  PROVE  /\ Append(p, Head(q)) \o Tail(q) = p \o q
         /\ Append(p, Head(q)) \in Seq(T)
<1>1. /\ Head(q) \in T /\ Tail(q) \in Seq(T) /\ q = <<Head(q)>> \o Tail(q)
      /\ <<Head(q)>> \in Seq(T)
  OBVIOUS
<1>2. Append(p, Head(q)) = p \o <<Head(q)>>
  BY <1>1, AppendIsConcat
<1>3. (p \o <<Head(q)>>) \o Tail(q) = p \o (<<Head(q)>> \o Tail(q))
  BY <1>1, ConcatAssociative
<1>4. Append(p, Head(q)) \in Seq(T)
  BY <1>1, EndOfQueue
<1> QED BY <1>1, <1>2, <1>3, <1>4

LEMMA ConcatTail ==
  ASSUME NEW T, NEW p \in Seq(T), NEW q \in Seq(T), p # <<>>
  PROVE  p \o q # <<>> /\ Head(p \o q) = Head(p) /\ Tail(p \o q) = Tail(p) \o q
<1> DEFINE s == p \o q
           t == Tail(p)
<1>1. /\ s \in Seq(T) /\ Len(s) = Len(p) + Len(q)
      /\ \A i \in 1 .. Len(p) + Len(q) : s[i] = IF i <= Len(p) THEN p[i] ELSE q[i - Len(p)]
  BY ConcatProperties
<1>2. /\ Len(p) \in Nat /\ Len(p) >= 1 /\ Len(q) \in Nat /\ Head(p) = p[1]
      /\ t \in Seq(T) /\ Len(t) = Len(p) - 1 /\ \A i \in 1 .. Len(t) : t[i] = p[i + 1]
  OBVIOUS
<1> HIDE DEF t
<1>3. /\ t \o q \in Seq(T) /\ Len(t \o q) = Len(t) + Len(q)
      /\ \A i \in 1 .. Len(t) + Len(q) : (t \o q)[i] = IF i <= Len(t) THEN t[i] ELSE q[i - Len(t)]
  BY <1>2, ConcatProperties
<1> HIDE DEF s
<1>4. /\ s # <<>> /\ Head(s) = s[1] /\ Tail(s) \in Seq(T) /\ Len(Tail(s)) = Len(s) - 1
      /\ \A i \in 1 .. Len(s) - 1 : Tail(s)[i] = s[i + 1]
  <2>1. s \in Seq(T) /\ Len(s) >= 1 /\ Len(s) \in Nat
    BY <1>1, <1>2
  <2>2. s # <<>>
    BY <2>1
  <2> QED BY <2>1, <2>2, HeadOfQueue
<1>5. Head(s) = Head(p)
  BY <1>1, <1>2, <1>4
<1>6. ASSUME NEW i \in 1 .. Len(s) - 1 PROVE Tail(s)[i] = (t \o q)[i]
  <2>1. i \in Nat /\ i >= 1 /\ i <= Len(p) + Len(q) - 1 /\ Tail(s)[i] = s[i + 1]
    BY <1>1, <1>2, <1>4
  <2>2. CASE i <= Len(p) - 1
    BY <1>1, <1>2, <1>3, <2>1, <2>2
  <2>3. CASE ~(i <= Len(p) - 1)
    <3>1. s[i + 1] = q[(i + 1) - Len(p)]
      BY <1>1, <1>2, <2>1, <2>3
    <3>2. (t \o q)[i] = q[i - Len(t)]
      BY <1>2, <1>3, <2>1, <2>3
    <3>3. (i + 1) - Len(p) = i - Len(t)
      BY <1>2, <2>1
    <3> QED BY <2>1, <3>1, <3>2, <3>3
  <2> QED BY <2>2, <2>3
<1>7. Tail(s) = t \o q
  BY <1>1, <1>2, <1>3, <1>4, <1>6, SeqEqual
<1> QED BY <1>4, <1>5, <1>7 DEF s, t

LEMMA PipelineItems ==
  ASSUME AsyncTypes
  PROVE  /\ outputs_queue \in Seq(Items) /\ socket \in Seq(Items) /\ Pipeline \in Seq(Items)
         /\ Prefix(outputs_queue, Pipeline)
         /\ \A i \in DOMAIN Pipeline : \/ \E j \in DOMAIN outputs_queue : Pipeline[i] = outputs_queue[j]
                                       \/ \E j \in DOMAIN socket : Pipeline[i] = socket[j]
<1>1. outputs_queue \in Seq(Items) /\ socket \in Seq(Items)
  BY DEF AsyncTypes, LoopTypes, EngineTypes
<1> DEFINE q == outputs_queue
           p == outputs_queue \o socket
<1>2. /\ p \in Seq(Items) /\ Len(p) = Len(q) + Len(socket)
      /\ \A i \in 1 .. Len(q) + Len(socket) : p[i] = IF i <= Len(q) THEN q[i] ELSE socket[i - Len(q)]
  BY <1>1, ConcatProperties
<1>3. /\ Len(q) \in Nat /\ Len(socket) \in Nat /\ DOMAIN q = 1 .. Len(q)
      /\ DOMAIN socket = 1 .. Len(socket) /\ DOMAIN p = 1 .. Len(p)
  BY <1>1, <1>2
<1> HIDE DEF p, q
<1>4. Prefix(q, p) /\ Prefix(q, q)
  BY <1>2, <1>3 DEF Prefix
<1>5. ASSUME NEW i \in DOMAIN p
      PROVE  (\E j \in DOMAIN q : p[i] = q[j]) \/ \E j \in DOMAIN socket : p[i] = socket[j]
  <2>1. CASE i <= Len(q)
    BY <1>2, <1>3, <1>5, <2>1
  <2>2. CASE ~(i <= Len(q))
    <3>1. i - Len(q) \in DOMAIN socket /\ p[i] = socket[i - Len(q)]
      BY <1>2, <1>3, <1>5, <2>2
    <3> QED BY <3>1
  <2> QED BY <2>1, <2>2
<1>6. Pipeline = p \/ Pipeline = q
  BY DEF Pipeline, p, q
<1> QED BY <1>1, <1>2, <1>4, <1>5, <1>6 DEF q

\* The reader gets what the engine sends.
Live == reader \in {"none", "reading"} /\ engine # "gone"

LEMMA LiveBefore ==
  ASSUME AsyncInv, [Next]_vars
  PROVE  Live' => Live
<1> DEFINE Back == reader' \in {"none", "reading"} => reader \in {"none", "reading"}
<1>1. engine' # "gone" => engine # "gone"
  BY Persists
<1>2. ASSUME NEW ext, NEW held \in [Requests -> CollectorOutputs], AbortMove(ext, held)
      PROVE  Back
  BY <1>2 DEF AbortMove, AbortFrame, loopVars
<1>3. ASSUME \/ \E r \in Requests : TakeOutput(r) \/ TakeDeadError(r) \/ Resume(r)
             \/ \E batch, M : BatchMove(batch, M)
             \/ \E e \in Errors : RaiseMove(e)
             \/ HandlerWaits \/ ShutdownBegins
             \/ (EngineMove /\ EngineFrame) \/ UNCHANGED vars
      PROVE  Back
  BY <1>3 DEF TakeOutput, TakeDeadError, Resume, BatchMove, RaiseMove, HandlerWaits,
     ShutdownBegins, EngineFrame, vars, loopVars
<1>4. ASSUME \/ \E r \in Requests : Generate(r)
             \/ ReaderReads \/ ReaderFails \/ ReaderCancelled \/ Monitor
             \/ ShutdownReader \/ ShutdownProcess
      PROVE  Back
  BY <1>4 DEF Generate, StartReader, loopVars, ReaderReads, ReaderFails, ReaderCancelled, Monitor,
     ShutdownReader, ShutdownProcess, ReleaseResources, CancelReader
<1> HIDE DEF Back
<1>5. Back
  BY <1>2, <1>3, <1>4, EveryMove
<1> QED BY <1>1, <1>5 DEF Live, Back

\* What has come of a registered request, and what is to come.
Flows(r) ==
  LET n == Len(requests[r].token_ids) IN
  /\ requests[r].token_ids = Numbers(n)
  /\ Flow(Pipeline, r, n, produced[r])
  /\ Live => Reaches(Pipeline, r, n, produced[r])

LEMMA FlowsNow ==
  ASSUME AsyncInv, NEW r \in Registered
  PROVE  /\ Flows(r) /\ r \in Requests /\ requests[r].token_ids \in Seq(Nat)
         /\ Len(requests[r].token_ids) \in Nat /\ produced[r] \in Nat
         /\ Pipeline \in Seq(Items)
<1>1. Flows(r)
  BY DEF AsyncInv, Flowing, Flows, Live
<1>2. r \in Requests /\ requests[r] \in RequestStates /\ produced[r] \in Nat
  BY DEF AsyncInv, AsyncTypes, ProcessorTypes, EngineTypes
<1>3. requests[r].token_ids \in Seq(Nat)
  BY <1>2 DEF RequestStates
<1> QED BY <1>1, <1>2, <1>3, PipelineItems DEF AsyncInv

\* What is known of r stays, and so does what comes, or what comes later is lost.
LEMMA FlowsOn ==
  ASSUME AsyncInv, [Next]_vars, NEW r \in Registered,
         requests'[r] = requests[r], produced'[r] = produced[r],
         \/ Pipeline' = Pipeline
         \/ Prefix(Pipeline', Pipeline) /\ ~Live'
  PROVE  Flows(r)'
<1>1. /\ requests[r].token_ids = Numbers(Len(requests[r].token_ids))
      /\ Flow(Pipeline, r, Len(requests[r].token_ids), produced[r])
      /\ Live => Reaches(Pipeline, r, Len(requests[r].token_ids), produced[r])
      /\ Pipeline \in Seq(Items)
  BY FlowsNow DEF Flows
<1>2. Flow(Pipeline', r, Len(requests[r].token_ids), produced[r])
  BY <1>1, FlowPrefix
<1>3. Live' => Reaches(Pipeline', r, Len(requests[r].token_ids), produced[r])
  BY <1>1, LiveBefore
<1> QED BY <1>1, <1>2, <1>3 DEF Flows

\* An error comes: what is behind it is lost.
LEMMA FlowsBroken ==
  ASSUME AsyncInv, NEW r \in Registered, NEW s \in Seq(Items), NEW e \in Errors,
         requests'[r] = requests[r], produced'[r] = produced[r],
         Prefix(s, Pipeline), Pipeline' = Append(s, ErrorItem(e)), ~Live'
  PROVE  Flows(r)'
<1> DEFINE n == Len(requests[r].token_ids)
           b == ErrorItem(e)
<1>1. /\ requests[r].token_ids = Numbers(n) /\ n \in Nat /\ produced[r] \in Nat
      /\ Flow(Pipeline, r, n, produced[r]) /\ Pipeline \in Seq(Items)
  BY FlowsNow DEF Flows
<1>2. b \in Items /\ ~HasToken(b, r) /\ ~EndsIn(b, r)
  BY ErrorItemTyped DEF HasToken, EndsIn
<1> HIDE DEF n, b
<1>3. Flow(s, r, n, produced[r])
  BY <1>1, FlowPrefix
<1>4. Flow(Append(s, b), r, n, produced[r])
  BY <1>1, <1>2, <1>3, FlowAppends DEF Quiet
<1> QED BY <1>1, <1>4 DEF Flows, n, b

LEMMA PrefixMoves ==
  ASSUME NEW p \in Seq(Items), NEW q \in Seq(Items), q # <<>>
  PROVE  Prefix(Append(p, Head(q)), p \o q)
<1> DEFINE s == Append(p, Head(q))
           t == Tail(q)
<1>1. s \in Seq(Items) /\ s \o t = p \o q /\ t \in Seq(Items)
  BY ConcatMoves, HeadOfQueue
<1> HIDE DEF s, t
<1>2. /\ s \o t \in Seq(Items) /\ Len(s \o t) = Len(s) + Len(t)
      /\ \A i \in 1 .. Len(s) + Len(t) : (s \o t)[i] = IF i <= Len(s) THEN s[i] ELSE t[i - Len(s)]
  BY <1>1, ConcatProperties
<1>3. Prefix(s, s \o t)
  BY <1>1, <1>2 DEF Prefix
<1> QED BY <1>1, <1>3 DEF s

\* The reader takes a frame, or ends; others end it.
LEMMA FlowsByReader ==
  ASSUME AsyncInv, [Next]_vars,
         \/ ReaderReads \/ ReaderFails \/ ReaderCancelled \/ Monitor
         \/ ShutdownReader \/ ShutdownProcess,
         NEW r \in Registered'
  PROVE  Flows(r)'
<1>0. /\ outputs_queue \in Seq(Items) /\ socket \in Seq(Items) /\ Pipeline \in Seq(Items)
      /\ Prefix(outputs_queue, Pipeline)
      /\ reader \in {"none", "reading", "cancelling", "done", "failed"}
  BY PipelineItems DEF AsyncInv, AsyncTypes, LoopTypes
<1>1. requests' = requests /\ produced' = produced
  BY DEF ReaderReads, ReaderFails, ReaderCancelled, Monitor, ShutdownReader, ShutdownProcess,
     processorVars, engineVars
<1>2. r \in Registered
  BY <1>1 DEF Registered
<1>3. "Error" \in Errors /\ "EngineDeadError" \in Errors
  BY DEF Errors
<1>4. Pipeline' = IF reader' \in {"none", "reading"} THEN outputs_queue' \o socket' ELSE outputs_queue'
  BY DEF Pipeline
<1>5. CASE ReaderReads
  <2>1. /\ Append(outputs_queue, Head(socket)) \o Tail(socket) = outputs_queue \o socket
        /\ Prefix(Append(outputs_queue, Head(socket)), outputs_queue \o socket)
    BY <1>0, <1>5, ConcatMoves, PrefixMoves DEF ReaderReads
  <2>2. /\ Pipeline = outputs_queue \o socket
        /\ outputs_queue' = Append(outputs_queue, Head(socket)) /\ socket' = Tail(socket)
        /\ reader' = "reading" \/ reader' = "done"
    BY <1>5 DEF ReaderReads, Pipeline
  <2>3. CASE reader' = "reading"
    <3>1. Pipeline' = Pipeline
      BY <1>4, <2>1, <2>2, <2>3
    <3> QED BY <1>1, <1>2, <3>1, FlowsOn
  <2>4. CASE reader' = "done"
    <3>1. Prefix(Pipeline', Pipeline) /\ ~Live'
      BY <1>4, <2>1, <2>2, <2>4 DEF Live
    <3> QED BY <1>1, <1>2, <3>1, FlowsOn
  <2> QED BY <2>2, <2>3, <2>4
<1>6. CASE ReaderFails
  <2>1. outputs_queue' = Append(outputs_queue, ErrorItem("Error")) /\ reader' = "failed"
    BY <1>6 DEF ReaderFails
  <2>2. Pipeline' = Append(outputs_queue, ErrorItem("Error")) /\ ~Live'
    BY <1>4, <2>1 DEF Live
  <2> QED BY <1>0, <1>1, <1>2, <1>3, <2>2, FlowsBroken
<1>7. CASE ReaderCancelled
  <2>1. outputs_queue' = Append(outputs_queue, ErrorItem("EngineDeadError")) /\ reader' = "done"
    BY <1>7 DEF ReaderCancelled
  <2>2. Pipeline' = Append(outputs_queue, ErrorItem("EngineDeadError")) /\ ~Live'
    BY <1>4, <2>1 DEF Live
  <2> QED BY <1>0, <1>1, <1>2, <1>3, <2>2, FlowsBroken
<1>8. ASSUME outputs_queue' = outputs_queue,
             \/ UNCHANGED <<reader, socket>>
             \/ socket' = socket /\ CancelReader
             \/ ReleaseResources /\ engine' = "gone"
      PROVE  Flows(r)'
  <2>1. CASE UNCHANGED <<reader, socket>>
    <3>1. Pipeline' = Pipeline
      BY <1>8, <2>1 DEF Pipeline
    <3> QED BY <1>1, <1>2, <3>1, FlowsOn
  <2>2. CASE socket' = socket /\ CancelReader
    <3>1. CASE reader = "reading"
      <4>1. Pipeline' = outputs_queue /\ ~Live'
        BY <1>4, <1>8, <2>2, <3>1 DEF CancelReader, Live
      <4> QED BY <1>0, <1>1, <1>2, <4>1, FlowsOn
    <3>2. CASE reader # "reading"
      <4>1. Pipeline' = Pipeline
        BY <1>8, <2>2, <3>2 DEF CancelReader, Pipeline
      <4> QED BY <1>1, <1>2, <4>1, FlowsOn
    <3> QED BY <3>1, <3>2
  <2>3. CASE ReleaseResources /\ engine' = "gone"
    <3>1. socket' = <<>> /\ ~Live'
      BY <2>3 DEF ReleaseResources, Live
    <3>2. outputs_queue' \o socket' = outputs_queue
      BY <1>0, <1>8, <3>1, ConcatEmptySeq
    <3>3. Pipeline' = outputs_queue
      BY <1>4, <1>8, <3>2
    <3> QED BY <1>0, <1>1, <1>2, <3>1, <3>3, FlowsOn
  <2> QED BY <1>8, <2>1, <2>2, <2>3
<1>9. CASE Monitor
  <2>1. outputs_queue' = outputs_queue /\ engine' = "gone"
        /\ (UNCHANGED <<reader, socket>> \/ ReleaseResources)
    BY <1>9 DEF Monitor
  <2> QED BY <1>8, <2>1
<1>10. CASE ShutdownReader
  BY <1>8, <1>10 DEF ShutdownReader, engineVars
<1>11. CASE ShutdownProcess
  <2>1. outputs_queue' = outputs_queue
        /\ (UNCHANGED <<reader, socket>> \/ (ReleaseResources /\ engine' = "gone"))
    BY <1>11 DEF ShutdownProcess, ProcessGone
  <2> QED BY <1>8, <2>1
<1> QED BY <1>5, <1>6, <1>7, <1>9, <1>10, <1>11

\* No end of a request that runs is on its way.
LEMMA NoEndYet ==
  ASSUME AsyncInv, NEW r \in running
  PROVE  \A i \in DOMAIN Pipeline : ~EndsIn(Pipeline[i], r)
<1>1. ended[r] = None /\ None # "length"
  BY OutputAssumption DEF AsyncInv, Endings
<1>2. \A i \in DOMAIN outputs_queue : ~EndsIn(outputs_queue[i], r)
  BY <1>1 DEF AsyncInv, Endings, EndsIn
<1>3. \A i \in DOMAIN socket : ~EndsIn(socket[i], r)
  BY <1>1 DEF AsyncInv, Endings, EndsIn
<1> QED BY <1>2, <1>3, PipelineItems DEF AsyncInv

LEMMA FlowsByEngine ==
  ASSUME AsyncInv, [Next]_vars, EngineMove, EngineFrame, NEW r \in Registered'
  PROVE  Flows(r)'
<1>1. /\ requests' = requests /\ outputs_queue' = outputs_queue /\ reader' = reader
  BY DEF EngineFrame, processorVars, loopVars
<1>2. r \in Registered /\ requests'[r] = requests[r]
  BY <1>1 DEF Registered
<1>3. CASE UNCHANGED <<socket, produced>>
  <2>1. Pipeline' = Pipeline /\ produced'[r] = produced[r]
    BY <1>1, <1>3 DEF Pipeline
  <2> QED BY <1>2, <2>1, FlowsOn
<1> DEFINE n == Len(requests[r].token_ids)
           m == produced[r]
           m2 == produced'[r]
<1>4. /\ requests[r].token_ids = Numbers(n) /\ n \in Nat /\ m \in Nat
      /\ Flow(Pipeline, r, n, m) /\ Pipeline \in Seq(Items) /\ r \in Requests
      /\ Live => Reaches(Pipeline, r, n, m)
  BY <1>2, FlowsNow DEF Flows
<1>5. Live' => Live
  BY LiveBefore
<1>6. ASSUME Flow(Pipeline', r, n, m2), Live => Reaches(Pipeline', r, n, m2)
      PROVE  Flows(r)'
  BY <1>2, <1>4, <1>5, <1>6 DEF Flows
<1> HIDE DEF n, m, m2
<1>7. ASSUME NEW b \in Items, socket' = Append(socket, b), m2 \in Nat,
             m2 = IF HasToken(b, r) THEN m + 1 ELSE m,
             HasToken(b, r) => TokenIn(b, r) = m + 1 /\ \A i \in DOMAIN Pipeline : ~EndsIn(Pipeline[i], r)
      PROVE  Flows(r)'
  <2>1. CASE reader \in {"none", "reading"} /\ engine # "gone"
    <3>1. Pipeline' = Append(Pipeline, b)
      <4>1. outputs_queue \o Append(socket, b) = Append(outputs_queue \o socket, b)
        BY <1>7, PipelineItems, ConcatAppend DEF AsyncInv
      <4> QED BY <1>1, <1>7, <2>1, <4>1 DEF Pipeline
    <3>2. Reaches(Pipeline, r, n, m)
      BY <1>4, <2>1 DEF Live
    <3>3. Flow(Append(Pipeline, b), r, n, m2) /\ Reaches(Append(Pipeline, b), r, n, m2)
      BY <1>4, <1>7, <3>2, FlowAppends
    <3> QED BY <1>6, <3>1, <3>3
  <2>2. CASE reader \notin {"none", "reading"}
    <3>1. Pipeline' = Pipeline /\ ~Live
      BY <1>1, <2>2 DEF Pipeline, Live
    <3>2. Flow(Pipeline, r, n, m2)
      BY <1>4, <1>7, FlowGrows
    <3> QED BY <1>6, <3>1, <3>2
  <2>3. engine # "gone" \/ UNCHANGED <<socket, produced>>
    BY DEF EngineMove, AddHeard, AbortHeard, Stepped, Stopped, Failed, Gone
  <2> QED BY <1>3, <2>1, <2>2, <2>3
<1>8. ASSUME NEW S, NEW f, Answers(S, f) PROVE Flows(r)'
  <2>1. /\ Batch(f) \in Items /\ Batch(f).outputs = f /\ DOMAIN f = S
        /\ socket' = Append(socket, Batch(f)) /\ S \subseteq running
        /\ f \in [S -> EngineOutputs]
    BY <1>8, AnswersTyped DEF Answers
  <2>2. HasToken(Batch(f), r) <=> r \in S /\ f[r].tokens # <<>>
    BY <2>1 DEF HasToken
  <2>3. m2 = IF HasToken(Batch(f), r) THEN m + 1 ELSE m
    BY <1>4, <1>8, <2>2 DEF Answers, m, m2
  <2>4. HasToken(Batch(f), r) => TokenIn(Batch(f), r) = m + 1
    BY <1>8, <2>1, <2>2 DEF Answers, TokenIn, m
  <2>5. HasToken(Batch(f), r) => \A i \in DOMAIN Pipeline : ~EndsIn(Pipeline[i], r)
    BY <2>1, <2>2, NoEndYet
  <2>6. m2 \in Nat
    BY <1>4, <2>3
  <2> QED BY <1>7, <2>1, <2>3, <2>4, <2>5, <2>6
<1>9. CASE Failed
  <2>1. "EngineDeadError" \in Errors
    BY DEF Errors
  <2>2. /\ ErrorItem("EngineDeadError") \in Items /\ ~HasToken(ErrorItem("EngineDeadError"), r)
    BY <2>1, ErrorItemTyped DEF HasToken
  <2>3. socket' = Append(socket, ErrorItem("EngineDeadError")) /\ m2 = m
    BY <1>9 DEF Failed, m, m2
  <2> QED BY <1>4, <1>7, <2>2, <2>3
<1>10. CASE AddHeard \/ Gone
  BY <1>3, <1>10 DEF AddHeard, Gone
<1>11. Silence => Flows(r)'
  BY <1>3 DEF Silence
<1>12. ASSUME NEW S, NEW f, AbortHeard(S, f) \/ Stepped(S, f) \/ Stopped(S, f)
       PROVE  Silence \/ Answers(S, f)
  BY <1>12 DEF AbortHeard, Stepped, Stopped
<1> QED BY <1>8, <1>9, <1>10, <1>11, <1>12 DEF EngineMove

\* A batch is processed: its token, if any, is the next, and its end comes with the last.
LEMMA BatchFlows ==
  ASSUME AsyncInv, NEW batch, NEW M, BatchMove(batch, M), NEW r \in Registered
  PROVE  /\ Pipeline # <<>> /\ Pipeline' = Tail(Pipeline)
         /\ Len(Processed(batch, M)[r].token_ids) \in Nat
         /\ Processed(batch, M)[r].token_ids = Numbers(Len(Processed(batch, M)[r].token_ids))
         /\ Flow(Tail(Pipeline), r, Len(Processed(batch, M)[r].token_ids), produced[r])
         /\ Live => Reaches(Tail(Pipeline), r, Len(Processed(batch, M)[r].token_ids), produced[r])
         /\ r \in DOMAIN batch /\ batch[r].reason = "length" =>
              Len(Processed(batch, M)[r].token_ids) = produced[r]
<1> DEFINE n == Len(requests[r].token_ids)
           m == produced[r]
           done == Processed(batch, M)[r].token_ids
           h == Head(Pipeline)
           k == IF HasToken(h, r) THEN n + 1 ELSE n
<1>1. /\ requests[r].token_ids = Numbers(n) /\ n \in Nat /\ m \in Nat
      /\ Flow(Pipeline, r, n, m) /\ Pipeline \in Seq(Items) /\ r \in Requests
      /\ Live => Reaches(Pipeline, r, n, m)
  BY FlowsNow DEF Flows
<1>2. /\ outputs_queue \in Seq(Items) /\ socket \in Seq(Items) /\ outputs_queue # <<>>
      /\ batch = Head(outputs_queue).outputs /\ outputs_queue' = Tail(outputs_queue)
      /\ socket' = socket /\ reader' = reader
  BY PipelineItems DEF BatchMove, AsyncInv
<1>3. Pipeline # <<>> /\ h = Head(outputs_queue) /\ Pipeline' = Tail(Pipeline)
  <2>1. /\ outputs_queue \o socket # <<>> /\ Head(outputs_queue \o socket) = Head(outputs_queue)
        /\ Tail(outputs_queue \o socket) = Tail(outputs_queue) \o socket
    BY <1>2, ConcatTail
  <2>2. CASE reader \in {"none", "reading"}
    BY <1>2, <2>1, <2>2 DEF Pipeline
  <2>3. CASE reader \notin {"none", "reading"}
    BY <1>2, <2>3 DEF Pipeline
  <2> QED BY <2>2, <2>3
<1> HIDE DEF h
<1>4. /\ HasToken(h, r) <=> r \in DOMAIN batch /\ batch[r].tokens # <<>>
      /\ HasToken(h, r) => TokenIn(h, r) = batch[r].tokens[1]
      /\ EndsIn(h, r) <=> r \in DOMAIN batch /\ batch[r].reason = "length"
  BY <1>2, <1>3 DEF HasToken, TokenIn, EndsIn
<1>5. /\ HasToken(h, r) => TokenIn(h, r) = n + 1
      /\ EndsIn(h, r) => k = m
      /\ Flow(Tail(Pipeline), r, k, m)
      /\ Reaches(Pipeline, r, n, m) => Reaches(Tail(Pipeline), r, k, m)
  BY <1>1, <1>3, FlowPops DEF h
<1>6. BatchMakes(batch, M)
  BY BatchMade
<1>7. done = IF r \in DOMAIN batch THEN requests[r].token_ids \o batch[r].tokens
             ELSE requests[r].token_ids
  <2>1. CASE r \in Known(batch)
    BY <1>6, <2>1 DEF BatchMakes, Known
  <2>2. CASE r \notin Known(batch)
    BY <1>6, <2>2 DEF BatchMakes, Known
  <2> QED BY <2>1, <2>2
<1>8. r \in DOMAIN batch => batch[r].tokens \in Seq(Nat) /\ Len(batch[r].tokens) <= 1
  BY BatchMoves DEF EngineOutputs
<1> HIDE DEF n, m, done
<1>9. done = Numbers(k)
  <2>1. CASE HasToken(h, r)
    <3>1. r \in DOMAIN batch /\ batch[r].tokens # <<>> /\ batch[r].tokens[1] = n + 1
      BY <1>4, <1>5, <2>1
    <3>2. batch[r].tokens = <<n + 1>>
      BY <1>8, <3>1, OneToken
    <3> QED BY <1>1, <1>7, <2>1, <3>1, <3>2, NextNumber
  <2>2. CASE ~HasToken(h, r)
    <3>1. r \in DOMAIN batch => batch[r].tokens = <<>>
      BY <1>4, <2>2
    <3>2. Numbers(n) \o <<>> = Numbers(n)
      BY <1>1, NumbersSeq, ConcatEmptySeq
    <3> QED BY <1>1, <1>7, <2>2, <3>1, <3>2
  <2> QED BY <2>1, <2>2
<1>10. k \in Nat
  BY <1>1
<1>11. Len(done) = k
  BY <1>9, <1>10, NumbersSeq
<1> HIDE DEF k
<1> QED BY <1>1, <1>3, <1>4, <1>5, <1>9, <1>10, <1>11 DEF done, m

LEMMA FlowsByBatch ==
  ASSUME AsyncInv, [Next]_vars, NEW batch, NEW M, BatchMove(batch, M), NEW r \in Registered'
  PROVE  Flows(r)'
<1>1. produced' = produced
  BY DEF BatchMove
<1>2. BatchEnds(batch, M) \/ BatchGoes(batch, M)
  BY BatchMoves
<1>3. r \in Registered /\ requests'[r] = Processed(batch, M)[r]
  BY <1>2 DEF BatchEnds, BatchGoes
<1>4. Live' => Live
  BY LiveBefore
<1>5. /\ Pipeline' = Tail(Pipeline)
      /\ requests'[r].token_ids = Numbers(Len(requests'[r].token_ids))
      /\ Flow(Pipeline', r, Len(requests'[r].token_ids), produced'[r])
      /\ Live => Reaches(Pipeline', r, Len(requests'[r].token_ids), produced'[r])
  BY <1>1, <1>3, BatchFlows
<1> QED BY <1>4, <1>5 DEF Flows

\* A request that comes: nothing of it is on its way.
LEMMA FlowsAtFirst ==
  ASSUME AsyncInv, NEW r \in Requests, Generate(r), r \in Registered'
  PROVE  Flows(r)'
<1>1. Unseen(r) /\ requests'[r] = NewState
  BY GenerateReader
<1>2. produced'[r] = 0
  BY <1>1 DEF Generate, Unseen
<1>3. \A i \in DOMAIN Pipeline : r \notin DOMAIN Pipeline[i].outputs
  BY <1>1, PipelineItems DEF Unseen, AsyncInv
<1>4. Pipeline' = Pipeline
  BY DEF Generate, StartReader, loopVars, Pipeline
<1>5. Flow(Pipeline', r, 0, 0) /\ Reaches(Pipeline', r, 0, 0)
  BY <1>3, <1>4 DEF Flow, Reaches, HasToken, EndsIn
<1>6. requests'[r].token_ids = <<>> /\ Len(<<>>) = 0 /\ Numbers(0) = <<>>
  BY <1>1 DEF NewState, Numbers
<1> QED BY <1>2, <1>5, <1>6 DEF Flows

LEMMA FlowingStep == AsyncInv /\ [Next]_vars => Flowing'
<1> SUFFICES ASSUME AsyncInv, [Next]_vars, NEW r \in Registered'
             PROVE  Flows(r)'
  BY DEF Flowing, Flows, Live
<1>1. ASSUME NEW q \in Requests, Generate(q) PROVE Flows(r)'
  <2>1. CASE r = q
    BY <1>1, <2>1, FlowsAtFirst
  <2>2. CASE r # q
    <3>1. r \in Registered /\ requests'[r] = requests[r]
      BY <1>1, <2>2, GenerateReader
    <3>2. produced' = produced /\ Pipeline' = Pipeline
      BY <1>1 DEF Generate, StartReader, loopVars, Pipeline
    <3> QED BY <3>1, <3>2, FlowsOn
  <2> QED BY <2>1, <2>2
<1>2. ASSUME NEW ext, NEW held \in [Requests -> CollectorOutputs], AbortMove(ext, held)
      PROVE  Flows(r)'
  <2>1. r \in Registered /\ requests'[r] = requests[r]
    BY <1>2, AbortMoves
  <2>2. produced' = produced /\ Pipeline' = Pipeline
    BY <1>2 DEF AbortMove, AbortFrame, loopVars, Pipeline
  <2> QED BY <2>1, <2>2, FlowsOn
<1>3. ASSUME NEW e \in Errors, RaiseMove(e) PROVE Flows(r)'
  <2>0. reader \in {"done", "failed"} /\ UNCHANGED <<requests, reader, produced>>
    BY <1>3 DEF RaiseMove, engineVars
  <2>1. r \in Registered /\ requests'[r] = requests[r]
    BY <2>0 DEF Registered
  <2>2. Pipeline = outputs_queue /\ Pipeline' = outputs_queue'
    BY <2>0 DEF Pipeline
  <2>3. CASE outputs_queue' = outputs_queue
    BY <2>0, <2>1, <2>2, <2>3, FlowsOn
  <2>4. CASE /\ outputs_queue # <<>> /\ Head(outputs_queue).kind = "error"
             /\ outputs_queue' = Tail(outputs_queue)
    <3>1. Head(Pipeline) \in Items /\ Pipeline # <<>> /\ Pipeline' = Tail(Pipeline)
      BY <2>2, <2>4, PipelineItems, HeadOfQueue DEF AsyncInv
    <3>2. ~HasToken(Head(Pipeline), r)
      BY <2>2, <2>4, <3>1, ItemKinds DEF HasToken
    <3>3. ~Live'
      BY <2>0 DEF Live
    <3>4. Flow(Pipeline', r, Len(requests[r].token_ids), produced[r])
      BY <2>1, <3>1, <3>2, FlowPops, FlowsNow DEF Flows
    <3> QED BY <2>0, <2>1, <3>3, <3>4, FlowsNow DEF Flows
  <2> QED BY <1>3, <2>3, <2>4 DEF RaiseMove
<1>4. ASSUME \/ \E q \in Requests : TakeOutput(q) \/ TakeDeadError(q) \/ Resume(q)
             \/ HandlerWaits \/ ShutdownBegins \/ UNCHANGED vars
      PROVE  Flows(r)'
  <2>1. UNCHANGED <<requests, produced, outputs_queue, socket, reader>>
    BY <1>4 DEF TakeOutput, TakeDeadError, Taken, Resume, HandlerWaits, ShutdownBegins, vars,
       loopVars, engineVars, processorVars
  <2>2. Pipeline' = Pipeline /\ r \in Registered /\ requests'[r] = requests[r] /\ produced'[r] = produced[r]
    BY <2>1 DEF Pipeline, Registered
  <2> QED BY <2>2, FlowsOn
<1> QED BY <1>1, <1>2, <1>3, <1>4, EveryMove, FlowsByReader, FlowsByBatch, FlowsByEngine

-----------------------------------------------------------------------------
(***************************************************************************)
(* What callers have                                                       *)
(***************************************************************************)
\* What the caller of r has when it has taken held.
GotFrom(r, held) ==
  IF held.kind # "output" THEN delivered[r]
  ELSE IF output_kind[r] = "DELTA" THEN delivered[r] \o held.tokens
  ELSE held.tokens

LEMMA Regrouped ==
  ASSUME NEW p \in Seq(Nat), NEW q \in Seq(Nat), NEW s \in Seq(Nat)
  PROVE  (p \o q) \o s = p \o (q \o s)
<1> DEFINE T == Nat
<1>1. p \in Seq(T) /\ q \in Seq(T) /\ s \in Seq(T)
  OBVIOUS
<1> HIDE DEF T
<1> QED BY <1>1, ConcatAssociative

LEMMA GotTyped ==
  ASSUME AsyncTypes, NEW r \in Requests, NEW held \in CollectorOutputs
  PROVE  /\ delivered[r] \in Seq(Nat) /\ held.tokens \in Seq(Nat)
         /\ delivered[r] \o held.tokens \in Seq(Nat)
         /\ GotFrom(r, held) \in Seq(Nat)
         /\ output[r] \in CollectorOutputs /\ Received(r) = GotFrom(r, output[r])
<1>1. delivered[r] \in Seq(Nat) /\ held.tokens \in Seq(Nat)
  BY DEF AsyncTypes, TaskTypes, CollectorOutputs
<1>2. delivered[r] \o held.tokens \in Seq(Nat)
  BY <1>1, ConcatProperties
<1>3. output[r] \in CollectorOutputs
  BY DEF AsyncTypes, ProcessorTypes
<1> QED BY <1>1, <1>2, <1>3 DEF GotFrom, Received

Streaming(r) ==
  Reading(r) =>
    /\ delivered[r] = Numbers(Len(delivered[r]))
    /\ Received(r) = Numbers(Len(Received(r)))
    /\ r \in Registered /\ output_kind[r] # "FINAL_ONLY" /\ output[r].kind # "error" =>
         Received(r) = requests[r].token_ids /\ requests[r].sent = Len(requests[r].token_ids)

LEMMA StreamsOn ==
  ASSUME AsyncInv, [Next]_vars, NEW r \in Requests, Reading(r)' => Reading(r),
         delivered'[r] = delivered[r], output'[r] = output[r],
         r \in Registered' => r \in Registered /\ requests'[r] = requests[r]
  PROVE  Streaming(r)'
<1>1. Streaming(r)
  BY DEF AsyncInv, Streams, Streaming
<1>2. output_kind' = output_kind
  BY Persists DEF output_kind
<1>3. Received(r)' = Received(r)
  BY <1>2 DEF Received
<1> QED BY <1>1, <1>2, <1>3 DEF Streaming

\* Whose collector gets an error has what it had taken.
LEMMA StreamsBroken ==
  ASSUME AsyncInv, NEW r \in Requests, Reading(r)' => Reading(r),
         delivered'[r] = delivered[r], output'[r].kind = "error"
  PROVE  Streaming(r)'
<1>1. Streaming(r)
  BY DEF AsyncInv, Streams, Streaming
<1>2. Received(r)' = delivered[r]
  BY DEF Received
<1> QED BY <1>1, <1>2 DEF Streaming

\* The outputs of a batch give a caller what the request has by then.
LEMMA BatchReceives ==
  ASSUME AsyncInv, NEW batch, NEW M, BatchMove(batch, M), NEW r \in Known(batch), Reading(r),
         output_kind[r] # "FINAL_ONLY" \/ r \in Finished(batch, M)
  PROVE  /\ AllPut(OutputsFor(batch, M))[r].kind = "output"
         /\ GotFrom(r, AllPut(OutputsFor(batch, M))[r]) = Processed(batch, M)[r].token_ids
<1> DEFINE put == AllPut(OutputsFor(batch, M))[r]
           done == Processed(batch, M)[r].token_ids
           had == requests[r].token_ids
           new == batch[r].tokens
<1>1. r \in Registered /\ r \in Requests /\ r \in DOMAIN batch /\ had \in Seq(Nat)
  BY FlowsNow DEF Known
<1>2. new \in Seq(Nat) /\ ~errored
  <2>1. ~errored /\ batch[r] \in EngineOutputs
    BY <1>1, BatchMoves
  <2> QED BY <2>1 DEF EngineOutputs
<1>3. output[r].kind # "error" /\ output[r] \in CollectorOutputs
  BY <1>1, <1>2 DEF AsyncInv, Falls, AsyncTypes, ProcessorTypes
<1>4. BatchMakes(batch, M)
  BY BatchMade
<1>5. /\ put.kind = "output" /\ done = had \o new
      /\ put.tokens = IF output_kind[r] # "DELTA" THEN done
                      ELSE LET add == SubSeq(done, requests[r].sent + 1, Len(done))
                           IN IF output[r].kind = "output" THEN output[r].tokens \o add ELSE add
  BY <1>4 DEF BatchMakes
<1>6. output_kind[r] # "FINAL_ONLY" => Received(r) = had /\ requests[r].sent = Len(had)
  BY <1>1, <1>3 DEF AsyncInv, Streams
<1> HIDE DEF put, done, had, new
<1>7. CASE output_kind[r] # "DELTA"
  BY <1>5, <1>7 DEF GotFrom, put, done
<1>8. CASE output_kind[r] = "DELTA"
  <2>1. Received(r) = had /\ requests[r].sent = Len(had)
    BY <1>6, <1>8
  <2>2. SubSeq(done, requests[r].sent + 1, Len(done)) = new
    BY <1>1, <1>2, <1>5, <2>1, SentAndRest
  <2>3. GotFrom(r, put) = delivered[r] \o put.tokens
    BY <1>5, <1>8 DEF GotFrom
  <2>4. delivered[r] \in Seq(Nat) /\ output[r].tokens \in Seq(Nat)
    BY <1>1, <1>3, GotTyped DEF AsyncInv
  <2>5. CASE output[r].kind = "output"
    <3>1. put.tokens = output[r].tokens \o new
      BY <1>5, <1>8, <2>2, <2>5
    <3>2. (delivered[r] \o output[r].tokens) \o new = delivered[r] \o (output[r].tokens \o new)
      BY <1>2, <2>4, Regrouped
    <3>3. Received(r) = delivered[r] \o output[r].tokens
      BY <1>8, <2>5 DEF Received
    <3> QED BY <1>5, <2>1, <2>3, <3>1, <3>2, <3>3 DEF put, done
  <2>6. CASE output[r].kind # "output"
    <3>1. put.tokens = new /\ Received(r) = delivered[r]
      BY <1>5, <1>8, <2>2, <2>6 DEF Received
    <3> QED BY <1>5, <2>1, <2>3, <3>1 DEF put, done
  <2> QED BY <2>5, <2>6
<1> QED BY <1>7, <1>8

LEMMA StreamsByBatch ==
  ASSUME AsyncInv, [Next]_vars, NEW batch, NEW M, BatchMove(batch, M), NEW r \in Requests
  PROVE  Streaming(r)'
<1> DEFINE put == AllPut(OutputsFor(batch, M))
           done == Processed(batch, M)[r]
<1>1. /\ task' = task /\ delivered' = delivered /\ reader' = reader
      /\ Reading(r)' <=> Reading(r)
  BY DEF BatchMove, taskVars, Reading
<1>2. BatchEnds(batch, M) \/ BatchGoes(batch, M)
  BY BatchMoves
<1>3. BatchMakes(batch, M)
  BY BatchMade
<1>4. Known(batch) \subseteq Registered
  BY DEF Known
<1>5. put \in [Requests -> CollectorOutputs] /\ (r \notin Known(batch) => put[r] = output[r])
  BY <1>3 DEF BatchMakes
<1>6. CASE BatchEnds(batch, M)
  <2>1. "EngineDeadError" \in Errors
    BY DEF Errors
  <2>2. output' = PropagateTo(Registered, put, "EngineDeadError") /\ Registered' = Registered
    BY <1>6 DEF BatchEnds
  <2> HIDE DEF put
  <2>3. IF r \in Registered THEN output'[r].kind = "error" ELSE output'[r] = put[r]
    BY <1>5, <2>1, <2>2, Propagated
  <2>4. CASE r \in Registered
    BY <1>1, <2>3, <2>4, StreamsBroken
  <2>5. CASE r \notin Registered
    BY <1>1, <1>4, <1>5, <2>2, <2>3, <2>5, StreamsOn
  <2> QED BY <2>4, <2>5
<1>7. CASE BatchGoes(batch, M)
  <2>1. /\ output'[r] = put[r] /\ Registered' = Registered \ Finished(batch, M)
        /\ r \in Registered' => r \in Registered /\ requests'[r] = done
    BY <1>7 DEF BatchGoes
  <2>2. CASE r \notin Known(batch)
    <3>1. r \in Registered => done = requests[r]
      BY <1>3, <2>2 DEF BatchMakes
    <3> QED BY <1>1, <1>5, <2>1, <2>2, <3>1, StreamsOn
  <2>3. CASE r \in Known(batch)
    <3> SUFFICES ASSUME Reading(r) PROVE Streaming(r)'
      BY <1>1 DEF Streaming
    <3>1. output_kind' = output_kind
      BY Persists DEF output_kind
    <3>2. delivered[r] = Numbers(Len(delivered[r])) /\ Received(r) = Numbers(Len(Received(r)))
      BY DEF AsyncInv, Streams
    <3>3. /\ Received(r)' = GotFrom(r, put[r])
          /\ put[r] = output[r] => Received(r)' = Received(r)
      BY <1>1, <2>1, <3>1 DEF Received, GotFrom
    <3>4. CASE output_kind[r] = "FINAL_ONLY" /\ r \notin Finished(batch, M)
      <4>1. put[r] = output[r]
        BY <1>3, <2>3, <3>4 DEF BatchMakes
      <4> QED BY <1>1, <3>1, <3>2, <3>3, <3>4, <4>1 DEF Streaming
    <3>5. CASE output_kind[r] # "FINAL_ONLY" \/ r \in Finished(batch, M)
      <4>1. Received(r)' = done.token_ids
        BY <2>3, <3>3, <3>5, BatchReceives
      <4>2. done.token_ids = Numbers(Len(done.token_ids))
        BY <1>4, <2>3, BatchFlows
      <4>3. r \notin Finished(batch, M) /\ output_kind[r] # "FINAL_ONLY" => done.sent = Len(done.token_ids)
        BY <1>3, <2>3 DEF BatchMakes
      <4> HIDE DEF done
      <4> QED BY <1>1, <2>1, <3>1, <3>2, <4>1, <4>2, <4>3 DEF Streaming
    <3> QED BY <3>4, <3>5
  <2> QED BY <2>2, <2>3
<1> QED BY <1>2, <1>6, <1>7

\* Whom a step leaves with its collector, and a caller who has no more than before.
LEMMA OthersOn ==
  ASSUME AsyncInv, NEW r \in Requests,
         \/ \E q \in Requests : q # r /\ (Generate(q) \/ TakeOutput(q) \/ TakeDeadError(q))
         \/ \E q \in Requests : Resume(q)
         \/ HandlerWaits \/ ReaderReads \/ ReaderFails \/ ReaderCancelled \/ Monitor
         \/ ShutdownBegins \/ ShutdownReader \/ ShutdownProcess
         \/ (EngineMove /\ EngineFrame) \/ UNCHANGED vars
  PROVE  /\ Reading(r)' => Reading(r)
         /\ delivered'[r] = delivered[r] /\ output'[r] = output[r] /\ outcome'[r] = outcome[r]
         /\ r \in Registered' => r \in Registered /\ requests'[r] = requests[r]
<1>0. /\ task \in [Requests -> {"new", "waiting", "yielded", "last", "done"}]
      /\ delivered \in [Requests -> Seq(Nat)] /\ output \in [Requests -> CollectorOutputs]
      /\ outcome \in [Requests -> Reasons \cup Errors \cup {"EngineGenerateError", "cancelled"}]
  BY DEF AsyncInv, AsyncTypes, TaskTypes, ProcessorTypes
<1> DEFINE Goal == /\ Reading(r)' => Reading(r)
                   /\ delivered'[r] = delivered[r] /\ output'[r] = output[r] /\ outcome'[r] = outcome[r]
                   /\ r \in Registered' => r \in Registered /\ requests'[r] = requests[r]
<1>1. ASSUME NEW q \in Requests, q # r, Generate(q) PROVE Goal
  <2>1. /\ task'[r] = task[r] /\ delivered' = delivered /\ output' = output /\ outcome'[r] = outcome[r]
    BY <1>1, GenerateReader
  <2>2. r \in Registered' => r \in Registered /\ requests'[r] = requests[r]
    BY <1>1, GenerateReader
  <2> QED BY <2>1, <2>2 DEF Reading
<1>2. ASSUME NEW q \in Requests, q # r, TakeOutput(q) \/ TakeDeadError(q) PROVE Goal
  <2>1. output' = OutputTaken(q) /\ requests' = requests
    BY <1>2 DEF TakeOutput, TakeDeadError, Taken
  <2>2. output'[r] = output[r]
    BY <1>2, <2>1, EmptyTaken DEF AsyncInv
  <2>3. task'[r] = task[r] /\ delivered'[r] = delivered[r] /\ outcome'[r] = outcome[r]
    BY <1>0, <1>2 DEF TakeOutput, TakeDeadError, End_
  <2> QED BY <2>1, <2>2, <2>3 DEF Reading, Registered
<1>3. ASSUME NEW q \in Requests, Resume(q) PROVE Goal
  <2>1. UNCHANGED <<outcome, delivered, output, requests>>
    BY <1>3 DEF Resume, processorVars
  <2>2. Reading(r)' => Reading(r)
    BY <1>0, <1>3 DEF Resume, Reading
  <2> QED BY <2>1, <2>2 DEF Registered
<1>4. ASSUME \/ HandlerWaits \/ ReaderReads \/ ReaderFails \/ ReaderCancelled \/ Monitor
             \/ ShutdownBegins \/ ShutdownReader \/ ShutdownProcess
             \/ (EngineMove /\ EngineFrame) \/ UNCHANGED vars
      PROVE  Goal
  <2>1. UNCHANGED <<task, outcome, delivered, output, requests>>
    BY <1>4 DEF HandlerWaits, ReaderReads, ReaderFails, ReaderCancelled, Monitor, ShutdownBegins,
       ShutdownReader, ShutdownProcess, EngineFrame, vars, taskVars, processorVars
  <2> QED BY <2>1 DEF Reading, Registered
<1> HIDE DEF Goal
<1>5. Goal
  BY <1>1, <1>2, <1>3, <1>4
<1> QED BY <1>5 DEF Goal

\* What a caller takes is what it was to get.
LEMMA Takes ==
  ASSUME AsyncInv, NEW r \in Requests, TakeOutput(r)
  PROVE  /\ Reading(r) /\ output'[r] = Empty /\ delivered'[r] = Received(r)
         /\ outcome'[r] = output[r].reason /\ output[r].kind = "output" /\ requests' = requests
<1>0. /\ delivered \in [Requests -> Seq(Nat)]
      /\ outcome \in [Requests -> Reasons \cup Errors \cup {"EngineGenerateError", "cancelled"}]
  BY DEF AsyncInv, AsyncTypes, TaskTypes
<1>1. output' = OutputTaken(r) /\ requests' = requests
  BY DEF TakeOutput, Taken
<1>2. output'[r] = Empty
  BY <1>1, EmptyTaken DEF AsyncInv
<1> QED BY <1>0, <1>1, <1>2 DEF TakeOutput, Reading, Received

LEMMA StreamsByAbort ==
  ASSUME AsyncInv, [Next]_vars, NEW ext, NEW held \in [Requests -> CollectorOutputs],
         AbortMove(ext, held), NEW r \in Requests
  PROVE  Streaming(r)'
<1> SUFFICES ASSUME Reading(r)' PROVE Streaming(r)'
  BY DEF Streaming
<1>1. Reading(r) /\ held[r] = output[r]
  <2>1. task'[r] # "done"
    BY DEF Reading
  <2>2. task'[r] = task[r] /\ held[r] = output[r]
    BY <2>1, AbortReaders
  <2> QED BY <2>2 DEF Reading
<1>2. delivered' = delivered /\ Registered' = Registered \ IdsOf(ext)
      /\ (r \in Registered' => requests'[r] = requests[r])
  BY AbortMoves
<1>3. CASE r \notin IdsOf(ext) \cap Registered
  <2>1. output'[r] = output[r]
    BY <1>1, <1>3, AbortMoves
  <2> QED BY <1>1, <1>2, <2>1, StreamsOn
<1>4. CASE r \in IdsOf(ext) \cap Registered /\ held[r].kind = "error"
  <2>1. output'[r] = output[r]
    BY <1>1, <1>4, AbortMoves
  <2> QED BY <1>1, <1>2, <2>1, StreamsOn
<1>5. CASE r \in IdsOf(ext) \cap Registered /\ held[r].kind # "error"
  <2>1. /\ output'[r].kind = "output"
        /\ output'[r].tokens =
             IF output_kind[r] = "DELTA"
             THEN IF held[r].kind = "output" THEN held[r].tokens \o Unsent(r) ELSE Unsent(r)
             ELSE requests[r].token_ids
    BY <1>5, AbortMoves
  <2>2. output_kind' = output_kind
    BY Persists DEF output_kind
  <2>3. Streaming(r)
    BY DEF AsyncInv, Streams, Streaming
  <2>4. delivered[r] = Numbers(Len(delivered[r])) /\ Received(r) = Numbers(Len(Received(r)))
    BY <1>1, <2>3 DEF Streaming
  <2>5. Received(r)' = Numbers(Len(Received(r)'))
    <3>1. CASE output_kind[r] # "DELTA"
      <4>1. Received(r)' = requests[r].token_ids
        BY <2>1, <2>2, <3>1 DEF Received
      <4>2. requests[r].token_ids = Numbers(Len(requests[r].token_ids))
        BY <1>5 DEF AsyncInv, Flowing
      <4> QED BY <4>1, <4>2
    <3>2. CASE output_kind[r] = "DELTA"
      <4>1. requests[r].sent = Len(requests[r].token_ids) /\ requests[r].token_ids \in Seq(Nat)
        BY <1>1, <1>5, <2>3, <3>2, FlowsNow DEF Streaming
      <4>2. Unsent(r) = <<>>
        <5>1. Len(requests[r].token_ids) + 1 \in Int /\ Len(requests[r].token_ids) \in Int
              /\ Len(requests[r].token_ids) < Len(requests[r].token_ids) + 1
          BY <4>1
        <5> QED BY <4>1, <5>1, SubSeqEmpty DEF Unsent
      <4>3. held[r].tokens \in Seq(Nat) /\ delivered[r] \in Seq(Nat)
        BY GotTyped DEF AsyncInv
      <4>4. held[r].tokens \o <<>> = held[r].tokens /\ delivered[r] \o <<>> = delivered[r]
        BY <4>3, ConcatEmptySeq
      <4>5. Received(r)' = delivered[r] \o output'[r].tokens
        BY <1>2, <2>1, <2>2, <3>2 DEF Received
      <4>6. Received(r)' = Received(r)
        BY <1>1, <2>1, <3>2, <4>2, <4>4, <4>5 DEF Received
      <4> QED BY <2>4, <4>6
    <3> QED BY <3>1, <3>2
  <2>6. r \notin Registered'
    BY <1>2, <1>5
  <2> QED BY <1>2, <2>4, <2>5, <2>6 DEF Streaming
<1> QED BY <1>3, <1>4, <1>5

LEMMA StreamsStep == AsyncInv /\ [Next]_vars => Streams'
<1> SUFFICES ASSUME AsyncInv, [Next]_vars, NEW r \in Requests
             PROVE  Streaming(r)'
  BY DEF Streams, Streaming
<1>0. <<>> = Numbers(0) /\ Len(<<>>) = 0
  BY DEF Numbers
<1>1. CASE Generate(r)
  <2>1. /\ output'[r] = Empty /\ delivered'[r] = <<>>
        /\ r \in Registered' => requests'[r] = NewState
    BY <1>1, GenerateReader DEF Unseen
  <2>2. Received(r)' = <<>>
    BY <2>1 DEF Received, Empty
  <2> QED BY <1>0, <2>1, <2>2 DEF Streaming, NewState
<1>2. CASE TakeOutput(r)
  <2>1. Streaming(r) /\ output_kind' = output_kind
    BY Persists DEF AsyncInv, Streams, Streaming, output_kind
  <2>2. Reading(r) /\ output'[r] = Empty /\ delivered'[r] = Received(r) /\ output[r].kind = "output"
        /\ requests' = requests
    BY <1>2, Takes
  <2>3. Received(r)' = Received(r)
    BY <2>2 DEF Received, Empty
  <2> QED BY <2>1, <2>2, <2>3 DEF Streaming, Registered
<1>3. CASE TakeDeadError(r)
  <2>1. task \in [Requests -> {"new", "waiting", "yielded", "last", "done"}]
    BY DEF AsyncInv, AsyncTypes, TaskTypes
  <2>2. task'[r] = "done"
    BY <1>3, <2>1 DEF TakeDeadError, End_
  <2> QED BY <2>2 DEF Streaming, Reading
<1>4. ASSUME NEW e \in Errors, RaiseMove(e) PROVE Streaming(r)'
  <2>1. /\ output' = PropagateTo(Registered, output, e) /\ requests' = requests
        /\ delivered' = delivered /\ task' = task
    BY <1>4 DEF RaiseMove, taskVars
  <2>2. output \in [Requests -> CollectorOutputs]
    BY DEF AsyncInv, AsyncTypes, ProcessorTypes
  <2>3. IF r \in Registered THEN output'[r].kind = "error" ELSE output'[r] = output[r]
    BY <2>1, <2>2, Propagated
  <2>4. Reading(r)' => Reading(r)
    BY <2>1 DEF Reading
  <2>5. CASE r \in Registered
    BY <2>1, <2>3, <2>4, <2>5, StreamsBroken
  <2>6. CASE r \notin Registered
    <3>1. r \notin Registered'
      BY <2>1, <2>6 DEF Registered
    <3> QED BY <2>1, <2>3, <2>4, <2>6, <3>1, StreamsOn
  <2> QED BY <2>5, <2>6
<1>5. ASSUME \/ \E q \in Requests : q # r /\ (Generate(q) \/ TakeOutput(q) \/ TakeDeadError(q))
             \/ \E q \in Requests : Resume(q)
             \/ HandlerWaits \/ ReaderReads \/ ReaderFails \/ ReaderCancelled \/ Monitor
             \/ ShutdownBegins \/ ShutdownReader \/ ShutdownProcess
             \/ (EngineMove /\ EngineFrame) \/ UNCHANGED vars
      PROVE  Streaming(r)'
  BY <1>5, OthersOn, StreamsOn
<1> QED BY <1>1, <1>2, <1>3, <1>4, <1>5, EveryMove, StreamsByAbort, StreamsByBatch

-----------------------------------------------------------------------------
(***************************************************************************)
(* What callers are told                                                   *)
(***************************************************************************)
\* The end in a collector held by r.
TellsTrue(r) ==
  output[r].kind = "output" =>
    /\ output[r].reason \in Reasons
    /\ output[r].reason = "length" /\ Reading(r) =>
         ended[r] = "length" /\ Received(r) = Numbers(produced[r])
    /\ output[r].reason = "stop" => r \in matched
    /\ output[r].reason = "abort" => external_of[r] \in asked \/ engine # "up"

LEMMA ToldOn ==
  ASSUME AsyncInv, [Next]_vars, NEW r \in Requests, Reading(r)' => Reading(r),
         delivered'[r] = delivered[r], output'[r] = output[r]
  PROVE  TellsTrue(r)'
<1>1. TellsTrue(r)
  BY DEF AsyncInv, Told, TellsTrue
<1>2. output_kind' = output_kind /\ external_of' = external_of
      /\ asked \subseteq asked' /\ matched \subseteq matched' /\ (engine # "up" => engine' # "up")
  BY Persists DEF output_kind, external_of
<1>3. Received(r)' = Received(r)
  BY <1>2 DEF Received
<1>4. ended[r] = "length" => ended'[r] = "length" /\ produced'[r] = produced[r]
  BY OutputAssumption, EndStays
<1> QED BY <1>1, <1>2, <1>3, <1>4 DEF TellsTrue

LEMMA ToldByAbort ==
  ASSUME AsyncInv, [Next]_vars, NEW ext, NEW held \in [Requests -> CollectorOutputs],
         AbortMove(ext, held), NEW r \in Requests
  PROVE  TellsTrue(r)'
<1>1. /\ delivered' = delivered /\ given' = given /\ asked' = asked \cup {ext}
      /\ IdsOf(ext) \subseteq {q \in Requests : external_of[q] = ext}
  BY AbortMoves
<1>2. task'[r] # "done" => task'[r] = task[r]
  BY AbortReaders
<1>3. Reading(r)' => Reading(r)
  BY <1>2 DEF Reading
<1>4. CASE r \in IdsOf(ext) \cap Registered /\ held[r].kind # "error"
  <2>1. output'[r].reason = "abort"
    BY <1>4, AbortMoves
  <2>2. external_of'[r] \in asked'
    BY <1>1, <1>4 DEF external_of
  <2> QED BY <2>1, <2>2 DEF TellsTrue, Reasons
<1>5. CASE ~(r \in IdsOf(ext) \cap Registered /\ held[r].kind # "error")
  <2>1. output'[r] = held[r]
    BY <1>5, AbortMoves
  <2>2. held[r] = output[r] \/ held[r] = Empty
    BY AbortReaders
  <2>3. CASE held[r] = Empty
    BY <2>1, <2>3 DEF TellsTrue, Empty
  <2>4. CASE held[r] = output[r]
    BY <1>1, <1>3, <2>1, <2>4, ToldOn
  <2> QED BY <2>2, <2>3, <2>4
<1> QED BY <1>4, <1>5

LEMMA ToldByBatch ==
  ASSUME AsyncInv, [Next]_vars, NEW batch, NEW M, BatchMove(batch, M), NEW r \in Requests
  PROVE  TellsTrue(r)'
<1> DEFINE put == AllPut(OutputsFor(batch, M))
           done == Processed(batch, M)[r]
<1>1. /\ task' = task /\ delivered' = delivered /\ matched' = matched \cup M /\ engine' = engine
      /\ ended' = ended /\ produced' = produced
      /\ Reading(r)' <=> Reading(r)
  BY DEF BatchMove, taskVars, Reading
<1>2. BatchEnds(batch, M) \/ BatchGoes(batch, M)
  BY BatchMoves
<1>3. BatchMakes(batch, M)
  BY BatchMade
<1>4. Known(batch) \subseteq Registered /\ Known(batch) \subseteq DOMAIN batch
  BY DEF Known
<1>5. put \in [Requests -> CollectorOutputs] /\ (r \notin Known(batch) => put[r] = output[r])
  BY <1>3 DEF BatchMakes
<1>6. CASE output'[r].kind = "error"
  BY <1>6 DEF TellsTrue
<1>7. CASE output'[r] = output[r]
  BY <1>1, <1>7, ToldOn
<1>8. ASSUME output'[r] = put[r], r \in Known(batch),
             output_kind[r] # "FINAL_ONLY" \/ r \in Finished(batch, M)
      PROVE  TellsTrue(r)'
  <2>1. /\ put[r].kind = "output" /\ put[r].reason = IF r \in M THEN "stop" ELSE batch[r].reason
    BY <1>3, <1>8 DEF BatchMakes
  <2>2. batch[r] \in EngineOutputs
    BY <1>4, <1>8, BatchMoves
  <2>3. batch[r].reason \in {None, ended[r]}
    <3>1. outputs_queue \in Seq(Items) /\ outputs_queue # <<>> /\ batch = Head(outputs_queue).outputs
      BY DEF BatchMove, AsyncInv, AsyncTypes, LoopTypes
    <3>2. 1 \in DOMAIN outputs_queue /\ batch = outputs_queue[1].outputs
      BY <3>1, HeadOfQueue
    <3> QED BY <1>4, <1>8, <3>2 DEF AsyncInv, Endings
  <2>4. output'[r].reason \in Reasons
    BY <1>8, <2>1, <2>2 DEF EngineOutputs, Reasons
  <2>5. output'[r].reason = "stop" => r \in matched'
    BY <1>1, <1>8, <2>1, <2>2, OutputAssumption DEF EngineOutputs
  <2>6. ASSUME output'[r].reason = "abort"
        PROVE  external_of'[r] \in asked' \/ engine' # "up"
    <3>1. ended[r] = "abort"
      BY <1>8, <2>1, <2>3, <2>6, OutputAssumption
    <3>2. external_of[r] \in asked \/ engine # "up"
      BY <1>4, <1>8, <3>1 DEF AsyncInv, Reasoned
    <3> QED BY <3>2, Persists DEF external_of
  <2>7. ASSUME output'[r].reason = "length", Reading(r)
        PROVE  ended'[r] = "length" /\ Received(r)' = Numbers(produced'[r])
    <3>1. batch[r].reason = "length" /\ ended[r] = "length"
      BY <1>8, <2>1, <2>3, <2>7, OutputAssumption
    <3>2. r \in Finished(batch, M)
      <4>1. done.reason = put[r].reason /\ (r \in Finished(batch, M) <=> done.reason # None)
        BY <1>3, <1>8 DEF BatchMakes
      <4> QED BY <1>8, <2>7, <4>1, OutputAssumption
    <3>3. GotFrom(r, put[r]) = done.token_ids
      BY <1>8, <2>7, <3>2, BatchReceives
    <3>4. done.token_ids = Numbers(produced[r])
      <4>1. /\ done.token_ids = Numbers(Len(done.token_ids))
            /\ r \in DOMAIN batch /\ batch[r].reason = "length" => Len(done.token_ids) = produced[r]
        BY <1>4, <1>8, BatchFlows
      <4> QED BY <1>4, <1>8, <3>1, <4>1
    <3>5. output_kind' = output_kind
      BY Persists DEF output_kind
    <3>6. Received(r)' = GotFrom(r, put[r])
      BY <1>1, <1>8, <3>5 DEF Received, GotFrom
    <3> QED BY <1>1, <3>1, <3>3, <3>4, <3>6
  <2> QED BY <1>1, <2>4, <2>5, <2>6, <2>7 DEF TellsTrue
<1>9. r \in Known(batch) /\ output_kind[r] = "FINAL_ONLY" /\ r \notin Finished(batch, M)
      => put[r] = output[r]
  BY <1>3 DEF BatchMakes
<1>10. CASE BatchEnds(batch, M)
  <2>1. "EngineDeadError" \in Errors
    BY DEF Errors
  <2>2. output' = PropagateTo(Registered, put, "EngineDeadError")
    BY <1>10 DEF BatchEnds
  <2> HIDE DEF put
  <2>3. IF r \in Registered THEN output'[r].kind = "error" ELSE output'[r] = put[r]
    BY <1>5, <2>1, <2>2, Propagated
  <2> QED BY <1>4, <1>5, <1>6, <1>7, <2>3
<1>11. CASE BatchGoes(batch, M)
  <2>1. output'[r] = put[r]
    BY <1>11 DEF BatchGoes
  <2> HIDE DEF put
  <2> QED BY <1>5, <1>7, <1>8, <1>9, <2>1
<1> QED BY <1>2, <1>10, <1>11

LEMMA ToldStep == AsyncInv /\ [Next]_vars => Told'
<1> SUFFICES ASSUME AsyncInv, [Next]_vars, NEW r \in Requests
             PROVE  TellsTrue(r)'
  BY DEF Told, TellsTrue
<1>1. ASSUME output'[r] = Empty PROVE TellsTrue(r)'
  BY <1>1 DEF TellsTrue, Empty
<1>2. CASE Generate(r)
  BY <1>1, <1>2, GenerateReader DEF Unseen
<1>3. CASE TakeOutput(r)
  BY <1>1, <1>3, Takes
<1>4. CASE TakeDeadError(r)
  <2>1. output' = OutputTaken(r)
    BY <1>4 DEF TakeDeadError, Taken
  <2> QED BY <1>1, <2>1, EmptyTaken DEF AsyncInv
<1>5. ASSUME NEW e \in Errors, RaiseMove(e) PROVE TellsTrue(r)'
  <2>1. /\ output' = PropagateTo(Registered, output, e)
        /\ delivered' = delivered /\ task' = task
    BY <1>5 DEF RaiseMove, taskVars
  <2>2. output \in [Requests -> CollectorOutputs]
    BY DEF AsyncInv, AsyncTypes, ProcessorTypes
  <2>3. output'[r].kind = "error" \/ output'[r] = output[r]
    BY <2>1, <2>2, Propagated
  <2>4. Reading(r)' => Reading(r)
    BY <2>1 DEF Reading
  <2>5. CASE output'[r].kind = "error"
    BY <2>5 DEF TellsTrue
  <2> QED BY <2>1, <2>3, <2>4, <2>5, ToldOn
<1>6. ASSUME \/ \E q \in Requests : q # r /\ (Generate(q) \/ TakeOutput(q) \/ TakeDeadError(q))
             \/ \E q \in Requests : Resume(q)
             \/ HandlerWaits \/ ReaderReads \/ ReaderFails \/ ReaderCancelled \/ Monitor
             \/ ShutdownBegins \/ ShutdownReader \/ ShutdownProcess
             \/ (EngineMove /\ EngineFrame) \/ UNCHANGED vars
      PROVE  TellsTrue(r)'
  BY <1>6, OthersOn, ToldOn
<1> QED BY <1>2, <1>3, <1>4, <1>5, <1>6, EveryMove, ToldByAbort, ToldByBatch

-----------------------------------------------------------------------------
(***************************************************************************)
(* The end a caller is told                                                *)
(***************************************************************************)
\* EndIsTrue of one request.
EndTold(r) ==
  /\ outcome[r] = "length" => ended[r] = "length" /\ delivered[r] = Numbers(produced[r])
  /\ outcome[r] = "stop" => r \in matched
  /\ outcome[r] = "abort" => external_of[r] \in asked \/ engine # "up"
  /\ outcome[r] = "EngineDeadError" => Fallen
  /\ outcome[r] = "EngineGenerateError" => reader = "failed"

LEMMA EndForms ==
  /\ EndIsTrue <=> \A r \in Requests : EndTold(r)
  /\ EndIsTrue' <=> \A r \in Requests : EndTold(r)'
<1> DEFINE Named(r) ==
      CASE outcome[r] = "length" -> ended[r] = "length" /\ delivered[r] = Numbers(produced[r])
        [] outcome[r] = "stop"   -> r \in matched
        [] outcome[r] = "abort"  -> external_of[r] \in asked \/ engine # "up"
        [] outcome[r] = "EngineDeadError" ->
             engine # "up" \/ reader \in {"done", "failed"} \/ shut # "no"
        [] outcome[r] = "EngineGenerateError" -> reader = "failed"
        [] OTHER -> TRUE
<1>1. ASSUME NEW r PROVE Named(r) <=> EndTold(r)
  BY DEF EndTold, Fallen
<1>2. ASSUME NEW r PROVE Named(r)' <=> EndTold(r)'
  BY DEF EndTold, Fallen
<1> QED BY <1>1, <1>2 DEF EndIsTrue

\* An end that has been told stays true.
LEMMA EndOn ==
  ASSUME AsyncInv, [Next]_vars, NEW r \in Requests,
         outcome'[r] = outcome[r], delivered'[r] = delivered[r]
  PROVE  EndTold(r)'
<1>1. EndTold(r)
  BY EndForms DEF AsyncInv
<1>2. /\ external_of' = external_of /\ asked \subseteq asked' /\ matched \subseteq matched'
      /\ (engine # "up" => engine' # "up") /\ (shut # "no" => shut' # "no")
      /\ (reader \in {"done", "failed"} => reader' = reader)
  BY Persists DEF external_of
<1>3. ended[r] = "length" => ended'[r] = "length" /\ produced'[r] = produced[r]
  BY OutputAssumption, EndStays
<1> QED BY <1>1, <1>2, <1>3 DEF EndTold, Fallen

\* A send that raises has found the process gone.
LEMMA RaisesWhenGone ==
  ASSUME AsyncInv, EnsureAliveRaises
  PROVE  engine = "gone"
BY DEF AsyncInv, Falls, EnsureAliveRaises, Alive

LEMMA EndAtStart ==
  ASSUME AsyncInv, [Next]_vars, NEW r \in Requests, Generate(r)
  PROVE  EndTold(r)'
<1>0. outcome \in [Requests -> Reasons \cup Errors \cup {"EngineGenerateError", "cancelled"}]
  BY DEF AsyncInv, AsyncTypes, TaskTypes
<1>1. Fallen => Fallen'
  BY Persists DEF Fallen
<1>2. ASSUME Refuse(r), Fallen PROVE EndTold(r)'
  <2>1. outcome'[r] = "EngineDeadError"
    BY <1>0, <1>2 DEF Refuse
  <2> QED BY <1>1, <1>2, <2>1 DEF EndTold
<1>3. Errored => Fallen
  BY DEF AsyncInv, Falls, Errored
<1>4. EnsureAliveRaises => Fallen
  BY RaisesWhenGone DEF Fallen
<1>5. \/ Refuse(r) /\ (Errored \/ EnsureAliveRaises)
      \/ UNCHANGED <<outcome, delivered>>
  BY DEF Generate
<1> QED BY <1>2, <1>3, <1>4, <1>5, EndOn

LEMMA EndByTaking ==
  ASSUME AsyncInv, [Next]_vars, NEW r \in Requests, TakeOutput(r)
  PROVE  EndTold(r)'
<1>1. /\ Reading(r) /\ delivered'[r] = Received(r) /\ outcome'[r] = output[r].reason
      /\ output[r].kind = "output"
  BY Takes
<1>2. TellsTrue(r)
  BY DEF AsyncInv, Told, TellsTrue
<1>3. UNCHANGED <<ended, produced, matched, asked, engine>> /\ external_of' = external_of
  BY DEF TakeOutput, Taken, engineVars, askVars, external_of
<1>4. "EngineDeadError" \notin Reasons /\ "EngineGenerateError" \notin Reasons
  BY OutputAssumption DEF Reasons
<1> QED BY <1>1, <1>2, <1>3, <1>4 DEF TellsTrue, EndTold

LEMMA EndByCancel ==
  ASSUME AsyncInv, [Next]_vars, NEW r \in Requests, Cancel(r)
  PROVE  EndTold(r)'
<1>0. outcome \in [Requests -> Reasons \cup Errors \cup {"EngineGenerateError", "cancelled"}]
  BY DEF AsyncInv, AsyncTypes, TaskTypes
<1>1. PICK raises \in BOOLEAN :
        /\ SendAbort(IdsOf(external_of[r]), raises)
        /\ End_(r, IF raises THEN "EngineDeadError" ELSE "cancelled")
  BY DEF Cancel
<1>2. outcome'[r] = IF raises THEN "EngineDeadError" ELSE "cancelled"
  BY <1>0, <1>1 DEF End_
<1>3. raises => Fallen'
  <2>1. raises => Fallen
    BY <1>1, RaisesWhenGone DEF SendAbort, Fallen
  <2> QED BY <2>1, Persists DEF Fallen
<1> QED BY <1>2, <1>3 DEF EndTold

LEMMA EndByError ==
  ASSUME AsyncInv, [Next]_vars, NEW r \in Requests, TakeOtherError(r)
  PROVE  EndTold(r)'
<1>0. outcome \in [Requests -> Reasons \cup Errors \cup {"EngineGenerateError", "cancelled"}]
  BY DEF AsyncInv, AsyncTypes, TaskTypes
<1>1. PICK raises \in BOOLEAN :
        /\ SendAbort(IdsOf(external_of[r]), raises)
        /\ End_(r, IF raises THEN "EngineDeadError" ELSE "EngineGenerateError")
  BY DEF TakeOtherError
<1>2. outcome'[r] = IF raises THEN "EngineDeadError" ELSE "EngineGenerateError"
  BY <1>0, <1>1 DEF End_
<1>3. raises => Fallen'
  <2>1. raises => Fallen
    BY <1>1, RaisesWhenGone DEF SendAbort, Fallen
  <2> QED BY <2>1, Persists DEF Fallen
<1>4. reader' = "failed"
  <2>1. output[r].kind = "error" /\ output[r].reason # "EngineDeadError"
    BY DEF TakeOtherError
  <2>2. reader = "failed"
    BY <2>1 DEF AsyncInv, Falls, ErrorIsTrue
  <2> QED BY <2>2, Persists
<1> QED BY <1>2, <1>3, <1>4 DEF EndTold

LEMMA EndIsTrueStep == AsyncInv /\ [Next]_vars => EndIsTrue'
<1> SUFFICES ASSUME AsyncInv, [Next]_vars, NEW r \in Requests
             PROVE  EndTold(r)'
  BY EndForms
<1>0. outcome \in [Requests -> Reasons \cup Errors \cup {"EngineGenerateError", "cancelled"}]
  BY DEF AsyncInv, AsyncTypes, TaskTypes
<1>1. ASSUME NEW q \in Requests, q # r, Cancel(q) \/ TakeOtherError(q) PROVE EndTold(r)'
  <2>1. delivered' = delivered /\ \E how : End_(q, how)
    BY <1>1 DEF Cancel, TakeOtherError
  <2>2. outcome'[r] = outcome[r]
    BY <1>0, <1>1, <2>1 DEF End_
  <2> QED BY <2>1, <2>2, EndOn
<1>2. ASSUME NEW ext \in ExternalIds, Abort(ext) PROVE EndTold(r)'
  BY <1>2, EndOn DEF Abort, taskVars
<1>3. ASSUME HandlerProcesses \/ HandlerRaises PROVE EndTold(r)'
  BY <1>3, EndOn DEF HandlerProcesses, HandlerRaises, taskVars
<1>4. ASSUME TakeDeadError(r) PROVE EndTold(r)'
  <2>1. outcome'[r] = "EngineDeadError" /\ output[r].kind = "error"
    BY <1>0, <1>4 DEF TakeDeadError, End_
  <2>2. Fallen
    BY <2>1 DEF AsyncInv, Falls
  <2> QED BY <2>1, <2>2, Persists DEF EndTold, Fallen
<1>5. EngineReceives \/ EngineStops \/ EngineExits \/ (\E S \in SUBSET Requests : EngineSteps(S))
      => EngineMove /\ EngineFrame
  BY EngineMoves
<1>6. ASSUME \/ \E q \in Requests : q # r /\ (Generate(q) \/ TakeOutput(q) \/ TakeDeadError(q))
             \/ \E q \in Requests : Resume(q)
             \/ HandlerWaits \/ ReaderReads \/ ReaderFails \/ ReaderCancelled \/ Monitor
             \/ ShutdownBegins \/ ShutdownReader \/ ShutdownProcess
             \/ (EngineMove /\ EngineFrame) \/ UNCHANGED vars
      PROVE  EndTold(r)'
  BY <1>6, OthersOn, EndOn
<1> QED BY <1>1, <1>2, <1>3, <1>4, <1>5, <1>6, EndAtStart, EndByTaking, EndByCancel, EndByError
        DEF Next

-----------------------------------------------------------------------------
(***************************************************************************)
(* The theorems                                                            *)
(***************************************************************************)
LEMMA InitInv == Init => AsyncInv
<1> SUFFICES ASSUME Init PROVE AsyncInv
  OBVIOUS
<1>0. /\ given \in Givens /\ requests = <<>> /\ external_req_ids = <<>>
      /\ Registered = {} /\ DOMAIN external_req_ids = {}
      /\ outputs_queue = <<>> /\ socket = <<>> /\ to_engine = <<>>
      /\ \A r \in Requests : task[r] = "new" /\ output[r] = Empty /\ delivered[r] = <<>>
                             /\ outcome[r] = None /\ produced[r] = 0 /\ ended[r] = None
  BY DEF Init, OutputInit, Registered
<1>1. ProcessorTypes
  <2>1. Empty \in CollectorOutputs
    BY DEF Empty, CollectorOutputs, Reasons
  <2> QED BY <1>0, <2>1 DEF ProcessorTypes, Init, OutputInit
<1>2. TaskTypes
  BY DEF TaskTypes, Init, Reasons
<1>3. LoopTypes /\ EngineTypes
  <2>1. outputs_queue \in Seq(Items) /\ socket \in Seq(Items) /\ to_engine \in Seq(Messages)
    BY <1>0, EmptySeq
  <2>2. LoopTypes
    BY <2>1 DEF LoopTypes, Init
  <2>3. EngineTypes
    BY <2>1 DEF EngineTypes, Init
  <2> QED BY <2>2, <2>3
<1>4. SentSingly(outputs_queue) /\ SentSingly(socket)
  BY <1>0 DEF SentSingly
<1>5. Falls
  BY <1>0 DEF Falls, Init, Empty
<1>6. Fresh
  BY <1>0 DEF Fresh, Unseen, Init
<1>7. Readers /\ Flowing
  BY <1>0 DEF Readers, Flowing
<1>8. Endings /\ Reasoned
  BY <1>0, OutputAssumption DEF Endings, Reasoned, Init
<1>9. Streams /\ Told
  BY <1>0 DEF Streams, Told, Reading, Empty
<1>10. EndIsTrue
  <2>1. \A r \in Requests : EndTold(r)
    BY <1>0, OutputAssumption DEF EndTold
  <2> QED BY <2>1, EndForms
<1> QED BY <1>1, <1>2, <1>3, <1>4, <1>5, <1>6, <1>7, <1>8, <1>9, <1>10, InitReaches
        DEF AsyncInv, AsyncTypes

LEMMA AsyncStep == AsyncInv /\ [Next]_vars => AsyncInv'
<1> SUFFICES ASSUME AsyncInv, [Next]_vars PROVE AsyncInv'
  OBVIOUS
<1>1. AsyncTypes' /\ SentSingly(outputs_queue)' /\ SentSingly(socket)'
  BY ProcessorTyped, TaskTyped, LoopTyped, EngineTyped DEF AsyncTypes
<1>2. Falls' /\ Fresh' /\ Readers' /\ Endings' /\ Reasoned'
  BY FallsStep, FreshStep, ReadersStep, EndingsStep, ReasonedStep
<1>3. AbortReaches'
  BY StepReaches DEF AsyncInv
<1>4. Flowing' /\ Streams' /\ Told' /\ EndIsTrue'
  BY FlowingStep, StreamsStep, ToldStep, EndIsTrueStep
<1> QED BY <1>1, <1>2, <1>3, <1>4 DEF AsyncInv

(***************************************************************************)
(* The inductive invariant holds of every behaviour.                       *)
(***************************************************************************)
THEOREM AsyncInvariant == Spec => []AsyncInv
BY InitInv, AsyncStep, PTL DEF Spec

(***************************************************************************)
(* A caller has, with what its collector holds, the first tokens of its    *)
(* request, each once and in order, and all the processor knows if outputs *)
(* are sent before the end: however late it reads, whatever is merged,     *)
(* aborted or lost (RequestOutput.add, make_request_output, get).          *)
(***************************************************************************)
THEOREM StreamExactHolds == Spec => []StreamExact
<1>1. AsyncInv => StreamExact
  BY DEF AsyncInv, Streams, StreamExact
<1> QED BY <1>1, AsyncInvariant, PTL

(***************************************************************************)
(* The end a caller is told is what happened to its request, through every *)
(* death of the engine, failed frame, abort and shutdown()                 *)
(* (generate's except clauses, process_outputs, propagate_error).          *)
(***************************************************************************)
THEOREM EndIsTrueHolds == Spec => []EndIsTrue
<1>1. AsyncInv => EndIsTrue
  BY DEF AsyncInv
<1> QED BY <1>1, AsyncInvariant, PTL

(***************************************************************************)
(* While outputs are handled, a request of a caller who has gone is either *)
(* unknown to the engine or has its ABORT behind it on the socket.         *)
(***************************************************************************)
THEOREM NoOrphanHolds == Spec => []NoOrphan
<1>1. ASSUME AsyncInv, engine = "up", ~Errored, NEW r \in running, task[r] = "done"
      PROVE  AbortPending(r)
  <2>1. ~errored
    BY <1>1 DEF Errored
  <2>2. r \in Requests
    BY <1>1 DEF AsyncInv, AsyncTypes, EngineTypes
  <2>3. r \notin Registered
    BY <1>1, <2>1 DEF AsyncInv, Readers, Reading
  <2>4. Covered(r)
    BY <1>1, <2>2, <2>3 DEF AsyncInv, Endings
  <2> QED BY <1>1, <2>4 DEF Covered, Aborts, AbortPending
<1>2. AsyncInv => NoOrphan
  BY <1>1 DEF NoOrphan
<1> QED BY <1>2, AsyncInvariant, PTL
=============================================================================

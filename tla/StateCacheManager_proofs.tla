----------------------- MODULE StateCacheManager_proofs -----------------------
(***************************************************************************)
(* The two stores keep their promises for any number of threads, requests, *)
(* calls and restarts: StoresTypeOK, ConfirmedIsWritten and                *)
(* RestoreSeesTheSave.                                                     *)
(*                                                                         *)
(* DiskInv says where a snapshot that is owed can be: in the table, in the *)
(* writer's hand, or on the queue; before the message of a flush that has  *)
(* to wait for it, and first of all that the queue holds of its request if *)
(* a restore has to (Ahead, First).  A pending event stands for all        *)
(* operations on a request; it can be trusted while there is at most one   *)
(* (Singles).                                                              *)
(***************************************************************************)
EXTENDS StateCacheManager, FiniteSetTheorems, SequenceTheorems, TLAPS

-----------------------------------------------------------------------------
(***************************************************************************)
(* The inductive invariant                                                 *)
(***************************************************************************)
KeyOps == [type : {"save", "delete"}, req : ReqIds, pos : Tokens, created_at : 0 .. MaxCalls]
FlushOps == [type : {"flush"}, by : Callers, event : Nat]
Operations == KeyOps \cup FlushOps \cup [type : {"shutdown"}]
Rows == [req : ReqIds, pos : Tokens, created_at : 0 .. MaxCalls]

Calling ==
  {x \in [op : Ops, req : ReqIds, pos : Nat, at : Ats, sees : SUBSET AllKeys] :
     /\ x.op \in {"save", "delete"} => x.pos \in Tokens
     /\ x.at \in {"mark", "put"} => x.op \in {"save", "delete"}
     /\ x.at = "wait" => x.op \in {"delete", "restore"}
     /\ x.at = "read" => x.op = "restore"
     /\ x.at = "join" => x.op = "close"}

TableTypes ==
  /\ table \subseteq Rows /\ IsFiniteSet(table)
  /\ \A x, y \in table : Key(x) = Key(y) => x = y
  /\ high_water \in Nat /\ Cardinality(table) <= high_water
WriterTypes ==
  /\ write_queue \in Seq(Operations)
  /\ writer \in [at : {"get", "entry", "done", "gone"}, op : KeyOps \cup {NoOp}, draining : BOOLEAN]
  /\ writer.at \in {"entry", "done"} <=> writer.op # NoOp
CallTypes ==
  /\ call \in [Callers -> Calling] /\ calls \in 0 .. MaxCalls
  /\ pending \subseteq ReqIds /\ closed \in BOOLEAN /\ connected \in BOOLEAN
  /\ owed \subseteq AllKeys /\ confirmed \subseteq AllKeys
  /\ overlap \subseteq ReqIds /\ crowded \subseteq ReqIds

Saves(op, k) == op.type = "save" /\ Key(op) = k
Written(k) == k \in Keys(table)
InHand(k) == writer.at = "entry" /\ Saves(writer.op, k)

\* k is in the table when the writer comes to place i of the queue.
Ahead(k, i) ==
  \/ Written(k) \/ InHand(k)
  \/ \E j \in DOMAIN write_queue : j < i /\ Saves(write_queue[j], k)

\* The writer saves k before it ends another operation on the request.
First(k) ==
  \/ InHand(k)
  \/ /\ ~IsOn(writer.op, k.req)
     /\ \E j \in DOMAIN write_queue :
          /\ Saves(write_queue[j], k)
          /\ \A i \in DOMAIN write_queue : i < j => ~IsOn(write_queue[i], k.req)

\* k is in the table, or will be.
Kept(k) == Written(k) \/ InHand(k) \/ \E j \in DOMAIN write_queue : Saves(write_queue[j], k)

Owing ==
  /\ \A k \in owed : Kept(k)
  /\ confirmed \subseteq Keys(table)

\* Once the writer has left, nothing more is owed.
Closing ==
  /\ \A i \in DOMAIN write_queue : write_queue[i].type = "shutdown" => closed
  /\ writer.draining => closed
  /\ writer.at = "gone" => writer.draining /\ owed \subseteq Keys(table)

\* No flush is known by the number of a later call.
Numbered == \A i \in DOMAIN write_queue : write_queue[i].type = "flush" => write_queue[i].event < calls

\* Where there is one operation on a request, it is pending.
Puts(c, r) == call[c].at = "put" /\ call[c].req = r
Single(r) ==
  /\ IsOn(writer.op, r) \/ (\E i \in DOMAIN write_queue : IsOn(write_queue[i], r))
       \/ (\E c \in Callers : Puts(c, r)) => r \in pending
  /\ IsOn(writer.op, r) => \A i \in DOMAIN write_queue : ~IsOn(write_queue[i], r)
  /\ \A c \in Callers : Puts(c, r) =>
       /\ ~IsOn(writer.op, r) /\ \A i \in DOMAIN write_queue : ~IsOn(write_queue[i], r)
       /\ \A d \in Callers : Puts(d, r) => d = c
  /\ \A i, j \in DOMAIN write_queue : IsOn(write_queue[i], r) /\ IsOn(write_queue[j], r) => i = j
Singles == \A r \in ReqIds \ crowded : Single(r)

\* What a call has to find or to wait for.
Awaits(c, i) ==
  /\ call[c].at = "flush" /\ write_queue[i].type = "flush"
  /\ write_queue[i].by = c /\ write_queue[i].event = call[c].pos
Sees(c) ==
  /\ call[c].sees \subseteq owed
  /\ \A i \in DOMAIN write_queue : Awaits(c, i) => \A k \in call[c].sees : Ahead(k, i)
  /\ call[c].at \in {"flushed", "read"} => call[c].sees \subseteq Keys(table)
  /\ call[c].at = "wait" => \A k \in call[c].sees :
       k.req = call[c].req /\ (Written(k) \/ (k.req \in pending /\ First(k)))

\* The LRU cache and the checkpoints.
Snapshots == [pos : Tokens, absorbed : Tokens]
CacheTypes ==
  /\ cpu_cache \in Seq(AllKeys) /\ Len(cpu_cache) <= MaxCpuEntries
  /\ \A i, j \in DOMAIN cpu_cache : cpu_cache[i].req = cpu_cache[j].req => i = j
  /\ evicting \in Seq(AllKeys)
  /\ checkpoints \in [ReqIds -> Seq(Snapshots)]
  /\ \A r \in ReqIds : Len(checkpoints[r]) <= MaxCheckpoints
  /\ computed \in [ReqIds -> Tokens]

DiskInv ==
  /\ TableTypes /\ WriterTypes /\ CallTypes
  /\ Owing /\ Closing /\ Numbered /\ Singles
  /\ \A c \in Callers : Sees(c)

StoresInv == DiskInv /\ CacheTypes

-----------------------------------------------------------------------------
(***************************************************************************)
(* Numbers, places, calls                                                  *)
(***************************************************************************)
\* A set of natural numbers has a least one.
LEMMA HasLeast ==
  ASSUME NEW S \in SUBSET Nat, S # {}
  PROVE  \E m \in S : \A x \in S : m <= x
<1> DEFINE R == {ss \in Nat \X Nat : ss[1] < ss[2]}
<1>1. IsWellFoundedOn(R, Nat)
  BY NatLessThanWellFounded DEF OpToRel
<1>2. \A x, y \in Nat : <<x, y>> \in R <=> x < y
  OBVIOUS
<1> HIDE DEF R
<1>3. PICK m \in S : \A x \in S : ~ (<<x, m>> \in R)
  BY <1>1, WFMin
<1>4. \A x \in S : ~ (x < m) /\ x \in Nat /\ m \in Nat
  BY <1>2, <1>3
<1>5. \A x \in S : m <= x
  BY <1>4
<1> QED BY <1>5

\* A set of natural numbers up to n has a greatest one.
LEMMA MaxBounds ==
  ASSUME NEW n \in Nat, NEW S \in SUBSET (0 .. n), S # {}
  PROVE  Max(S) \in S /\ \A x \in S : x <= Max(S)
<1> DEFINE T == {n - x : x \in S}
<1>1. T \in SUBSET Nat /\ T # {}
  <2>1. \A x \in S : x \in Nat /\ n - x \in Nat
    OBVIOUS
  <2> QED BY <2>1
<1>2. PICK m \in T : \A y \in T : m <= y
  BY <1>1, HasLeast
<1>3. PICK z \in S : m = n - z
  OBVIOUS
<1>4. \A x \in S : n - z <= n - x
  BY <1>2, <1>3
<1>5. \A x \in S : z >= x
  BY <1>4
<1>6. Max(S) \in S /\ \A x \in S : Max(S) >= x
  BY <1>5 DEF Max
<1>7. \A x \in S : x \in Nat
  OBVIOUS
<1> QED BY <1>6, <1>7

LEMMA MaxOfTwo ==
  ASSUME NEW a \in Int, NEW b \in Int
  PROVE  Max({a, b}) = IF a >= b THEN a ELSE b
BY DEF Max

LEMMA SomeRequest ==
  /\ Idle.req \in ReqIds /\ Idle.op = "none" /\ Idle.at = "idle" /\ Idle.pos = 0 /\ Idle.sees = {}
  /\ Idle \in Calling
<1>1. (CHOOSE r \in ReqIds : TRUE) \in ReqIds
  BY StoreAssumption
<1> QED BY <1>1 DEF Idle, Calling, Ops, Ats

LEMMA TokensAre ==
  /\ Tokens \subseteq Nat /\ 0 \in Tokens /\ Positions \subseteq Tokens
  /\ AllKeys = [req : ReqIds, pos : Tokens]
  /\ \A x : x \in Tokens <=> x \in Nat /\ x <= Max(Positions)
BY StoreAssumption DEF Tokens, AllKeys

\* The writer thread's place in the queue.
LEMMA TailOf ==
  ASSUME NEW q \in Seq(Operations), q # <<>>
  PROVE  /\ Tail(q) \in Seq(Operations) /\ Head(q) \in Operations /\ Head(q) = q[1]
         /\ 1 \in DOMAIN q /\ Len(Tail(q)) = Len(q) - 1 /\ Len(q) \in Nat
         /\ \A i : i \in DOMAIN Tail(q) <=> i + 1 \in DOMAIN q /\ i \in Nat \ {0}
         /\ \A i \in DOMAIN Tail(q) : Tail(q)[i] = q[i + 1]
<1>1. Len(q) \in Nat \ {0} /\ DOMAIN q = 1 .. Len(q)
  OBVIOUS
<1>2. Tail(q) \in Seq(Operations) /\ Head(q) = q[1] /\ Len(Tail(q)) = Len(q) - 1
      /\ \A i \in 1 .. Len(q) - 1 : Tail(q)[i] = q[i + 1]
  BY HeadTailProperties
<1>3. DOMAIN Tail(q) = 1 .. Len(q) - 1
  BY <1>1, <1>2
<1> QED BY <1>1, <1>2, <1>3

LEMMA AppendOf ==
  ASSUME NEW q \in Seq(Operations), NEW op \in Operations
  PROVE  /\ Append(q, op) \in Seq(Operations) /\ Len(Append(q, op)) = Len(q) + 1
         /\ DOMAIN q = 1 .. Len(q) /\ DOMAIN Append(q, op) = 1 .. Len(q) + 1 /\ Len(q) \in Nat
         /\ \A i \in DOMAIN q : i \in DOMAIN Append(q, op) /\ Append(q, op)[i] = q[i]
         /\ Append(q, op)[Len(q) + 1] = op
OBVIOUS

LEMMA Operation ==
  /\ \A op \in Operations : op.type \in {"save", "delete", "flush", "shutdown"}
  /\ \A op \in Operations : op.type \in {"save", "delete"} <=> op \in KeyOps
  /\ \A op \in Operations : op.type = "flush" <=> op \in FlushOps
  /\ \A op \in KeyOps : Key(op) \in AllKeys /\ op \in Operations /\ op # NoOp
                        /\ op.req \in ReqIds /\ op.pos \in Tokens
  /\ \A op \in Operations : \A r : IsOn(op, r) => op \in KeyOps /\ r \in ReqIds /\ r = op.req
  /\ \A op : \A k : Saves(op, k) => IsOn(op, k.req)
  /\ \A r : ~IsOn(NoOp, r)
  /\ NoOp \notin KeyOps
<1>1. \A op \in Operations : op.type \in {"save", "delete", "flush", "shutdown"}
  BY DEF Operations, KeyOps, FlushOps
<1>2. \A op \in Operations : op.type \in {"save", "delete"} <=> op \in KeyOps
  BY DEF Operations, KeyOps, FlushOps
<1>3. \A op \in Operations : op.type = "flush" <=> op \in FlushOps
  BY DEF Operations, KeyOps, FlushOps
<1>4. \A op \in KeyOps : op.type # "none" /\ NoOp.type = "none"
  BY DEF KeyOps, NoOp
<1>5. \A op \in KeyOps : Key(op) \in AllKeys /\ op \in Operations
                         /\ op.req \in ReqIds /\ op.pos \in Tokens
  BY TokensAre DEF KeyOps, Key, Operations
<1>6. \A op : \A k : Saves(op, k) => IsOn(op, k.req)
  BY DEF Saves, IsOn, Key
<1>7. \A r : ~IsOn(NoOp, r)
  BY DEF NoOp, IsOn
<1>8. \A op \in Operations : \A r : IsOn(op, r) => op \in KeyOps /\ r \in ReqIds /\ r = op.req
  BY <1>2, <1>5 DEF IsOn
<1> QED BY <1>1, <1>2, <1>3, <1>4, <1>5, <1>6, <1>7, <1>8

-----------------------------------------------------------------------------
(***************************************************************************)
(* What a step does                                                        *)
(***************************************************************************)
\* evict_oldest hands an entry to save().
HandOver ==
  /\ evicting # <<>> /\ call[Engine].at = "idle" /\ ~closed
  /\ call' = [call EXCEPT ![Engine] = [Idle EXCEPT !.op = "save", !.req = Head(evicting).req,
                                         !.pos = Head(evicting).pos, !.at = "mark"]]
  /\ UNCHANGED <<storeVars, calls, restarts, historyVars>>

\* The disk store is not called.
Elsewhere ==
  /\ calls' \in 0 .. MaxCalls /\ calls <= calls'
  /\ UNCHANGED <<storeVars, call, restarts, historyVars>>

Begins(c) ==
  \/ \E r \in ReqIds, pos \in Positions : SaveBegin(c, r, pos)
  \/ \E r \in ReqIds : ClearBegin(c, r) \/ RestoreBegin(c, r)

LEMMA EveryMove ==
  ASSUME StoresInv, [Next]_vars
  PROVE  \/ Elsewhere
         \/ HandOver
         \/ \E c \in Callers : Begins(c) \/ FlushBegin(c) \/ CloseBegin(c) \/ CallStep(c)
         \/ Writer
         \/ Restart
<1>1. calls \in 0 .. MaxCalls
  BY DEF StoresInv, DiskInv, CallTypes
<1>2. ASSUME CacheStep, ~SaveEvicted PROVE Elsewhere
  <2>1. CacheCall
    BY <1>2 DEF CacheStep, Save, Restore, Clear, DecodeStep, Rollback, EvictOldest
  <2> QED BY <1>1, <2>1, StoreAssumption DEF CacheCall, Elsewhere
<1>3. ASSUME SaveEvicted PROVE HandOver \/ Elsewhere
  <2>1. CASE closed
    BY <1>1, <1>3, <2>1 DEF SaveEvicted, Elsewhere, diskVars
  <2>2. CASE ~closed
    BY <1>3, <2>2 DEF SaveEvicted, HandOver
  <2> QED BY <2>1, <2>2
<1>4. ASSUME DiskStep
      PROVE  \/ \E c \in Callers : Begins(c) \/ FlushBegin(c) \/ CloseBegin(c) \/ CallStep(c)
             \/ Writer
  BY <1>4, CacheAssumption DEF DiskStep, Calls, Begins
<1>5. UNCHANGED vars => Elsewhere
  BY <1>1 DEF vars, diskVars, Elsewhere
<1> QED BY <1>2, <1>3, <1>4, <1>5 DEF Next, RestartAll

\* A step of a caller changes its own call, and may put an operation on the queue.
Talks(c) ==
  /\ UNCHANGED <<table, high_water, writer>>
  /\ \E x \in Calling : call' = [call EXCEPT ![c] = x]
  /\ calls' \in 0 .. MaxCalls /\ calls <= calls'
  /\ write_queue' = write_queue \/ \E op \in Operations : write_queue' = Append(write_queue, op)
  /\ pending \subseteq pending' /\ pending' \subseteq ReqIds
  /\ closed' \in BOOLEAN /\ connected' \in BOOLEAN /\ (closed => closed')
  /\ owed \subseteq owed' /\ owed' \subseteq AllKeys /\ confirmed' \subseteq AllKeys
  /\ crowded \subseteq crowded' /\ crowded' \subseteq ReqIds /\ overlap' \subseteq ReqIds

LEMMA HandsOver ==
  ASSUME StoresInv, HandOver
  PROVE  /\ Talks(Engine) /\ Engine \in Callers
         /\ call'[Engine].at = "mark" /\ call'[Engine].sees = {}
         /\ UNCHANGED <<write_queue, pending, crowded, owed, confirmed, closed>>
<1>1. Head(evicting) \in AllKeys
  <2>1. evicting \in Seq(AllKeys) /\ evicting # <<>>
    BY DEF StoresInv, CacheTypes, HandOver
  <2> QED BY <2>1
<1> DEFINE x == [Idle EXCEPT !.op = "save", !.req = Head(evicting).req,
                             !.pos = Head(evicting).pos, !.at = "mark"]
<1>2. x \in Calling /\ x.at = "mark" /\ x.sees = {}
  BY <1>1, SomeRequest, TokensAre DEF Idle, Calling, Ops, Ats
<1>3. call' = [call EXCEPT ![Engine] = x] /\ UNCHANGED <<storeVars, calls, restarts, historyVars>>
  BY DEF HandOver
<1> HIDE DEF x
<1>4. CallTypes
  BY DEF StoresInv, DiskInv
<1>5. calls <= calls
  BY <1>4, StoreAssumption DEF CallTypes
<1>6. \E y \in Calling : call' = [call EXCEPT ![Engine] = y]
  BY <1>2, <1>3
<1>7. Talks(Engine)
  BY <1>3, <1>4, <1>5, <1>6 DEF Talks, CallTypes, storeVars, historyVars
<1> QED BY <1>2, <1>3, <1>4, <1>7, CacheAssumption DEF CallTypes, storeVars, historyVars

\* Entering a call.
LEMMA Entering ==
  ASSUME StoresInv, NEW c \in Callers, NEW op, NEW r, NEW pos, NEW at, NEW sees,
         Enter(c, op, r, pos, at, sees)
  PROVE  /\ call[c].at = "idle" /\ calls \in 0 .. MaxCalls /\ calls \in Nat
         /\ calls' = calls + 1 /\ calls' \in 0 .. MaxCalls /\ calls <= calls'
         /\ call' = [call EXCEPT ![c] = [op |-> op, req |-> r, pos |-> pos, at |-> at, sees |-> sees]]
         /\ call'[c] = [op |-> op, req |-> r, pos |-> pos, at |-> at, sees |-> sees]
<1>1. calls \in 0 .. MaxCalls /\ MaxCalls \in Nat /\ call \in [Callers -> Calling]
  BY StoreAssumption DEF StoresInv, DiskInv, CallTypes
<1> QED BY <1>1 DEF Enter

LEMMA BeginTalks ==
  ASSUME StoresInv, NEW c \in Callers, Begins(c)
  PROVE  /\ Talks(c) /\ UNCHANGED <<write_queue, pending, crowded, owed, confirmed, closed>>
         /\ call[c].at = "idle"
         /\ \/ call'[c].sees = {} /\ call'[c].at \notin {"put", "flush", "join", "read"}
            \/ \E r \in ReqIds : RestoreBegin(c, r)
<1>1. CallTypes
  BY DEF StoresInv, DiskInv
<1>2. ASSUME NEW r \in ReqIds, NEW pos \in Positions, SaveBegin(c, r, pos)
      PROVE  /\ Talks(c) /\ UNCHANGED <<write_queue, pending, crowded, owed, confirmed, closed>>
             /\ call[c].at = "idle"
             /\ call'[c].sees = {} /\ call'[c].at \notin {"put", "flush", "join", "read"}
  <2> DEFINE x == [op |-> "save", req |-> r, pos |-> pos, at |-> "mark", sees |-> {}]
  <2>1. x \in Calling
    BY TokensAre DEF Calling, Ops, Ats
  <2>2. Enter(c, "save", r, pos, "mark", {}) /\ UNCHANGED <<storeVars, restarts, historyVars>>
    BY <1>2 DEF SaveBegin
  <2>3. /\ call[c].at = "idle" /\ calls' \in 0 .. MaxCalls /\ calls <= calls'
        /\ call' = [call EXCEPT ![c] = x] /\ call'[c] = x
    BY <1>1, <2>2, StoreAssumption DEF Enter, CallTypes
  <2>4. x.sees = {} /\ x.at \notin {"put", "flush", "join", "read"}
    OBVIOUS
  <2> HIDE DEF x
  <2> QED BY <1>1, <2>1, <2>2, <2>3, <2>4 DEF Talks, CallTypes, storeVars, historyVars
<1>3. ASSUME NEW r \in ReqIds, ClearBegin(c, r)
      PROVE  /\ Talks(c) /\ UNCHANGED <<write_queue, pending, crowded, owed, confirmed, closed>>
             /\ call[c].at = "idle"
             /\ call'[c].sees = {} /\ call'[c].at \notin {"put", "flush", "join", "read"}
  <2> DEFINE x == [op |-> "delete", req |-> r, pos |-> 0, at |-> "wait", sees |-> {}]
  <2>1. x \in Calling
    BY TokensAre DEF Calling, Ops, Ats
  <2>2. Enter(c, "delete", r, 0, "wait", {}) /\ UNCHANGED <<storeVars, restarts, historyVars>>
    BY <1>3 DEF ClearBegin
  <2>3. /\ call[c].at = "idle" /\ calls' \in 0 .. MaxCalls /\ calls <= calls'
        /\ call' = [call EXCEPT ![c] = x] /\ call'[c] = x
    BY <1>1, <2>2, StoreAssumption DEF Enter, CallTypes
  <2>4. x.sees = {} /\ x.at \notin {"put", "flush", "join", "read"}
    OBVIOUS
  <2> HIDE DEF x
  <2> QED BY <1>1, <2>1, <2>2, <2>3, <2>4 DEF Talks, CallTypes, storeVars, historyVars
<1>4. ASSUME NEW r \in ReqIds, RestoreBegin(c, r)
      PROVE  /\ Talks(c) /\ UNCHANGED <<write_queue, pending, crowded, owed, confirmed, closed>>
             /\ call[c].at = "idle"
  <2> DEFINE S == IF r \in crowded THEN {} ELSE {k \in owed : k.req = r}
             x == [op |-> "restore", req |-> r, pos |-> 0, at |-> "wait", sees |-> S]
  <2>1. S \subseteq AllKeys
    BY <1>1 DEF CallTypes
  <2>2. Enter(c, "restore", r, 0, "wait", S) /\ UNCHANGED <<storeVars, restarts, historyVars>>
    BY <1>4 DEF RestoreBegin
  <2> HIDE DEF S
  <2>3. x \in Calling
    BY <2>1, TokensAre DEF Calling, Ops, Ats
  <2> QED BY <1>1, <2>2, <2>3, Entering DEF Talks, CallTypes, storeVars, historyVars
<1> QED BY <1>2, <1>3, <1>4 DEF Begins

LEMMA FlushTalks ==
  ASSUME StoresInv, NEW c \in Callers, FlushBegin(c)
  PROVE  /\ Talks(c) /\ UNCHANGED <<pending, crowded, owed, confirmed, closed>>
         /\ call[c].at = "idle" /\ calls' = calls + 1 /\ calls \in Nat
         /\ [type |-> "flush", by |-> c, event |-> calls] \in Operations
         /\ write_queue' = Append(write_queue, [type |-> "flush", by |-> c, event |-> calls])
         /\ call'[c].at = "flush" /\ call'[c].pos = calls /\ call'[c].sees = owed
<1>1. CallTypes
  BY DEF StoresInv, DiskInv
<1> DEFINE x == [op |-> "flush", req |-> Idle.req, pos |-> calls, at |-> "flush", sees |-> owed]
<1>2. Enter(c, "flush", Idle.req, calls, "flush", owed)
      /\ UNCHANGED <<table, high_water, pending, closed, connected, writer, restarts, historyVars>>
      /\ write_queue' = Append(write_queue, [type |-> "flush", by |-> c, event |-> calls])
  BY DEF FlushBegin
<1>3. calls \in Nat
  BY <1>2, Entering
<1>4. x \in Calling
  BY <1>1, <1>3, SomeRequest DEF Calling, Ops, Ats, CallTypes
<1>5. [type |-> "flush", by |-> c, event |-> calls] \in Operations
  BY <1>3 DEF Operations, FlushOps
<1> QED BY <1>1, <1>2, <1>4, <1>5, Entering DEF Talks, CallTypes, historyVars

LEMMA CloseTalks ==
  ASSUME StoresInv, NEW c \in Callers, CloseBegin(c)
  PROVE  /\ Talks(c) /\ UNCHANGED <<pending, crowded, owed, confirmed>> /\ closed'
         /\ call[c].at = "idle" /\ [type |-> "shutdown"] \in Operations
         /\ write_queue' = Append(write_queue, [type |-> "shutdown"])
         /\ call'[c].at = "join" /\ call'[c].sees = owed
<1>1. CallTypes
  BY DEF StoresInv, DiskInv
<1> DEFINE x == [op |-> "close", req |-> Idle.req, pos |-> 0, at |-> "join", sees |-> owed]
           S == {call[d].req : d \in {d \in Callers :
                   call[d].op \in {"save", "delete"} /\ call[d].at # "idle"}}
<1>2. /\ Enter(c, "close", Idle.req, 0, "join", owed) /\ closed' = TRUE
      /\ write_queue' = Append(write_queue, [type |-> "shutdown"])
      /\ overlap' = overlap \cup S
      /\ UNCHANGED <<table, high_water, pending, connected, writer, restarts, owed, confirmed,
                     crowded>>
  BY DEF CloseBegin
<1>3. S \subseteq ReqIds
  BY <1>1 DEF CallTypes, Calling
<1> HIDE DEF S
<1>4. x \in Calling
  BY <1>1, SomeRequest DEF Calling, Ops, Ats, CallTypes
<1>5. [type |-> "shutdown"] \in Operations
  BY DEF Operations
<1> QED BY <1>1, <1>2, <1>3, <1>4, <1>5, Entering DEF Talks, CallTypes

\* Going on in a call, and leaving it.
LEMMA GoingOn ==
  ASSUME StoresInv, NEW c \in Callers, NEW at \in Ats, GoTo(c, at),
         at \in {"mark", "put"} => call[c].op \in {"save", "delete"},
         at = "read" => call[c].op = "restore", at \notin {"wait", "join"}
  PROVE  /\ \E x \in Calling : call' = [call EXCEPT ![c] = x]
         /\ call'[c].at = at /\ call'[c].op = call[c].op /\ call'[c].req = call[c].req
         /\ call'[c].sees = call[c].sees
<1> DEFINE x == [call[c] EXCEPT !.at = at]
<1>1. call[c] \in Calling /\ call \in [Callers -> Calling]
  BY DEF StoresInv, DiskInv, CallTypes
<1>2. x \in Calling /\ x.at = at /\ x.op = call[c].op /\ x.req = call[c].req /\ x.sees = call[c].sees
  BY <1>1 DEF Calling
<1>3. call' = [call EXCEPT ![c] = x]
  BY <1>1 DEF GoTo
<1> QED BY <1>1, <1>2, <1>3

LEMMA Leaving ==
  ASSUME StoresInv, NEW c \in Callers, Leave(c)
  PROVE  (\E x \in Calling : call' = [call EXCEPT ![c] = x]) /\ call'[c] = Idle
BY SomeRequest DEF StoresInv, DiskInv, CallTypes, Leave

LEMMA StepTalks ==
  ASSUME StoresInv, NEW c \in Callers, CallStep(c)
  PROVE  Talks(c)
<1>1. CallTypes /\ call[c] \in Calling
  BY DEF StoresInv, DiskInv, CallTypes
<1>2. calls <= calls
  BY <1>1, StoreAssumption DEF CallTypes
<1>3. {"mark", "put", "read"} \subseteq Ats
  BY DEF Ats
<1>4. CASE WaitPending(c)
  <2> DEFINE at == IF call[c].op = "delete" THEN "mark" ELSE "read"
  <2>1. call[c].at = "wait" /\ GoTo(c, at) /\ UNCHANGED <<storeVars, calls, restarts, historyVars>>
    BY <1>4 DEF WaitPending
  <2>2. call[c].op \in {"delete", "restore"}
    BY <1>1, <2>1 DEF Calling
  <2>3. \E x \in Calling : call' = [call EXCEPT ![c] = x]
    <3>1. at \in Ats /\ (at \in {"mark", "put"} => call[c].op \in {"save", "delete"})
          /\ (at = "read" => call[c].op = "restore") /\ at \notin {"wait", "join"}
      BY <1>3, <2>2
    <3> QED BY <2>1, <3>1, GoingOn
  <2> HIDE DEF at
  <2> QED BY <1>1, <1>2, <2>1, <2>3 DEF Talks, CallTypes, storeVars, historyVars
<1>5. CASE MarkPending(c)
  <2>1. call[c].at = "mark" /\ GoTo(c, "put") /\ pending' = pending \cup {call[c].req}
        /\ crowded' \in {crowded, crowded \cup {call[c].req}}
        /\ UNCHANGED <<table, high_water, write_queue, closed, connected, writer, calls, restarts,
                       owed, confirmed, overlap>>
    BY <1>5 DEF MarkPending
  <2>2. call[c].op \in {"save", "delete"} /\ call[c].req \in ReqIds
    BY <1>1, <2>1 DEF Calling
  <2>3. \E x \in Calling : call' = [call EXCEPT ![c] = x]
    BY <1>3, <2>1, <2>2, GoingOn
  <2> QED BY <1>1, <1>2, <2>1, <2>2, <2>3 DEF Talks, CallTypes
<1>6. CASE PutOp(c)
  <2> DEFINE op == [type |-> call[c].op, req |-> call[c].req, pos |-> call[c].pos, created_at |-> calls]
  <2>1. /\ call[c].at = "put" /\ write_queue' = Append(write_queue, op)
        /\ owed' \in {owed, owed \cup {Key(call[c])}} /\ (owed' # owed => call[c].op = "save")
        /\ Leave(c)
        /\ UNCHANGED <<table, high_water, pending, closed, connected, writer, calls, restarts,
                       confirmed, overlap, crowded>>
    BY <1>6 DEF PutOp
  <2>2. op \in KeyOps
    BY <1>1, <2>1 DEF Calling, KeyOps, CallTypes
  <2>3. op \in Operations /\ Key(op) = Key(call[c]) /\ Key(op) \in AllKeys
    <3>1. Key(op) = Key(call[c])
      BY DEF Key
    <3> HIDE DEF op
    <3> QED BY <2>2, <3>1, Operation
  <2> HIDE DEF op
  <2> QED BY <1>1, <1>2, <2>1, <2>3, Leaving DEF Talks, CallTypes
<1>7. CASE RestoreRead(c)
  <2>1. Leave(c) /\ UNCHANGED <<storeVars, calls, restarts, historyVars>>
    BY <1>7 DEF RestoreRead
  <2> QED BY <1>1, <1>2, <2>1, Leaving DEF Talks, CallTypes, storeVars, historyVars
<1>8. CASE FlushEnd(c) \/ CloseEnd(c)
  <2>1. /\ Leave(c) /\ confirmed' \in {confirmed, confirmed \cup call[c].sees}
        /\ connected' \in {connected, FALSE}
        /\ UNCHANGED <<table, high_water, write_queue, pending, closed, writer, calls, owed,
                       overlap, crowded>>
    BY <1>8 DEF FlushEnd, CloseEnd, storeVars
  <2>2. call[c].sees \subseteq AllKeys
    BY <1>1 DEF Calling
  <2> QED BY <1>1, <1>2, <2>1, <2>2, Leaving DEF Talks, CallTypes
<1> QED BY <1>4, <1>5, <1>6, <1>7, <1>8 DEF CallStep

\* Every caller of a store.
LEMMA CallersTalk ==
  ASSUME StoresInv, NEW c \in Callers,
         Begins(c) \/ FlushBegin(c) \/ CloseBegin(c) \/ CallStep(c)
  PROVE  Talks(c)
BY BeginTalks, FlushTalks, CloseTalks, StepTalks

\* The writer has come to an entry: lost are the keys that nobody has to find any more.
Writes(lost) ==
  /\ writer.at = "entry" /\ writer' = [writer EXCEPT !.at = "done"]
  /\ Keys(table) \ lost \subseteq Keys(table')
  /\ \A k : InHand(k) => k \in Keys(table') \/ k \in lost
  /\ Excuse(lost)
  /\ UNCHANGED <<write_queue, pending, closed, connected, calls, restarts, overlap, crowded>>

LEMMA KeysOf ==
  \A S, T : S \subseteq T => Keys(S) \subseteq Keys(T)
BY DEF Keys

LEMMA FewerRows ==
  ASSUME TableTypes, table' \subseteq table, high_water' = high_water
  PROVE  TableTypes'
<1>1. IsFiniteSet(table) /\ IsFiniteSet(table') /\ Cardinality(table') <= Cardinality(table)
  BY FS_Subset DEF TableTypes
<1>2. Cardinality(table) \in Nat /\ Cardinality(table') \in Nat
  BY <1>1, FS_CardinalityType
<1> QED BY <1>1, <1>2 DEF TableTypes

LEMMA WriterWrites ==
  ASSUME StoresInv, SaveEntry \/ DeleteEntries \/ EntryFails
  PROVE  TableTypes' /\ \E lost : Writes(lost)
<1>1. TableTypes /\ WriterTypes
  BY DEF StoresInv, DiskInv
<1>2. writer.at = "entry" /\ writer' = [writer EXCEPT !.at = "done"]
      /\ UNCHANGED <<write_queue, pending, closed, connected, calls, restarts, overlap, crowded>>
  BY DEF SaveEntry, DeleteEntries, EntryFails
<1>3. writer.op \in KeyOps
  BY <1>1, <1>2 DEF WriterTypes
<1>4. CASE SaveEntry
  <2> DEFINE kept == {row \in table \ Evicted : Key(row) # Key(writer.op)}
             lost == Keys(Evicted) \ {Key(writer.op)}
  <2>1. /\ writer.op.type = "save" /\ table' = kept \cup {Row(writer.op)}
        /\ high_water' = Max({high_water, Cardinality(table')}) /\ Excuse(lost)
    BY <1>4 DEF SaveEntry
  <2>2. Row(writer.op) \in Rows /\ Key(Row(writer.op)) = Key(writer.op)
    BY <1>3 DEF Row, Rows, Key, KeyOps
  <2>3. Keys(table') = Keys(kept) \cup {Key(writer.op)}
    BY <2>1, <2>2 DEF Keys
  <2>4. Keys(table) \ lost \subseteq Keys(table')
    <3>1. ASSUME NEW row \in table, Key(row) \notin lost PROVE Key(row) \in Keys(table')
      BY <2>3, <3>1 DEF Keys
    <3> QED BY <3>1 DEF Keys
  <2>5. \A k : InHand(k) => k \in Keys(table')
    BY <2>3 DEF InHand, Saves
  <2>6. kept \subseteq table /\ \A row \in kept : Key(row) # Key(writer.op)
    OBVIOUS
  <2> HIDE DEF kept, lost
  <2>7. TableTypes'
    <3>1. IsFiniteSet(table')
      BY <1>1, <2>1, <2>6, FS_Subset, FS_AddElement DEF TableTypes
    <3>2. Cardinality(table') \in Nat
      BY <3>1, FS_CardinalityType
    <3>3. high_water' \in Nat /\ Cardinality(table') <= high_water'
      BY <1>1, <2>1, <3>2, MaxOfTwo DEF TableTypes
    <3>4. table' \subseteq Rows /\ \A x, y \in table' : Key(x) = Key(y) => x = y
      BY <1>1, <2>1, <2>2, <2>6 DEF TableTypes
    <3> QED BY <3>1, <3>3, <3>4 DEF TableTypes
  <2> QED BY <1>2, <2>1, <2>4, <2>5, <2>7 DEF Writes
<1>5. CASE DeleteEntries
  <2> DEFINE lost == Keys(table \ table')
  <2>1. /\ writer.op.type = "delete" /\ table' \subseteq table /\ high_water' = high_water
        /\ Excuse(lost)
    BY <1>5 DEF DeleteEntries
  <2>2. Keys(table) \ lost \subseteq Keys(table')
    BY DEF Keys
  <2>3. \A k : ~InHand(k)
    BY <2>1 DEF InHand, Saves
  <2>4. TableTypes'
    BY <1>1, <2>1, FewerRows
  <2> HIDE DEF lost
  <2> QED BY <1>2, <2>1, <2>2, <2>3, <2>4 DEF Writes
<1>6. CASE EntryFails
  <2> DEFINE lost == Keys(table \ table') \cup
              (IF writer.op.type = "save" THEN {Key(writer.op)} \ Keys(table') ELSE {})
  <2>1. /\ table' \subseteq table /\ high_water' = high_water /\ Excuse(lost)
    BY <1>6 DEF EntryFails
  <2>2. Keys(table) \ lost \subseteq Keys(table')
    BY DEF Keys
  <2>3. \A k : InHand(k) => k \in Keys(table') \/ k \in lost
    BY DEF InHand, Saves
  <2>4. TableTypes'
    BY <1>1, <2>1, FewerRows
  <2> HIDE DEF lost
  <2> QED BY <1>2, <2>1, <2>2, <2>3, <2>4 DEF Writes
<1> QED BY <1>4, <1>5, <1>6

\* What an excuse leaves.
LEMMA Excused ==
  ASSUME StoresInv, NEW lost, Excuse(lost), NEW c \in Callers
  PROVE  /\ call' \in [Callers -> Calling]
         /\ call'[c].sees = call[c].sees \ lost
         /\ call'[c].op = call[c].op /\ call'[c].req = call[c].req
         /\ call'[c].pos = call[c].pos /\ call'[c].at = call[c].at
<1>1. call \in [Callers -> Calling]
  BY DEF StoresInv, DiskInv, CallTypes
<1>2. \A x \in Calling : [x EXCEPT !.sees = @ \ lost] \in Calling
  BY DEF Calling
<1>3. call' = [d \in Callers |-> [call[d] EXCEPT !.sees = @ \ lost]]
  BY DEF Excuse
<1>4. call' \in [Callers -> Calling]
  BY <1>1, <1>2, <1>3
<1>5. \A x \in Calling : LET y == [x EXCEPT !.sees = @ \ lost] IN
        y.sees = x.sees \ lost /\ y.op = x.op /\ y.req = x.req /\ y.pos = x.pos /\ y.at = x.at
  BY DEF Calling
<1> QED BY <1>1, <1>3, <1>4, <1>5

\* The writer takes an operation; a flush is told, if it still waits.
LEMMA Gets ==
  ASSUME StoresInv, WriterGet
  PROVE  /\ write_queue \in Seq(Operations) /\ write_queue # <<>> /\ write_queue' = Tail(write_queue)
         /\ writer.at = "get" /\ writer.op = NoOp
         /\ IF Head(write_queue) \in KeyOps
            THEN writer'.at = "entry" /\ writer'.op = Head(write_queue)
            ELSE writer'.at = "get" /\ writer'.op = NoOp
         /\ writer'.draining = (writer.draining \/ Head(write_queue).type = "shutdown")
         /\ WriterTypes' /\ call' \in [Callers -> Calling]
         /\ \A c \in Callers :
              \/ call'[c] = call[c]
              \/ /\ Awaits(c, 1) /\ call'[c].at = "flushed" /\ call'[c].sees = call[c].sees
         /\ UNCHANGED <<table, high_water, pending, closed, connected, calls, owed, confirmed,
                        overlap, crowded>>
<1>1. WriterTypes /\ call \in [Callers -> Calling]
  BY DEF StoresInv, DiskInv, CallTypes
<1> DEFINE op == Head(write_queue)
<1>2. /\ writer.at = "get" /\ write_queue # <<>> /\ write_queue' = Tail(write_queue)
      /\ writer' = [writer EXCEPT
            !.at = IF op.type \in {"save", "delete"} THEN "entry" ELSE "get",
            !.op = IF op.type \in {"save", "delete"} THEN op ELSE NoOp,
            !.draining = @ \/ op.type = "shutdown"]
      /\ call' = IF /\ op.type = "flush" /\ ~writer.draining
                    /\ call[op.by].at = "flush" /\ call[op.by].pos = op.event
                 THEN [call EXCEPT ![op.by].at = "flushed"] ELSE call
      /\ UNCHANGED <<table, high_water, pending, closed, connected, calls, restarts, historyVars>>
  BY DEF WriterGet
<1>3. op \in Operations /\ op = write_queue[1] /\ Tail(write_queue) \in Seq(Operations)
      /\ write_queue \in Seq(Operations)
  BY <1>1, <1>2, TailOf DEF WriterTypes
<1> HIDE DEF op
<1>4. op.type \in {"save", "delete"} <=> op \in KeyOps
  BY <1>3, Operation
<1>5. writer.op = NoOp
  BY <1>1, <1>2 DEF WriterTypes
<1>6. /\ IF op \in KeyOps THEN writer'.at = "entry" /\ writer'.op = op
         ELSE writer'.at = "get" /\ writer'.op = NoOp
      /\ writer'.draining = (writer.draining \/ op.type = "shutdown")
      /\ writer' \in [at : {"get", "entry", "done", "gone"}, op : KeyOps \cup {NoOp}, draining : BOOLEAN]
  BY <1>1, <1>2, <1>4 DEF WriterTypes
<1>7. WriterTypes'
  BY <1>2, <1>3, <1>6, Operation DEF WriterTypes
<1>8. CASE call' = call
  BY <1>1, <1>2, <1>3, <1>5, <1>6, <1>7, <1>8 DEF op, historyVars
<1>9. CASE /\ op.type = "flush" /\ call[op.by].at = "flush" /\ call[op.by].pos = op.event
           /\ call' = [call EXCEPT ![op.by].at = "flushed"]
  <2>1. op.by \in Callers
    BY <1>3, <1>9, Operation DEF FlushOps
  <2> DEFINE x == [call[op.by] EXCEPT !.at = "flushed"]
  <2>2. x \in Calling /\ x.at = "flushed" /\ x.sees = call[op.by].sees
    BY <1>1, <2>1 DEF Calling, Ats
  <2>3. call' = [call EXCEPT ![op.by] = x]
    BY <1>1, <1>9, <2>1
  <2> HIDE DEF x
  <2>4. call' \in [Callers -> Calling] /\ call'[op.by] = x /\ \A c \in Callers : c # op.by => call'[c] = call[c]
    BY <1>1, <2>1, <2>2, <2>3
  <2>5. Awaits(op.by, 1)
    BY <1>3, <1>9 DEF Awaits
  <2> QED BY <1>2, <1>3, <1>5, <1>6, <1>7, <2>2, <2>4, <2>5 DEF op, historyVars
<1> QED BY <1>2, <1>8, <1>9

-----------------------------------------------------------------------------
(***************************************************************************)
(* Types                                                                   *)
(***************************************************************************)
LEMMA TypesByTalk ==
  ASSUME StoresInv, NEW c \in Callers, Talks(c)
  PROVE  TableTypes' /\ WriterTypes' /\ CallTypes'
<1>1. TableTypes /\ WriterTypes /\ CallTypes
  BY DEF StoresInv, DiskInv
<1>2. TableTypes'
  BY <1>1 DEF TableTypes, Talks
<1>3. write_queue' \in Seq(Operations)
  BY <1>1, AppendOf DEF Talks, WriterTypes
<1>4. WriterTypes'
  BY <1>1, <1>3 DEF Talks, WriterTypes
<1>5. call' \in [Callers -> Calling]
  BY <1>1 DEF Talks, CallTypes
<1>6. CallTypes'
  BY <1>5 DEF Talks, CallTypes
<1> QED BY <1>2, <1>4, <1>6

LEMMA TypesStep == StoresInv /\ [Next]_vars => TableTypes' /\ WriterTypes' /\ CallTypes'
<1> SUFFICES ASSUME StoresInv, [Next]_vars PROVE TableTypes' /\ WriterTypes' /\ CallTypes'
  OBVIOUS
<1>1. TableTypes /\ WriterTypes /\ CallTypes
  BY DEF StoresInv, DiskInv
<1> DEFINE Goal == TableTypes' /\ WriterTypes' /\ CallTypes'
<1>2. CASE Elsewhere
  <2>1. UNCHANGED <<storeVars, call, historyVars>> /\ calls' \in 0 .. MaxCalls
    BY <1>2 DEF Elsewhere
  <2> QED BY <1>1, <2>1 DEF storeVars, historyVars, TableTypes, WriterTypes, CallTypes
<1>3. CASE HandOver
  BY <1>3, HandsOver, TypesByTalk
<1>4. ASSUME NEW c \in Callers, Begins(c) \/ FlushBegin(c) \/ CloseBegin(c) \/ CallStep(c)
      PROVE  Goal
  BY <1>4, CallersTalk, TypesByTalk
<1>5. CASE WriterGet
  <2>1. WriterTypes' /\ call' \in [Callers -> Calling]
        /\ UNCHANGED <<table, high_water, pending, closed, connected, calls, owed, confirmed,
                       overlap, crowded>>
    BY <1>5, Gets
  <2> QED BY <1>1, <2>1 DEF TableTypes, CallTypes
<1>6. CASE SaveEntry \/ DeleteEntries \/ EntryFails
  <2>1. PICK lost : Writes(lost)
    BY <1>6, WriterWrites
  <2>2. TableTypes'
    BY <1>6, WriterWrites
  <2>3. WriterTypes'
    BY <1>1, <2>1 DEF Writes, WriterTypes
  <2>4. call' \in [Callers -> Calling]
    <3>1. Excuse(lost)
      BY <2>1 DEF Writes
    <3>2. CASE Callers = {}
      BY <3>1, <3>2 DEF Excuse
    <3>3. ASSUME NEW c \in Callers PROVE call' \in [Callers -> Calling]
      BY <3>1, Excused
    <3> QED BY <3>2, <3>3
  <2>5. CallTypes'
    BY <1>1, <2>1, <2>4 DEF Writes, Excuse, CallTypes
  <2> QED BY <2>2, <2>3, <2>5
<1>7. CASE MarkDone \/ WriterEnds
  <2>1. /\ UNCHANGED <<table, high_water, write_queue, closed, connected, call, calls, owed,
                       confirmed, overlap>>
        /\ pending' \subseteq pending /\ crowded' \subseteq crowded
    BY <1>7 DEF MarkDone, WriterEnds, historyVars
  <2>2. WriterTypes'
    BY <1>1, <1>7 DEF MarkDone, WriterEnds, WriterTypes
  <2> QED BY <1>1, <2>1, <2>2 DEF TableTypes, CallTypes
<1>8. CASE Restart
  <2>1. /\ write_queue' = <<>> /\ pending' = {} /\ closed' = FALSE /\ connected' = TRUE
        /\ writer' = WriterStart /\ call' = [c \in Callers |-> Idle]
        /\ owed' = owed \cap Keys(table) /\ overlap' = {} /\ crowded' = {}
        /\ UNCHANGED <<table, high_water, calls, confirmed>>
    BY <1>8 DEF Restart
  <2>2. WriterTypes'
    BY <2>1 DEF WriterTypes, WriterStart
  <2> QED BY <1>1, <2>1, <2>2, SomeRequest DEF TableTypes, CallTypes
<1> HIDE DEF Goal
<1>9. Goal
  BY <1>2, <1>3, <1>4, <1>5, <1>6, <1>7, <1>8, EveryMove DEF Writer, Goal
<1> QED BY <1>9 DEF Goal

-----------------------------------------------------------------------------
(***************************************************************************)
(* The LRU cache                                                           *)
(***************************************************************************)
\* A part of a sequence.
LEMMA PartOf ==
  ASSUME NEW S, NEW q \in Seq(S), NEW m \in 1 .. Len(q) + 1, NEW n \in 0 .. Len(q), m <= n + 1
  PROVE  /\ SubSeq(q, m, n) \in Seq(S) /\ Len(SubSeq(q, m, n)) = n - m + 1
         /\ \A i \in 1 .. n - m + 1 : SubSeq(q, m, n)[i] = q[m + i - 1] /\ m + i - 1 \in DOMAIN q
OBVIOUS

\* Where the entry of r is.
LEMMA PlaceIs ==
  ASSUME CacheTypes, NEW r, Cached(r)
  PROVE  /\ PlaceOf(r) \in DOMAIN cpu_cache /\ cpu_cache[PlaceOf(r)].req = r
         /\ EntryOf(r) \in AllKeys /\ EntryOf(r).req = r
         /\ \A j \in DOMAIN cpu_cache : cpu_cache[j].req = r => j = PlaceOf(r)
BY DEF CacheTypes, Cached, PlaceOf, EntryOf

\* Without r the cache keeps its order, and nothing of r.
LEMMA OthersAre ==
  ASSUME CacheTypes, NEW r
  PROVE  /\ Others(r) \in Seq(AllKeys) /\ Len(Others(r)) \in Nat
         /\ Len(Others(r)) = IF Cached(r) THEN Len(cpu_cache) - 1 ELSE Len(cpu_cache)
         /\ \A i \in DOMAIN Others(r) : Others(r)[i].req # r
         /\ \A i, j \in DOMAIN Others(r) : Others(r)[i].req = Others(r)[j].req => i = j
<1>1. cpu_cache \in Seq(AllKeys) /\ \A i, j \in DOMAIN cpu_cache : cpu_cache[i].req = cpu_cache[j].req => i = j
  BY DEF CacheTypes
<1>2. CASE ~Cached(r)
  BY <1>1, <1>2 DEF Others, Cached
<1>3. CASE Cached(r)
  <2> DEFINE n == PlaceOf(r)
             a == SubSeq(cpu_cache, 1, n - 1)
             b == SubSeq(cpu_cache, n + 1, Len(cpu_cache))
  <2>1. n \in 1 .. Len(cpu_cache) /\ Len(cpu_cache) \in Nat /\ DOMAIN cpu_cache = 1 .. Len(cpu_cache)
        /\ \A j \in DOMAIN cpu_cache : cpu_cache[j].req = r => j = n
    BY <1>1, <1>3, PlaceIs
  <2>2. Others(r) = a \o b
    BY <1>3 DEF Others, RemoveAt
  <2> HIDE DEF n
  <2>3. /\ a \in Seq(AllKeys) /\ Len(a) = n - 1
        /\ \A i \in 1 .. n - 1 : a[i] = cpu_cache[i]
    <3>1. 1 \in 1 .. Len(cpu_cache) + 1 /\ n - 1 \in 0 .. Len(cpu_cache) /\ 1 <= (n - 1) + 1
      BY <2>1
    <3> QED BY <1>1, <2>1, <3>1, PartOf
  <2>4. /\ b \in Seq(AllKeys) /\ Len(b) = Len(cpu_cache) - n
        /\ \A i \in 1 .. Len(cpu_cache) - n : b[i] = cpu_cache[n + i]
    <3>1. n + 1 \in 1 .. Len(cpu_cache) + 1 /\ Len(cpu_cache) \in 0 .. Len(cpu_cache)
          /\ n + 1 <= Len(cpu_cache) + 1
      BY <2>1
    <3>2. /\ b \in Seq(AllKeys) /\ Len(b) = Len(cpu_cache) - (n + 1) + 1
          /\ \A i \in 1 .. Len(cpu_cache) - (n + 1) + 1 : b[i] = cpu_cache[(n + 1) + i - 1]
      BY <1>1, <3>1, PartOf
    <3>3. /\ Len(cpu_cache) - (n + 1) + 1 = Len(cpu_cache) - n
          /\ \A i \in 1 .. Len(cpu_cache) - n : (n + 1) + i - 1 = n + i
      BY <2>1
    <3> QED BY <3>2, <3>3
  <2> HIDE DEF a, b
  <2>5. /\ Others(r) \in Seq(AllKeys) /\ Len(Others(r)) = Len(cpu_cache) - 1
        /\ \A i \in 1 .. Len(cpu_cache) - 1 :
             Others(r)[i] = cpu_cache[IF i < n THEN i ELSE i + 1]
    <3>1. Others(r) \in Seq(AllKeys) /\ Len(Others(r)) = Len(a) + Len(b)
          /\ \A i \in 1 .. Len(a) + Len(b) :
               Others(r)[i] = IF i <= Len(a) THEN a[i] ELSE b[i - Len(a)]
      BY <2>2, <2>3, <2>4, ConcatProperties
    <3>2. ASSUME NEW i \in 1 .. Len(cpu_cache) - 1
          PROVE  Others(r)[i] = cpu_cache[IF i < n THEN i ELSE i + 1]
      <4>1. CASE i < n
        <5>1. i <= Len(a) /\ i \in 1 .. Len(a) + Len(b) /\ i \in 1 .. n - 1
          BY <2>1, <2>3, <2>4, <4>1
        <5> QED BY <2>3, <3>1, <4>1, <5>1
      <4>2. CASE i >= n
        <5>1. i - Len(a) \in 1 .. Len(cpu_cache) - n /\ ~(i <= Len(a)) /\ n + (i - Len(a)) = i + 1
          BY <2>1, <2>3, <4>2
        <5>2. i \in 1 .. Len(a) + Len(b)
          BY <2>1, <2>3, <2>4
        <5>3. Others(r)[i] = b[i - Len(a)] /\ b[i - Len(a)] = cpu_cache[n + (i - Len(a))]
          BY <2>4, <3>1, <5>1, <5>2
        <5> QED BY <2>1, <4>2, <5>1, <5>3
      <4> QED BY <2>1, <4>1, <4>2
    <3> QED BY <2>1, <2>3, <2>4, <3>1, <3>2
  <2>6. DOMAIN Others(r) = 1 .. Len(cpu_cache) - 1
    BY <2>5
  <2>7. \A i \in DOMAIN Others(r) : Others(r)[i].req # r
    BY <1>1, <2>1, <2>5, <2>6
  <2>8. ASSUME NEW i \in DOMAIN Others(r), NEW j \in DOMAIN Others(r), Others(r)[i].req = Others(r)[j].req
        PROVE  i = j
    <3> DEFINE x == IF i < n THEN i ELSE i + 1
               y == IF j < n THEN j ELSE j + 1
    <3>1. x \in DOMAIN cpu_cache /\ y \in DOMAIN cpu_cache
      BY <2>1, <2>6
    <3>2. Others(r)[i] = cpu_cache[x] /\ Others(r)[j] = cpu_cache[y]
      BY <2>5, <2>6
    <3>3. x = y => i = j
      BY <2>1, <2>6
    <3> HIDE DEF x, y
    <3> QED BY <1>1, <2>8, <3>1, <3>2, <3>3
  <2> QED BY <1>3, <2>1, <2>5, <2>7, <2>8
<1> QED BY <1>2, <1>3

\* The entry of r, or a new one, as the most recently used.
LEMMA PutLast ==
  ASSUME CacheTypes, NEW r, NEW e \in AllKeys, e.req = r, NEW q \in Seq(AllKeys),
         Len(q) < MaxCpuEntries, \A i \in DOMAIN q : q[i].req # r,
         \A i, j \in DOMAIN q : q[i].req = q[j].req => i = j
  PROVE  /\ Append(q, e) \in Seq(AllKeys) /\ Len(Append(q, e)) <= MaxCpuEntries
         /\ \A i, j \in DOMAIN Append(q, e) : Append(q, e)[i].req = Append(q, e)[j].req => i = j
<1>1. /\ Len(q) \in Nat /\ DOMAIN q = 1 .. Len(q) /\ DOMAIN Append(q, e) = 1 .. Len(q) + 1
      /\ \A i \in 1 .. Len(q) : Append(q, e)[i] = q[i]
      /\ Append(q, e)[Len(q) + 1] = e /\ Append(q, e) \in Seq(AllKeys)
      /\ Len(Append(q, e)) = Len(q) + 1
  OBVIOUS
<1>2. Len(q) + 1 <= MaxCpuEntries
  BY <1>1, CacheAssumption
<1>3. ASSUME NEW i \in 1 .. Len(q) + 1, NEW j \in 1 .. Len(q) + 1,
             Append(q, e)[i].req = Append(q, e)[j].req
      PROVE  i = j
  <2>1. CASE i \in 1 .. Len(q) /\ j \in 1 .. Len(q)
    BY <1>1, <1>3, <2>1
  <2>2. CASE i \in 1 .. Len(q) /\ j = Len(q) + 1
    BY <1>1, <1>3, <2>2
  <2>3. CASE i = Len(q) + 1 /\ j \in 1 .. Len(q)
    BY <1>1, <1>3, <2>3
  <2> QED BY <1>1, <2>1, <2>2, <2>3
<1> QED BY <1>1, <1>2, <1>3

LEMMA MovedToEnd ==
  ASSUME CacheTypes, NEW r, Cached(r)
  PROVE  /\ MoveToEnd(r) \in Seq(AllKeys) /\ Len(MoveToEnd(r)) <= MaxCpuEntries
         /\ \A i, j \in DOMAIN MoveToEnd(r) : MoveToEnd(r)[i].req = MoveToEnd(r)[j].req => i = j
<1>1. Len(cpu_cache) \in Nat /\ Len(cpu_cache) <= MaxCpuEntries
  BY DEF CacheTypes
<1>2. Len(Others(r)) < MaxCpuEntries
  BY <1>1, OthersAre, CacheAssumption
<1> QED BY <1>2, OthersAre, PlaceIs, PutLast DEF MoveToEnd

LEMMA KeyIs ==
  ASSUME NEW r \in ReqIds, NEW pos \in Tokens
  PROVE  [req |-> r, pos |-> pos] \in AllKeys /\ [req |-> r, pos |-> pos].req = r
BY TokensAre

LEMMA CacheBySave ==
  ASSUME CacheTypes, NEW r \in ReqIds, Save(r)
  PROVE  CacheTypes'
<1> DEFINE full == Len(cpu_cache) >= MaxCpuEntries
           kept == IF full THEN Tail(cpu_cache) ELSE cpu_cache
           e == [req |-> r, pos |-> computed[r]]
<1>1. /\ cpu_cache' = IF Cached(r) THEN MoveToEnd(r) ELSE Append(kept, e)
      /\ checkpoints' = IF ~Cached(r) /\ full
                        THEN [checkpoints EXCEPT ![Head(cpu_cache).req] = <<>>] ELSE checkpoints
      /\ UNCHANGED <<evicting, computed>>
  BY DEF Save
<1>2. /\ checkpoints' \in [ReqIds -> Seq(Snapshots)]
      /\ \A q \in ReqIds : Len(checkpoints'[q]) <= MaxCheckpoints
  <2>1. <<>> \in Seq(Snapshots) /\ Len(<<>>) = 0 /\ 0 <= MaxCheckpoints
    BY CacheAssumption
  <2>2. \A x : LET g == [checkpoints EXCEPT ![x] = <<>>] IN
          /\ g \in [ReqIds -> Seq(Snapshots)]
          /\ \A q \in ReqIds : Len(g[q]) <= MaxCheckpoints
    BY <2>1 DEF CacheTypes
  <2> QED BY <1>1, <2>2 DEF CacheTypes
<1>3. CASE Cached(r)
  BY <1>1, <1>2, <1>3, MovedToEnd DEF CacheTypes
<1>4. CASE ~Cached(r)
  <2>1. e \in AllKeys /\ e.req = r
    BY KeyIs DEF CacheTypes
  <2>2. /\ cpu_cache \in Seq(AllKeys) /\ Len(cpu_cache) \in Nat /\ Len(cpu_cache) <= MaxCpuEntries
        /\ DOMAIN cpu_cache = 1 .. Len(cpu_cache)
        /\ \A i, j \in DOMAIN cpu_cache : cpu_cache[i].req = cpu_cache[j].req => i = j
        /\ \A i \in DOMAIN cpu_cache : cpu_cache[i].req # r
    BY <1>4 DEF CacheTypes, Cached
  <2>3. /\ kept \in Seq(AllKeys) /\ Len(kept) < MaxCpuEntries
        /\ \A i \in DOMAIN kept : kept[i].req # r
        /\ \A i, j \in DOMAIN kept : kept[i].req = kept[j].req => i = j
    <3>1. CASE full
      <4>1. cpu_cache # <<>>
        BY <2>2, <3>1, CacheAssumption
      <4>2. /\ Tail(cpu_cache) \in Seq(AllKeys) /\ Len(Tail(cpu_cache)) = Len(cpu_cache) - 1
            /\ DOMAIN Tail(cpu_cache) = 1 .. Len(cpu_cache) - 1
            /\ \A i \in 1 .. Len(cpu_cache) - 1 : Tail(cpu_cache)[i] = cpu_cache[i + 1]
        BY <2>2, <4>1, HeadTailProperties
      <4>3. \A i \in 1 .. Len(cpu_cache) - 1 : i + 1 \in DOMAIN cpu_cache
        BY <2>2
      <4>4. Len(cpu_cache) - 1 < MaxCpuEntries
        BY <2>2, CacheAssumption
      <4>5. \A i, j \in 1 .. Len(cpu_cache) - 1 : i + 1 = j + 1 => i = j
        OBVIOUS
      <4> QED BY <2>2, <3>1, <4>2, <4>3, <4>4, <4>5
    <3>2. CASE ~full
      BY <2>2, <3>2, CacheAssumption
    <3> QED BY <3>1, <3>2
  <2> HIDE DEF kept, e
  <2>4. /\ cpu_cache' \in Seq(AllKeys) /\ Len(cpu_cache') <= MaxCpuEntries
        /\ \A i, j \in DOMAIN cpu_cache' : cpu_cache'[i].req = cpu_cache'[j].req => i = j
    BY <1>1, <1>4, <2>1, <2>3, PutLast
  <2> QED BY <1>1, <1>2, <2>4 DEF CacheTypes
<1> QED BY <1>3, <1>4

LEMMA NewestAre ==
  ASSUME NEW q \in Seq(Snapshots)
  PROVE  Newest(q) \in Seq(Snapshots) /\ Len(Newest(q)) <= MaxCheckpoints
<1> DEFINE m == Max({1, Len(q) - MaxCheckpoints + 1})
<1>1. Len(q) \in Nat /\ MaxCheckpoints \in Nat
  BY CacheAssumption
<1>2. m = IF 1 >= Len(q) - MaxCheckpoints + 1 THEN 1 ELSE Len(q) - MaxCheckpoints + 1
  BY <1>1, MaxOfTwo
<1> HIDE DEF m
<1>3. m \in 1 .. Len(q) + 1 /\ Len(q) \in 0 .. Len(q) /\ m <= Len(q) + 1
      /\ Len(q) - m + 1 <= MaxCheckpoints
  BY <1>1, <1>2
<1>4. Newest(q) = SubSeq(q, m, Len(q))
  BY DEF Newest, m
<1> QED BY <1>3, <1>4, PartOf

LEMMA CacheByDecode ==
  ASSUME CacheTypes, NEW r \in ReqIds, DecodeStep(r)
  PROVE  CacheTypes'
<1> DEFINE x == [pos |-> computed[r], absorbed |-> computed[r] + 1]
<1>1. /\ computed[r] < Max(Positions) /\ computed' = [computed EXCEPT ![r] = @ + 1]
      /\ \/ checkpoints' = checkpoints
         \/ checkpoints' = [checkpoints EXCEPT ![r] = Newest(Append(@, x))]
      /\ UNCHANGED <<cpu_cache, evicting>>
  BY DEF DecodeStep
<1>2. computed \in [ReqIds -> Tokens] /\ computed[r] \in Tokens /\ computed[r] + 1 \in Tokens
  BY <1>1, StoreAssumption DEF CacheTypes, Tokens
<1>3. x \in Snapshots
  BY <1>2 DEF Snapshots
<1> HIDE DEF x
<1>4. checkpoints[r] \in Seq(Snapshots) /\ Append(checkpoints[r], x) \in Seq(Snapshots)
  BY <1>3 DEF CacheTypes
<1>5. Newest(Append(checkpoints[r], x)) \in Seq(Snapshots)
      /\ Len(Newest(Append(checkpoints[r], x))) <= MaxCheckpoints
  BY <1>4, NewestAre
<1>6. /\ checkpoints' \in [ReqIds -> Seq(Snapshots)]
      /\ \A q \in ReqIds : Len(checkpoints'[q]) <= MaxCheckpoints
  BY <1>1, <1>5 DEF CacheTypes
<1>7. computed' \in [ReqIds -> Tokens]
  BY <1>1, <1>2
<1> QED BY <1>1, <1>6, <1>7 DEF CacheTypes

LEMMA CacheByEviction ==
  ASSUME CacheTypes, NEW n \in Nat, EvictOldest(n)
  PROVE  CacheTypes'
<1>1. /\ n \in 1 .. Len(cpu_cache)
      /\ cpu_cache' = SubSeq(cpu_cache, n + 1, Len(cpu_cache))
      /\ evicting' = SubSeq(cpu_cache, 1, n) /\ computed' = computed
      /\ checkpoints' = [r \in ReqIds |->
           IF \E i \in 1 .. n : cpu_cache[i].req = r THEN <<>> ELSE checkpoints[r]]
  BY DEF EvictOldest
<1>2. /\ cpu_cache \in Seq(AllKeys) /\ Len(cpu_cache) \in Nat /\ Len(cpu_cache) <= MaxCpuEntries
      /\ DOMAIN cpu_cache = 1 .. Len(cpu_cache)
      /\ \A i, j \in DOMAIN cpu_cache : cpu_cache[i].req = cpu_cache[j].req => i = j
  BY DEF CacheTypes
<1>3. n + 1 \in 1 .. Len(cpu_cache) + 1 /\ Len(cpu_cache) \in 0 .. Len(cpu_cache)
      /\ n + 1 <= Len(cpu_cache) + 1 /\ n \in 0 .. Len(cpu_cache) /\ 1 \in 1 .. Len(cpu_cache) + 1
      /\ 1 <= n + 1
  BY <1>1, <1>2
<1>4. evicting' \in Seq(AllKeys)
  BY <1>1, <1>2, <1>3, PartOf
<1> DEFINE rest == SubSeq(cpu_cache, n + 1, Len(cpu_cache))
           len == Len(cpu_cache) - n
<1>5. /\ rest \in Seq(AllKeys) /\ Len(rest) = len /\ len \in Nat /\ len <= MaxCpuEntries
      /\ \A i \in 1 .. len : rest[i] = cpu_cache[n + i] /\ n + i \in DOMAIN cpu_cache
  <2>1. /\ rest \in Seq(AllKeys) /\ Len(rest) = Len(cpu_cache) - (n + 1) + 1
        /\ \A i \in 1 .. Len(cpu_cache) - (n + 1) + 1 :
             rest[i] = cpu_cache[(n + 1) + i - 1] /\ (n + 1) + i - 1 \in DOMAIN cpu_cache
    BY <1>2, <1>3, PartOf
  <2>2. Len(cpu_cache) - (n + 1) + 1 = len /\ \A i \in 1 .. len : (n + 1) + i - 1 = n + i
    BY <1>2
  <2>3. len \in Nat /\ len <= MaxCpuEntries
    BY <1>1, <1>2, CacheAssumption
  <2> HIDE DEF rest, len
  <2> QED BY <2>1, <2>2, <2>3
<1> HIDE DEF rest, len
<1>6. DOMAIN rest = 1 .. len
  BY <1>5
<1>7. \A i, j \in DOMAIN rest : rest[i].req = rest[j].req => i = j
  <2> SUFFICES ASSUME NEW i \in DOMAIN rest, NEW j \in DOMAIN rest, rest[i].req = rest[j].req
               PROVE  i = j
    OBVIOUS
  <2>1. n + i = n + j
    BY <1>2, <1>5, <1>6
  <2>2. i \in Nat /\ j \in Nat
    BY <1>5, <1>6
  <2> QED BY <2>1, <2>2
<1>8. <<>> \in Seq(Snapshots) /\ Len(<<>>) = 0 /\ 0 <= MaxCheckpoints
  BY CacheAssumption
<1>9. /\ checkpoints' \in [ReqIds -> Seq(Snapshots)]
      /\ \A q \in ReqIds : Len(checkpoints'[q]) <= MaxCheckpoints
  BY <1>1, <1>8 DEF CacheTypes
<1>10. cpu_cache' = rest
  BY <1>1 DEF rest
<1> QED BY <1>1, <1>4, <1>5, <1>7, <1>9, <1>10 DEF CacheTypes

LEMMA CacheStepTypes == StoresInv /\ [Next]_vars => CacheTypes'
<1> SUFFICES ASSUME StoresInv, [Next]_vars PROVE CacheTypes'
  OBVIOUS
<1>1. CacheTypes
  BY DEF StoresInv
<1>2. <<>> \in Seq(Snapshots) /\ Len(<<>>) = 0 /\ 0 <= MaxCheckpoints
  BY CacheAssumption
<1>3. ASSUME NEW r \in ReqIds, Restore(r) PROVE CacheTypes'
  <2>1. Cached(r) /\ cpu_cache' = MoveToEnd(r) /\ computed' = [computed EXCEPT ![r] = EntryOf(r).pos]
        /\ UNCHANGED <<checkpoints, evicting>>
    BY <1>3 DEF Restore
  <2>2. EntryOf(r).pos \in Tokens
    BY <1>1, <2>1, PlaceIs, TokensAre
  <2> QED BY <1>1, <2>1, <2>2, MovedToEnd DEF CacheTypes
<1>4. ASSUME NEW r \in ReqIds, Clear(r) PROVE CacheTypes'
  <2>1. cpu_cache' = Others(r) /\ checkpoints' = [checkpoints EXCEPT ![r] = <<>>]
        /\ UNCHANGED <<evicting, computed>>
    BY <1>4 DEF Clear
  <2>2. Len(cpu_cache) \in Nat /\ Len(cpu_cache) <= MaxCpuEntries /\ MaxCpuEntries \in Nat
    BY <1>1, CacheAssumption DEF CacheTypes
  <2>3. /\ Others(r) \in Seq(AllKeys) /\ Len(Others(r)) <= MaxCpuEntries
        /\ \A i, j \in DOMAIN Others(r) : Others(r)[i].req = Others(r)[j].req => i = j
    BY <1>1, <2>2, OthersAre
  <2>4. /\ checkpoints' \in [ReqIds -> Seq(Snapshots)]
        /\ \A q \in ReqIds : Len(checkpoints'[q]) <= MaxCheckpoints
    BY <1>1, <1>2, <2>1 DEF CacheTypes
  <2> QED BY <1>1, <2>1, <2>3, <2>4 DEF CacheTypes
<1>5. ASSUME NEW r \in ReqIds, NEW target, Rollback(r, target) PROVE CacheTypes'
  <2>1. PICK k \in DOMAIN checkpoints[r] :
          computed' = [computed EXCEPT ![r] = checkpoints[r][k].absorbed]
    BY <1>5 DEF Rollback
  <2>2. checkpoints[r][k].absorbed \in Tokens
    <3>1. checkpoints[r] \in Seq(Snapshots)
      BY <1>1 DEF CacheTypes
    <3>2. checkpoints[r][k] \in Snapshots
      BY <3>1
    <3> QED BY <3>2 DEF Snapshots
  <2> QED BY <1>1, <1>5, <2>1, <2>2 DEF CacheTypes, Rollback
<1>6. ASSUME SaveEvicted PROVE CacheTypes'
  <2>1. evicting # <<>> /\ evicting' = Tail(evicting) /\ UNCHANGED <<cpu_cache, checkpoints, computed>>
    BY <1>6 DEF SaveEvicted
  <2>2. evicting' \in Seq(AllKeys)
    BY <1>1, <2>1 DEF CacheTypes
  <2> QED BY <1>1, <2>1, <2>2 DEF CacheTypes
<1>7. CASE CacheStep
  <2>1. ASSUME NEW n \in 1 .. MaxCpuEntries, EvictOldest(n) PROVE CacheTypes'
    BY <1>1, <2>1, CacheByEviction
  <2> QED BY <1>1, <1>3, <1>4, <1>5, <1>6, <1>7, <2>1, CacheBySave, CacheByDecode DEF CacheStep
<1>8. CASE UNCHANGED cacheVars
  BY <1>1, <1>8 DEF cacheVars, CacheTypes
<1>9. CASE RestartAll
  <2>1. /\ cpu_cache' = <<>> /\ checkpoints' = [r \in ReqIds |-> <<>>] /\ evicting' = <<>>
        /\ computed' = [r \in ReqIds |-> 0]
    BY <1>9 DEF RestartAll
  <2> QED BY <1>2, <2>1, TokensAre, CacheAssumption DEF CacheTypes
<1> QED BY <1>7, <1>8, <1>9 DEF Next, vars

-----------------------------------------------------------------------------
(***************************************************************************)
(* The queue                                                               *)
(***************************************************************************)
LEMMA QueueIs ==
  ASSUME StoresInv
  PROVE  /\ write_queue \in Seq(Operations) /\ Len(write_queue) \in Nat
         /\ DOMAIN write_queue = 1 .. Len(write_queue)
         /\ \A i \in DOMAIN write_queue : write_queue[i] \in Operations /\ i \in Nat
BY DEF StoresInv, DiskInv, WriterTypes

\* A caller leaves the queue as it is, up to one operation at its end.
LEMMA QueueGrows ==
  ASSUME StoresInv, NEW c \in Callers, Talks(c)
  PROVE  /\ \A i \in DOMAIN write_queue : i \in DOMAIN write_queue' /\ write_queue'[i] = write_queue[i]
         /\ \A i \in DOMAIN write_queue' : i \in DOMAIN write_queue \/ i = Len(write_queue) + 1
         /\ \A k : Kept(k) => Kept(k)'
         /\ \A k : \A i \in Nat : Ahead(k, i) => Ahead(k, i)'
         /\ \A k : First(k) => First(k)'
<1>1. /\ \A i \in DOMAIN write_queue : i \in DOMAIN write_queue' /\ write_queue'[i] = write_queue[i]
      /\ \A i \in DOMAIN write_queue' : i \in DOMAIN write_queue \/ i = Len(write_queue) + 1
  BY QueueIs, AppendOf DEF Talks
<1>2. table' = table /\ writer' = writer
  BY DEF Talks
<1>3. \A k : (Written(k) => Written(k)') /\ (InHand(k) => InHand(k)')
  BY <1>2 DEF Written, InHand
<1>4. ASSUME NEW k, Kept(k) PROVE Kept(k)'
  BY <1>1, <1>3, <1>4 DEF Kept
<1>5. ASSUME NEW k, NEW i \in Nat, Ahead(k, i) PROVE Ahead(k, i)'
  BY <1>1, <1>3, <1>5 DEF Ahead
<1>6. ASSUME NEW k, First(k) PROVE First(k)'
  <2>1. CASE InHand(k)
    BY <1>3, <2>1 DEF First
  <2>2. CASE ~InHand(k)
    <3>1. ~IsOn(writer.op, k.req)
      BY <1>6, <2>2 DEF First
    <3>2. PICK j \in DOMAIN write_queue :
            /\ Saves(write_queue[j], k)
            /\ \A i \in DOMAIN write_queue : i < j => ~IsOn(write_queue[i], k.req)
      BY <1>6, <2>2 DEF First
    <3>3. \A i \in DOMAIN write_queue' : i < j => i \in DOMAIN write_queue
      BY <1>1, QueueIs
    <3>4. j \in DOMAIN write_queue' /\ Saves(write_queue'[j], k)
          /\ \A i \in DOMAIN write_queue' : i < j => ~IsOn(write_queue'[i], k.req)
      BY <1>1, <3>2, <3>3
    <3> QED BY <1>2, <3>1, <3>4 DEF First
  <2> QED BY <2>1, <2>2
<1> QED BY <1>1, <1>4, <1>5, <1>6

\* The writer takes the head: what was first, or before an operation, stays so.
LEMMA GetKeeps ==
  ASSUME StoresInv, WriterGet
  PROVE  /\ \A i \in DOMAIN write_queue' : i + 1 \in DOMAIN write_queue
                                           /\ write_queue'[i] = write_queue[i + 1]
         /\ \A r : IsOn(writer'.op, r) <=> IsOn(write_queue[1], r)
         /\ \A k : Kept(k) => Kept(k)'
         /\ \A k : \A i \in Nat : Ahead(k, i + 1) => Ahead(k, i)'
         /\ \A k : First(k) => First(k)'
<1>1. /\ write_queue \in Seq(Operations) /\ write_queue # <<>> /\ write_queue' = Tail(write_queue)
      /\ writer.at = "get" /\ writer.op = NoOp
      /\ IF Head(write_queue) \in KeyOps
         THEN writer'.at = "entry" /\ writer'.op = Head(write_queue)
         ELSE writer'.at = "get" /\ writer'.op = NoOp
      /\ table' = table
  BY Gets
<1>2. /\ Head(write_queue) \in Operations /\ Head(write_queue) = write_queue[1] /\ 1 \in DOMAIN write_queue
      /\ \A i : i \in DOMAIN write_queue' <=> i + 1 \in DOMAIN write_queue /\ i \in Nat \ {0}
      /\ \A i \in DOMAIN write_queue' : write_queue'[i] = write_queue[i + 1]
  BY <1>1, TailOf
<1>3. \A r : IsOn(writer'.op, r) <=> IsOn(write_queue[1], r)
  BY <1>1, <1>2, Operation
<1>4. ASSUME NEW k, Saves(write_queue[1], k) PROVE InHand(k)'
  BY <1>1, <1>2, <1>4, Operation DEF InHand, Saves
<1>5. \A k : ~InHand(k) /\ (Written(k) => Written(k)')
  BY <1>1 DEF InHand, Written
<1>6. ASSUME NEW j \in DOMAIN write_queue, j # 1
      PROVE  /\ j - 1 \in DOMAIN write_queue' /\ write_queue'[j - 1] = write_queue[j] /\ j \in Nat
  <2>1. j \in Nat /\ j - 1 \in Nat \ {0} /\ (j - 1) + 1 = j
    BY <1>1, <1>6, QueueIs
  <2>2. j - 1 \in DOMAIN write_queue'
    BY <1>2, <2>1
  <2>3. write_queue'[j - 1] = write_queue[(j - 1) + 1]
    BY <1>2, <2>2
  <2> QED BY <2>1, <2>2, <2>3
<1>7. ASSUME NEW k, Kept(k) PROVE Kept(k)'
  BY <1>4, <1>5, <1>6, <1>7 DEF Kept
<1>8. ASSUME NEW k, NEW i \in Nat, Ahead(k, i + 1) PROVE Ahead(k, i)'
  <2>1. CASE Written(k)
    BY <1>5, <2>1 DEF Ahead
  <2>2. CASE ~Written(k)
    <3>1. PICK j \in DOMAIN write_queue : j < i + 1 /\ Saves(write_queue[j], k)
      BY <1>5, <1>8, <2>2 DEF Ahead
    <3>2. CASE j = 1
      BY <1>4, <3>1, <3>2 DEF Ahead
    <3>3. CASE j # 1
      <4>1. j - 1 \in DOMAIN write_queue' /\ Saves(write_queue'[j - 1], k) /\ j - 1 < i
        BY <1>6, <3>1, <3>3
      <4> QED BY <4>1 DEF Ahead
    <3> QED BY <3>2, <3>3
  <2> QED BY <2>1, <2>2
<1>9. ASSUME NEW k, First(k) PROVE First(k)'
  <2>1. PICK j \in DOMAIN write_queue :
          /\ Saves(write_queue[j], k)
          /\ \A i \in DOMAIN write_queue : i < j => ~IsOn(write_queue[i], k.req)
    BY <1>5, <1>9 DEF First
  <2>2. CASE j = 1
    BY <1>4, <2>1, <2>2 DEF First
  <2>3. CASE j # 1
    <3>1. j - 1 \in DOMAIN write_queue' /\ Saves(write_queue'[j - 1], k)
      BY <1>6, <2>1, <2>3
    <3>2. 1 < j
      BY <1>6, <2>3, QueueIs
    <3>3. ~IsOn(writer'.op, k.req)
      BY <1>2, <1>3, <2>1, <3>2
    <3>4. ASSUME NEW i \in DOMAIN write_queue', i < j - 1 PROVE ~IsOn(write_queue'[i], k.req)
      <4>1. i + 1 \in DOMAIN write_queue /\ i + 1 < j /\ write_queue'[i] = write_queue[i + 1]
        BY <1>2, <1>6, <2>3, <3>4
      <4> QED BY <2>1, <4>1
    <3> QED BY <3>1, <3>3, <3>4 DEF First
  <2> QED BY <2>2, <2>3
<1> QED BY <1>2, <1>3, <1>7, <1>8, <1>9

\* The writer has written, or failed to: what is not lost stays, or is in the table now.
LEMMA WritesKeep ==
  ASSUME StoresInv, NEW lost, Writes(lost), NEW k, k \notin lost
  PROVE  /\ Written(k) => Written(k)'
         /\ Kept(k) => Kept(k)'
         /\ \A i \in Nat : Ahead(k, i) => Ahead(k, i)'
         /\ First(k) => First(k)' \/ Written(k)'
<1>1. (Written(k) => Written(k)') /\ (InHand(k) => Written(k)')
  BY DEF Writes, Written
<1>2. write_queue' = write_queue /\ writer'.op = writer.op
  BY DEF Writes, StoresInv, DiskInv, WriterTypes
<1>3. Kept(k) => Kept(k)'
  BY <1>1, <1>2 DEF Kept
<1>4. \A i \in Nat : Ahead(k, i) => Ahead(k, i)'
  BY <1>1, <1>2 DEF Ahead
<1>5. First(k) => First(k)' \/ Written(k)'
  BY <1>1, <1>2 DEF First
<1> QED BY <1>1, <1>3, <1>4, <1>5

\* The writer is between two entries: nothing is in its hand.
LEMMA RestsKeep ==
  ASSUME StoresInv, MarkDone \/ WriterEnds
  PROVE  /\ UNCHANGED <<table, write_queue, call, owed, confirmed, closed, calls>>
         /\ \A k : ~InHand(k)
         /\ \A k : Kept(k) => Kept(k)'
         /\ \A k : \A i \in Nat : Ahead(k, i) => Ahead(k, i)'
         /\ \A k : First(k) => First(k)'
         /\ \A r : IsOn(writer'.op, r) => IsOn(writer.op, r)
<1>1. UNCHANGED <<table, write_queue, call, owed, confirmed, closed, calls>> /\ writer.at # "entry"
  BY DEF MarkDone, WriterEnds, historyVars
<1>2. writer'.op \in {writer.op, NoOp}
  BY DEF MarkDone, WriterEnds, StoresInv, DiskInv, WriterTypes
<1>3. \A k : ~InHand(k) /\ (Written(k) => Written(k)')
  BY <1>1 DEF InHand, Written
<1>4. \A r : IsOn(writer'.op, r) => IsOn(writer.op, r)
  BY <1>2, Operation
<1>5. \A k : First(k) => First(k)'
  BY <1>1, <1>3, <1>4 DEF First
<1> QED BY <1>1, <1>3, <1>4, <1>5 DEF Kept, Ahead

-----------------------------------------------------------------------------
(***************************************************************************)
(* The steps of the invariant                                              *)
(***************************************************************************)
LEMMA PutsAnOp ==
  ASSUME StoresInv, NEW c \in Callers, PutOp(c)
  PROVE  \E op \in KeyOps :
           /\ write_queue' = Append(write_queue, op) /\ op.req = call[c].req
           /\ \/ owed' = owed
              \/ ~closed /\ owed' = owed \cup {Key(op)} /\ op.type = "save"
           /\ call[c].at = "put" /\ call'[c] = Idle
           /\ UNCHANGED <<pending, confirmed, crowded, closed>>
<1> DEFINE op == [type |-> call[c].op, req |-> call[c].req, pos |-> call[c].pos, created_at |-> calls]
<1>1. /\ call[c].at = "put" /\ write_queue' = Append(write_queue, op)
      /\ owed' = IF call[c].op = "save" /\ ~closed THEN owed \cup {Key(call[c])} ELSE owed
      /\ Leave(c)
      /\ UNCHANGED <<pending, confirmed, crowded, closed>>
  BY DEF PutOp
<1>2. CallTypes /\ call[c] \in Calling
  BY DEF StoresInv, DiskInv, CallTypes
<1>3. op \in KeyOps
  BY <1>1, <1>2 DEF Calling, KeyOps, CallTypes
<1>4. Key(op) = Key(call[c]) /\ op.type = call[c].op /\ op.req = call[c].req
  BY DEF Key
<1>5. call'[c] = Idle
  BY <1>1, Leaving
<1> HIDE DEF op
<1>6. owed' = owed \/ (~closed /\ owed' = owed \cup {Key(op)} /\ op.type = "save")
  BY <1>1, <1>4
<1> QED BY <1>1, <1>3, <1>4, <1>5, <1>6

\* Steps of a call other than the put.
LEMMA OtherCallSteps ==
  ASSUME StoresInv, NEW c \in Callers, CallStep(c), ~PutOp(c)
  PROVE  /\ UNCHANGED <<write_queue, owed, closed, calls>>
         /\ \/ confirmed' = confirmed
            \/ /\ confirmed' = confirmed \cup call[c].sees
               /\ \/ call[c].at = "flushed"
                  \/ writer.at = "gone"
BY DEF CallStep, WaitPending, MarkPending, RestoreRead, FlushEnd, CloseEnd, storeVars, historyVars

LEMMA OwingStep == StoresInv /\ [Next]_vars => Owing'
<1> SUFFICES ASSUME StoresInv, [Next]_vars PROVE Owing'
  OBVIOUS
<1>1. Owing /\ Closing /\ \A c \in Callers : Sees(c)
  BY DEF StoresInv, DiskInv
<1>2. ASSUME UNCHANGED <<table, write_queue, writer, owed, confirmed>> PROVE Owing'
  BY <1>1, <1>2 DEF Owing, Kept, Written, InHand
<1>3. CASE Elsewhere
  BY <1>2, <1>3 DEF Elsewhere, storeVars, historyVars
<1>4. ASSUME NEW c \in Callers, Talks(c),
             \A k \in owed' : k \in owed \/ Kept(k)', confirmed' \subseteq Keys(table)
      PROVE  Owing'
  <2>1. \A k \in owed' : Kept(k)'
    BY <1>1, <1>4, QueueGrows DEF Owing
  <2>2. table' = table
    BY <1>4 DEF Talks
  <2> QED BY <1>4, <2>1, <2>2 DEF Owing
<1>5. CASE HandOver
  BY <1>1, <1>4, <1>5, HandsOver DEF Owing
<1>6. ASSUME NEW c \in Callers, Begins(c) \/ FlushBegin(c) \/ CloseBegin(c) PROVE Owing'
  <2>1. Talks(c) /\ owed' = owed /\ confirmed' = confirmed
    BY <1>6, BeginTalks, FlushTalks, CloseTalks
  <2> QED BY <1>1, <1>4, <2>1 DEF Owing
<1>7. ASSUME NEW c \in Callers, PutOp(c) PROVE Owing'
  <2>1. PICK op \in KeyOps :
           /\ write_queue' = Append(write_queue, op)
           /\ \/ owed' = owed
              \/ ~closed /\ owed' = owed \cup {Key(op)} /\ op.type = "save"
           /\ confirmed' = confirmed
    BY <1>7, PutsAnOp
  <2>2. Talks(c)
    BY <1>7, StepTalks DEF CallStep
  <2>3. Len(write_queue) + 1 \in DOMAIN write_queue' /\ write_queue'[Len(write_queue) + 1] = op
    BY <2>1, QueueIs, AppendOf, Operation
  <2>4. op.type = "save" => Kept(Key(op))'
    BY <2>3 DEF Kept, Saves
  <2> QED BY <1>1, <1>4, <2>1, <2>2, <2>4 DEF Owing
<1>8. ASSUME NEW c \in Callers, CallStep(c), ~PutOp(c) PROVE Owing'
  <2>1. Talks(c) /\ owed' = owed
    BY <1>8, StepTalks, OtherCallSteps
  <2>2. call[c].at = "flushed" \/ writer.at = "gone" => call[c].sees \subseteq Keys(table)
    BY <1>1 DEF Sees, Closing
  <2>3. confirmed' \subseteq Keys(table)
    BY <1>1, <1>8, <2>2, OtherCallSteps DEF Owing
  <2> QED BY <1>4, <2>1, <2>3
<1>9. CASE WriterGet
  <2>1. UNCHANGED <<table, owed, confirmed>>
    BY <1>9, Gets
  <2> QED BY <1>1, <1>9, <2>1, GetKeeps DEF Owing
<1>10. CASE SaveEntry \/ DeleteEntries \/ EntryFails
  <2>1. PICK lost : Writes(lost)
    BY <1>10, WriterWrites
  <2>2. owed' = owed \ lost /\ confirmed' = confirmed \ lost /\ Keys(table) \ lost \subseteq Keys(table')
    BY <2>1 DEF Writes, Excuse
  <2>3. \A k \in owed' : Kept(k)'
    BY <1>1, <2>1, <2>2, WritesKeep DEF Owing
  <2>4. Keys(table') = Keys(table)'
    BY DEF Keys
  <2> QED BY <1>1, <2>2, <2>3, <2>4 DEF Owing
<1>11. CASE MarkDone \/ WriterEnds
  BY <1>1, <1>11, RestsKeep DEF Owing
<1>12. CASE Restart
  <2>1. owed' = owed \cap Keys(table) /\ table' = table /\ confirmed' = confirmed
    BY <1>12 DEF Restart
  <2> QED BY <1>1, <2>1 DEF Owing, Kept, Written
<1>13. ASSUME NEW c \in Callers, Begins(c) \/ FlushBegin(c) \/ CloseBegin(c) \/ CallStep(c)
       PROVE  Owing'
  BY <1>6, <1>7, <1>8, <1>13
<1>14. CASE Writer
  BY <1>9, <1>10, <1>11, <1>14 DEF Writer
<1> QED BY <1>3, <1>5, <1>12, <1>13, <1>14, EveryMove

LEMMA ClosingStep == StoresInv /\ [Next]_vars => Closing'
<1> SUFFICES ASSUME StoresInv, [Next]_vars PROVE Closing'
  OBVIOUS
<1>1. Closing /\ Owing
  BY DEF StoresInv, DiskInv
<1>2. CASE Elsewhere
  BY <1>1, <1>2 DEF Elsewhere, storeVars, historyVars, Closing
<1>3. ASSUME NEW c \in Callers, Talks(c), writer.at = "gone" => owed' = owed,
             \A i \in DOMAIN write_queue' :
               write_queue'[i].type = "shutdown" => i \in DOMAIN write_queue \/ closed'
      PROVE  Closing'
  <2>1. table' = table /\ writer' = writer /\ (closed => closed')
    BY <1>3 DEF Talks
  <2>2. \A i \in DOMAIN write_queue : write_queue'[i] = write_queue[i]
    BY <1>3, QueueGrows
  <2> QED BY <1>1, <1>3, <2>1, <2>2 DEF Closing
<1>4. CASE HandOver
  BY <1>3, <1>4, HandsOver
<1>5. ASSUME NEW c \in Callers, Begins(c) PROVE Closing'
  BY <1>3, <1>5, BeginTalks
<1>6. ASSUME NEW c \in Callers, FlushBegin(c) \/ CloseBegin(c) PROVE Closing'
  <2>1. Talks(c) /\ owed' = owed
    BY <1>6, FlushTalks, CloseTalks
  <2>2. CASE FlushBegin(c)
    <3> DEFINE op == [type |-> "flush", by |-> c, event |-> calls]
    <3>1. op \in Operations /\ write_queue' = Append(write_queue, op) /\ op.type # "shutdown"
      BY <2>2, FlushTalks
    <3> HIDE DEF op
    <3>2. \A i \in DOMAIN write_queue' : i \in DOMAIN write_queue \/ write_queue'[i] = op
      BY <2>1, <3>1, QueueIs, QueueGrows, AppendOf
    <3> QED BY <1>3, <2>1, <3>1, <3>2
  <2>3. CASE CloseBegin(c)
    BY <1>3, <2>1, <2>3, CloseTalks
  <2> QED BY <1>6, <2>2, <2>3
<1>7. ASSUME NEW c \in Callers, PutOp(c) PROVE Closing'
  <2>1. PICK op \in KeyOps :
           /\ write_queue' = Append(write_queue, op)
           /\ owed' = owed \/ ~closed
    BY <1>7, PutsAnOp
  <2>2. Talks(c)
    BY <1>7, StepTalks DEF CallStep
  <2>3. op \in Operations /\ op.type # "shutdown"
    BY Operation DEF KeyOps
  <2>4. \A i \in DOMAIN write_queue' : i \in DOMAIN write_queue \/ write_queue'[i] = op
    BY <2>1, <2>2, <2>3, QueueIs, QueueGrows, AppendOf
  <2>5. writer.at = "gone" => closed
    BY <1>1 DEF Closing
  <2> QED BY <1>3, <2>1, <2>2, <2>3, <2>4, <2>5
<1>8. ASSUME NEW c \in Callers, CallStep(c), ~PutOp(c) PROVE Closing'
  BY <1>3, <1>8, StepTalks, OtherCallSteps
<1>9. CASE WriterGet
  <2>1. /\ closed' = closed /\ writer'.at # "gone"
        /\ writer'.draining = (writer.draining \/ write_queue[1].type = "shutdown")
        /\ 1 \in DOMAIN write_queue
    BY <1>9, Gets, TailOf
  <2>2. \A i \in DOMAIN write_queue' : i + 1 \in DOMAIN write_queue /\ write_queue'[i] = write_queue[i + 1]
    BY <1>9, GetKeeps
  <2> QED BY <1>1, <2>1, <2>2 DEF Closing
<1>10. CASE SaveEntry \/ DeleteEntries \/ EntryFails
  <2>1. PICK lost : Writes(lost)
    BY <1>10, WriterWrites
  <2>2. /\ write_queue' = write_queue /\ closed' = closed
        /\ writer'.draining = writer.draining /\ writer'.at = "done"
    BY <2>1 DEF Writes, StoresInv, DiskInv, WriterTypes
  <2> QED BY <1>1, <2>2 DEF Closing
<1>11. CASE MarkDone
  <2>1. /\ write_queue' = write_queue /\ closed' = closed
        /\ writer'.draining = writer.draining /\ writer'.at = "get"
    BY <1>11 DEF MarkDone, StoresInv, DiskInv, WriterTypes
  <2> QED BY <1>1, <2>1 DEF Closing
<1>12. CASE WriterEnds
  <2>1. /\ UNCHANGED <<write_queue, closed, owed, table>>
        /\ writer.draining /\ writer.at = "get" /\ write_queue = <<>>
        /\ writer'.draining = writer.draining
    BY <1>12 DEF WriterEnds, StoresInv, DiskInv, WriterTypes, historyVars
  <2>2. \A k : ~InHand(k)
    BY <2>1 DEF InHand
  <2>3. DOMAIN write_queue = {}
    BY <2>1
  <2>4. owed \subseteq Keys(table)
    BY <1>1, <2>2, <2>3 DEF Owing, Kept, Written
  <2> QED BY <1>1, <2>1, <2>4 DEF Closing
<1>13. CASE Restart
  <2>1. write_queue' = <<>> /\ writer' = WriterStart
    BY <1>13 DEF Restart
  <2> QED BY <2>1 DEF Closing, WriterStart
<1>14. ASSUME NEW c \in Callers, Begins(c) \/ FlushBegin(c) \/ CloseBegin(c) \/ CallStep(c)
       PROVE  Closing'
  BY <1>5, <1>6, <1>7, <1>8, <1>14
<1>15. CASE Writer
  BY <1>9, <1>10, <1>11, <1>12, <1>15 DEF Writer
<1> QED BY <1>2, <1>4, <1>13, <1>14, <1>15, EveryMove

LEMMA NumberedStep == StoresInv /\ [Next]_vars => Numbered'
<1> SUFFICES ASSUME StoresInv, [Next]_vars PROVE Numbered'
  OBVIOUS
<1>1. Numbered /\ calls \in Nat
  BY StoreAssumption DEF StoresInv, DiskInv, CallTypes
<1>2. \A i \in DOMAIN write_queue : write_queue[i].type = "flush" => write_queue[i].event \in Nat
  BY QueueIs, Operation DEF FlushOps
<1>3. ASSUME calls' \in Nat, calls <= calls',
             \A i \in DOMAIN write_queue' :
               \/ \E j \in DOMAIN write_queue : write_queue'[i] = write_queue[j]
               \/ write_queue'[i].type = "flush" => write_queue'[i].event < calls'
      PROVE  Numbered'
  BY <1>1, <1>2, <1>3 DEF Numbered
<1>4. ASSUME NEW c \in Callers, Talks(c) PROVE calls' \in Nat /\ calls <= calls'
  BY <1>4, StoreAssumption DEF Talks
<1>5. CASE Elsewhere \/ HandOver
  <2>1. write_queue' = write_queue /\ calls' \in Nat /\ calls <= calls'
    BY <1>4, <1>5, HandsOver, StoreAssumption DEF Elsewhere, storeVars
  <2> QED BY <1>3, <2>1
<1>6. ASSUME NEW c \in Callers, Begins(c) \/ (CallStep(c) /\ ~PutOp(c)) PROVE Numbered'
  <2>1. write_queue' = write_queue /\ Talks(c)
    BY <1>6, BeginTalks, StepTalks, OtherCallSteps
  <2> QED BY <1>3, <1>4, <2>1
<1>7. ASSUME NEW c \in Callers, Talks(c), NEW op \in Operations, write_queue' = Append(write_queue, op),
             op.type = "flush" => op.event < calls'
      PROVE  Numbered'
  <2>1. \A i \in DOMAIN write_queue' : i \in DOMAIN write_queue \/ write_queue'[i] = op
    BY <1>7, QueueIs, QueueGrows, AppendOf
  <2>2. \A i \in DOMAIN write_queue : write_queue'[i] = write_queue[i]
    BY <1>7, QueueGrows
  <2> QED BY <1>3, <1>4, <1>7, <2>1, <2>2
<1>8. ASSUME NEW c \in Callers, FlushBegin(c) PROVE Numbered'
  <2> DEFINE op == [type |-> "flush", by |-> c, event |-> calls]
  <2>1. Talks(c) /\ op \in Operations /\ write_queue' = Append(write_queue, op) /\ calls' = calls + 1
    BY <1>8, FlushTalks
  <2>2. op.event < calls'
    BY <1>1, <2>1
  <2> HIDE DEF op
  <2> QED BY <1>7, <2>1, <2>2
<1>9. ASSUME NEW c \in Callers, CloseBegin(c) PROVE Numbered'
  <2> DEFINE op == [type |-> "shutdown"]
  <2>1. Talks(c) /\ op \in Operations /\ write_queue' = Append(write_queue, op)
    BY <1>9, CloseTalks
  <2>2. op.type # "flush"
    OBVIOUS
  <2> HIDE DEF op
  <2> QED BY <1>7, <2>1, <2>2
<1>10. ASSUME NEW c \in Callers, PutOp(c) PROVE Numbered'
  <2>1. PICK op \in KeyOps : write_queue' = Append(write_queue, op)
    BY <1>10, PutsAnOp
  <2>2. op \in Operations /\ op.type # "flush"
    BY Operation DEF KeyOps
  <2>3. Talks(c)
    BY <1>10, StepTalks DEF CallStep
  <2> QED BY <1>7, <2>1, <2>2, <2>3
<1>11. CASE Writer
  <2>1. calls' = calls
    BY <1>11 DEF Writer, WriterGet, SaveEntry, DeleteEntries, EntryFails, MarkDone, WriterEnds
  <2>2. CASE WriterGet
    BY <1>1, <1>3, <2>1, <2>2, GetKeeps
  <2>3. CASE ~WriterGet
    <3>1. write_queue' = write_queue
      BY <1>11, <2>3 DEF Writer, SaveEntry, DeleteEntries, EntryFails, MarkDone, WriterEnds
    <3> QED BY <1>1, <1>3, <2>1, <3>1
  <2> QED BY <2>2, <2>3
<1>12. CASE Restart
  BY <1>12 DEF Restart, Numbered
<1>13. ASSUME NEW c \in Callers, Begins(c) \/ FlushBegin(c) \/ CloseBegin(c) \/ CallStep(c)
       PROVE  Numbered'
  BY <1>6, <1>8, <1>9, <1>10, <1>13
<1> QED BY <1>5, <1>11, <1>12, <1>13, EveryMove

\* A request loses operations, or nothing changes for it.
LEMMA SingleKept ==
  ASSUME NEW r, Single(r),
         IsOn(writer'.op, r) => IsOn(writer.op, r),
         r \in pending => r \in pending',
         \A i \in DOMAIN write_queue' : IsOn(write_queue'[i], r) =>
           i \in DOMAIN write_queue /\ IsOn(write_queue[i], r),
         \A d \in Callers : Puts(d, r)' => Puts(d, r)
  PROVE  Single(r)'
<1>1. /\ IsOn(writer'.op, r) \/ (\E i \in DOMAIN write_queue' : IsOn(write_queue'[i], r))
           \/ (\E d \in Callers : Puts(d, r)') => r \in pending'
  BY DEF Single
<1>2. IsOn(writer'.op, r) => \A i \in DOMAIN write_queue' : ~IsOn(write_queue'[i], r)
  BY DEF Single
<1>3. \A d \in Callers : Puts(d, r)' =>
        /\ ~IsOn(writer'.op, r) /\ \A i \in DOMAIN write_queue' : ~IsOn(write_queue'[i], r)
        /\ \A e \in Callers : Puts(e, r)' => e = d
  BY DEF Single
<1>4. \A i, j \in DOMAIN write_queue' : IsOn(write_queue'[i], r) /\ IsOn(write_queue'[j], r) => i = j
  BY DEF Single
<1> QED BY <1>1, <1>2, <1>3, <1>4 DEF Single

LEMMA SingleNone ==
  ASSUME NEW r, ~IsOn(writer'.op, r), \A i \in DOMAIN write_queue' : ~IsOn(write_queue'[i], r),
         \A d \in Callers : ~Puts(d, r)'
  PROVE  Single(r)'
BY DEF Single

LEMMA SinglesStep == StoresInv /\ [Next]_vars => Singles'
<1> SUFFICES ASSUME StoresInv, [Next]_vars, NEW r \in ReqIds, r \notin crowded' PROVE Single(r)'
  BY DEF Singles
<1>1. r \notin crowded => Single(r)
  BY DEF StoresInv, DiskInv, Singles
<1>2. /\ writer.op # NoOp => writer.op \in KeyOps
      /\ writer.op \in KeyOps => IsOn(writer.op, writer.op.req)
      /\ call \in [Callers -> Calling]
  BY Operation DEF StoresInv, DiskInv, WriterTypes, CallTypes, IsOn, KeyOps
<1>3. CASE Elsewhere
  <2>1. UNCHANGED <<write_queue, writer, pending, call, crowded>>
    BY <1>3 DEF Elsewhere, storeVars, historyVars
  <2> QED BY <1>1, <2>1, SingleKept DEF Puts
<1>4. ASSUME NEW c \in Callers, Talks(c), \A i \in DOMAIN write_queue' :
               i \in DOMAIN write_queue \/ ~IsOn(write_queue'[i], r),
             ~Puts(c, r)' \/ Puts(c, r)
      PROVE  Single(r)'
  <2>1. PICK x \in Calling : call' = [call EXCEPT ![c] = x]
    BY <1>4 DEF Talks
  <2>2. \A d \in Callers : d # c => call'[d] = call[d]
    BY <1>2, <2>1
  <2>3. \A d \in Callers : Puts(d, r)' => Puts(d, r)
    BY <1>4, <2>2 DEF Puts
  <2>4. \A i \in DOMAIN write_queue : write_queue'[i] = write_queue[i]
    BY <1>4, QueueGrows
  <2>5. r \notin crowded /\ writer' = writer /\ pending \subseteq pending'
    BY <1>4 DEF Talks
  <2> QED BY <1>1, <1>4, <2>3, <2>4, <2>5, SingleKept
<1>5. CASE HandOver
  BY <1>4, <1>5, HandsOver DEF Puts
<1>6. ASSUME NEW c \in Callers, Begins(c) PROVE Single(r)'
  <2>1. Talks(c) /\ write_queue' = write_queue
    BY <1>6, BeginTalks
  <2>2. call'[c].at # "put"
    <3>1. CASE \E q \in ReqIds : RestoreBegin(c, q)
      <4>1. PICK q \in ReqIds : RestoreBegin(c, q)
        BY <3>1
      <4>2. PICK S : Enter(c, "restore", q, 0, "wait", S)
        BY <4>1 DEF RestoreBegin
      <4>3. call'[c] = [op |-> "restore", req |-> q, pos |-> 0, at |-> "wait", sees |-> S]
        BY <4>2, Entering
      <4> QED BY <4>3
    <3> QED BY <1>6, <3>1, BeginTalks
  <2> QED BY <1>4, <2>1, <2>2 DEF Puts
<1>7. ASSUME NEW c \in Callers, Talks(c), NEW op \in Operations, write_queue' = Append(write_queue, op),
             ~IsOn(op, r), call'[c].at # "put"
      PROVE  Single(r)'
  <2>1. \A i \in DOMAIN write_queue' : i \in DOMAIN write_queue \/ write_queue'[i] = op
    BY <1>7, QueueIs, QueueGrows, AppendOf
  <2> QED BY <1>4, <1>7, <2>1 DEF Puts
<1>8. ASSUME NEW c \in Callers, FlushBegin(c) PROVE Single(r)'
  <2> DEFINE op == [type |-> "flush", by |-> c, event |-> calls]
  <2>1. Talks(c) /\ op \in Operations /\ write_queue' = Append(write_queue, op) /\ call'[c].at # "put"
    BY <1>8, FlushTalks
  <2>2. ~IsOn(op, r)
    BY DEF IsOn
  <2> HIDE DEF op
  <2> QED BY <1>7, <2>1, <2>2
<1>9. ASSUME NEW c \in Callers, CloseBegin(c) PROVE Single(r)'
  <2> DEFINE op == [type |-> "shutdown"]
  <2>1. Talks(c) /\ op \in Operations /\ write_queue' = Append(write_queue, op) /\ call'[c].at # "put"
    BY <1>9, CloseTalks
  <2>2. ~IsOn(op, r)
    BY DEF IsOn
  <2> HIDE DEF op
  <2> QED BY <1>7, <2>1, <2>2
<1>10. ASSUME NEW c \in Callers, PutOp(c) PROVE Single(r)'
  <2>1. PICK op \in KeyOps :
          /\ write_queue' = Append(write_queue, op) /\ op.req = call[c].req
          /\ call[c].at = "put" /\ call'[c] = Idle /\ crowded' = crowded
    BY <1>10, PutsAnOp
  <2>2. Talks(c) /\ op \in Operations /\ call'[c].at # "put"
    BY <1>10, <2>1, StepTalks, Operation, SomeRequest DEF CallStep
  <2>3. CASE op.req # r
    BY <1>7, <2>1, <2>2, <2>3 DEF IsOn
  <2>4. CASE op.req = r
    <3>1. Single(r) /\ Puts(c, r)
      BY <1>1, <2>1, <2>4 DEF Puts
    <3>2. /\ r \in pending /\ ~IsOn(writer.op, r)
          /\ \A i \in DOMAIN write_queue : ~IsOn(write_queue[i], r)
          /\ \A d \in Callers : Puts(d, r) => d = c
      BY <3>1 DEF Single
    <3>3. \A i \in DOMAIN write_queue' : i \in DOMAIN write_queue \/ i = Len(write_queue) + 1
      BY <2>2, QueueGrows
    <3>4. \A i \in DOMAIN write_queue' : IsOn(write_queue'[i], r) => i = Len(write_queue) + 1
      BY <2>2, <3>2, <3>3, QueueGrows
    <3>5. \A d \in Callers : ~Puts(d, r)'
      <4>1. PICK x \in Calling : call' = [call EXCEPT ![c] = x]
        BY <2>2 DEF Talks
      <4>2. \A d \in Callers : d # c => call'[d] = call[d]
        BY <1>2, <4>1
      <4> QED BY <2>2, <3>2, <4>2 DEF Puts
    <3>6. writer' = writer /\ r \in pending'
      BY <2>2, <3>2 DEF Talks
    <3> QED BY <3>2, <3>4, <3>5, <3>6 DEF Single
  <2> QED BY <2>3, <2>4
<1>11. ASSUME NEW c \in Callers, MarkPending(c) PROVE Single(r)'
  <2>1. /\ pending' = pending \cup {call[c].req}
        /\ crowded' = IF Queued(call[c].req, Callers \ {c}) \/ IsOn(writer.op, call[c].req)
                      THEN crowded \cup {call[c].req} ELSE crowded
        /\ GoTo(c, "put") /\ UNCHANGED <<write_queue, writer>>
    BY <1>11 DEF MarkPending
  <2>2. Talks(c)
    BY <1>11, StepTalks DEF CallStep
  <2>3. /\ call'[c].req = call[c].req /\ \A d \in Callers : d # c => call'[d] = call[d]
    BY <1>2, <2>1 DEF GoTo, Calling
  <2>4. CASE call[c].req # r
    BY <1>4, <2>1, <2>2, <2>3, <2>4 DEF Puts
  <2>5. CASE call[c].req = r
    <3>1. ~Queued(r, Callers \ {c}) /\ ~IsOn(writer.op, r) /\ r \in pending'
      BY <2>1, <2>5
    <3>2. /\ \A i \in DOMAIN write_queue' : ~IsOn(write_queue'[i], r)
          /\ \A d \in Callers : d # c => ~Puts(d, r)
      BY <2>1, <3>1 DEF Queued, Puts
    <3>3. \A d \in Callers : d # c => ~Puts(d, r)'
      BY <2>3, <3>2 DEF Puts
    <3> QED BY <2>1, <3>1, <3>2, <3>3 DEF Single
  <2> QED BY <2>4, <2>5
<1>12. ASSUME NEW c \in Callers, CallStep(c), ~PutOp(c), ~MarkPending(c) PROVE Single(r)'
  <2>1. Talks(c) /\ write_queue' = write_queue
    BY <1>12, StepTalks, OtherCallSteps
  <2>2. Leave(c) \/ GoTo(c, "mark") \/ GoTo(c, "read")
    BY <1>12 DEF CallStep, WaitPending, RestoreRead, FlushEnd, CloseEnd
  <2>3. call'[c].at # "put"
    BY <1>2, <2>2, Leaving, SomeRequest DEF GoTo, Calling
  <2> QED BY <1>4, <2>1, <2>3 DEF Puts
<1>13. CASE WriterGet
  <2>1. /\ crowded' = crowded /\ pending' = pending /\ 1 \in DOMAIN write_queue
        /\ \A d \in Callers : call'[d] = call[d] \/ call'[d].at = "flushed"
        /\ writer.op = NoOp
    BY <1>13, Gets, TailOf
  <2>2. /\ \A i \in DOMAIN write_queue' : /\ i + 1 \in DOMAIN write_queue
                                          /\ write_queue'[i] = write_queue[i + 1]
        /\ IsOn(writer'.op, r) <=> IsOn(write_queue[1], r)
    BY <1>13, GetKeeps
  <2>3. Single(r)
    BY <1>1, <2>1
  <2>4. \A d \in Callers : Puts(d, r)' => Puts(d, r)
    BY <2>1 DEF Puts
  <2>5. DOMAIN write_queue' \subseteq Nat
    <3>1. WriterTypes'
      BY <1>13, Gets
    <3>2. write_queue' \in Seq(Operations)
      BY <3>1 DEF WriterTypes
    <3> QED BY <3>2
  <2>6. \A i, j \in DOMAIN write_queue' : IsOn(write_queue'[i], r) /\ IsOn(write_queue'[j], r) => i = j
    <3>1. ASSUME NEW i \in DOMAIN write_queue', NEW j \in DOMAIN write_queue',
                 IsOn(write_queue'[i], r), IsOn(write_queue'[j], r)
          PROVE  i = j
      <4>1. i + 1 = j + 1
        BY <2>2, <2>3, <3>1 DEF Single
      <4> QED BY <2>5, <4>1
    <3> QED BY <3>1
  <2>7. IsOn(writer'.op, r) => \A i \in DOMAIN write_queue' : ~IsOn(write_queue'[i], r)
    <3>1. ASSUME IsOn(write_queue[1], r), NEW i \in DOMAIN write_queue', IsOn(write_queue'[i], r)
          PROVE  FALSE
      <4>1. i + 1 = 1
        BY <2>1, <2>2, <2>3, <3>1 DEF Single
      <4>2. i + 1 \in DOMAIN write_queue /\ i \in DOMAIN write_queue' /\ 0 \notin DOMAIN write_queue'
        <5>1. WriterTypes'
          BY <1>13, Gets
        <5> QED BY <2>2, <5>1 DEF WriterTypes
      <4> QED BY <2>5, <4>1, <4>2
    <3> QED BY <2>2, <3>1
  <2>8. \A d \in Callers : Puts(d, r)' =>
          ~IsOn(writer'.op, r) /\ \A i \in DOMAIN write_queue' : ~IsOn(write_queue'[i], r)
    BY <2>1, <2>2, <2>3, <2>4 DEF Single
  <2>9. IsOn(writer'.op, r) \/ (\E i \in DOMAIN write_queue' : IsOn(write_queue'[i], r))
          \/ (\E d \in Callers : Puts(d, r)') => r \in pending'
    BY <2>1, <2>2, <2>3, <2>4 DEF Single
  <2>10. \A c, d \in Callers : Puts(c, r)' /\ Puts(d, r)' => d = c
    BY <2>3, <2>4 DEF Single
  <2> QED BY <2>6, <2>7, <2>8, <2>9, <2>10 DEF Single
<1>14. CASE SaveEntry \/ DeleteEntries \/ EntryFails
  <2>1. PICK lost : Writes(lost)
    BY <1>14, WriterWrites
  <2>2. /\ write_queue' = write_queue /\ pending' = pending /\ crowded' = crowded
        /\ writer'.op = writer.op /\ Excuse(lost)
    BY <2>1 DEF Writes, StoresInv, DiskInv, WriterTypes
  <2>3. \A d \in Callers : Puts(d, r)' => Puts(d, r)
    BY <2>2, Excused DEF Puts
  <2> QED BY <1>1, <2>2, <2>3, SingleKept
<1>15. CASE MarkDone
  <2>1. /\ writer.at = "done" /\ pending' = pending \ {writer.op.req}
        /\ crowded' = {q \in crowded : q # writer.op.req \/ Queued(q, Callers)}
        /\ write_queue' = write_queue /\ call' = call
        /\ writer' = [writer EXCEPT !.at = "get", !.op = NoOp]
    BY <1>15 DEF MarkDone
  <2>2. writer.op \in KeyOps /\ IsOn(writer.op, writer.op.req) /\ writer'.op = NoOp
    BY <1>2, <2>1 DEF StoresInv, DiskInv, WriterTypes
  <2>3. CASE r = writer.op.req
    <3>1. CASE r \notin crowded
      <4>1. Single(r)
        BY <1>1, <3>1
      <4>2. /\ \A i \in DOMAIN write_queue : ~IsOn(write_queue[i], r)
            /\ \A d \in Callers : ~Puts(d, r)
        BY <2>2, <2>3, <4>1 DEF Single
      <4> QED BY <2>1, <2>2, <4>2, SingleNone, Operation DEF Puts
    <3>2. CASE r \in crowded
      <4>1. ~Queued(r, Callers)
        BY <2>1, <2>3, <3>2
      <4>2. /\ \A i \in DOMAIN write_queue : ~IsOn(write_queue[i], r)
            /\ \A d \in Callers : ~Puts(d, r)
        BY <4>1 DEF Queued, Puts
      <4> QED BY <2>1, <2>2, <4>2, SingleNone, Operation DEF Puts
    <3> QED BY <3>1, <3>2
  <2>4. CASE r # writer.op.req
    <3>1. Single(r)
      BY <1>1, <2>1, <2>4
    <3> QED BY <2>1, <2>2, <2>4, <3>1, SingleKept, Operation DEF Puts
  <2> QED BY <2>3, <2>4
<1>16. CASE WriterEnds
  <2>1. /\ UNCHANGED <<write_queue, pending, call, crowded>> /\ writer' = [writer EXCEPT !.at = "gone"]
    BY <1>16 DEF WriterEnds, historyVars
  <2>2. writer'.op = writer.op
    BY <2>1 DEF StoresInv, DiskInv, WriterTypes
  <2> QED BY <1>1, <2>1, <2>2, SingleKept DEF Puts
<1>17. CASE Restart
  <2>1. write_queue' = <<>> /\ writer' = WriterStart /\ call' = [c \in Callers |-> Idle]
    BY <1>17 DEF Restart
  <2>2. \A d \in Callers : ~Puts(d, r)'
    BY <2>1, SomeRequest DEF Puts
  <2>3. writer'.op = NoOp
    BY <2>1 DEF WriterStart
  <2> QED BY <2>1, <2>2, <2>3, SingleNone, Operation
<1>18. ASSUME NEW c \in Callers, Begins(c) \/ FlushBegin(c) \/ CloseBegin(c) \/ CallStep(c)
       PROVE  Single(r)'
  BY <1>6, <1>8, <1>9, <1>10, <1>11, <1>12, <1>18
<1>19. CASE Writer
  BY <1>13, <1>14, <1>15, <1>16, <1>19 DEF Writer
<1> QED BY <1>3, <1>5, <1>17, <1>18, <1>19, EveryMove

LEMMA NothingSeen ==
  ASSUME NEW d \in Callers, call'[d].sees = {}
  PROVE  Sees(d)'
BY DEF Sees

\* A caller does not change what another one sees, nor what it sees itself while it waits.
LEMMA SeesKept ==
  ASSUME StoresInv, NEW c \in Callers, Talks(c), NEW d \in Callers, call'[d] = call[d],
         \A i \in DOMAIN write_queue' : i \in DOMAIN write_queue \/ ~Awaits(d, i)'
  PROVE  Sees(d)'
<1>1. Sees(d) /\ call'[d].sees = call[d].sees
  BY DEF StoresInv, DiskInv
<1>2. table' = table /\ pending \subseteq pending' /\ owed \subseteq owed'
  BY DEF Talks
<1>3. Keys(table)' = Keys(table)
  BY <1>2 DEF Keys
<1>4. ASSUME NEW i \in DOMAIN write_queue', Awaits(d, i)', NEW k \in call'[d].sees PROVE Ahead(k, i)'
  <2>1. i \in DOMAIN write_queue /\ i \in Nat /\ Awaits(d, i)
    BY <1>4, QueueIs, QueueGrows DEF Awaits
  <2>2. Ahead(k, i)
    BY <1>1, <1>4, <2>1 DEF Sees
  <2> QED BY <2>1, <2>2, QueueGrows
<1>5. call'[d].at = "wait" => \A k \in call'[d].sees :
        k.req = call'[d].req /\ (Written(k)' \/ (k.req \in pending' /\ First(k)'))
  BY <1>1, <1>2, <1>3, QueueGrows DEF Sees, Written
<1> QED BY <1>1, <1>2, <1>3, <1>4, <1>5 DEF Sees

\* A caller that goes on without waiting keeps what it sees.
LEMMA SeesOn ==
  ASSUME StoresInv, NEW c \in Callers, Talks(c), call'[c].sees \subseteq owed',
         call'[c].at \notin {"flush", "flushed", "wait"},
         call'[c].at = "read" => call'[c].sees \subseteq Keys(table)
  PROVE  Sees(c)'
<1>1. table' = table
  BY DEF Talks
<1>2. Keys(table)' = Keys(table)
  BY <1>1 DEF Keys
<1> QED BY <1>2 DEF Sees, Awaits

LEMMA SeesByWriter ==
  ASSUME StoresInv, Writer, NEW d \in Callers
  PROVE  Sees(d)'
<1>1. Sees(d)
  BY DEF StoresInv, DiskInv
<1>2. CASE WriterGet
  <2>1. /\ UNCHANGED <<table, pending, owed>> /\ writer.at = "get"
        /\ \/ call'[d] = call[d]
           \/ /\ Awaits(d, 1) /\ call'[d].at = "flushed" /\ call'[d].sees = call[d].sees
        /\ 1 \in DOMAIN write_queue
    BY <1>2, Gets, TailOf
  <2>2. Keys(table)' = Keys(table)
    BY <2>1 DEF Keys
  <2>3. CASE call'[d] = call[d]
    <3>1. ASSUME NEW i \in DOMAIN write_queue', Awaits(d, i)', NEW k \in call'[d].sees PROVE Ahead(k, i)'
      <4>1. i + 1 \in DOMAIN write_queue /\ write_queue'[i] = write_queue[i + 1]
        BY <1>2, GetKeeps
      <4>2. Awaits(d, i + 1) /\ k \in call[d].sees
        BY <2>3, <3>1, <4>1 DEF Awaits
      <4>3. Ahead(k, i + 1)
        BY <1>1, <4>1, <4>2 DEF Sees
      <4>4. i \in Nat
        <5>1. WriterTypes'
          BY <1>2, Gets
        <5> QED BY <5>1 DEF WriterTypes
      <4> QED BY <1>2, <4>3, <4>4, GetKeeps
    <3>2. call'[d].at = "wait" => \A k \in call'[d].sees :
            k.req = call'[d].req /\ (Written(k)' \/ (k.req \in pending' /\ First(k)'))
      BY <1>1, <1>2, <2>1, <2>2, <2>3, GetKeeps DEF Sees, Written
    <3> QED BY <1>1, <2>1, <2>2, <2>3, <3>1, <3>2 DEF Sees
  <2>4. CASE Awaits(d, 1) /\ call'[d].at = "flushed" /\ call'[d].sees = call[d].sees
    <3>1. \A k \in call[d].sees : Ahead(k, 1)
      BY <1>1, <2>1, <2>4 DEF Sees
    <3>2. \A j \in DOMAIN write_queue : ~(j < 1)
      BY QueueIs
    <3>3. call[d].sees \subseteq Keys(table)
      BY <2>1, <3>1, <3>2 DEF Ahead, InHand, Written
    <3> QED BY <1>1, <2>1, <2>2, <2>4, <3>3 DEF Sees, Awaits
  <2> QED BY <2>1, <2>3, <2>4
<1>3. CASE SaveEntry \/ DeleteEntries \/ EntryFails
  <2>1. PICK lost : Writes(lost)
    BY <1>3, WriterWrites
  <2>2. /\ write_queue' = write_queue /\ pending' = pending /\ Excuse(lost)
        /\ owed' = owed \ lost /\ Keys(table) \ lost \subseteq Keys(table')
    BY <2>1 DEF Writes, Excuse
  <2>3. /\ call'[d].sees = call[d].sees \ lost
        /\ call'[d].req = call[d].req /\ call'[d].pos = call[d].pos /\ call'[d].at = call[d].at
    BY <2>2, Excused
  <2>4. Keys(table)' = Keys(table')
    BY DEF Keys
  <2>5. ASSUME NEW i \in DOMAIN write_queue', Awaits(d, i)', NEW k \in call'[d].sees PROVE Ahead(k, i)'
    <3>1. Awaits(d, i) /\ i \in DOMAIN write_queue /\ i \in Nat /\ k \in call[d].sees /\ k \notin lost
      BY <2>2, <2>3, <2>5, QueueIs DEF Awaits
    <3>2. Ahead(k, i)
      BY <1>1, <3>1 DEF Sees
    <3> QED BY <2>1, <3>1, <3>2, WritesKeep
  <2>6. ASSUME call'[d].at = "wait", NEW k \in call'[d].sees
        PROVE  k.req = call'[d].req /\ (Written(k)' \/ (k.req \in pending' /\ First(k)'))
    <3>1. k \in call[d].sees /\ k \notin lost /\ call[d].at = "wait"
      BY <2>3, <2>6
    <3>2. k.req = call[d].req /\ (Written(k) \/ (k.req \in pending /\ First(k)))
      BY <1>1, <3>1 DEF Sees
    <3> QED BY <2>1, <2>2, <2>3, <3>1, <3>2, WritesKeep
  <2> QED BY <1>1, <2>2, <2>3, <2>4, <2>5, <2>6 DEF Sees
<1>4. CASE MarkDone \/ WriterEnds
  <2>1. UNCHANGED <<table, write_queue, call, owed>> /\ \A k : ~InHand(k)
    BY <1>4, RestsKeep
  <2>2. Keys(table)' = Keys(table)
    BY <2>1 DEF Keys
  <2>3. ASSUME NEW i \in DOMAIN write_queue', Awaits(d, i)', NEW k \in call'[d].sees PROVE Ahead(k, i)'
    <3>1. Awaits(d, i) /\ i \in DOMAIN write_queue /\ i \in Nat /\ k \in call[d].sees
      BY <2>1, <2>3, QueueIs DEF Awaits
    <3>2. Ahead(k, i)
      BY <1>1, <3>1 DEF Sees
    <3> QED BY <1>4, <3>1, <3>2, RestsKeep
  <2>4. ASSUME NEW k, First(k), k.req \in pending PROVE k.req \in pending'
    <3>1. CASE WriterEnds
      BY <2>4, <3>1 DEF WriterEnds
    <3>2. CASE MarkDone
      <4>1. writer.op \in KeyOps /\ pending' = pending \ {writer.op.req}
        BY <3>2 DEF MarkDone, StoresInv, DiskInv, WriterTypes
      <4>2. IsOn(writer.op, writer.op.req)
        BY <4>1 DEF IsOn, KeyOps
      <4>3. ~IsOn(writer.op, k.req)
        BY <2>1, <2>4 DEF First
      <4> QED BY <2>4, <4>1, <4>2, <4>3
    <3> QED BY <1>4, <3>1, <3>2
  <2>5. call'[d].at = "wait" => \A k \in call'[d].sees :
          k.req = call'[d].req /\ (Written(k)' \/ (k.req \in pending' /\ First(k)'))
    BY <1>1, <1>4, <2>1, <2>2, <2>4, RestsKeep DEF Sees, Written
  <2> QED BY <1>1, <2>1, <2>2, <2>3, <2>5 DEF Sees
<1> QED BY <1>2, <1>3, <1>4 DEF Writer

\* A restore that begins can rely on the pending event of a request that is not crowded.
LEMMA SeesAtRestore ==
  ASSUME StoresInv, NEW c \in Callers, NEW r \in ReqIds, RestoreBegin(c, r)
  PROVE  Sees(c)'
<1> DEFINE S == IF r \in crowded THEN {} ELSE {k \in owed : k.req = r}
<1>1. Enter(c, "restore", r, 0, "wait", S) /\ UNCHANGED <<storeVars, restarts, historyVars>>
  BY DEF RestoreBegin
<1>2. /\ S \subseteq owed /\ \A k \in S : k.req = r /\ r \notin crowded
  OBVIOUS
<1> HIDE DEF S
<1>3. call'[c] = [op |-> "restore", req |-> r, pos |-> 0, at |-> "wait", sees |-> S]
  BY <1>1, Entering
<1>4. /\ call'[c].at = "wait" /\ call'[c].sees = S /\ call'[c].req = r
  BY <1>3
<1>5. UNCHANGED <<table, writer, write_queue, pending, owed>>
  BY <1>1 DEF storeVars, historyVars
<1>6. ASSUME NEW k \in S PROVE Written(k) \/ (r \in pending /\ First(k))
  <2>1. k.req = r /\ Single(r) /\ Kept(k)
    BY <1>2 DEF StoresInv, DiskInv, Singles, Owing
  <2>2. CASE InHand(k)
    <3>1. IsOn(writer.op, r)
      BY <2>1, <2>2, Operation DEF InHand
    <3>2. First(k)
      BY <2>2 DEF First
    <3>3. r \in pending
      BY <2>1, <3>1 DEF Single
    <3> QED BY <3>2, <3>3
  <2>3. ASSUME NEW j \in DOMAIN write_queue, Saves(write_queue[j], k) PROVE r \in pending /\ First(k)
    <3>1. IsOn(write_queue[j], r)
      BY <2>1, <2>3, Operation
    <3>2. r \in pending /\ ~IsOn(writer.op, r)
      BY <2>1, <3>1 DEF Single
    <3>3. \A i \in DOMAIN write_queue : i < j => ~IsOn(write_queue[i], r)
      <4>1. ASSUME NEW i \in DOMAIN write_queue, i < j, IsOn(write_queue[i], r) PROVE FALSE
        <5>1. i = j
          BY <2>1, <3>1, <4>1 DEF Single
        <5> QED BY <4>1, <5>1, QueueIs
      <4> QED BY <4>1
    <3>4. First(k)
      BY <2>1, <2>3, <3>2, <3>3 DEF First
    <3> QED BY <3>2, <3>4
  <2> QED BY <2>1, <2>2, <2>3 DEF Kept
<1>7. \A k \in S : Written(k)' \/ (k.req \in pending' /\ First(k)')
  BY <1>2, <1>5, <1>6 DEF Written, First, InHand
<1> QED BY <1>2, <1>4, <1>5, <1>7 DEF Sees, Awaits

LEMMA SeesAtFlush ==
  ASSUME StoresInv, NEW c \in Callers, FlushBegin(c)
  PROVE  Sees(c)'
<1> DEFINE op == [type |-> "flush", by |-> c, event |-> calls]
<1>1. /\ Talks(c) /\ calls \in Nat /\ op \in Operations /\ write_queue' = Append(write_queue, op)
      /\ call'[c].at = "flush" /\ call'[c].pos = calls /\ call'[c].sees = owed /\ owed' = owed
  BY FlushTalks
<1>2. \A i \in DOMAIN write_queue : write_queue[i].type = "flush" =>
        write_queue[i].event \in Nat /\ write_queue[i].event < calls
  BY QueueIs, Operation DEF FlushOps, StoresInv, DiskInv, Numbered
<1>3. ASSUME NEW i \in DOMAIN write_queue', Awaits(c, i)' PROVE i = Len(write_queue) + 1
  <2>1. write_queue'[i].type = "flush" /\ write_queue'[i].event = calls
    BY <1>1, <1>3 DEF Awaits
  <2>2. i \in DOMAIN write_queue => write_queue[i].type = "flush" /\ write_queue[i].event = calls
    BY <1>1, <2>1, QueueGrows
  <2>3. i \notin DOMAIN write_queue
    BY <1>1, <1>2, <2>2
  <2> QED BY <1>1, <2>3, QueueGrows
<1>4. ASSUME NEW k \in owed, NEW i \in Nat, i = Len(write_queue) + 1 PROVE Ahead(k, i)'
  <2>1. Kept(k)
    BY DEF StoresInv, DiskInv, Owing
  <2>2. \A j \in DOMAIN write_queue : j < i
    BY <1>4, QueueIs
  <2>3. Ahead(k, i)
    BY <2>1, <2>2 DEF Kept, Ahead
  <2> QED BY <1>1, <2>3, QueueGrows
<1>5. Len(write_queue) + 1 \in Nat
  BY QueueIs
<1> QED BY <1>1, <1>3, <1>4, <1>5 DEF Sees

LEMMA SeesStep == StoresInv /\ [Next]_vars => \A d \in Callers : Sees(d)'
<1> SUFFICES ASSUME StoresInv, [Next]_vars, NEW d \in Callers PROVE Sees(d)'
  OBVIOUS
<1>1. Sees(d) /\ call \in [Callers -> Calling]
  BY DEF StoresInv, DiskInv, CallTypes
<1>2. CASE Elsewhere
  <2>1. UNCHANGED <<table, write_queue, writer, pending, call, owed>>
    BY <1>2 DEF Elsewhere, storeVars, historyVars
  <2> QED BY <1>1, <2>1 DEF Sees, Awaits, Ahead, First, InHand, Written
<1>3. ASSUME NEW c \in Callers, Talks(c), d # c, \A i \in DOMAIN write_queue' :
               i \in DOMAIN write_queue \/ write_queue'[i].type # "flush" \/ write_queue'[i].by = c
      PROVE  Sees(d)'
  <2>1. call'[d] = call[d]
    BY <1>1, <1>3 DEF Talks
  <2>2. \A i \in DOMAIN write_queue' : i \in DOMAIN write_queue \/ ~Awaits(d, i)'
    BY <1>3 DEF Awaits
  <2> QED BY <1>3, <2>1, <2>2, SeesKept
<1>4. CASE HandOver
  BY <1>3, <1>4, HandsOver, NothingSeen
<1>5. ASSUME NEW c \in Callers, Begins(c) PROVE Sees(d)'
  <2>1. Talks(c) /\ write_queue' = write_queue
    BY <1>5, BeginTalks
  <2>2. CASE d = c
    BY <1>5, <2>2, BeginTalks, NothingSeen, SeesAtRestore
  <2> QED BY <1>3, <2>1, <2>2
<1>6. ASSUME NEW c \in Callers, NEW op \in Operations, Talks(c), write_queue' = Append(write_queue, op),
             op.type # "flush" \/ op.by = c, d # c
      PROVE  Sees(d)'
  <2>1. \A i \in DOMAIN write_queue' : i \in DOMAIN write_queue \/ write_queue'[i] = op
    BY <1>6, QueueIs, QueueGrows, AppendOf
  <2> QED BY <1>3, <1>6, <2>1
<1>7. ASSUME NEW c \in Callers, FlushBegin(c) PROVE Sees(d)'
  <2> DEFINE op == [type |-> "flush", by |-> c, event |-> calls]
  <2>1. Talks(c) /\ op \in Operations /\ write_queue' = Append(write_queue, op)
    BY <1>7, FlushTalks
  <2>2. op.by = c
    OBVIOUS
  <2> HIDE DEF op
  <2> QED BY <1>6, <1>7, <2>1, <2>2, SeesAtFlush
<1>8. ASSUME NEW c \in Callers, CloseBegin(c) PROVE Sees(d)'
  <2> DEFINE op == [type |-> "shutdown"]
  <2>1. /\ Talks(c) /\ op \in Operations /\ write_queue' = Append(write_queue, op)
        /\ call'[c].at = "join" /\ call'[c].sees = owed /\ owed' = owed
    BY <1>8, CloseTalks
  <2>2. op.type # "flush"
    OBVIOUS
  <2> HIDE DEF op
  <2>3. CASE d = c
    BY <2>1, <2>3, SeesOn
  <2> QED BY <1>6, <2>1, <2>2, <2>3
<1>9. ASSUME NEW c \in Callers, PutOp(c) PROVE Sees(d)'
  <2>1. PICK op \in KeyOps : write_queue' = Append(write_queue, op) /\ call'[c] = Idle
    BY <1>9, PutsAnOp
  <2>2. Talks(c) /\ op \in Operations /\ op.type # "flush"
    BY <1>9, StepTalks, Operation DEF CallStep, KeyOps
  <2>3. CASE d = c
    BY <2>1, <2>3, SomeRequest, NothingSeen
  <2> QED BY <1>6, <2>1, <2>2, <2>3
<1>10. ASSUME NEW c \in Callers, CallStep(c), ~PutOp(c) PROVE Sees(d)'
  <2>1. Talks(c) /\ write_queue' = write_queue /\ owed' = owed
    BY <1>10, StepTalks, OtherCallSteps
  <2>2. CASE d # c
    BY <1>3, <2>1, <2>2
  <2>3. CASE d = c /\ Leave(c)
    BY <2>3, Leaving, SomeRequest, NothingSeen
  <2>4. CASE d = c /\ MarkPending(c)
    <3>1. call'[c].at = "put" /\ call'[c].sees = call[c].sees
      BY <1>1, <2>4 DEF MarkPending, GoTo, Calling
    <3> QED BY <1>1, <2>1, <2>4, <3>1, SeesOn DEF Sees
  <2>5. CASE d = c /\ WaitPending(c)
    <3>1. /\ call[c].at = "wait" /\ call[c].req \notin pending
          /\ call'[c].at \in {"mark", "read"} /\ call'[c].sees = call[c].sees
      BY <1>1, <2>5 DEF WaitPending, GoTo, Calling
    <3>2. call[c].sees \subseteq Keys(table)
      BY <1>1, <2>5, <3>1 DEF Sees, Written
    <3> QED BY <1>1, <2>1, <2>5, <3>1, <3>2, SeesOn DEF Sees
  <2> QED BY <1>10, <2>2, <2>3, <2>4, <2>5 DEF CallStep, RestoreRead, FlushEnd, CloseEnd
<1>11. CASE Restart
  <2>1. call' = [c \in Callers |-> Idle]
    BY <1>11 DEF Restart
  <2> QED BY <2>1, SomeRequest, NothingSeen
<1>12. ASSUME NEW c \in Callers, Begins(c) \/ FlushBegin(c) \/ CloseBegin(c) \/ CallStep(c)
       PROVE  Sees(d)'
  BY <1>5, <1>7, <1>8, <1>9, <1>10, <1>12
<1> QED BY <1>2, <1>4, <1>11, <1>12, SeesByWriter, EveryMove

-----------------------------------------------------------------------------
(***************************************************************************)
(* The theorems                                                            *)
(***************************************************************************)
LEMMA StoresInit == Init => StoresInv
<1> SUFFICES ASSUME Init PROVE StoresInv
  OBVIOUS
<1>1. /\ table = {} /\ high_water = 0 /\ write_queue = <<>> /\ pending = {}
      /\ closed = FALSE /\ connected = TRUE /\ writer = WriterStart
      /\ call = [c \in Callers |-> Idle] /\ calls = 0
      /\ owed = {} /\ confirmed = {} /\ overlap = {} /\ crowded = {}
      /\ cpu_cache = <<>> /\ checkpoints = [r \in ReqIds |-> <<>>] /\ evicting = <<>>
      /\ computed = [r \in ReqIds |-> 0]
  BY DEF Init, DiskInit
<1>2. TableTypes
  BY <1>1, FS_EmptySet DEF TableTypes
<1>3. WriterTypes
  BY <1>1 DEF WriterTypes, WriterStart
<1>4. CallTypes
  <2>1. call \in [Callers -> Calling]
    BY <1>1, SomeRequest
  <2>2. calls \in 0 .. MaxCalls
    BY <1>1, StoreAssumption
  <2> QED BY <1>1, <2>1, <2>2 DEF CallTypes
<1>5. Owing /\ Closing /\ Numbered
  BY <1>1 DEF Owing, Closing, Numbered, WriterStart
<1>6. Singles
  <2>1. \A r : ~IsOn(writer.op, r)
    BY <1>1, Operation DEF WriterStart
  <2>2. \A c \in Callers : \A r : ~Puts(c, r)
    BY <1>1, SomeRequest DEF Puts
  <2> QED BY <1>1, <2>1, <2>2 DEF Singles, Single
<1>7. \A c \in Callers : Sees(c)
  BY <1>1, SomeRequest DEF Sees
<1>8. CacheTypes
  <2>1. <<>> \in Seq(Snapshots) /\ Len(<<>>) = 0 /\ 0 <= MaxCheckpoints
    BY CacheAssumption
  <2> QED BY <1>1, <2>1, TokensAre, CacheAssumption DEF CacheTypes
<1> QED BY <1>2, <1>3, <1>4, <1>5, <1>6, <1>7, <1>8 DEF StoresInv, DiskInv

LEMMA StoresStep == StoresInv /\ [Next]_vars => StoresInv'
BY TypesStep, OwingStep, ClosingStep, NumberedStep, SinglesStep, SeesStep, CacheStepTypes
   DEF StoresInv, DiskInv

\* Every snapshot that is owed is in the table, in the writer's hand or on the queue, ahead of
\* the flush that waits for it, and first of its request where a restore does.
THEOREM StoresInvariant == Spec => []StoresInv
<1>1. Init => StoresInv
  BY StoresInit
<1>2. StoresInv /\ [Next]_vars => StoresInv'
  BY StoresStep
<1> QED BY <1>1, <1>2, PTL DEF Spec

\* One row for each key.
LEMMA RowsAreKeys ==
  ASSUME TableTypes
  PROVE  Cardinality(Keys(table)) = Cardinality(table)
<1> DEFINE f == [row \in table |-> Key(row)]
<1>1. f \in [table -> Keys(table)]
  BY DEF Keys
<1>2. \A x, y \in table : f[x] = f[y] => x = y
  BY DEF TableTypes
<1>3. \A k \in Keys(table) : \E row \in table : f[row] = k
  BY DEF Keys
<1>4. DOMAIN f = table
  OBVIOUS
<1> HIDE DEF f
<1>5. f \in Bijection(table, Keys(table))
  BY <1>1, <1>2, <1>3, <1>4 DEF Bijection, Injection, Surjection, IsInjective
<1>6. ExistsBijection(table, Keys(table)) /\ IsFiniteSet(table)
  BY <1>5 DEF ExistsBijection, TableTypes
<1> QED BY <1>6, FS_Bijection

\* The state of both stores keeps its types: one row per key in a file that does not shrink,
\* a cache within its capacity with one entry per request, checkpoints within theirs.
THEOREM StoresTypeCorrect == Spec => []StoresTypeOK
<1>1. StoresInv => StoresTypeOK
  <2> SUFFICES ASSUME StoresInv PROVE StoresTypeOK
    OBVIOUS
  <2>1. TableTypes /\ WriterTypes /\ CallTypes /\ CacheTypes
    BY DEF StoresInv, DiskInv
  <2>2. \A row \in table : Key(row) \in AllKeys /\ row.created_at \in 0 .. MaxCalls
    BY <2>1, TokensAre DEF TableTypes, Rows, Key
  <2>3. Cardinality(Keys(table)) = Cardinality(table) /\ high_water >= Cardinality(table)
    <3>1. Cardinality(table) \in Nat
      BY <2>1, FS_CardinalityType DEF TableTypes
    <3> QED BY <2>1, <3>1, RowsAreKeys DEF TableTypes
  <2>4. /\ pending \in SUBSET ReqIds /\ closed \in BOOLEAN /\ connected \in BOOLEAN
        /\ owed \in SUBSET AllKeys /\ confirmed \in SUBSET AllKeys /\ overlap \in SUBSET ReqIds
        /\ crowded \in SUBSET ReqIds
    BY <2>1 DEF CallTypes
  <2>5. writer.at \in {"get", "entry", "done", "gone"} /\ writer.draining \in BOOLEAN
    BY <2>1 DEF WriterTypes
  <2>6. call \in [Callers -> [op : Ops, req : ReqIds, pos : Nat, at : Ats, sees : SUBSET AllKeys]]
    BY <2>1 DEF CallTypes, Calling
  <2>7. ToSet(cpu_cache) \subseteq AllKeys /\ ToSet(evicting) \subseteq AllKeys
    BY <2>1 DEF CacheTypes, ToSet
  <2>8. IsInjective([i \in DOMAIN cpu_cache |-> cpu_cache[i].req])
    BY <2>1 DEF CacheTypes, IsInjective
  <2>9. \A r \in ReqIds : ToSet(checkpoints[r]) \subseteq [pos : Tokens, absorbed : Tokens]
    <3> SUFFICES ASSUME NEW r \in ReqIds PROVE ToSet(checkpoints[r]) \subseteq Snapshots
      BY DEF Snapshots
    <3>1. checkpoints[r] \in Seq(Snapshots)
      BY <2>1 DEF CacheTypes
    <3> QED BY <3>1 DEF ToSet
  <2>10. /\ Len(cpu_cache) <= MaxCpuEntries /\ computed \in [ReqIds -> Tokens]
         /\ \A r \in ReqIds : Len(checkpoints[r]) <= MaxCheckpoints
    BY <2>1 DEF CacheTypes
  <2> QED BY <2>2, <2>3, <2>4, <2>5, <2>6, <2>7, <2>8, <2>9, <2>10 DEF StoresTypeOK
<1> QED BY <1>1, StoresInvariant, PTL

\* What a flush or a close has reported as written is in the table until somebody deletes or
\* evicts it, whatever the threads do in between and however often the process dies.
THEOREM ConfirmedIsWrittenHolds == Spec => []ConfirmedIsWritten
<1>1. StoresInv => ConfirmedIsWritten
  BY DEF StoresInv, DiskInv, Owing, ConfirmedIsWritten
<1> QED BY <1>1, StoresInvariant, PTL

\* A restore reads a position no smaller than any that was saved before it began, where the
\* operations on the request did not overlap.
THEOREM RestoreSeesTheSaveHolds == Spec => []RestoreSeesTheSave
<1>1. StoresInv => RestoreSeesTheSave
  <2> SUFFICES ASSUME StoresInv, NEW c \in Callers, call[c].at = "read", NEW k \in call[c].sees
               PROVE  k.pos <= Latest(k.req)
    BY DEF RestoreSeesTheSave
  <2>1. k \in Keys(table)
    BY DEF StoresInv, DiskInv, Sees
  <2>2. PICK row \in table : k = Key(row)
    BY <2>1 DEF Keys
  <2> DEFINE S == {0} \cup {x.pos : x \in {y \in table : y.req = k.req}}
  <2>3. S \in SUBSET (0 .. Max(Positions))
    BY StoreAssumption DEF StoresInv, DiskInv, TableTypes, Rows, Tokens
  <2>4. k.pos \in S
    BY <2>2 DEF Key
  <2>5. Latest(k.req) = Max(S)
    BY DEF Latest
  <2> HIDE DEF S
  <2>6. k.pos <= Max(S)
    BY <2>3, <2>4, MaxBounds, StoreAssumption
  <2> QED BY <2>5, <2>6
<1> QED BY <1>1, StoresInvariant, PTL
=============================================================================

------------------------- MODULE StateCacheManager --------------------------
(***************************************************************************)
(* vkwr/state/state_cache.py over the disk store: snapshots of finished    *)
(* requests in an OrderedDict used as an LRU cache, and per request a list *)
(* of checkpoints.  It is called by the engine's thread alone.             *)
(*                                                                         *)
(* A recurrent state is abstracted to the number of tokens it has          *)
(* absorbed, which is what a checkpoint's label speaks about.              *)
(***************************************************************************)
EXTENDS StateDiskStore

CONSTANTS
  Engine,              \* the caller that owns the cache
  MaxCpuEntries, MaxCheckpoints,
  CheckpointInterval   \* 0: none

ASSUME CacheAssumption ==
  /\ Engine \in Callers /\ MaxCpuEntries \in Nat \ {0}
  /\ MaxCheckpoints \in Nat /\ CheckpointInterval \in Nat

VARIABLES
  cpu_cache,     \* sequence of [req, pos], least recently used first
  checkpoints,   \* request -> sequence of [pos, absorbed], oldest first
  evicting,      \* entries that evict_oldest has taken out and not handed over yet
  computed       \* engine: request -> tokens its state has absorbed

Tokens == 0 .. Max(Positions)

cacheVars == <<cpu_cache, checkpoints, evicting, computed>>
vars == <<diskVars, cacheVars>>

Init ==
  /\ DiskInit
  /\ cpu_cache = <<>> /\ checkpoints = [r \in ReqIds |-> <<>>]
  /\ evicting = <<>>
  /\ computed = [r \in ReqIds |-> 0]

Cached(r) == \E i \in DOMAIN cpu_cache : cpu_cache[i].req = r
PlaceOf(r) == CHOOSE i \in DOMAIN cpu_cache : cpu_cache[i].req = r
EntryOf(r) == cpu_cache[PlaceOf(r)]
Others(r) == IF Cached(r) THEN RemoveAt(cpu_cache, PlaceOf(r)) ELSE cpu_cache
MoveToEnd(r) == Append(Others(r), EntryOf(r))

\* Cache calls are counted with those of the store and made between two of the latter.
CacheCall ==
  /\ call[Engine].at = "idle" /\ evicting = <<>> /\ calls < MaxCalls
  /\ calls' = calls + 1
  /\ UNCHANGED <<storeVars, call, restarts, historyVars>>
-----------------------------------------------------------------------------
\* Mutant of Save: the test for a full cache is off by one.
SaveOverfull(r) ==
  /\ CacheCall
  /\ LET full == Len(cpu_cache) > MaxCpuEntries
         kept == IF full THEN Tail(cpu_cache) ELSE cpu_cache
     IN  /\ cpu_cache' = IF Cached(r) THEN MoveToEnd(r)
                         ELSE Append(kept, [req |-> r, pos |-> computed[r]])
         /\ checkpoints' = IF ~Cached(r) /\ full
                           THEN [checkpoints EXCEPT ![Head(cpu_cache).req] = <<>>]
                           ELSE checkpoints
  /\ UNCHANGED <<evicting, computed>>

\* A known request keeps its old snapshot; a full cache drops the oldest entry and its
\* checkpoints, and does not write it to the disk.
Save(r) ==
  /\ CacheCall
  /\ LET full == Len(cpu_cache) >= MaxCpuEntries
         kept == IF full THEN Tail(cpu_cache) ELSE cpu_cache
     IN  /\ cpu_cache' = IF Cached(r) THEN MoveToEnd(r)
                         ELSE Append(kept, [req |-> r, pos |-> computed[r]])
         /\ checkpoints' = IF ~Cached(r) /\ full
                           THEN [checkpoints EXCEPT ![Head(cpu_cache).req] = <<>>]
                           ELSE checkpoints
  /\ UNCHANGED <<evicting, computed>>

Restore(r) ==
  /\ CacheCall /\ Cached(r)
  /\ cpu_cache' = MoveToEnd(r)
  /\ computed' = [computed EXCEPT ![r] = EntryOf(r).pos]
  /\ UNCHANGED <<checkpoints, evicting>>

Clear(r) ==
  /\ CacheCall
  /\ cpu_cache' = Others(r)
  /\ checkpoints' = [checkpoints EXCEPT ![r] = <<>>]
  /\ UNCHANGED <<evicting, computed>>

Newest(q) == SubSeq(q, Max({1, Len(q) - MaxCheckpoints + 1}), Len(q))

\* A uniform decode step of r, with _maybe_checkpoint: the label is num_computed_tokens
\* as the batch was scheduled, the state is the one after the forward pass.
DecodeStep(r) ==
  /\ CacheCall
  /\ computed[r] < Max(Positions)
  /\ computed' = [computed EXCEPT ![r] = @ + 1]
  /\ checkpoints' =
       IF CheckpointInterval > 0 /\ computed[r] % CheckpointInterval = 0
       THEN [checkpoints EXCEPT ![r] =
               Newest(Append(@, [pos |-> computed[r], absorbed |-> computed[r] + 1]))]
       ELSE checkpoints
  /\ UNCHANGED <<cpu_cache, evicting>>

\* The first entry of the list at or before the target, that is, the oldest; it has
\* absorbed one token more than its label says.  Later entries stay in the list.
Rollback(r, target) ==
  /\ CacheCall
  /\ \E k \in DOMAIN checkpoints[r] :
       /\ checkpoints[r][k].pos <= target
       /\ \A j \in 1 .. k - 1 : checkpoints[r][j].pos > target
       /\ computed' = [computed EXCEPT ![r] = checkpoints[r][k].absorbed]
  /\ UNCHANGED <<cpu_cache, checkpoints, evicting>>

\* evict_oldest(n): taken out of the cache one by one, each followed by disk_store.save.
EvictOldest(n) ==
  /\ CacheCall
  /\ n \in 1 .. Len(cpu_cache)
  /\ cpu_cache' = SubSeq(cpu_cache, n + 1, Len(cpu_cache))
  /\ evicting' = SubSeq(cpu_cache, 1, n)
  /\ checkpoints' = [r \in ReqIds |->
       IF \E i \in 1 .. n : cpu_cache[i].req = r THEN <<>> ELSE checkpoints[r]]
  /\ UNCHANGED <<computed>>

SaveEvicted ==
  /\ evicting # <<>> /\ call[Engine].at = "idle"
  /\ evicting' = Tail(evicting)
  /\ IF closed THEN UNCHANGED diskVars
     ELSE /\ call' = [call EXCEPT ![Engine] =
                        [Idle EXCEPT !.op = "save", !.req = Head(evicting).req,
                                     !.pos = Head(evicting).pos, !.at = "mark"]]
          /\ UNCHANGED <<storeVars, calls, restarts, historyVars>>
  /\ UNCHANGED <<cpu_cache, checkpoints, computed>>
-----------------------------------------------------------------------------
CacheStep ==
  \/ \E r \in ReqIds : Save(r) \/ Restore(r) \/ Clear(r) \/ DecodeStep(r)
  \/ \E r \in ReqIds, target \in Tokens : Rollback(r, target)
  \/ \E n \in 1 .. MaxCpuEntries : EvictOldest(n)
  \/ SaveEvicted

\* Threads other than the engine's use the store directly; the engine closes it.
Calls(c) ==
  \/ \E r \in ReqIds, pos \in Positions : SaveBegin(c, r, pos)
  \/ \E r \in ReqIds : ClearBegin(c, r) \/ RestoreBegin(c, r)
  \/ FlushBegin(c)

DiskStep ==
  \/ \E c \in Callers \ {Engine} : Calls(c)
  \/ evicting = <<>> /\ CloseBegin(Engine)
  \/ \E c \in Callers : CallStep(c)
  \/ Writer

\* The memory of the process goes with it.
RestartAll ==
  /\ Restart
  /\ cpu_cache' = <<>> /\ checkpoints' = [r \in ReqIds |-> <<>>] /\ evicting' = <<>>
  /\ computed' = [r \in ReqIds |-> 0]

Next ==
  \/ CacheStep
  \/ DiskStep /\ UNCHANGED cacheVars
  \/ RestartAll

Spec == Init /\ [][Next]_vars

\* The operating system schedules the writer and every caller.
FairSpec ==
  /\ Spec
  /\ WF_vars(Writer /\ UNCHANGED cacheVars)
  /\ \A c \in Callers : WF_vars(CallStep(c) /\ UNCHANGED cacheVars)
-----------------------------------------------------------------------------
(***************************************************************************)
(* Properties                                                              *)
(***************************************************************************)
Ops == {"save", "delete", "restore", "flush", "close", "none"}
Ats == {"idle", "wait", "mark", "put", "read", "flush", "flushed", "join"}
AllKeys == [req : ReqIds, pos : 0 .. Max(Positions)]

StoresTypeOK ==
  /\ \A row \in table : Key(row) \in AllKeys /\ row.created_at \in 0 .. MaxCalls
  /\ Cardinality(Keys(table)) = Cardinality(table) /\ high_water >= Cardinality(table)
  /\ pending \in SUBSET ReqIds /\ closed \in BOOLEAN /\ connected \in BOOLEAN
  /\ writer.at \in {"get", "entry", "done", "gone"} /\ writer.draining \in BOOLEAN
  /\ call \in [Callers -> [op : Ops, req : ReqIds, pos : Nat, at : Ats,
                           sees : SUBSET AllKeys]]
  /\ owed \in SUBSET AllKeys /\ confirmed \in SUBSET AllKeys /\ overlap \in SUBSET ReqIds
  /\ crowded \in SUBSET ReqIds
  /\ Len(cpu_cache) <= MaxCpuEntries /\ ToSet(cpu_cache) \subseteq AllKeys
  /\ IsInjective([i \in DOMAIN cpu_cache |-> cpu_cache[i].req])
  /\ \A r \in ReqIds : /\ Len(checkpoints[r]) <= MaxCheckpoints
                       /\ ToSet(checkpoints[r]) \subseteq [pos : Tokens, absorbed : Tokens]
  /\ ToSet(evicting) \subseteq AllKeys
  /\ computed \in [ReqIds -> Tokens]

\* What a flush has waited for, or a close whose writer ended, is in the table, also
\* after the process died, until it is deleted or evicted.
ConfirmedIsWritten == confirmed \subseteq Keys(table)

\* A restore finds what was saved before it began, or something later, unless the saves
\* and clears of the request overlapped: the first of them to finish ends the wait for
\* all.
RestoreSeesTheSave ==
  \A c \in Callers :
    call[c].op = "restore" /\ call[c].at = "read" /\ connected =>
      \A k \in call[c].sees : k.pos <= Latest(k.req)

\* restore and clear return, even while the store closes or a write fails, unless a
\* save or clear of the same request was under way when close() began.
WaitsEnd ==
  \A c \in Callers :
    call[c].at = "wait" ~> call[c].at # "wait" \/ call[c].req \in overlap
=============================================================================

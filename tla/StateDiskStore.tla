--------------------------- MODULE StateDiskStore ---------------------------
(***************************************************************************)
(* vkwr/state/state_disk_store.py: snapshots of requests in an SQLite      *)
(* table, written by a thread of its own.  Any thread may call save,       *)
(* clear, restore, flush and close; a save or a clear marks the request as *)
(* pending and puts an operation on a queue, a restore waits until the     *)
(* request is not pending and reads the table.                             *)
(*                                                                         *)
(* A snapshot is the position it was taken at.  The process may die at any *)
(* point and open the same file again: the table is what survives.         *)
(***************************************************************************)
EXTENDS Naturals, Sequences, FiniteSets, SequencesExt, FiniteSetsExt

CONSTANTS
  Callers,        \* threads that call the store
  ReqIds,
  Positions,      \* values of token_pos
  MaxRows,        \* rows that make the file reach max_size_bytes
  EvictBatch,     \* 10 in the code
  MaxCalls,       \* bound: calls of the stores; a flush is known by its number
  MaxRestarts     \* bound: restarts of the process

\* Positions are finitely many natural numbers.
ASSUME StoreAssumption ==
  /\ ReqIds # {} /\ MaxCalls \in Nat
  /\ Max(Positions) \in Nat /\ \A pos \in Positions : pos \in 0 .. Max(Positions)

VARIABLES
  table,          \* state_entries: rows of (req_id, token_pos, created_at)
  high_water,     \* page_count, in rows: deleted rows leave free pages behind
  write_queue,
  pending,        \* domain of _pending_events; every wait polls, so events carry no more
  closed,         \* _closed
  connected,      \* the two connections are open
  writer,         \* what the writer thread does, and the operation it has in hand
  call,           \* caller -> the call it is in, and where
  calls, restarts \* counters of the bounds

VARIABLES
  owed,           \* history: keys put on the queue before close() and not deleted, evicted, failed or lost
  confirmed,      \* history: keys that a flush or a close has reported as written
  overlap,        \* history: requests whose save or clear was under way when close() began
  crowded         \* history: requests marked while another operation on them was unfinished

storeVars == <<table, high_water, write_queue, pending, closed, connected, writer>>
historyVars == <<owed, confirmed, overlap, crowded>>
diskVars == <<storeVars, call, calls, restarts, historyVars>>

Key(row) == [req |-> row.req, pos |-> row.pos]
Keys(rows) == {Key(row) : row \in rows}
IsOn(op, r) == op.type \in {"save", "delete"} /\ op.req = r

Idle == [op |-> "none", req |-> CHOOSE r \in ReqIds : TRUE, pos |-> 0, at |-> "idle",
         sees |-> {}]
NoOp == [type |-> "none"]
WriterStart == [at |-> "get", op |-> NoOp, draining |-> FALSE]

DiskInit ==
  /\ table = {} /\ high_water = 0
  /\ write_queue = <<>> /\ pending = {} /\ closed = FALSE /\ connected = TRUE
  /\ writer = WriterStart
  /\ call = [c \in Callers |-> Idle]
  /\ calls = 0 /\ restarts = 0
  /\ owed = {} /\ confirmed = {} /\ overlap = {} /\ crowded = {}
-----------------------------------------------------------------------------
(***************************************************************************)
(* The calls.                                                              *)
(***************************************************************************)
Enter(c, op, r, pos, at, sees) ==
  /\ call[c].at = "idle" /\ calls < MaxCalls
  /\ calls' = calls + 1
  /\ call' = [call EXCEPT ![c] = [op |-> op, req |-> r, pos |-> pos, at |-> at, sees |-> sees]]

Leave(c) == call' = [call EXCEPT ![c] = Idle]
GoTo(c, at) == call' = [call EXCEPT ![c].at = at]

\* The closed test; the state is pickled, which another thread does not notice.
SaveBegin(c, r, pos) ==
  /\ ~closed
  /\ Enter(c, "save", r, pos, "mark", {})
  /\ UNCHANGED <<storeVars, restarts, historyVars>>

ClearBegin(c, r) ==
  /\ ~closed
  /\ Enter(c, "delete", r, 0, "wait", {})
  /\ UNCHANGED <<storeVars, restarts, historyVars>>

\* Operations on r, those under way in calls of C from their mark until the writer takes them.
Queued(r, C) ==
  \/ \E i \in DOMAIN write_queue : IsOn(write_queue[i], r)
  \/ \E d \in C : call[d].at = "put" /\ call[d].req = r

\* sees: what this restore has to find, as long as nobody takes it out again.
RestoreBegin(c, r) ==
  /\ Enter(c, "restore", r, 0, "wait",
           IF r \in crowded THEN {} ELSE {k \in owed : k.req = r})
  /\ UNCHANGED <<storeVars, restarts, historyVars>>

\* Mutant of WaitPending: the wait is for an empty queue.
WaitQueueEmpty(c) ==
  /\ call[c].at = "wait" /\ write_queue = <<>>
  /\ GoTo(c, IF call[c].op = "delete" THEN "mark" ELSE "read")
  /\ UNCHANGED <<storeVars, calls, restarts, historyVars>>

WaitPending(c) ==
  /\ call[c].at = "wait" /\ call[c].req \notin pending
  /\ GoTo(c, IF call[c].op = "delete" THEN "mark" ELSE "read")
  /\ UNCHANGED <<storeVars, calls, restarts, historyVars>>

MarkPending(c) ==
  /\ call[c].at = "mark"
  /\ pending' = pending \cup {call[c].req}
  /\ crowded' = IF Queued(call[c].req, Callers \ {c}) \/ IsOn(writer.op, call[c].req)
                THEN crowded \cup {call[c].req} ELSE crowded
  /\ GoTo(c, "put")
  /\ UNCHANGED <<table, high_water, write_queue, closed, connected, writer, calls, restarts,
                 owed, confirmed, overlap>>

\* created_at, of which only the order matters, is taken with the put.
PutOp(c) ==
  /\ call[c].at = "put"
  /\ write_queue' = Append(write_queue, [type |-> call[c].op, req |-> call[c].req,
                                         pos |-> call[c].pos, created_at |-> calls])
  /\ owed' = IF call[c].op = "save" /\ ~closed THEN owed \cup {Key(call[c])} ELSE owed
  /\ Leave(c)
  /\ UNCHANGED <<table, high_water, pending, closed, connected, writer, calls, restarts,
                 confirmed, overlap, crowded>>

\* SELECT ... ORDER BY token_pos DESC LIMIT 1; None when there is no row, or no connection.
Latest(r) == Max({0} \cup {row.pos : row \in {x \in table : x.req = r}})

RestoreRead(c) ==
  /\ call[c].at = "read"
  /\ Leave(c)
  /\ UNCHANGED <<storeVars, calls, restarts, historyVars>>

FlushBegin(c) ==
  /\ Enter(c, "flush", Idle.req, calls, "flush", owed)
  /\ write_queue' = Append(write_queue, [type |-> "flush", by |-> c, event |-> calls])
  /\ UNCHANGED <<table, high_water, pending, closed, connected, writer, restarts, historyVars>>

\* The event of this call was set, or 30 seconds have passed: flush() returns without telling which.
FlushEnd(c) ==
  /\ call[c].op = "flush" /\ call[c].at \in {"flush", "flushed"}
  /\ confirmed' = IF call[c].at = "flushed" THEN confirmed \cup call[c].sees
                  ELSE confirmed
  /\ Leave(c)
  /\ UNCHANGED <<storeVars, calls, restarts, owed, overlap, crowded>>

CloseBegin(c) ==
  /\ Enter(c, "close", Idle.req, 0, "join", owed)
  /\ closed' = TRUE
  /\ write_queue' = Append(write_queue, [type |-> "shutdown"])
  /\ overlap' = overlap \cup {call[d].req : d \in {d \in Callers :
                                call[d].op \in {"save", "delete"} /\ call[d].at # "idle"}}
  /\ UNCHANGED <<table, high_water, pending, connected, writer, restarts, owed, confirmed,
                 crowded>>

\* Mutant of CloseEnd: the writer is not waited for.
CloseEndAtOnce(c) ==
  /\ call[c].at = "join"
  /\ connected' = FALSE
  /\ confirmed' = confirmed \cup call[c].sees
  /\ Leave(c)
  /\ UNCHANGED <<table, high_water, write_queue, pending, closed, writer, calls, restarts,
                 owed, overlap, crowded>>

\* join() returned because the thread ended, or after 10 seconds.
CloseEnd(c) ==
  /\ call[c].at = "join"
  /\ connected' = FALSE
  /\ confirmed' = IF writer.at = "gone" THEN confirmed \cup call[c].sees
                  ELSE confirmed
  /\ Leave(c)
  /\ UNCHANGED <<table, high_water, write_queue, pending, closed, writer, calls, restarts,
                 owed, overlap, crowded>>
-----------------------------------------------------------------------------
(***************************************************************************)
(* The writer thread: _writer_loop and, after the shutdown message,        *)
(* _flush_remaining.                                                       *)
(***************************************************************************)
WriterGet ==
  /\ writer.at = "get" /\ write_queue # <<>>
  /\ write_queue' = Tail(write_queue)
  /\ LET op == Head(write_queue) IN
       /\ writer' = [writer EXCEPT
            !.at = IF op.type \in {"save", "delete"} THEN "entry" ELSE "get",
            !.op = IF op.type \in {"save", "delete"} THEN op ELSE NoOp,
            !.draining = @ \/ op.type = "shutdown"]
       /\ call' = IF /\ op.type = "flush" /\ ~writer.draining
                     /\ call[op.by].at = "flush" /\ call[op.by].pos = op.event
                  THEN [call EXCEPT ![op.by].at = "flushed"] ELSE call
  /\ UNCHANGED <<table, high_water, pending, closed, connected, calls, restarts, historyVars>>

\* _enforce_max_size: every row of the requests of the EvictBatch oldest rows.
OldestRows ==
  {row \in table : Cardinality({x \in table : x.created_at < row.created_at}) < EvictBatch}

Evicted ==
  IF connected /\ high_water >= MaxRows
  THEN {row \in table : \E old \in OldestRows : old.req = row.req} ELSE {}

\* Nobody has to find keys any more.
Excuse(keys) ==
  /\ owed' = owed \ keys /\ confirmed' = confirmed \ keys
  /\ call' = [c \in Callers |-> [call[c] EXCEPT !.sees = @ \ keys]]

Row(op) == [req |-> op.req, pos |-> op.pos, created_at |-> op.created_at]

\* _save_entry, INSERT OR REPLACE; errors are logged and the operation counts as done.
SaveEntry ==
  /\ writer.at = "entry" /\ writer.op.type = "save" /\ connected
  /\ table' = {row \in table \ Evicted : Key(row) # Key(writer.op)} \cup {Row(writer.op)}
  /\ high_water' = Max({high_water, Cardinality(table')})
  /\ Excuse(Keys(Evicted) \ {Key(writer.op)})
  /\ writer' = [writer EXCEPT !.at = "done"]
  /\ UNCHANGED <<write_queue, pending, closed, connected, calls, restarts, overlap, crowded>>

DeleteEntries ==
  /\ writer.at = "entry" /\ writer.op.type = "delete" /\ connected
  /\ table' = {row \in table : row.req # writer.op.req}
  /\ Excuse(Keys(table \ table'))
  /\ writer' = [writer EXCEPT !.at = "done"]
  /\ UNCHANGED <<high_water, write_queue, pending, closed, connected, calls, restarts,
                 overlap, crowded>>

\* Mutant of EntryFails: the error skips _mark_done.
EntryFailsPending ==
  /\ writer.at = "entry"
  /\ Excuse(IF writer.op.type = "save" THEN {Key(writer.op)} \ Keys(table) ELSE {})
  /\ writer' = [writer EXCEPT !.at = "get", !.op = NoOp]
  /\ UNCHANGED <<table, high_water, write_queue, pending, closed, connected, calls,
                 restarts, overlap, crowded>>

\* The connection was closed under the writer, or SQLite raises.
EntryFails ==
  /\ writer.at = "entry"
  /\ table' = IF writer.op.type = "save" THEN table \ Evicted ELSE table
  /\ Excuse(Keys(table \ table') \cup
              (IF writer.op.type = "save" THEN {Key(writer.op)} \ Keys(table') ELSE {}))
  /\ writer' = [writer EXCEPT !.at = "done"]
  /\ UNCHANGED <<high_water, write_queue, pending, closed, connected, calls, restarts,
                 overlap, crowded>>

MarkDone ==
  /\ writer.at = "done"
  /\ pending' = pending \ {writer.op.req}
  /\ writer' = [writer EXCEPT !.at = "get", !.op = NoOp]
  /\ crowded' = {r \in crowded : r # writer.op.req \/ Queued(r, Callers)}
  /\ UNCHANGED <<table, high_water, write_queue, closed, connected, call, calls, restarts,
                 owed, confirmed, overlap>>

WriterEnds ==
  /\ writer.at = "get" /\ writer.draining /\ write_queue = <<>>
  /\ writer' = [writer EXCEPT !.at = "gone"]
  /\ UNCHANGED <<table, high_water, write_queue, pending, closed, connected, call, calls,
                 restarts, historyVars>>

\* The process ends, by itself or not, and another one opens the file.
Restart ==
  /\ restarts < MaxRestarts /\ restarts' = restarts + 1
  /\ write_queue' = <<>> /\ pending' = {} /\ closed' = FALSE /\ connected' = TRUE
  /\ writer' = WriterStart
  /\ call' = [c \in Callers |-> Idle]
  /\ owed' = owed \cap Keys(table)
  /\ overlap' = {} /\ crowded' = {}
  /\ UNCHANGED <<table, high_water, calls, confirmed>>
-----------------------------------------------------------------------------
CallStep(c) ==
  \/ WaitPending(c) \/ MarkPending(c) \/ PutOp(c) \/ RestoreRead(c) \/ FlushEnd(c) \/ CloseEnd(c)

Writer == WriterGet \/ SaveEntry \/ DeleteEntries \/ EntryFails \/ MarkDone \/ WriterEnds
=============================================================================

-------------------------- MODULE StateSlotManager --------------------------
(***************************************************************************)
(* vkwr/state/state_slot_manager.py: which request owns which GPU state    *)
(* slot.  The class keeps two dicts that must stay inverse to each other,  *)
(* a sorted list of free slots and the slots borrowed to pad a CUDA graph  *)
(* batch.  batch_condense is modelled loop iteration by loop iteration,    *)
(* so that a reader can see when it raises KeyError.                       *)
(*                                                                         *)
(* free_slots is a list in the code; every operation leaves it sorted and  *)
(* takes from its front, so it is a set here, taken from at its lowest     *)
(* element.                                                                *)
(***************************************************************************)
EXTENDS Integers, Sequences, FiniteSets

CONSTANTS Requests,   \* request ids
          MaxSlots,   \* __init__(max_slots)
          NoReq       \* a slot nobody owns: the key is not in slot_to_req

ASSUME SlotAssumption == MaxSlots \in Nat \ {0} /\ NoReq \notin Requests

VARIABLES
  req_to_slot,    \* the dict; NoSlot for a request that is not a key
  slot_to_req,    \* the dict; NoReq for a slot that is not a key
  free_slots,     \* slots in the free list
  pad_slots,      \* _pad_slots
  pc,             \* "idle", "loop" inside batch_condense, "KeyError" raised by it
  freed_set, first_hole, last_occupied, moves,   \* batch_condense's locals
  held            \* history: req_to_slot when batch_condense was called

locals == <<freed_set, first_hole, last_occupied, moves, held>>
vars == <<req_to_slot, slot_to_req, free_slots, pad_slots, pc, locals>>

NoSlot   == -1
Slots    == 0 .. MaxSlots - 1
Occupied == {s \in Slots : slot_to_req[s] # NoReq}
Holders  == {r \in Requests : req_to_slot[r] # NoSlot}

IsLowest(s, S)  == s \in S /\ \A t \in S : s <= t
IsHighest(s, S) == s \in S /\ \A t \in S : t <= s

Init ==
  /\ req_to_slot = [r \in Requests |-> NoSlot]
  /\ slot_to_req = [s \in Slots |-> NoReq]
  /\ free_slots = Slots
  /\ pad_slots = {}
  /\ pc = "idle"
  /\ freed_set = {} /\ first_hole = 0 /\ last_occupied = 0 /\ moves = <<>>
  /\ held = req_to_slot
-----------------------------------------------------------------------------
\* Mutant of Allocate: the slot stays in the free list.
AllocateKeepsFree(r) ==
  /\ pc = "idle" /\ pad_slots = {}
  /\ r \notin Holders
  /\ \E slot \in free_slots :
       /\ IsLowest(slot, free_slots)
       /\ req_to_slot' = [req_to_slot EXCEPT ![r] = slot]
       /\ slot_to_req' = [slot_to_req EXCEPT ![slot] = r]
  /\ UNCHANGED <<free_slots, pad_slots, pc, locals>>

(***************************************************************************)
(* allocate(req_id).  The engine gives every request a fresh internal id,  *)
(* and it borrows pad slots only within one forward pass, which allocates  *)
(* and frees nothing.                                                      *)
(***************************************************************************)
Allocate(r) ==
  /\ pc = "idle" /\ pad_slots = {}
  /\ r \notin Holders
  /\ \E slot \in free_slots :
       /\ IsLowest(slot, free_slots)
       /\ free_slots' = free_slots \ {slot}
       /\ req_to_slot' = [req_to_slot EXCEPT ![r] = slot]
       /\ slot_to_req' = [slot_to_req EXCEPT ![slot] = r]
  /\ UNCHANGED <<pad_slots, pc, locals>>

\* free(req_id), which tests use and the engine does not.
Free(r) ==
  /\ pc = "idle" /\ pad_slots = {}
  /\ r \in Holders
  /\ free_slots' = free_slots \cup {req_to_slot[r]}
  /\ slot_to_req' = [slot_to_req EXCEPT ![req_to_slot[r]] = NoReq]
  /\ req_to_slot' = [req_to_slot EXCEPT ![r] = NoSlot]
  /\ UNCHANGED <<pad_slots, pc, locals>>

\* reserve_pad_slots(n): the n lowest free slots.
ReservePadSlots(n) ==
  /\ pc = "idle" /\ pad_slots = {}
  /\ \E pads \in SUBSET free_slots :
       /\ Cardinality(pads) = n
       /\ \A s \in pads, t \in free_slots \ pads : s < t
       /\ pad_slots' = pads
       /\ free_slots' = free_slots \ pads
  /\ UNCHANGED <<req_to_slot, slot_to_req, pc, locals>>

\* Mutant of ReleasePadSlots: the pads never return to the free list.
ReleasePadSlotsLoses ==
  /\ pc = "idle" /\ pad_slots # {}
  /\ pad_slots' = {}
  /\ UNCHANGED <<req_to_slot, slot_to_req, free_slots, pc, locals>>

ReleasePadSlots ==
  /\ pc = "idle" /\ pad_slots # {}
  /\ free_slots' = free_slots \cup pad_slots
  /\ pad_slots' = {}
  /\ UNCHANGED <<req_to_slot, slot_to_req, pc, locals>>
-----------------------------------------------------------------------------
(***************************************************************************)
(* batch_condense(freed_slots).  Its argument pairs each request with its  *)
(* slot, so the requests alone determine it.                               *)
(***************************************************************************)
CondenseBegin(freed) ==
  /\ pc = "idle" /\ pad_slots = {}
  /\ freed # {} /\ freed \subseteq Holders
  /\ held' = req_to_slot
  /\ freed_set' = {req_to_slot[r] : r \in freed}
  /\ req_to_slot' = [r \in Requests |-> IF r \in freed THEN NoSlot ELSE req_to_slot[r]]
  /\ slot_to_req' = [s \in Slots |-> IF s \in freed_set' THEN NoReq ELSE slot_to_req[s]]
  /\ \E hole \in Slots :
       /\ IsLowest(hole, freed_set')
       /\ first_hole' = hole
       /\ \/ Occupied' = {} /\ last_occupied' = hole - 1
          \/ \E last \in Slots : IsHighest(last, Occupied') /\ last_occupied' = last
  /\ moves' = <<>>
  /\ pc' = "loop"
  /\ UNCHANGED <<free_slots, pad_slots>>

\* Mutant of IsScanned: the inner while is missing.
IsScannedNot(last) == last = last_occupied

\* Where the inner while stops: it steps down over freed slots.
IsScanned(last) ==
  IsHighest(last, ((first_hole .. last_occupied) \ freed_set) \cup {first_hole - 1})

\* Mutants of Unfilled: off by one; the highest hole.
UnfilledShort(last) == {s \in freed_set : s < last - 1}
UnfilledTop(last)   == {s \in freed_set : IsHighest(s, {t \in freed_set : t < last})}

Unfilled(last) == {s \in freed_set : s < last}

\* One turn of the outer loop: the highest request goes to the lowest hole.
CondenseMove ==
  /\ pc = "loop"
  /\ \E last \in Slots, dst \in freed_set :
       /\ IsScanned(last) /\ last >= first_hole
       /\ IsLowest(dst, Unfilled(last))
       /\ slot_to_req[last] # NoReq
       /\ req_to_slot' = [req_to_slot EXCEPT ![slot_to_req[last]] = dst]
       /\ slot_to_req' = [slot_to_req EXCEPT ![dst] = slot_to_req[last], ![last] = NoReq]
       /\ freed_set' = (freed_set \cup {last}) \ {dst}
       /\ moves' = Append(moves, <<last, dst>>)
       /\ last_occupied' = last - 1
  /\ UNCHANGED <<free_slots, pad_slots, pc, first_hole, held>>

\* slot_to_req[last_occupied] of a slot that is neither freed nor owned.
CondenseKeyError ==
  /\ pc = "loop"
  /\ \E last \in Slots :
       /\ IsScanned(last) /\ last >= first_hole
       /\ Unfilled(last) # {}
       /\ slot_to_req[last] = NoReq
  /\ pc' = "KeyError"
  /\ UNCHANGED <<req_to_slot, slot_to_req, free_slots, pad_slots, locals>>

\* The loop ends, the remaining holes return to the free list, moves is returned.
CondenseEnd ==
  /\ pc = "loop"
  /\ \E last \in -1 .. MaxSlots - 1 :
       /\ IsScanned(last)
       /\ last < first_hole \/ Unfilled(last) = {}
  /\ free_slots' = free_slots \cup freed_set
  /\ pc' = "idle"
  /\ freed_set' = {} /\ first_hole' = 0 /\ last_occupied' = 0 /\ moves' = <<>>
  /\ held' = [r \in Requests |-> NoSlot]
  /\ UNCHANGED <<req_to_slot, slot_to_req, pad_slots>>
-----------------------------------------------------------------------------
\* What the engine calls: everything but free().
EngineNext ==
  \/ \E r \in Requests : Allocate(r)
  \/ \E n \in 1 .. MaxSlots : ReservePadSlots(n)
  \/ ReleasePadSlots
  \/ \E freed \in SUBSET Requests : CondenseBegin(freed)
  \/ CondenseMove
  \/ CondenseKeyError
  \/ CondenseEnd

\* The whole class, in any order of calls.
Next ==
  \/ EngineNext
  \/ \E r \in Requests : Free(r)

EngineSpec == Init /\ [][EngineNext]_vars

Spec == Init /\ [][Next]_vars
-----------------------------------------------------------------------------
(***************************************************************************)
(* Properties                                                              *)
(***************************************************************************)
TypeOK ==
  /\ req_to_slot \in [Requests -> Slots \cup {NoSlot}]
  /\ slot_to_req \in [Slots -> Requests \cup {NoReq}]
  /\ free_slots \in SUBSET Slots
  /\ pad_slots \in SUBSET Slots
  /\ pc \in {"idle", "loop", "KeyError"}
  /\ freed_set \in SUBSET Slots
  /\ first_hole \in Slots
  /\ last_occupied \in -1 .. MaxSlots - 1
  /\ moves \in Seq(Slots \X Slots)
  /\ held \in [Requests -> Slots \cup {NoSlot}]

\* The two dicts stay inverse to each other, inside batch_condense too: no two
\* requests ever share a GPU slot, and no slot is booked for a request that left.
Bijection ==
  \A r \in Requests, s \in Slots : req_to_slot[r] = s <=> slot_to_req[s] = r

\* No slot is lost and none is handed out twice: each is free, lent as a pad,
\* owned, or in the hands of a batch_condense that has not returned.
Partition ==
  /\ free_slots \cup pad_slots \cup Occupied \cup freed_set = Slots
  /\ free_slots \cap pad_slots = {}
  /\ free_slots \cap Occupied = {}
  /\ free_slots \cap freed_set = {}
  /\ pad_slots \cap Occupied = {}
  /\ pad_slots \cap freed_set = {}
  /\ Occupied \cap freed_set = {}

\* Between two calls the owned slots are 0 .. n-1, whatever was freed: what
\* tests/integration/test_compaction.py asserts after every condense.
Compact ==
  pc = "idle" => \A s \in Occupied : \A t \in Slots : t < s => t \in Occupied

\* batch_condense never walks onto a slot that is neither freed nor owned.
CondenseNeverRaises == pc # "KeyError"

\* With free() in play batch_condense can raise, but only when it was called with
\* a free slot below an owned one.
RaisesOnlyOnAGap ==
  pc = "KeyError" =>
    \E s \in free_slots, r \in Requests : held[r] > s

\* The class implements SlotMap: a whole batch_condense is one step of it, padding
\* is invisible, and the free list is always what the map says.
Visible == IF pc = "loop" THEN held ELSE req_to_slot
Slot == INSTANCE SlotMap WITH req_to_slot <- Visible
=============================================================================

------------------------------ MODULE SlotMap ------------------------------
(***************************************************************************)
(* The promise of vkwr/state/state_slot_manager.py to the engine: every    *)
(* request that runs owns one GPU state slot, the slots in use are always  *)
(* the lowest ones, and giving slots back moves as few requests as         *)
(* possible to keep it so.  One dict is enough to say this.  Module        *)
(* StateSlotManager keeps the code's two dicts, its free list and its      *)
(* loop, and implements this module.                                       *)
(***************************************************************************)
EXTENDS Integers

CONSTANTS Requests,   \* request ids
          MaxSlots    \* StateSlotManager(max_slots)

VARIABLE req_to_slot  \* the slot of each request, NoSlot when it has none

NoSlot  == -1
Slots   == 0 .. MaxSlots - 1
Holders == {r \in Requests : req_to_slot[r] # NoSlot}
Used    == {req_to_slot[r] : r \in Holders}

IsLowest(s, S) == s \in S /\ \A t \in S : s <= t

Init == req_to_slot = [r \in Requests |-> NoSlot]

(***************************************************************************)
(* allocate: the lowest free slot.                                         *)
(***************************************************************************)
Allocate(r) ==
  /\ r \notin Holders
  /\ \E s \in Slots \ Used :
        /\ IsLowest(s, Slots \ Used)
        /\ req_to_slot' = [req_to_slot EXCEPT ![r] = s]

(***************************************************************************)
(* The slot maps of the survivors that batch_condense may leave: distinct  *)
(* slots 0 .. n-1, nobody moves who is already below n, and of two         *)
(* requests that move the higher one takes the lower hole.                 *)
(***************************************************************************)
Condensed(survivors, new) ==
  LET moved == {r \in survivors : new[r] # req_to_slot[r]} IN
  /\ \A r, q \in survivors : r # q => new[r] # new[q]
  /\ \A r \in survivors : \A t \in 0 .. new[r] : \E q \in survivors : new[q] = t
  /\ \A r \in moved : \A q \in survivors : new[q] < req_to_slot[r]
  /\ \A r, q \in moved : req_to_slot[r] < req_to_slot[q] => new[q] < new[r]

BatchCondense(freed) ==
  /\ freed # {} /\ freed \subseteq Holders
  /\ \E new \in [Holders \ freed -> Slots] :
        /\ Condensed(Holders \ freed, new)
        /\ req_to_slot' = [r \in Requests |->
                             IF r \in Holders \ freed THEN new[r] ELSE NoSlot]

Next == \/ \E r \in Requests : Allocate(r)
        \/ \E freed \in SUBSET Requests : BatchCondense(freed)

Spec == Init /\ [][Next]_req_to_slot
=============================================================================

----------------------- MODULE StateSlotManager_proofs -----------------------
(***************************************************************************)
(* StateSlotManager is correct for every number of slots and every set of  *)
(* requests.  Base holds in any order of calls, free() included; Inv is    *)
(* what the engine's calls keep beyond it: there is never a gap below an   *)
(* owned slot, so that batch_condense finds what it looks for.             *)
(***************************************************************************)
EXTENDS MCStateSlotManager, TLAPS

Available == free_slots \cup pad_slots

\* Outside batch_condense its locals hold nothing; inside it nothing is lent.
LocalsIdle == /\ pc = "idle" => freed_set = {}
              /\ pc = "loop" => pad_slots = {}

\* What every order of calls preserves.
Base ==
  /\ TypeOK
  /\ Bijection
  /\ Partition
  /\ LocalsIdle

\* No gap: a slot above an available one is available too.
NoGap == \A s \in Available, t \in Slots : s < t => t \in Available

\* Nothing at or below the scan is available, everything owned is.
ScanBound ==
  pc = "loop" =>
    /\ \A s \in Available : s > last_occupied
    /\ \A s \in Occupied : s <= last_occupied
    /\ \A s \in freed_set : s >= first_hole

\* What the engine's calls preserve beyond it.
Inv ==
  /\ Base
  /\ NoGap
  /\ ScanBound
  /\ CondenseNeverRaises

-----------------------------------------------------------------------------
\* Initially every slot is free.
LEMMA InitInv == Init => Inv
<1> SUFFICES ASSUME Init PROVE Inv
  OBVIOUS
<1> USE SlotAssumption
<1>1. TypeOK
  BY DEF Init, TypeOK, Slots, NoSlot
<1>2. Bijection
  BY DEF Init, Bijection, Slots, NoSlot
<1>3. Partition /\ NoGap /\ LocalsIdle /\ ScanBound /\ CondenseNeverRaises
  BY DEF Init, Partition, NoGap, Available, LocalsIdle, ScanBound,
         CondenseNeverRaises, Occupied, Slots
<1> QED
  BY <1>1, <1>2, <1>3 DEF Inv, Base

-----------------------------------------------------------------------------
(***************************************************************************)
(* The two dicts and the partition of the slots, in any order of calls     *)
(***************************************************************************)

\* allocate moves the lowest free slot into both dicts.
LEMMA AllocateBase ==
  ASSUME Base, NEW r \in Requests, Allocate(r)
  PROVE  Base'
<1> USE SlotAssumption DEF Base
<1>1. PICK slot \in free_slots :
        /\ free_slots' = free_slots \ {slot}
        /\ req_to_slot' = [req_to_slot EXCEPT ![r] = slot]
        /\ slot_to_req' = [slot_to_req EXCEPT ![slot] = r]
  BY DEF Allocate
<1>2. pc = "idle" /\ pad_slots = {} /\ r \notin Holders /\ freed_set = {}
      /\ UNCHANGED <<pad_slots, pc, locals>>
  BY DEF Allocate, LocalsIdle
<1>3. slot \in Slots /\ slot_to_req[slot] = NoReq /\ req_to_slot[r] = NoSlot
  BY <1>1, <1>2 DEF TypeOK, Partition, Occupied, Holders
<1>4. TypeOK'
  BY <1>1, <1>2, <1>3 DEF TypeOK, locals
<1>5. Bijection'
  BY <1>1, <1>2, <1>3 DEF TypeOK, Bijection, Slots, NoSlot
<1>6. Occupied' = Occupied \cup {slot}
  BY <1>1, <1>3 DEF TypeOK, Occupied
<1>7. Partition'
  BY <1>1, <1>2, <1>3, <1>6 DEF Partition, locals
<1> QED
  BY <1>2, <1>4, <1>5, <1>7 DEF LocalsIdle, locals

\* free takes a request and its slot out of both dicts.
LEMMA FreeBase ==
  ASSUME Base, NEW r \in Requests, Free(r)
  PROVE  Base'
<1> USE SlotAssumption DEF Base
<1> DEFINE slot == req_to_slot[r]
<1>1. /\ pc = "idle" /\ pad_slots = {} /\ r \in Holders /\ freed_set = {}
      /\ free_slots' = free_slots \cup {slot}
      /\ slot_to_req' = [slot_to_req EXCEPT ![slot] = NoReq]
      /\ req_to_slot' = [req_to_slot EXCEPT ![r] = NoSlot]
      /\ UNCHANGED <<pad_slots, pc, locals>>
  BY DEF Free, LocalsIdle
<1>2. slot \in Slots /\ slot_to_req[slot] = r
  BY <1>1 DEF Holders, Bijection, TypeOK
<1>3. TypeOK'
  BY <1>1, <1>2 DEF TypeOK, locals
<1>4. Bijection'
  <2> SUFFICES ASSUME NEW q \in Requests, NEW s \in Slots
               PROVE  req_to_slot'[q] = s <=> slot_to_req'[s] = q
    BY DEF Bijection
  <2>1. req_to_slot[q] = s <=> slot_to_req[s] = q
    BY DEF Bijection
  <2>2. /\ req_to_slot'[q] = IF q = r THEN NoSlot ELSE req_to_slot[q]
        /\ slot_to_req'[s] = IF s = slot THEN NoReq ELSE slot_to_req[s]
    BY <1>1, <1>2 DEF TypeOK
  <2> QED
    BY <1>2, <2>1, <2>2 DEF Slots, NoSlot
<1>5. Occupied' = Occupied \ {slot}
  BY <1>1, <1>2 DEF TypeOK, Occupied
<1>6. slot \in Occupied
  BY <1>2 DEF Occupied
<1>7. Partition'
  BY <1>1, <1>2, <1>5, <1>6 DEF Partition, locals
<1> QED
  BY <1>1, <1>3, <1>4, <1>7 DEF LocalsIdle, locals

\* Lending slots for padding and taking them back only moves them between the
\* two kinds of available slots.
LEMMA PadBase ==
  ASSUME Base, (\E n \in 1 .. MaxSlots : ReservePadSlots(n)) \/ ReleasePadSlots
  PROVE  /\ Base' /\ Available' = Available /\ Occupied' = Occupied
         /\ pc = "idle" /\ UNCHANGED <<req_to_slot, slot_to_req, pc, locals>>
<1> USE SlotAssumption DEF Base
<1>1. /\ Available' = Available
      /\ free_slots' \cap pad_slots' = {}
      /\ free_slots' \in SUBSET Slots /\ pad_slots' \in SUBSET Slots
  BY DEF ReservePadSlots, ReleasePadSlots, Available, TypeOK
<1>2. pc = "idle" /\ UNCHANGED <<req_to_slot, slot_to_req, pc, locals>>
  BY DEF ReservePadSlots, ReleasePadSlots
<1>3. TypeOK'
  BY <1>1, <1>2 DEF TypeOK, locals
<1>4. Bijection'
  BY <1>2 DEF Bijection
<1>5. Occupied' = Occupied
  BY <1>2 DEF Occupied
<1>6. Partition'
  BY <1>1, <1>2, <1>5 DEF Partition, Available, locals
<1>7. LocalsIdle'
  BY <1>2 DEF LocalsIdle, locals
<1> QED
  BY <1>1, <1>2, <1>3, <1>4, <1>5, <1>6, <1>7

\* What batch_condense takes out of both dicts was in them.
LEMMA CondenseBeginFacts ==
  ASSUME Base, NEW freed \in SUBSET Requests, CondenseBegin(freed)
  PROVE  /\ pc = "idle" /\ pc' = "loop" /\ pad_slots = {} /\ freed_set = {}
         /\ freed # {} /\ freed \subseteq Holders
         /\ UNCHANGED <<free_slots, pad_slots>>
         /\ freed_set' = {req_to_slot[r] : r \in freed}
         /\ req_to_slot' = [r \in Requests |-> IF r \in freed THEN NoSlot ELSE req_to_slot[r]]
         /\ slot_to_req' = [s \in Slots |-> IF s \in freed_set' THEN NoReq ELSE slot_to_req[s]]
         /\ moves' = <<>> /\ held' = req_to_slot
         /\ \A r \in freed : req_to_slot[r] \in Slots /\ slot_to_req[req_to_slot[r]] = r
         /\ freed_set' \subseteq Occupied
         /\ Occupied' = Occupied \ freed_set'
<1> USE SlotAssumption DEF Base
<1>1. /\ pc = "idle" /\ pc' = "loop" /\ pad_slots = {} /\ freed_set = {}
      /\ freed # {} /\ freed \subseteq Holders
      /\ UNCHANGED <<free_slots, pad_slots>>
      /\ freed_set' = {req_to_slot[r] : r \in freed}
      /\ req_to_slot' = [r \in Requests |-> IF r \in freed THEN NoSlot ELSE req_to_slot[r]]
      /\ slot_to_req' = [s \in Slots |-> IF s \in freed_set' THEN NoReq ELSE slot_to_req[s]]
      /\ moves' = <<>> /\ held' = req_to_slot
  BY DEF CondenseBegin, LocalsIdle
<1>2. \A r \in freed : req_to_slot[r] \in Slots /\ slot_to_req[req_to_slot[r]] = r
  BY <1>1 DEF Holders, Bijection, TypeOK
<1>3. freed_set' \subseteq Occupied
  BY <1>1, <1>2 DEF Occupied
<1>4. Occupied' = Occupied \ freed_set'
  BY <1>1, <1>3 DEF Occupied
<1> QED
  BY <1>1, <1>2, <1>3, <1>4

\* batch_condense takes the freed requests out of both dicts.
LEMMA CondenseBeginBase ==
  ASSUME Base, NEW freed \in SUBSET Requests, CondenseBegin(freed)
  PROVE  Base'
<1> USE SlotAssumption DEF Base
<1>1. /\ pc' = "loop" /\ pad_slots = {} /\ freed_set = {}
      /\ UNCHANGED <<free_slots, pad_slots>>
      /\ freed_set' = {req_to_slot[r] : r \in freed}
      /\ req_to_slot' = [r \in Requests |-> IF r \in freed THEN NoSlot ELSE req_to_slot[r]]
      /\ slot_to_req' = [s \in Slots |-> IF s \in freed_set' THEN NoReq ELSE slot_to_req[s]]
      /\ moves' = <<>> /\ held' = req_to_slot
      /\ \A r \in freed : req_to_slot[r] \in Slots /\ slot_to_req[req_to_slot[r]] = r
      /\ freed_set' \subseteq Occupied
      /\ Occupied' = Occupied \ freed_set'
  BY CondenseBeginFacts
<1>2. PICK hole \in Slots :
        /\ first_hole' = hole
        /\ \/ last_occupied' = hole - 1
           \/ \E last \in Slots : last_occupied' = last
  BY DEF CondenseBegin
<1>3. last_occupied' \in -1 .. MaxSlots - 1
  BY <1>2 DEF Slots
<1>4. TypeOK'
  BY <1>1, <1>2, <1>3 DEF TypeOK, Occupied
<1>5. Bijection'
  <2> SUFFICES ASSUME NEW r \in Requests, NEW s \in Slots
               PROVE  req_to_slot'[r] = s <=> slot_to_req'[s] = r
    BY DEF Bijection
  <2>1. req_to_slot[r] = s <=> slot_to_req[s] = r
    BY DEF Bijection
  <2>2. CASE r \in freed
    BY <1>1, <2>1, <2>2 DEF Slots, NoSlot
  <2>3. CASE r \notin freed
    <3>1. slot_to_req[s] = r => s \notin freed_set'
      BY <1>1, <2>3
    <3>2. req_to_slot'[r] = req_to_slot[r]
      BY <1>1, <2>3
    <3>3. slot_to_req'[s] = r => slot_to_req[s] = r
      BY <1>1
    <3>4. slot_to_req[s] = r => slot_to_req'[s] = r
      BY <1>1, <3>1
    <3> QED
      BY <2>1, <3>2, <3>3, <3>4
  <2> QED
    BY <2>2, <2>3
<1>6. Partition'
  BY <1>1 DEF Partition
<1> QED
  BY <1>1, <1>4, <1>5, <1>6 DEF LocalsIdle

\* One turn of the loop: who moves, from where, and what that leaves.
MovesTo(last, dst) ==
  /\ IsScanned(last) /\ last >= first_hole
  /\ IsLowest(dst, Unfilled(last))
  /\ slot_to_req[last] # NoReq
  /\ req_to_slot' = [req_to_slot EXCEPT ![slot_to_req[last]] = dst]
  /\ slot_to_req' = [slot_to_req EXCEPT ![dst] = slot_to_req[last], ![last] = NoReq]
  /\ freed_set' = (freed_set \cup {last}) \ {dst}
  /\ moves' = Append(moves, <<last, dst>>)
  /\ last_occupied' = last - 1
  /\ UNCHANGED <<free_slots, pad_slots, pc, first_hole, held>>

LEMMA CondenseMoveFacts ==
  ASSUME Base, CondenseMove
  PROVE  \E last \in Slots, dst \in freed_set :
           /\ pc = "loop" /\ MovesTo(last, dst)
           /\ last \in Occupied /\ last <= last_occupied
           /\ slot_to_req[last] \in Requests /\ req_to_slot[slot_to_req[last]] = last
           /\ \A s \in Slots : last < s /\ s <= last_occupied => s \in freed_set
           /\ dst \in Slots /\ dst < last /\ slot_to_req[dst] = NoReq
           /\ Occupied' = (Occupied \ {last}) \cup {dst}
<1> USE SlotAssumption DEF Base
<1>1. PICK last \in Slots, dst \in freed_set : pc = "loop" /\ MovesTo(last, dst)
  BY DEF CondenseMove, MovesTo
<1>2. last \in Occupied /\ slot_to_req[last] \in Requests
  BY <1>1 DEF MovesTo, Occupied, TypeOK
<1>3. req_to_slot[slot_to_req[last]] = last
  BY <1>2 DEF Bijection
<1>4. IsScanned(last) /\ last >= first_hole
  BY <1>1 DEF MovesTo
<1>5. last <= last_occupied
  BY <1>4 DEF IsScanned, IsHighest, TypeOK, Slots
<1>6. ASSUME NEW s \in Slots, last < s, s <= last_occupied
      PROVE  s \in freed_set
  BY <1>4, <1>6 DEF IsScanned, IsHighest, TypeOK, Slots
<1>7. dst \in Slots /\ dst < last /\ slot_to_req[dst] = NoReq
  BY <1>1 DEF MovesTo, IsLowest, Unfilled, TypeOK, Partition, Occupied
<1>8. Occupied' = (Occupied \ {last}) \cup {dst}
  BY <1>1, <1>2, <1>7 DEF MovesTo, Occupied, TypeOK, Slots
<1> QED
  BY <1>1, <1>2, <1>3, <1>5, <1>6, <1>7, <1>8

LEMMA CondenseMoveBase ==
  ASSUME Base, CondenseMove
  PROVE  Base'
<1> USE SlotAssumption DEF Base
<1>1. PICK last \in Slots, dst \in freed_set :
           /\ pc = "loop" /\ MovesTo(last, dst)
           /\ last \in Occupied /\ slot_to_req[last] \in Requests
           /\ dst \in Slots /\ dst < last /\ slot_to_req[dst] = NoReq
           /\ Occupied' = (Occupied \ {last}) \cup {dst}
  BY CondenseMoveFacts
<1>2. TypeOK'
  <2>1. last_occupied' \in -1 .. MaxSlots - 1
    BY <1>1 DEF MovesTo, Slots
  <2>2. moves' \in Seq(Slots \X Slots)
    BY <1>1 DEF MovesTo, TypeOK
  <2> QED
    BY <1>1, <2>1, <2>2 DEF MovesTo, TypeOK
<1>3. Bijection'
  <2> SUFFICES ASSUME NEW r \in Requests, NEW s \in Slots
               PROVE  req_to_slot'[r] = s <=> slot_to_req'[s] = r
    BY DEF Bijection
  <2>1. (req_to_slot[r] = s <=> slot_to_req[s] = r)
        /\ (req_to_slot[r] = last <=> slot_to_req[last] = r)
        /\ (req_to_slot[r] = dst <=> slot_to_req[dst] = r)
    BY <1>1 DEF Bijection
  <2>2. /\ slot_to_req'[s] = IF s = last THEN NoReq
                             ELSE IF s = dst THEN slot_to_req[last] ELSE slot_to_req[s]
        /\ req_to_slot'[r] = IF r = slot_to_req[last] THEN dst ELSE req_to_slot[r]
    BY <1>1 DEF MovesTo, TypeOK, Slots
  <2> QED
    BY <1>1, <2>1, <2>2 DEF Slots
<1>4. Partition'
  <2>1. freed_set' = (freed_set \cup {last}) \ {dst} /\ UNCHANGED <<free_slots, pad_slots>>
    BY <1>1 DEF MovesTo
  <2>2. dst \notin Occupied
    BY <1>1 DEF Occupied
  <2> QED
    BY <1>1, <2>1, <2>2 DEF Partition
<1> QED
  BY <1>1, <1>2, <1>3, <1>4 DEF MovesTo, LocalsIdle

\* The loop ends: the remaining holes become free slots.
LEMMA CondenseEndBase ==
  ASSUME Base, CondenseEnd
  PROVE  /\ Base' /\ Occupied' = Occupied
         /\ pc = "loop" /\ pc' = "idle" /\ free_slots' = free_slots \cup freed_set
         /\ UNCHANGED <<req_to_slot, slot_to_req, pad_slots>>
<1> USE SlotAssumption DEF Base
<1>1. /\ pc = "loop" /\ pc' = "idle" /\ free_slots' = free_slots \cup freed_set
      /\ freed_set' = {} /\ first_hole' = 0 /\ last_occupied' = 0 /\ moves' = <<>>
      /\ held' = [r \in Requests |-> NoSlot]
      /\ UNCHANGED <<req_to_slot, slot_to_req, pad_slots>>
  BY DEF CondenseEnd
<1>2. TypeOK'
  BY <1>1 DEF TypeOK, Slots
<1>3. Occupied' = Occupied /\ Bijection'
  BY <1>1 DEF Occupied, Bijection
<1>4. Partition'
  BY <1>1, <1>3 DEF Partition
<1> QED
  BY <1>1, <1>2, <1>3, <1>4 DEF LocalsIdle

\* Every call of the class, in any order, preserves Base.
LEMMA NextBase == Base /\ [Next]_vars => Base'
<1> SUFFICES ASSUME Base, [Next]_vars PROVE Base'
  OBVIOUS
<1>1. CASE \E r \in Requests : Allocate(r)
  BY <1>1, AllocateBase
<1>2. CASE \E r \in Requests : Free(r)
  BY <1>2, FreeBase
<1>3. CASE (\E n \in 1 .. MaxSlots : ReservePadSlots(n)) \/ ReleasePadSlots
  BY <1>3, PadBase
<1>4. CASE \E freed \in SUBSET Requests : CondenseBegin(freed)
  BY <1>4, CondenseBeginBase
<1>5. CASE CondenseMove
  BY <1>5, CondenseMoveBase
<1>6. CASE CondenseKeyError
  BY <1>6 DEF CondenseKeyError, locals, Base, TypeOK, Bijection, Partition,
              LocalsIdle, Occupied
<1>7. CASE CondenseEnd
  BY <1>7, CondenseEndBase
<1>8. CASE UNCHANGED vars
  BY <1>8 DEF vars, locals, Base, TypeOK, Bijection, Partition, LocalsIdle, Occupied
<1> QED
  BY <1>1, <1>2, <1>3, <1>4, <1>5, <1>6, <1>7, <1>8 DEF Next, EngineNext

\* The two dicts are always inverse, whatever is called in whatever order: no two
\* requests ever share a slot.
THEOREM BijectionHolds == Spec => []Bijection
<1>1. Init => Base
  BY InitInv DEF Inv
<1>2. Base => Bijection
  BY DEF Base
<1> QED
  BY <1>1, <1>2, NextBase, PTL DEF Spec

\* No slot is ever lost or handed out twice.
THEOREM PartitionHolds == Spec => []Partition
<1>1. Init => Base
  BY InitInv DEF Inv
<1>2. Base => Partition
  BY DEF Base
<1> QED
  BY <1>1, <1>2, NextBase, PTL DEF Spec

-----------------------------------------------------------------------------
(***************************************************************************)
(* What the engine's calls add: no gap, so batch_condense never raises     *)
(***************************************************************************)

\* allocate takes the lowest free slot, which opens no gap.
LEMMA AllocateInv ==
  ASSUME Inv, NEW r \in Requests, Allocate(r)
  PROVE  Inv'
<1> USE SlotAssumption DEF Inv
<1>1. /\ pc = "idle" /\ UNCHANGED <<pad_slots, pc, locals>> /\ pad_slots = {}
      /\ \E slot \in free_slots :
           IsLowest(slot, free_slots) /\ free_slots' = free_slots \ {slot}
  BY DEF Allocate
<1>2. NoGap'
  BY <1>1 DEF NoGap, Available, IsLowest, Base, TypeOK, Slots
<1> QED
  BY <1>1, <1>2, AllocateBase DEF ScanBound, CondenseNeverRaises

LEMMA PadInv ==
  ASSUME Inv, (\E n \in 1 .. MaxSlots : ReservePadSlots(n)) \/ ReleasePadSlots
  PROVE  Inv'
<1>1. Base' /\ Available' = Available /\ pc = "idle" /\ UNCHANGED pc
  BY PadBase DEF Inv
<1> QED
  BY <1>1 DEF Inv, NoGap, ScanBound, CondenseNeverRaises

\* The scan of batch_condense starts at the highest slot that stays owned.
LEMMA CondenseBeginInv ==
  ASSUME Inv, NEW freed \in SUBSET Requests, CondenseBegin(freed)
  PROVE  Inv'
<1> USE SlotAssumption DEF Inv
<1>1. /\ pc' = "loop" /\ UNCHANGED <<free_slots, pad_slots>>
      /\ freed_set' \subseteq Occupied /\ Occupied' = Occupied \ freed_set'
  BY CondenseBeginFacts
<1>2. PICK hole \in Slots :
        /\ IsLowest(hole, freed_set')
        /\ first_hole' = hole
        /\ \/ Occupied' = {} /\ last_occupied' = hole - 1
           \/ \E last \in Slots : IsHighest(last, Occupied') /\ last_occupied' = last
  BY DEF CondenseBegin
<1>3. NoGap' /\ Available' = Available
  BY <1>1 DEF NoGap, Available
<1>4. ScanBound'
  <2>1. \A s \in freed_set' : s >= first_hole' /\ s \in Slots
    BY <1>1, <1>2 DEF IsLowest, Slots, Occupied
  <2>2. \A s \in Occupied' : s <= last_occupied'
    BY <1>2 DEF IsHighest
  <2>3. \A s \in Available', t \in Occupied : t < s
    <3> SUFFICES ASSUME NEW s \in Available, NEW t \in Occupied PROVE t < s
      BY <1>3
    <3>1. s \in Slots /\ t \in Slots /\ t \notin Available
      BY DEF Available, Base, TypeOK, Partition, Occupied
    <3> QED
      BY <3>1 DEF NoGap, Slots
  <2>4. \A s \in Available' : s > last_occupied'
    <3>1. CASE Occupied' = {} /\ last_occupied' = hole - 1
      BY <1>1, <1>2, <1>3, <2>3, <3>1 DEF IsLowest, Slots, Available, Base, TypeOK
    <3>2. CASE \E last \in Slots : IsHighest(last, Occupied') /\ last_occupied' = last
      BY <1>1, <2>3, <3>2 DEF IsHighest
    <3> QED
      BY <1>2, <3>1, <3>2
  <2> QED
    BY <2>1, <2>2, <2>4 DEF ScanBound
<1> QED
  BY <1>1, <1>3, <1>4, CondenseBeginBase DEF CondenseNeverRaises

\* One turn of the loop keeps everything owned at or below the scan.
LEMMA CondenseMoveInv ==
  ASSUME Inv, CondenseMove
  PROVE  Inv'
<1> USE SlotAssumption DEF Inv
<1>1. PICK last \in Slots, dst \in freed_set :
           /\ pc = "loop" /\ MovesTo(last, dst)
           /\ last <= last_occupied
           /\ \A s \in Slots : last < s /\ s <= last_occupied => s \in freed_set
           /\ dst \in Slots /\ dst < last
           /\ Occupied' = (Occupied \ {last}) \cup {dst}
  BY CondenseMoveFacts
<1>2. Available' = Available
  BY <1>1 DEF MovesTo, Available
<1>3. last_occupied' = last - 1 /\ pc' = pc /\ first_hole' = first_hole
      /\ freed_set' = (freed_set \cup {last}) \ {dst} /\ last >= first_hole
  BY <1>1 DEF MovesTo
<1>4. ScanBound'
  <2>1. \A s \in freed_set' : s >= first_hole'
    BY <1>1, <1>3 DEF ScanBound
  <2>2. \A s \in Available' : s > last_occupied'
    <3> SUFFICES ASSUME NEW s \in Available PROVE s > last - 1
      BY <1>2, <1>3
    <3>1. s \in Int /\ s > last_occupied /\ last_occupied \in Int
      BY <1>1 DEF ScanBound, Available, Base, TypeOK, Slots
    <3> QED
      BY <1>1, <3>1 DEF Slots
  <2>3. \A s \in Occupied' : s <= last_occupied'
    <3> SUFFICES ASSUME NEW s \in Occupied' PROVE s <= last - 1
      BY <1>3
    <3>1. CASE s = dst
      BY <1>1, <3>1 DEF Slots
    <3>2. CASE s \in Occupied /\ s # last
      <4>1. s \in Slots /\ s <= last_occupied /\ s \notin freed_set
        BY <1>1, <3>2 DEF ScanBound, Occupied, Base, Partition
      <4> QED
        BY <1>1, <3>2, <4>1 DEF Slots
    <3> QED
      BY <1>1, <3>1, <3>2
  <2> QED
    BY <2>1, <2>2, <2>3 DEF ScanBound
<1> QED
  BY <1>1, <1>2, <1>3, <1>4, CondenseMoveBase DEF NoGap, CondenseNeverRaises

\* slot_to_req[last_occupied] never fails: the scan stops at owned slots only.
LEMMA CondenseKeyErrorImpossible ==
  ASSUME Inv PROVE ~CondenseKeyError
<1> SUFFICES ASSUME CondenseKeyError PROVE FALSE
  OBVIOUS
<1> USE SlotAssumption DEF Inv, Base
<1>1. PICK last \in Slots :
        IsScanned(last) /\ last >= first_hole /\ slot_to_req[last] = NoReq /\ pc = "loop"
  BY DEF CondenseKeyError
<1>2. last <= last_occupied /\ last \notin freed_set
  BY <1>1 DEF IsScanned, IsHighest, TypeOK, Slots
<1>3. last \notin Available
  BY <1>1, <1>2 DEF ScanBound, Slots, TypeOK, Available
<1>4. last \in Occupied
  BY <1>2, <1>3 DEF Partition, Available
<1> QED
  BY <1>1, <1>4 DEF Occupied

\* Where the loop ends, every remaining hole is above everything owned.
LEMMA HolesAboveOwned ==
  ASSUME Base, ScanBound, CondenseEnd, NEW s \in freed_set, NEW t \in Occupied
  PROVE  t < s
<1> USE SlotAssumption DEF Base
<1>1. PICK last \in -1 .. MaxSlots - 1 :
        IsScanned(last) /\ (last < first_hole \/ Unfilled(last) = {}) /\ pc = "loop"
  BY DEF CondenseEnd
<1>2. t \in Slots /\ s \in Slots /\ t # s /\ t <= last_occupied /\ s >= first_hole
      /\ t \notin freed_set
  BY <1>1 DEF ScanBound, Occupied, Partition, TypeOK
<1>3. CASE t > last
  BY <1>1, <1>2, <1>3 DEF IsScanned, IsHighest, TypeOK, Slots
<1>4. CASE t <= last
  BY <1>1, <1>2, <1>4 DEF Unfilled, TypeOK, Slots
<1> QED
  BY <1>1, <1>2, <1>3, <1>4 DEF Slots

LEMMA CondenseEndInv ==
  ASSUME Inv, CondenseEnd
  PROVE  Inv'
<1> USE SlotAssumption DEF Inv
<1>1. /\ Base' /\ Occupied' = Occupied
      /\ pc' = "idle" /\ free_slots' = free_slots \cup freed_set /\ UNCHANGED pad_slots
  BY CondenseEndBase
<1>2. NoGap'
  <2> SUFFICES ASSUME NEW s \in Available', NEW t \in Slots, s < t
               PROVE  t \notin Occupied
    BY <1>1 DEF NoGap, Available, Base, LocalsIdle, Partition
  <2>1. CASE s \in Available
    BY <2>1 DEF NoGap, Available, Base, Partition
  <2>2. CASE s \in freed_set
    BY HolesAboveOwned, <2>2 DEF Base, TypeOK, Slots
  <2> QED
    BY <1>1, <2>1, <2>2 DEF Available
<1> QED
  BY <1>1, <1>2 DEF ScanBound, CondenseNeverRaises

\* Every call of the engine preserves the invariant.
LEMMA NextInv == Inv /\ [EngineNext]_vars => Inv'
<1> SUFFICES ASSUME Inv, [EngineNext]_vars PROVE Inv'
  OBVIOUS
<1>1. CASE \E r \in Requests : Allocate(r)
  BY <1>1, AllocateInv
<1>2. CASE (\E n \in 1 .. MaxSlots : ReservePadSlots(n)) \/ ReleasePadSlots
  BY <1>2, PadInv
<1>3. CASE \E freed \in SUBSET Requests : CondenseBegin(freed)
  BY <1>3, CondenseBeginInv
<1>4. CASE CondenseMove
  BY <1>4, CondenseMoveInv
<1>5. CASE CondenseKeyError
  BY <1>5, CondenseKeyErrorImpossible
<1>6. CASE CondenseEnd
  BY <1>6, CondenseEndInv
<1>7. CASE UNCHANGED vars
  BY <1>7 DEF vars, locals, Inv, Base, TypeOK, Bijection, Partition, NoGap, Available,
              LocalsIdle, ScanBound, CondenseNeverRaises, Occupied
<1> QED
  BY <1>1, <1>2, <1>3, <1>4, <1>5, <1>6, <1>7 DEF EngineNext

\* Available slots lie above all owned ones, which are then 0 .. n-1.
LEMMA InvCompact == Inv => Compact
  BY DEF Inv, Base, Compact, NoGap, Available, Partition, LocalsIdle, Occupied, Slots

\* Inv holds in every state the engine can bring the slot manager to.
THEOREM InvHolds == EngineSpec => []Inv
  BY InitInv, NextInv, PTL DEF EngineSpec

\* Types.
THEOREM TypeCorrect == Spec => []TypeOK
<1>1. Init => Base
  BY InitInv DEF Inv
<1>2. Base => TypeOK
  BY DEF Base
<1> QED
  BY <1>1, <1>2, NextBase, PTL DEF Spec

\* After every call the owned slots are 0 .. n-1, for any set of freed requests.
THEOREM CompactHolds == EngineSpec => []Compact
  BY InvHolds, InvCompact, PTL

\* batch_condense never raises KeyError when driven as the engine drives it.
THEOREM NeverRaises == EngineSpec => []CondenseNeverRaises
<1>1. Inv => CondenseNeverRaises
  BY DEF Inv
<1> QED
  BY InvHolds, <1>1, PTL

-----------------------------------------------------------------------------
(***************************************************************************)
(* With free() in play: when batch_condense raises                         *)
(***************************************************************************)

\* The scan starts at a slot that somebody held when batch_condense was called,
\* and only goes down; whoever it meets without an owner was free all along.
HeldAbove ==
  /\ pc = "loop" =>
       /\ \A r \in Requests : held[r] \notin free_slots
       /\ last_occupied < first_hole \/ \E r \in Requests : held[r] >= last_occupied
  /\ RaisesOnlyOnAGap

LEMMA HeldAboveNext == Base /\ HeldAbove /\ [Next]_vars => HeldAbove'
<1> SUFFICES ASSUME Base, HeldAbove, [Next]_vars PROVE HeldAbove'
  OBVIOUS
<1> USE SlotAssumption DEF Base
<1>1. CASE UNCHANGED <<pc, locals>> /\ pc = "idle"
  BY <1>1 DEF HeldAbove, RaisesOnlyOnAGap
<1>2. CASE \E freed \in SUBSET Requests : CondenseBegin(freed)
  <2>1. PICK freed \in SUBSET Requests : CondenseBegin(freed)
    BY <1>2
  <2>2. /\ pc' = "loop" /\ held' = req_to_slot /\ UNCHANGED free_slots
        /\ freed_set' \subseteq Occupied /\ Occupied' = Occupied \ freed_set'
    BY <2>1, CondenseBeginFacts
  <2>3. \A r \in Requests : held'[r] \notin free_slots'
    <3> SUFFICES ASSUME NEW r \in Requests, req_to_slot[r] \in free_slots PROVE FALSE
      BY <2>2
    <3>1. req_to_slot[r] \in Slots
      BY DEF TypeOK
    <3>2. req_to_slot[r] \in Occupied
      BY <3>1 DEF Bijection, Occupied
    <3> QED
      BY <3>2 DEF Partition
  <2>4. last_occupied' < first_hole' \/ \E r \in Requests : held'[r] >= last_occupied'
    <3>1. PICK hole \in Slots :
            /\ first_hole' = hole
            /\ \/ last_occupied' = hole - 1
               \/ \E last \in Slots : IsHighest(last, Occupied') /\ last_occupied' = last
      BY <2>1 DEF CondenseBegin
    <3>2. CASE last_occupied' = hole - 1
      BY <3>1, <3>2 DEF Slots
    <3>3. ASSUME NEW last \in Slots, IsHighest(last, Occupied'), last_occupied' = last
          PROVE  \E r \in Requests : held'[r] >= last_occupied'
      <4>1. slot_to_req[last] \in Requests
        BY <2>2, <3>3 DEF IsHighest, Occupied, TypeOK
      <4>2. req_to_slot[slot_to_req[last]] = last
        BY <4>1 DEF Bijection
      <4> QED
        BY <2>2, <3>3, <4>1, <4>2 DEF Slots
    <3> QED
      BY <3>1, <3>2, <3>3
  <2> QED
    BY <2>2, <2>3, <2>4 DEF HeldAbove, RaisesOnlyOnAGap
<1>3. CASE CondenseMove
  <2>1. PICK last \in Slots, dst \in freed_set :
           pc = "loop" /\ MovesTo(last, dst) /\ last <= last_occupied
    BY <1>3, CondenseMoveFacts
  <2>2. last_occupied' = last - 1 /\ last >= first_hole /\ UNCHANGED <<first_hole, held, free_slots, pc>>
    BY <2>1 DEF MovesTo
  <2> QED
    BY <2>1, <2>2 DEF HeldAbove, RaisesOnlyOnAGap, TypeOK, Slots, NoSlot
<1>4. CASE CondenseKeyError
  <2>1. PICK last \in Slots :
          IsScanned(last) /\ last >= first_hole /\ slot_to_req[last] = NoReq /\ pc = "loop"
    BY <1>4 DEF CondenseKeyError
  <2>2. pc' = "KeyError" /\ UNCHANGED <<free_slots, held>>
    BY <1>4 DEF CondenseKeyError, locals
  <2>3. last <= last_occupied /\ last \notin freed_set
    BY <2>1 DEF IsScanned, IsHighest, TypeOK, Slots
  <2>4. last \in free_slots
    BY <2>1, <2>3 DEF Partition, LocalsIdle, Occupied
  <2>5. PICK r \in Requests : held[r] >= last_occupied
    BY <2>1, <2>3 DEF HeldAbove, TypeOK, Slots
  <2>6. held[r] # last
    BY <2>1, <2>4 DEF HeldAbove
  <2>7. held[r] > last
    BY <2>3, <2>5, <2>6 DEF TypeOK, Slots, NoSlot
  <2> QED
    BY <2>2, <2>4, <2>7 DEF HeldAbove, RaisesOnlyOnAGap
<1>5. CASE CondenseEnd
  BY <1>5 DEF CondenseEnd, HeldAbove, RaisesOnlyOnAGap
<1>6. CASE UNCHANGED vars
  BY <1>6 DEF vars, locals, HeldAbove, RaisesOnlyOnAGap
<1>7. CASE \/ \E r \in Requests : Allocate(r) \/ Free(r)
           \/ (\E n \in 1 .. MaxSlots : ReservePadSlots(n)) \/ ReleasePadSlots
  BY <1>1, <1>7 DEF Allocate, Free, ReservePadSlots, ReleasePadSlots
<1> QED
  BY <1>2, <1>3, <1>4, <1>5, <1>6, <1>7 DEF Next, EngineNext

\* In any order of calls, free() included, batch_condense raises KeyError only if
\* a free slot lay below an owned one when it was called.
THEOREM RaisesOnlyOnAGapHolds == Spec => []RaisesOnlyOnAGap
<1>1. Init => Base /\ HeldAbove
  BY InitInv DEF Inv, HeldAbove, RaisesOnlyOnAGap, Init
<1>2. (Base /\ HeldAbove) /\ [Next]_vars => (Base /\ HeldAbove)'
  BY NextBase, HeldAboveNext
<1>3. HeldAbove => RaisesOnlyOnAGap
  BY DEF HeldAbove
<1> QED
  BY <1>1, <1>2, <1>3, PTL DEF Spec

-----------------------------------------------------------------------------
(***************************************************************************)
(* The class implements SlotMap                                            *)
(***************************************************************************)

\* A request that batch_condense has given another slot.
Moved(r) == req_to_slot[r] # NoSlot /\ req_to_slot[r] # held[r]

\* Inside the loop: somebody was freed, nobody got a slot who had none, and who
\* moved left a hole above the scan for the lowest hole there was, the higher
\* request the lower hole.
Condensing ==
  pc = "loop" =>
    /\ \E r \in Requests : held[r] # NoSlot /\ req_to_slot[r] = NoSlot
    /\ \A r \in Requests : held[r] = NoSlot => req_to_slot[r] = NoSlot
    /\ \A r \in Requests : Moved(r) =>
         /\ held[r] \in freed_set /\ held[r] > last_occupied
         /\ \A s \in freed_set : req_to_slot[r] < s
    /\ \A r, q \in Requests :
         Moved(r) /\ Moved(q) /\ held[r] < held[q] => req_to_slot[q] < req_to_slot[r]

\* The loop takes the requests from the highest slot down and fills the holes
\* from the lowest up.
LEMMA CondensingMove ==
  ASSUME Base, Condensing, CondenseMove
  PROVE  Condensing'
<1> USE SlotAssumption DEF Base
<1>1. PICK last \in Slots, dst \in freed_set :
           /\ pc = "loop" /\ MovesTo(last, dst)
           /\ last <= last_occupied
           /\ slot_to_req[last] \in Requests /\ req_to_slot[slot_to_req[last]] = last
           /\ dst \in Slots /\ dst < last
  BY CondenseMoveFacts
<1> DEFINE r0 == slot_to_req[last]
<1>2. /\ req_to_slot' = [req_to_slot EXCEPT ![r0] = dst]
      /\ freed_set' = (freed_set \cup {last}) \ {dst}
      /\ last_occupied' = last - 1 /\ UNCHANGED <<pc, held>>
      /\ \A s \in freed_set : s < last => dst <= s
  BY <1>1 DEF MovesTo, IsLowest, Unfilled
<1>3. /\ freed_set \subseteq Int /\ last \in Int /\ dst \in Int /\ last_occupied \in Int
      /\ \A r \in Requests : req_to_slot[r] \in Int /\ held[r] \in Int
      /\ last # NoSlot /\ dst # NoSlot
  BY <1>1 DEF TypeOK, Slots, NoSlot
<1>4. held[r0] = last
  <2>1. ~Moved(r0)
    BY <1>1, <1>3 DEF Condensing
  <2> QED
    BY <2>1, <1>1, <1>3 DEF Moved
<1>5. \A r \in Requests : req_to_slot'[r] = IF r = r0 THEN dst ELSE req_to_slot[r]
  BY <1>1, <1>2 DEF TypeOK
<1>6. \A r \in Requests : Moved(r)' => r = r0 \/ Moved(r)
  BY <1>2, <1>5 DEF Moved
<1> HIDE DEF r0
<1>7. \E r \in Requests : held'[r] # NoSlot /\ req_to_slot'[r] = NoSlot
  <2>1. PICK r \in Requests : held[r] # NoSlot /\ req_to_slot[r] = NoSlot
    BY <1>1 DEF Condensing
  <2>2. r # r0
    BY <1>1, <1>3, <2>1 DEF r0
  <2> QED
    BY <1>2, <1>5, <2>1, <2>2
<1>8. \A r \in Requests : held'[r] = NoSlot => req_to_slot'[r] = NoSlot
  BY <1>1, <1>2, <1>3, <1>4, <1>5 DEF Condensing
<1>9. ASSUME NEW r \in Requests, Moved(r)'
      PROVE  /\ held'[r] \in freed_set' /\ held'[r] > last_occupied'
             /\ \A s \in freed_set' : req_to_slot'[r] < s
  <2>1. CASE r = r0
    BY <1>1, <1>2, <1>3, <1>4, <1>5, <2>1
  <2>2. CASE r # r0
    <3>1. /\ held[r] \in freed_set /\ held[r] > last_occupied
          /\ \A s \in freed_set : req_to_slot[r] < s
          /\ held[r] \in Int /\ req_to_slot[r] \in Int
      BY <1>1, <1>3, <1>6, <1>9, <2>2 DEF Condensing
    <3>2. held[r] > last /\ held[r] # dst /\ req_to_slot[r] < dst
      BY <1>1, <1>3, <3>1
    <3>3. held'[r] \in freed_set' /\ held'[r] > last_occupied'
      BY <1>2, <1>3, <3>1, <3>2
    <3>4. \A s \in freed_set' : req_to_slot'[r] < s
      BY <1>1, <1>2, <1>3, <1>5, <2>2, <3>1, <3>2
    <3> QED
      BY <3>3, <3>4
  <2> QED
    BY <2>1, <2>2
<1>10. ASSUME NEW r \in Requests, NEW q \in Requests,
              Moved(r)', Moved(q)', held'[r] < held'[q]
       PROVE  req_to_slot'[q] < req_to_slot'[r]
  <2>1. CASE r = r0
    <3>1. q # r0
      BY <1>2, <1>3, <1>10, <2>1
    <3>2. \A s \in freed_set : req_to_slot[q] < s
      BY <1>1, <1>6, <1>10, <3>1 DEF Condensing
    <3> QED
      BY <1>5, <2>1, <3>1, <3>2
  <2>2. CASE r # r0
    <3>1. held[r] > last
      BY <1>1, <1>3, <1>6, <1>10, <2>2 DEF Condensing
    <3>2. q # r0
      BY <1>2, <1>3, <1>4, <1>10, <3>1
    <3> QED
      BY <1>1, <1>2, <1>5, <1>6, <1>10, <2>2, <3>2 DEF Condensing
  <2> QED
    BY <2>1, <2>2
<1> QED
  BY <1>7, <1>8, <1>9, <1>10 DEF Condensing

LEMMA CondensingNext == Base /\ Condensing /\ [EngineNext]_vars => Condensing'
<1> SUFFICES ASSUME Base, Condensing, [EngineNext]_vars PROVE Condensing'
  OBVIOUS
<1>1. CASE \E freed \in SUBSET Requests : CondenseBegin(freed)
  <2>1. PICK freed \in SUBSET Requests : CondenseBegin(freed)
    BY <1>1
  <2>2. /\ freed # {} /\ freed \subseteq Holders /\ held' = req_to_slot
        /\ req_to_slot' = [r \in Requests |-> IF r \in freed THEN NoSlot ELSE req_to_slot[r]]
    BY <2>1, CondenseBeginFacts
  <2>3. \A r \in Requests : ~Moved(r)'
    BY <2>2 DEF Moved
  <2>4. \E r \in Requests : held'[r] # NoSlot /\ req_to_slot'[r] = NoSlot
    BY <2>2 DEF Holders
  <2>5. \A r \in Requests : held'[r] = NoSlot => req_to_slot'[r] = NoSlot
    BY <2>2
  <2> QED
    BY <2>3, <2>4, <2>5 DEF Condensing
<1>2. CASE CondenseMove
  BY <1>2, CondensingMove
<1>3. CASE \/ \E r \in Requests : Allocate(r)
           \/ (\E n \in 1 .. MaxSlots : ReservePadSlots(n)) \/ ReleasePadSlots
           \/ CondenseKeyError \/ CondenseEnd
  BY <1>3 DEF Allocate, ReservePadSlots, ReleasePadSlots, CondenseKeyError, CondenseEnd,
              Condensing
<1>4. CASE UNCHANGED vars
  BY <1>4 DEF vars, locals, Condensing, Moved
<1> QED
  BY <1>1, <1>2, <1>3, <1>4 DEF EngineNext

\* allocate hands out the lowest slot that nobody holds.
LEMMA AllocateMaps ==
  ASSUME Inv, NEW r \in Requests, Allocate(r)
  PROVE  Slot!Next
<1> USE SlotAssumption DEF Inv, Base
<1>1. PICK slot \in free_slots :
        /\ IsLowest(slot, free_slots)
        /\ req_to_slot' = [req_to_slot EXCEPT ![r] = slot]
  BY DEF Allocate
<1>2. pc = "idle" /\ pc' = "idle" /\ pad_slots = {} /\ freed_set = {} /\ r \notin Holders
  BY DEF Allocate, LocalsIdle
<1>3. Visible = req_to_slot /\ Visible' = req_to_slot'
  BY <1>2 DEF Visible
<1>4. Slot!Holders = Holders
  BY <1>3 DEF Slot!Holders, Holders, Slot!NoSlot, NoSlot
<1>5. \A s \in Slots : s \in Slot!Used <=> s \in Occupied
  <2> SUFFICES ASSUME NEW s \in Slots PROVE s \in Slot!Used <=> s \in Occupied
    OBVIOUS
  <2>1. s \in Slot!Used <=> \E q \in Requests : req_to_slot[q] # NoSlot /\ req_to_slot[q] = s
    BY <1>3, <1>4 DEF Slot!Used, Holders
  <2>2. s # NoSlot
    BY DEF Slots, NoSlot
  <2>3. s \in Slot!Used <=> \E q \in Requests : slot_to_req[s] = q
    BY <2>1, <2>2 DEF Bijection
  <2>4. slot_to_req[s] \in Requests \cup {NoReq}
    BY DEF TypeOK
  <2> QED
    BY <2>3, <2>4 DEF Occupied
<1>6. Slot!Slots \ Slot!Used = free_slots
  <2>1. free_slots = Slots \ Occupied
    BY <1>2 DEF Partition
  <2> QED
    BY <1>5, <2>1 DEF Slot!Slots, Slots
<1>7. Slot!Allocate(r)
  BY <1>1, <1>2, <1>3, <1>4, <1>6 DEF Slot!Allocate, Slot!IsLowest, IsLowest
<1> QED
  BY <1>7 DEF Slot!Next

\* A batch_condense that returns has left the survivors as SlotMap says.
LEMMA CondenseMaps ==
  ASSUME Inv, Condensing, CondenseEnd
  PROVE  Slot!Next
<1> USE SlotAssumption DEF Inv, Base
<1> DEFINE freed == {r \in Requests : held[r] # NoSlot /\ req_to_slot[r] = NoSlot}
           new == [r \in Holders |-> req_to_slot[r]]
<1>1. pc = "loop" /\ pc' = "idle" /\ req_to_slot' = req_to_slot /\ Occupied' = Occupied
  BY CondenseEndBase
<1>2. Visible = held /\ Visible' = req_to_slot
  BY <1>1 DEF Visible
<1>3. Slot!Holders = {r \in Requests : held[r] # NoSlot}
  BY <1>2 DEF Slot!Holders, Slot!NoSlot, NoSlot
<1>4. freed # {} /\ freed \subseteq Slot!Holders /\ freed \in SUBSET Requests
  BY <1>1, <1>3 DEF Condensing
<1>5. Slot!Holders \ freed = Holders
  BY <1>1, <1>3 DEF Condensing, Holders
<1>6. /\ \A r \in Holders : new[r] = req_to_slot[r] /\ new[r] \in Slots /\ r \in Requests
      /\ new \in [Holders -> Slot!Slots]
  BY DEF Holders, TypeOK, Slot!Slots, Slots
<1>7. \A r \in Holders : req_to_slot[r] \in Occupied /\ slot_to_req[req_to_slot[r]] = r
  BY <1>6 DEF Bijection, Occupied
<1>8. Slot!Condensed(Holders, new)
  <2>1. \A r, q \in Holders : r # q => new[r] # new[q]
    BY <1>6, <1>7
  <2>2. ASSUME NEW r \in Holders, NEW t \in 0 .. new[r]
        PROVE  \E q \in Holders : new[q] = t
    <3>1. Compact'
      <4>1. Inv'
        BY CondenseEndInv
      <4>2. (Inv => Compact)'
        BY InvCompact, PTL
      <4> QED
        BY <4>1, <4>2
    <3>2. t \in Slots /\ t <= new[r]
      BY <1>6, <2>2 DEF Slots
    <3>3. t \in Occupied
      <4>1. new[r] \in Occupied /\ new[r] \in Int /\ t \in Int
        BY <1>6, <1>7, <3>2 DEF Slots
      <4>2. CASE t = new[r]
        BY <4>1, <4>2
      <4>3. CASE t < new[r]
        BY <1>1, <3>1, <3>2, <4>1, <4>3 DEF Compact
      <4> QED
        BY <3>2, <4>1, <4>2, <4>3
    <3>4. slot_to_req[t] \in Requests
      BY <3>3 DEF Occupied, TypeOK
    <3>5. req_to_slot[slot_to_req[t]] = t
      BY <3>2, <3>4 DEF Bijection
    <3>6. slot_to_req[t] \in Holders
      BY <3>2, <3>4, <3>5 DEF Holders, Slots, NoSlot
    <3> QED
      BY <1>6, <3>5, <3>6
  <2>3. ASSUME NEW r \in Holders, new[r] # Visible[r]
        PROVE  Moved(r) /\ \A q \in Holders : new[q] < Visible[r]
    <3>1. Moved(r)
      BY <1>2, <1>6, <2>3 DEF Moved, Holders
    <3>2. held[r] \in freed_set
      BY <1>1, <1>6, <3>1 DEF Condensing
    <3> QED
      BY <1>2, <1>6, <1>7, <3>1, <3>2, HolesAboveOwned
  <2>4. ASSUME NEW r \in Holders, NEW q \in Holders, new[r] # Visible[r], new[q] # Visible[q],
               Visible[r] < Visible[q]
        PROVE  new[q] < new[r]
    BY <1>1, <1>2, <1>6, <2>3, <2>4 DEF Condensing
  <2> HIDE DEF new
  <2> QED
    BY <2>1, <2>2, <2>3, <2>4 DEF Slot!Condensed
<1>9. Visible' = [r \in Requests |-> IF r \in Holders THEN new[r] ELSE Slot!NoSlot]
  <2>1. req_to_slot = [r \in Requests |-> req_to_slot[r]]
    BY DEF TypeOK
  <2>2. \A r \in Requests : req_to_slot[r] = IF r \in Holders THEN new[r] ELSE Slot!NoSlot
    BY DEF Holders, Slot!NoSlot, NoSlot
  <2> HIDE DEF new
  <2> QED
    BY <1>2, <2>1, <2>2
<1> HIDE DEF freed, new
<1>10. Slot!BatchCondense(freed)
  BY <1>4, <1>5, <1>6, <1>8, <1>9 DEF Slot!BatchCondense
<1> QED
  BY <1>4, <1>10 DEF Slot!Next

\* Every step of the class is one of SlotMap or invisible to it.
LEMMA StepMaps ==
  Inv /\ Condensing /\ [EngineNext]_vars => [Slot!Next]_Visible
<1> SUFFICES ASSUME Inv, Condensing, [EngineNext]_vars
             PROVE  Slot!Next \/ UNCHANGED Visible
  OBVIOUS
<1>1. CASE \E r \in Requests : Allocate(r)
  BY <1>1, AllocateMaps
<1>2. CASE (\E n \in 1 .. MaxSlots : ReservePadSlots(n)) \/ ReleasePadSlots
  BY <1>2 DEF ReservePadSlots, ReleasePadSlots, Visible
<1>3. CASE \E freed \in SUBSET Requests : CondenseBegin(freed)
  BY <1>3, CondenseBeginFacts DEF Inv, Visible
<1>4. CASE CondenseMove
  BY <1>4 DEF CondenseMove, Visible
<1>5. CASE CondenseKeyError
  BY <1>5, CondenseKeyErrorImpossible
<1>6. CASE CondenseEnd
  BY <1>6, CondenseMaps
<1>7. CASE UNCHANGED vars
  BY <1>7 DEF vars, locals, Visible
<1> QED
  BY <1>1, <1>2, <1>3, <1>4, <1>5, <1>6, <1>7 DEF EngineNext

LEMMA InitMaps == Init => Slot!Init /\ Condensing
  BY DEF Init, Slot!Init, Visible, NoSlot, Slot!NoSlot, Condensing

\* Driven as the engine drives it the class is the slot map it promises: every
\* allocate takes the lowest slot in no use, and a whole batch_condense is one
\* step that leaves the survivors on 0 .. n-1 with as few of them moved as can be.
THEOREM ImplementsSlotMap == EngineSpec => Slot!Spec
<1>1. (Inv /\ Condensing) /\ [EngineNext]_vars => (Inv /\ Condensing)'
  BY NextInv, CondensingNext DEF Inv
<1> QED
  BY <1>1, InitInv, InitMaps, StepMaps, PTL DEF EngineSpec, Slot!Spec

-----------------------------------------------------------------------------
(***************************************************************************)
(* The same of MCSpec, where free() may be called: until it is, the engine *)
(* calls are all there are                                                 *)
(***************************************************************************)
EngineSoFar == free_called \/ (Inv /\ Condensing)

LEMMA EngineSoFarNext ==
  EngineSoFar /\ [MCNext]_<<vars, free_called>> => EngineSoFar'
<1> SUFFICES ASSUME EngineSoFar, [MCNext]_<<vars, free_called>> PROVE EngineSoFar'
  OBVIOUS
<1>1. CASE free_called' = TRUE
  BY <1>1 DEF EngineSoFar
<1>2. CASE [EngineNext]_vars /\ UNCHANGED free_called
  BY <1>2, NextInv, CondensingNext DEF EngineSoFar, Inv
<1> QED
  BY <1>1, <1>2 DEF MCNext

\* Until free() is called the owned slots are 0 .. n-1 between two calls and
\* batch_condense does not raise.
THEOREM CompactUnlessFreedHolds == MCSpec => []CompactUnlessFreed
<1>1. MCInit => EngineSoFar
  BY InitInv, InitMaps DEF MCInit, EngineSoFar
<1>2. EngineSoFar => CompactUnlessFreed
  BY InvCompact DEF EngineSoFar, CompactUnlessFreed, Inv
<1> QED
  BY <1>1, <1>2, EngineSoFarNext, PTL DEF MCSpec

\* Until free() is called the class implements SlotMap.
THEOREM ImplementsUnlessFreedHolds == MCSpec => ImplementsUnlessFreed
<1>1. MCInit => EngineSoFar /\ Slot!Init
  BY InitInv, InitMaps DEF MCInit, EngineSoFar
<1>2. EngineSoFar /\ [MCNext]_<<vars, free_called>>
        => [free_called' \/ Slot!Next \/ UNCHANGED Visible]_<<vars, free_called>>
  <2> SUFFICES ASSUME EngineSoFar, [MCNext]_<<vars, free_called>>, ~free_called',
                      ~UNCHANGED <<vars, free_called>>
               PROVE  Slot!Next \/ UNCHANGED Visible
    OBVIOUS
  <2>1. EngineNext /\ UNCHANGED free_called
    BY DEF MCNext
  <2>2. Inv /\ Condensing
    BY <2>1 DEF EngineSoFar
  <2> QED
    BY <2>1, <2>2, StepMaps
<1> QED
  BY <1>1, <1>2, EngineSoFarNext, PTL DEF MCSpec, ImplementsUnlessFreed

\* Every behaviour the run explores is one of the class.
LEMMA MCSpecIsSpec == MCSpec => Spec
<1>1. MCInit => Init
  BY DEF MCInit
<1>2. [MCNext]_<<vars, free_called>> => [Next]_vars
  BY DEF MCNext, Next
<1> QED
  BY <1>1, <1>2, PTL DEF MCSpec, Spec
=============================================================================

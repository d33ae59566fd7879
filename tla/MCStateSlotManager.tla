------------------------- MODULE MCStateSlotManager -------------------------
(***************************************************************************)
(* Model checking of StateSlotManager: request ids are interchangeable.    *)
(* The engine never calls free(); what holds without it is stated for the  *)
(* behaviours in which it has not been called yet.                         *)
(***************************************************************************)
EXTENDS StateSlotManager, TLC

VARIABLE free_called

RequestSymmetry == Permutations(Requests)

MCInit == Init /\ free_called = FALSE

MCNext ==
  \/ EngineNext /\ UNCHANGED free_called
  \/ (\E r \in Requests : Free(r)) /\ free_called' = TRUE

MCSpec == MCInit /\ [][MCNext]_<<vars, free_called>>

\* Without free() the owned slots are 0 .. n-1 between two calls, which is what
\* tests/integration/test_compaction.py asserts, and batch_condense never raises.
CompactUnlessFreed == free_called \/ (Compact /\ CondenseNeverRaises)

\* Without free() every step is one of SlotMap, or invisible to it: a whole
\* batch_condense is one step that leaves the survivors on 0 .. n-1.
ImplementsUnlessFreed ==
  Slot!Init /\ [][free_called' \/ Slot!Next \/ UNCHANGED Visible]_<<vars, free_called>>
=============================================================================

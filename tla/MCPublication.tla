--------------------------- MODULE MCPublication ---------------------------
(***************************************************************************)
(* Model checking of Publication, from an empty file (Spec) or from a file *)
(* whose first SeededGenerations generations were written by disk          *)
(* checkpoints and closed (SeededSpec), a state Spec reaches.              *)
(***************************************************************************)
EXTENDS Publication

CONSTANT SeededGenerations  \* at least SlotCount, so that every slot is used

SeededCatalog(g) ==
    {[offset |-> 2 * k - 2, identity |-> 2 * k - 2] : k \in 2 .. g}
SeededRoot(g) ==
    Root(g, 2 * g, [offset |-> 2 * g - 1, identity |-> 2 * g - 1],
         IF g = 1 THEN ZeroIdentity ELSE 2 * g - 3)
SeededSlots ==
    [s \in Slots |->
        SeededRoot(CHOOSE g \in 1 .. SeededGenerations :
                    /\ RootSlot(g) = s
                    /\ g + SlotCount > SeededGenerations)]

SeededInit ==
    /\ control = "valid"
    /\ slots = SeededSlots
    /\ cells = [o \in Offsets |->
                    IF o >= 2 * SeededGenerations THEN Junk
                    ELSE IF o % 2 = 0 THEN Objects(o)
                    ELSE Manifest(o, (o + 1) \div 2, SeededCatalog((o + 1) \div 2))]
    /\ size = 2 * SeededGenerations
    /\ stable_size = 2 * SeededGenerations
    /\ slot_writes = [s \in Slots |-> <<SeededSlots[s]>>]
    /\ step = "closed"
    /\ creating = FALSE
    /\ closing = FALSE
    /\ durability = "memory"
    /\ write_offset = 0
    /\ committed_size = ControlSize
    /\ generation = 0
    /\ previous_root_identity = ZeroIdentity
    /\ dirty = FALSE
    /\ poisoned = FALSE
    /\ catalog = {}
    /\ pending = {}
    /\ next_identity = 2 * SeededGenerations
    /\ history = [g \in 1 .. SeededGenerations |->
                    [root |-> SeededRoot(g), catalog |-> SeededCatalog(g)]]
    /\ acknowledged = RootIdentity(SeededRoot(SeededGenerations))
    /\ synced = SeededGenerations
    /\ failures = 0
    /\ power_losses = 0

SeededSpec == SeededInit /\ [][Next]_vars

=============================================================================

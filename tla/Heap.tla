-------------------------------- MODULE Heap --------------------------------
(* What an allocator promises: a caller gets a set of cells that nobody    *)
(* holds, and holds it until it gives it back.                             *)
VARIABLE extents    \* the sets of cells that are held

Init == extents = {}

Alloc(e) ==
    /\ e # {} /\ \A held \in extents : e \cap held = {}
    /\ extents' = extents \cup {e}

Free(e) == extents' = extents \ {e}

Next == (\E e \in extents' : Alloc(e)) \/ (\E e \in extents : Free(e))

Spec == Init /\ [][Next]_extents

=============================================================================

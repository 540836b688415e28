-------------------------------- MODULE MCLocal --------------------------------
(***************************************************************************)
(* The two parts of GA that a process keeps to itself, for TLC: the table  *)
(* of non-blocking handles and the allocator of local memory.  They do not *)
(* interact, so a behaviour is one of either.                              *)
(***************************************************************************)
EXTENDS NbHandles, MemoryAllocator, TLC

VARIABLE part  \* the one that runs

localvars == <<part, nbvars, mavars>>

Layout(sizes, bases, heap, stack, alignment, later, most) ==
    [sizeof |-> sizes, base |-> bases, segment |-> 64, datatype |-> 1,
     nominal_heap |-> heap, nominal_stack |-> stack,
     numalign |-> alignment, later |-> later, most |-> most]

\* A process that asks MA for nothing
Nothing == Layout(<<1>>, <<0>>, 0, 0, 1, {}, 0)

\* The other part has one of its initial states.
Init ==
    /\ part \in {"handles", "memory"} /\ NbInit /\ MaInit
    /\ part = "handles" <=> layout = Nothing
    /\ part = "memory" => program = CHOOSE p \in Programs : TRUE

Next ==
    \/ part = "handles" /\ NbNext /\ UNCHANGED <<part, mavars>>
    \/ part = "memory" /\ MaNext /\ UNCHANGED <<part, nbvars>>

Spec == Init /\ [][Next]_localvars

-----------------------------------------------------------------------------
Program(n, c) == [open |-> n, cyclic |-> c]

\* Within the table, beyond it, and with block-cyclic arrays.
AllPrograms == {Program(NumHdls, FALSE), Program(NumHdls + 1, FALSE),
                Program(NumHdls, TRUE)}

\* Nothing tells the handles of a program apart.
AnyHandle == Permutations(Handle)

-----------------------------------------------------------------------------
\* The unit is four bytes.  A heap for two blocks or three, of types with
\* which the bytes of a block depend on its address: longer than ALIGNMENT, no
\* multiple of it, with a base off the alignment below or above the segment,
\* with an alignment of all client spaces, and with one that changes.
AllLayouts ==
    {Nothing,
     Layout(<<1, 4>>, <<0, 0>>, 10, 9, 1, {}, 2),
     Layout(<<2, 3>>, <<0, 3>>, 8, 3, 1, {}, 2),
     Layout(<<2, 3>>, <<0, 98>>, 8, 3, 4, {}, 2),
     Layout(<<2>>, <<0>>, 7, 4, 1, {1, 8}, 4)}
=============================================================================

------------------------ MODULE MCPageFrameAllocator ------------------------
(***************************************************************************)
(* Memory maps for PageFrameAllocator.                                     *)
(***************************************************************************)
EXTENDS PageFrameAllocator

\* Frames 0 and 1 are reserved, there is a hole at 4, and memory is usable up
\* to the last frame.
MapWithHole == (1..(TotalPages - 1)) \ {4}
LowMemory == {0, 1}
=============================================================================

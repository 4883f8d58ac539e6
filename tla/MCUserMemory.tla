----------------------------- MODULE MCUserMemory -----------------------------
(* UserMemory with interchangeable frames. *)
EXTENDS UserMemory, TLC

\* The mmap calls of the runs.
FileMaps == {<<2, "file", TRUE>>}

FrameSymmetry == Permutations(Frames)
===============================================================================

----------------------------- MODULE MCVfsTree -----------------------------
(* A disk with a directory 1, a file 2 and, in the directory, a file 2; tmpfs *)
(* is mounted at 3.                                                         *)
EXTENDS VfsTree

Used == 4
Boot(i) == CASE i \in {1, 2} -> "dir" [] i \in {3, 4} -> "file" [] OTHER -> "free"
BootKinds == [i \in 1 .. Used + MaxCalls |-> Boot(i)]
BootImage == [i \in 1 .. Used + MaxCalls |->
    CASE i = 1 -> <<[name |-> 1, ino |-> 2], [name |-> 2, ino |-> 3]>>
      [] i = 2 -> <<[name |-> 2, ino |-> 4]>>
      [] OTHER -> <<>>]
SomePaths == {Raw(TRUE, <<Skip>>), Raw(TRUE, <<1>>), Raw(TRUE, <<1, 2>>),
              Raw(TRUE, <<3, 1>>), Raw(FALSE, <<1, Up, 2>>), Raw(FALSE, <<Up>>)}
=============================================================================

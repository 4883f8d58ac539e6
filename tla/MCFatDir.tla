------------------------------ MODULE MCFatDir ------------------------------
(* Instances of FatDir: characters are 1, 2 and 3.                          *)
EXTENDS FatDir

Short(b0, c, cls) == [EmptyEntry EXCEPT !.b0 = b0, !.rest[1] = c, !.cls = cls]
Part(n, chars) == [EmptyEntry EXCEPT !.b0 = n, !.rest = chars, !.lfn = TRUE]

ThreeNames == {<<1>>, <<2, 3>>, <<1, 2, 3>>}

\* A new directory; one with a file, a deleted long name and another file; one
\* whose cluster is full, with no end mark, its last name in two parts.
Dirs == {
    <<EmptyEntry>>,
    <<Short(2, 3, 5), Part(Unused, <<1, 1>>), Short(Unused, Blank, 0), Short(1, Blank, 5)>>,
    <<Short(3, Blank, 5), Part(2, <<3, Zero>>), Part(1, <<1, 2>>), Short(Blank, Blank, 5)>>}
=============================================================================

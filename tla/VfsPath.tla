------------------------------ MODULE VfsPath ------------------------------
(* Path (fs/new_vfs/path.rs): the string a call gets, cut at its slashes,   *)
(* and the normal form that is kept of it.                                  *)
EXTENDS Integers, SequencesExt

Skip == 0      \* a part "" or "."; also the file name ""
Up == -1       \* a part ".."; every other part is a positive number

Raw(abs, parts) == [abs |-> abs, parts |-> parts]
Normal(abs, comps) == [abs |-> abs, comps |-> comps]

\* ".." takes back a component of the path itself, never of its directory.
Normalised(comps, part) ==
    IF part = Skip THEN comps
    ELSE IF part # Up THEN Append(comps, part)
    ELSE IF comps = <<>> THEN <<>> ELSE Front(comps)

FromString(raw) == Normal(raw.abs, FoldLeft(Normalised, <<>>, raw.parts))

IsCurrent(p) == p.comps = <<>>
IsRoot(p) == p.abs /\ IsCurrent(p)
RemoveTail(p) == Normal(p.abs, IF IsCurrent(p) THEN <<>> ELSE Front(p.comps))

\* What at_helper returns as the file's name: "" for the root and for ".".
FileName(p) == IF IsCurrent(p) THEN Skip ELSE Last(p.comps)

AppendPath(p, q) == Normal(p.abs, p.comps \o q.comps)

\* The canonical form of p.to_string() + "/" + a string with these parts: the
\* relative path "" makes it absolute.
Joined(p, parts) == FromString(Raw(p.abs \/ IsCurrent(p), p.comps \o parts))

\* path_test, which the kernel runs at boot: strings and their normal forms.
PathTestCases == {
    <<TRUE, <<1, 2, 3, 4, Skip>>, <<1, 2, 3, 4>>>>, <<TRUE, <<1, 2, 3>>, <<1, 2, 3>>>>,
    <<FALSE, <<1, Up, 2, Up, 3, Skip, Skip, Skip>>, <<3>>>>,
    <<TRUE, <<Skip, Skip, Skip>>, <<>>>>,
    <<TRUE, <<Skip, 1, Skip, Skip, Skip, 2, Skip, Skip, 3, Skip, Skip>>, <<1, 2, 3>>>>,
    <<TRUE, <<1, Up, Skip>>, <<>>>>, <<FALSE, <<1, Up, Skip>>, <<>>>>,
    <<FALSE, <<1, Up, Skip, Up>>, <<>>>>, <<FALSE, <<Skip, Skip, 1>>, <<1>>>>,
    <<FALSE, <<Up, Skip, 1>>, <<1>>>>, <<TRUE, <<Skip, Skip, 1>>, <<1>>>>,
    <<TRUE, <<1, Up, 1>>, <<1>>>>, <<TRUE, <<1>>, <<1>>>>, <<TRUE, <<1, Skip>>, <<1>>>>,
    <<FALSE, <<1, Skip>>, <<1>>>>, <<FALSE, <<1>>, <<1>>>>,
    <<TRUE, <<1, Skip, Skip>>, <<1>>>>, <<TRUE, <<1, 2>>, <<1, 2>>>>,
    <<TRUE, <<1, 2, Skip>>, <<1, 2>>>>, <<TRUE, <<1, 2, 3, Skip, Skip>>, <<1, 2, 3>>>>,
    <<TRUE, <<1, Skip, 2, 3, Skip, Skip>>, <<1, 2, 3>>>>,
    <<TRUE, <<1, Skip, Skip, 2, 3, Skip, Skip>>, <<1, 2, 3>>>>,
    <<TRUE, <<1, Skip, Skip, Up, 2, 3, Skip, Skip>>, <<2, 3>>>>,
    <<TRUE, <<1, Up, 2>>, <<2>>>>, <<TRUE, <<1, 2, Up, 3>>, <<1, 3>>>>,
    <<FALSE, <<Up, 1>>, <<1>>>>, <<FALSE, <<Up, 1, Skip>>, <<1>>>>,
    <<TRUE, <<Up, 1>>, <<1>>>>, <<TRUE, <<Up, 1, Skip>>, <<1>>>>,
    <<TRUE, <<Up, Up, 1>>, <<1>>>>, <<TRUE, <<1, Up, Up, 2>>, <<2>>>>,
    <<TRUE, <<1, 2, Up, Up, 3>>, <<3>>>>, <<TRUE, <<1, 2, Up, Up, 3, Up>>, <<>>>>,
    <<TRUE, <<1, 2, Up, Up, 3, Up, 4>>, <<4>>>>, <<FALSE, <<Skip>>, <<>>>>,
    <<FALSE, <<Skip, Skip>>, <<>>>>,
    <<FALSE, <<Skip, Skip, Skip, Skip, Skip, Skip, Skip>>, <<>>>>}

ASSUME PathTest ==
    \A c \in PathTestCases : FromString(Raw(c[1], c[2])) = Normal(c[1], c[3])
=============================================================================

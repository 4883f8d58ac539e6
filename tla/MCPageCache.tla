----------------------------- MODULE MCPageCache -----------------------------
(* Instances of PageCache: sectors and clusters of 2 bytes, pages of 4.     *)
EXTENDS PageCache

\* A fragmented file of two pages that ends inside a sector, and one that is empty.
TwoChains == <<<<2, 4, 6, 3>>, <<0>>>>
TwoSizes == <<7, 0>>

\* One buffer, which from offset 3 on crosses into the next page, and two.
OneOrTwo == {<<2, 0>>, <<2, 3>>}
=============================================================================

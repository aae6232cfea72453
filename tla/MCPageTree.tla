----------------------------- MODULE MCPageTree -----------------------------
(* Small page trees for PageTree and PageIndex: nested, flat and mixed.     *)
EXTENDS PageIndex

CONSTANTS a, b, c, d, e, left, inner

MCBranch == {Root, left, inner}
MCPage   == {a, b, c, d, e}

Tree(r, l, i) == [n \in MCBranch |-> CASE n = Root -> r [] n = left -> l
                                       [] OTHER -> i]
MCFiles == {
    Tree(<<left, c, inner>>, <<a, b>>, <<d>>),
    Tree(<<left, d>>, <<inner, c>>, <<a, b>>),
    Tree(<<a, left, c>>, <<b>>, <<>>) }
=============================================================================

---------------------------- MODULE MCDataAvail ----------------------------
(* Small files for DataAvail.                                              *)
EXTENDS DataAvail

CONSTANTS a, b, c, d, left

MCBranch == {Root, left}
MCPage   == {a, b, c, d}

Nested == (Root :> <<a, left>>) @@ (left :> <<b, c>>)
Small  == (Root :> <<left, b>>) @@ (left :> <<a>>)
Wide   == (Root :> <<left, c>>) @@ (left :> <<a, b>>)
Deep   == (Root :> <<a, left, d>>) @@ (left :> <<b, c>>)

Plain(tree, hasCount, refs) ==
    [ kids |-> tree, counted |-> hasCount, first |-> 0, xref |-> refs,
      mainXRef |-> "none" ]
Linearized(tree, hasCount, firstPage, main) ==
    [ kids |-> tree, counted |-> hasCount, first |-> firstPage, xref |-> "good",
      mainXRef |-> main ]

(* What has arrived early, to keep a run to the question it asks.          *)
Stretches(names) == {Stretch(n) : n \in names}
ContentOfPages  == {Content(p) : p \in MCPage}
OfTheDocument   == Stretches({"header", "startxref", "xref", "root", "info",
                              "firstPage", "hints"})
EarlyForPages   == OfTheDocument
EarlyButForm    == OfTheDocument \cup ContentOfPages
EarlyForOpening == ContentOfPages \cup Stretches({"form"}) \cup {Node(o) : o \in MCPage}
EarlyForPolling == ContentOfPages \cup Stretches({"header", "info", "hints", "form"})

PolledFiles ==
    {Plain(Small, TRUE, x) : x \in {"good", "refused", "unusable"}}
    \cup {Plain(Small, FALSE, "good"), Plain(Nested, TRUE, "good")}
    \cup {Linearized(t, TRUE, 1, "good") : t \in {Small, Nested}}
    \cup {Linearized(Small, FALSE, 1, "good")}
AskedFiles ==
    {Plain(Nested, TRUE, "good"), Plain(Small, TRUE, "good")}
    \cup {Linearized(Wide, TRUE, 1, x) : x \in {"good", "bad", "none"}}
    \cup {Linearized(Nested, TRUE, 2, "good")}
Uncounted  == {Plain(Nested, FALSE, "good")}
LinearFile == {Linearized(Small, TRUE, 1, "good")}
LinearDeep == {Linearized(Deep, TRUE, 2, "good")}
=============================================================================

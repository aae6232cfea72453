------------------------------ MODULE Painting ------------------------------
(***************************************************************************)
(* What rendering a page promises, however often it is interrupted: the    *)
(* objects that can be seen are painted once each, layer by layer and in   *)
(* their order, every image with the content it has at that moment and as  *)
(* sharp as the device can show it; and a rendering that is continued      *)
(* comes to its end.                                                       *)
(***************************************************************************)
EXTENDS Integers, Sequences

CONSTANTS
    StreamInfo,   \* what there is to see in a stream
    Nothing

VARIABLES
    page,         \* the layers: sequences of objects
    content,      \* the stream of each image
    status,       \* "none", "continue" or "done"
    dev,          \* the size of the device
    painted       \* what has been painted since the rendering began

vars == <<page, content, status, dev, painted>>

Before(l1, n1, l2, n2) == l1 < l2 \/ (l1 = l2 /\ n1 < n2)

Painted(l, n) == \E k \in DOMAIN painted : painted[k].layer = l
                                         /\ painted[k].object = n

(* The object to paint next: all that can be seen before it are painted.   *)
IsNext(l, n) ==
    /\ l \in DOMAIN page /\ n \in DOMAIN page[l]
    /\ page[l][n].visible /\ ~Painted(l, n)
    /\ \A l2 \in DOMAIN page : \A n2 \in DOMAIN page[l2] :
         page[l2][n2].visible /\ Before(l2, n2, l, n) => Painted(l2, n2)

AsSharp(picture, s) ==
    \/ picture.size >= StreamInfo[s].size
    \/ picture.size >= dev

Right(obj, picture) ==
    IF obj.image = Nothing \/ ~StreamInfo[content[obj.image]].good
    THEN picture = Nothing
    ELSE /\ picture # Nothing
         /\ picture.stream = content[obj.image]
         /\ picture.mask = IF StreamInfo[picture.stream].mask > 0
                           THEN picture.stream ELSE Nothing
         /\ AsSharp(picture, content[obj.image])

Begin ==
    /\ status = "none"
    /\ status' = "continue"
    /\ dev' \in Nat
    /\ painted' = <<>>
    /\ UNCHANGED <<page, content>>

Paint ==
    /\ status = "continue"
    /\ \E k \in DOMAIN painted' :
         LET new == painted'[k]
         IN  /\ painted' = Append(painted, new)
             /\ IsNext(new.layer, new.object)
             /\ Right(page[new.layer][new.object], new.picture)
    /\ UNCHANGED <<page, content, status, dev>>

Finish ==
    /\ status = "continue"
    /\ \A l \in DOMAIN page : \A n \in DOMAIN page[l] :
         page[l][n].visible => Painted(l, n)
    /\ status' = "done"
    /\ UNCHANGED <<page, content, dev, painted>>

Close ==
    /\ status' = "none"
    /\ UNCHANGED <<page, content, dev, painted>>

Edit == UNCHANGED <<page, status, dev, painted>>

Init == status = "none" /\ painted = <<>>

Next == Begin \/ Paint \/ Finish \/ Close \/ Edit

Spec == Init /\ [][Next]_vars
=============================================================================

--------------------------- MODULE MCObjectAvail ---------------------------
(* A small document for ObjectAvail: object 1 is a reference to 2, the     *)
(* root, a page whose parent is 5; 3 and 4 refer to each other and both    *)
(* hold dictionaries whose /Type is an indirect name (6 and 7, 7 being     *)
(* /Page); 5 is another page, reachable only where it is excluded.         *)
EXTENDS ObjectAvail

P(r, t, s) == [role |-> r, type |-> t, refs |-> s]

MCObj == 1..7
MCParts ==
    [b \in Body |->
       CASE b = 1 -> <<P("plain", Null, {2})>>
         [] b = 2 -> <<P("plain", Page, {3}), P("parent", Null, {5})>>
         [] b = 3 -> <<P("plain", Null, {4}), P("plain", 6, {6})>>
         [] b = 4 -> <<P("plain", Null, {3, 2}), P("plain", 7, {5, 7})>>
         [] b = 5 -> <<P("plain", Page, {2})>>
         [] b = Inline -> <<P("plain", Null, {4}), P("inlineRoot", 6, {5})>>
         [] OTHER -> <<P("plain", Null, {})>>]
MCLink == [b \in Body |-> IF b = 1 THEN 2 ELSE Null]
MCPageNames == {7}
MCRoots == { [kind |-> "ref", id |-> 1], [kind |-> "body", id |-> 2],
             [kind |-> "body", id |-> Inline] }
=============================================================================

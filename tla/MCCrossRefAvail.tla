-------------------------- MODULE MCCrossRefAvail --------------------------
(* Small files for CrossRefAvail.  Sections 1 and 2 are tables and 3 is    *)
(* the stream a hybrid file adds; they name each other in cycles.  Section *)
(* 11 is a stream longer than a buffer.  The chains from 4, 5, 6, 8 and 10 *)
(* each meet a section that is refused.                                    *)
EXTENDS CrossRefAvail

MCOffset == 1..11
MCKind == <<"table", "table", "stream", "table", "noTrailer", "stream",
            "encryptedTable", "truncatedTable", "noStream", "stream", "stream">>
MCItems == <<1, 0, 0, 0, 0, 0, 1, 1, 0, 0, 0>>
MCPrev == <<2, 1, 1, 7, None, 9, None, None, None, None, None>>
MCXRefStm == <<3, None, None, None, None, None, None, None, None, None, None>>
MCStarts == {1, 3, 4, 5, 6, 8, 10, 11}

(* The sections lie in the file in this order, the stream that cannot be   *)
(* checked at its end.  A part is one byte, the data of section 11 are 5.  *)
Layout == <<3, 2, 1, 4, 7, 6, 9, 5, 8, 11, 10>>
SizeOf(o) == IF o = 11 THEN 6
             ELSE IF MCKind[o] \in {"stream", "noStream"} THEN 2 ELSE MCItems[o] + 3
PlaceOf[i \in 1..11] == IF i = 1 THEN 0 ELSE PlaceOf[i - 1] + SizeOf(Layout[i - 1])
MCFirst ==
    [part \in Part |->
       PlaceOf[CHOOSE i \in 1..11 : Layout[i] = part[1]] + part[2]]
MCLast ==
    [part \in Part |-> IF part = <<11, 1>> THEN MCFirst[part] + 4 ELSE MCFirst[part]]
=============================================================================

--------------------------- MODULE CrossRefTable ---------------------------
(***************************************************************************)
(* CPDF_CrossRefTable (core/fpdfapi/parser/cpdf_cross_ref_table.cpp): the  *)
(* map from object numbers to where the object is, and the trailer.        *)
(*                                                                         *)
(* A table is a function on the numbers it has an ObjectInfo for, a        *)
(* trailer a record of the keys the loading and the saving look at, 0      *)
(* where a key is absent, with the object number of the cross-reference    *)
(* stream it is the dictionary of, if any (trailer_object_number_).  The   *)
(* place in an archive (archive.obj_index) is left out: it is only used to *)
(* check that the member has the number.                                   *)
(***************************************************************************)
EXTENDS Integers

ObjectType == {"free", "normal", "compressed"}

(* pos and archive are a union in the code: see UnionPos.                  *)
ObjectInfo == [ type : ObjectType, stm : BOOLEAN, gen : Nat,
                pos : Nat, archive : Nat ]

NoInfo == [type |-> "free", stm |-> FALSE, gen |-> 0, pos |-> 0, archive |-> 0]

EmptyInfo == [n \in {} |-> NoInfo]

(* objects_info_[n]: an entry that is missing is made.                     *)
InfoOf(t, n) == IF n \in DOMAIN t THEN t[n] ELSE NoInfo
Put(t, n, info) == [m \in DOMAIN t \cup {n} |-> IF m = n THEN info ELSE t[m]]

(* CPDF_Parser::IsValidObjectNumber: not above the last number.            *)
IsValidObjectNumber(t, n) == \E m \in DOMAIN t : n <= m

(* Reading pos whatever the type: positive for an archived object too.     *)
UnionPos(info) == IF info.type = "compressed" THEN info.archive ELSE info.pos

-----------------------------------------------------------------------------
AddNormalFirst(t, n, gen, pos) ==    \* fault: the first entry stays
    IF InfoOf(t, n).type # "free" THEN t
    ELSE Put(t, n, [type |-> "normal", stm |-> InfoOf(t, n).stm, gen |-> gen,
                    pos |-> pos, archive |-> 0])
AddNormal(t, n, gen, pos) ==
    LET info == InfoOf(t, n)
    IN  IF info.gen > gen THEN t
        ELSE Put(t, n, [type |-> "normal", stm |-> info.stm, gen |-> gen,
                        pos |-> pos, archive |-> 0])

AddCompressed(t, n, archive) ==
    LET info == InfoOf(t, n)
        put  == Put(t, n, [type |-> "compressed", stm |-> FALSE, gen |-> 0,
                           pos |-> 0, archive |-> archive])
    IN  IF info.gen > 0 \/ info.stm THEN t
        ELSE Put(put, archive, [InfoOf(put, archive) EXCEPT !.stm = TRUE])

SetFreeBefore(t, n, gen) ==          \* fault: the generation before
    Put(t, n, [NoInfo EXCEPT !.gen = gen - 1])
SetFree(t, n, gen) ==
    Put(t, n, [type |-> "free", stm |-> InfoOf(t, n).stm, gen |-> gen,
               pos |-> 0, archive |-> 0])

(* Entries from size on go; the last number below size gets an entry.      *)
SetObjectMapSize(t, size) ==
    LET kept == [n \in {m \in DOMAIN t : m < size} |-> t[n]]
    IN  IF size = 0 THEN EmptyInfo
        ELSE IF size - 1 \in DOMAIN kept THEN kept
        ELSE Put(kept, size - 1, NoInfo)

-----------------------------------------------------------------------------
UpdateInfoKept(cur, new) ==          \* fault: what is there is not overridden
    [n \in DOMAIN cur \cup DOMAIN new |->
       IF n \in DOMAIN cur THEN cur[n] ELSE new[n]]
(* Update(): what is in new wins, but a number known to be an object       *)
(* stream stays one.                                                       *)
UpdateInfo(cur, new) ==
    IF DOMAIN new = {} THEN cur
    ELSE [n \in DOMAIN cur \cup DOMAIN new |->
            IF n \notin DOMAIN new THEN cur[n]
            ELSE IF /\ n \in DOMAIN cur
                    /\ new[n].type = "normal" /\ cur[n].type = "normal"
                    /\ cur[n].stm
            THEN [new[n] EXCEPT !.stm = TRUE]
            ELSE new[n]]

Trailer == [ root : Int, size : Nat, prev : Nat, xrefstm : Nat, enc : Int,
             num : Nat ]
NoTrailer == [root |-> -1, size |-> 0, prev |-> 0, xrefstm |-> 0, enc |-> 0,
              num |-> 0]

UpdateTrailerKept(cur, new) ==       \* fault: what is there is not overridden
    IF cur = NoTrailer THEN new ELSE cur
(* /Prev and /XRefStm stay the older trailer's, other keys are overridden; *)
(* the object number stays the one of the table that is updated.           *)
UpdateTrailer(cur, new) ==
    IF new = NoTrailer THEN cur
    ELSE IF cur = NoTrailer THEN [new EXCEPT !.num = cur.num]
    ELSE [ cur EXCEPT !.root = IF new.root # 0 THEN new.root ELSE @,
                      !.size = IF new.size # 0 THEN new.size ELSE @,
                      !.enc  = IF new.enc # 0 THEN new.enc ELSE @ ]
=============================================================================

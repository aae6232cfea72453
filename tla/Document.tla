------------------------------ MODULE Document ------------------------------
(***************************************************************************)
(* What a document that is edited, saved and opened again promises: only   *)
(* edits change what it shows, and a copy opens as what was saved.  The    *)
(* content is a function from the objects in use to their values.          *)
(*                                                                         *)
(* A save may be cut short while it appends to the file: then an object is *)
(* as it was or as it was to be, and none that was there is lost, but for  *)
(* the one that was being written.                                         *)
(***************************************************************************)
CONSTANTS
    ObjNums,   \* object numbers
    Missing,   \* nothing: a reference to an object that is not there
    Opening,   \* the content while a file is being opened
    Failed     \* the content when a file cannot be opened

VARIABLES
    content,   \* what the open document shows
    promise    \* what opening the last copy may show

IsOpen == content \notin {Opening, Failed}

(* A copy that was cut, with the objects S written in part.                *)
(* An object that was dropped may show what it was edited to before that,  *)
(* and one that was missing may be found.                                  *)
Kept(old, new, S, c) ==
    /\ DOMAIN c \in {DOMAIN old, DOMAIN new}
    /\ \A m \in DOMAIN c \ S :
         \/ m \in DOMAIN old /\ (c[m] = old[m] \/ old[m] = Missing)
         \/ m \in DOMAIN new /\ c[m] = new[m]
         \/ m \notin DOMAIN new /\ c[m] # Missing
         \/ m \notin DOMAIN old /\ c[m] = Missing

Fulfils(c) ==
    CASE promise.kind \in {"full", "update"} -> c = promise.new
      [] promise.kind = "cut" -> c # Failed /\
                                 Kept(promise.old, promise.new, promise.cut, c)
      [] OTHER -> TRUE   \* nothing was promised, or it is known to be lost

Init == content = Opening /\ promise.kind = "any"

Opened ==
    /\ content = Opening
    /\ content' # Opening
    /\ Fulfils(content')
    /\ UNCHANGED promise

(* One object at a time gets a value, is added or is dropped.              *)
Edit ==
    /\ IsOpen /\ content' \notin {Opening, Failed}
    /\ \E n \in ObjNums :
         /\ DOMAIN content \ {n} = DOMAIN content' \ {n}
         /\ \A m \in DOMAIN content \ {n} : content'[m] = content[m]
    /\ UNCHANGED promise

Save ==
    /\ IsOpen
    /\ promise'.kind # "any" => promise'.new = content
    /\ UNCHANGED content

Reopen ==
    /\ IsOpen
    /\ content' = Opening
    /\ UNCHANGED promise

Next == Opened \/ Edit \/ Save \/ Reopen
Spec == Init /\ [][Next]_<<content, promise>>
=============================================================================

------------------------------ MODULE EntryMap ------------------------------
(***************************************************************************)
(* What a bounded in-memory cache promises: it may forget, but it never    *)
(* returns for a key anything but the last thing stored under that key.    *)
(* LocalStore is shown to implement it.                                    *)
(***************************************************************************)
CONSTANTS Keys, Items, None

VARIABLES
    content,  \* per key, the item a lookup would find, or None
    last      \* per key, the item stored last, or None

Init ==
    /\ content = [k \in Keys |-> None]
    /\ last = [k \in Keys |-> None]

\* Storing an item may cost other entries their place.
Put(k, item) ==
    /\ last' = [last EXCEPT ![k] = item]
    /\ \E forgotten \in SUBSET (Keys \ {k}) :
          content' = [o \in Keys |->
                         IF o = k THEN item
                         ELSE IF o \in forgotten THEN None ELSE content[o]]

Forget(k) ==
    /\ content' = [content EXCEPT ![k] = None]
    /\ UNCHANGED last

Next == \E k \in Keys : Forget(k) \/ \E item \in Items : Put(k, item)

Spec == Init /\ [][Next]_<<content, last>>
=============================================================================

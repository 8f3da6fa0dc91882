------------------------------ MODULE HandleTable ------------------------------
(***************************************************************************)
(* What the native handle registry promises its callers, without saying    *)
(* how: a handle is a name that is issued at most once, stands for one     *)
(* entry from the moment it is issued until it is released, and stands for *)
(* nothing ever after.  Registry.tla implements this with reusable slots   *)
(* and generations; the modules of the Dart side are built on this one.    *)
(***************************************************************************)
CONSTANTS Handles,   \* every name the registry can ever hand out
          Entry,     \* the native objects a handle can stand for
          Unissued,  \* the mark of a handle not issued yet
          Spent      \* the mark of a handle issued and released

VARIABLE table       \* what every handle stands for

TableType == table \in [Handles -> Entry \cup {Unissued, Spent}]

TableInit == table = [h \in Handles |-> Unissued]

\* Related results are issued together: all of them or none.
Issue(new) ==
    \A h \in Handles :
        IF h \in new
        THEN table[h] = Unissued /\ table'[h] \in Entry
        ELSE table'[h] = table[h]

\* Only a handle that stands for an entry can be released, and only once.
Drop(h) ==
    /\ table[h] \in Entry
    /\ table' = [table EXCEPT ![h] = Spent]

TableNext ==
    /\ table' \in [Handles -> Entry \cup {Unissued, Spent}]
    /\ \/ \E new \in SUBSET Handles : Issue(new)
       \/ \E h \in Handles : Drop(h)

TableSpec == TableInit /\ [][TableNext]_table

================================================================================

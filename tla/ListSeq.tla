------------------------------ MODULE ListSeq ------------------------------
(***************************************************************************)
(* What a family of macros of src/dataStructure/tailq/queue.h promises:    *)
(* each list head stands for a finite sequence of elements, an element is  *)
(* in one list at most, and every macro inserts, removes or concatenates.  *)
(***************************************************************************)
EXTENDS Naturals, SequencesExt

CONSTANTS Heads, Elems

VARIABLE lists      \* lists[h]: the elements of list h, in order

SeqInit == lists = [h \in Heads |-> <<>>]

Unlisted(e) == \A h \in Heads : e \notin Range(lists[h])

Insert(h, i, e) ==
    /\ Unlisted(e)
    /\ lists' = [lists EXCEPT ![h] = InsertAt(@, i, e)]

Remove_(h, i) == lists' = [lists EXCEPT ![h] = RemoveAt(@, i)]

Concat(h, g) ==
    lists' = [lists EXCEPT ![h] = lists[h] \o lists[g], ![g] = <<>>]

SeqNext ==
    \E h \in Heads :
        \/ \E i \in 1..(Len(lists[h]) + 1), e \in Elems : Insert(h, i, e)
        \/ \E i \in 1..Len(lists[h]) : Remove_(h, i)
        \/ \E g \in Heads \ {h} : Concat(h, g)

SeqSpec == SeqInit /\ [][SeqNext]_lists
=============================================================================

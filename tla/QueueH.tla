------------------------------- MODULE QueueH -------------------------------
(***************************************************************************)
(* The list macros of src/dataStructure/tailq/queue.h: LIST, SLIST,        *)
(* STAILQ, TAILQ and CIRCLEQ.  The address of an element's next field is   *)
(* named by the element and the address of a head's first field by the     *)
(* head, so that nxt is what is stored at an address, prv what is stored   *)
(* right after it: &elm->field.tqe_next and the head's &first have the     *)
(* same layout, which TAILQ_LAST and TAILQ_PREV rely on.                   *)
(***************************************************************************)
EXTENDS Naturals, FiniteSets, SequencesExt

CONSTANTS Heads, Elems, NULL

VARIABLES
    kind,       \* the family in use
    nxt,        \* tqe_next of an element, tqh_first of a head
    prv         \* tqe_prev of an element, tqh_last of a head

qvars == <<kind, nxt, prv>>

Kinds == {"LIST", "SLIST", "STAILQ", "TAILQ", "CIRCLEQ"}
Locs == Heads \cup Elems

QueueTypeOK ==
    /\ kind \in Kinds
    /\ nxt \in [Locs -> Locs \cup {NULL}]
    /\ prv \in [Locs -> Locs \cup {NULL}]
    /\ kind \in {"STAILQ", "TAILQ", "CIRCLEQ"} => \A h \in Heads : prv[h] # NULL

(* XXX_INIT of every head.  The fields of an element are not initialised.  *)
init_first(k, h) == IF k = "CIRCLEQ" THEN h ELSE NULL

init_last(k, h) == IF k \in {"STAILQ", "TAILQ", "CIRCLEQ"} THEN h ELSE NULL

QueueInit(ks) ==
    /\ kind \in ks
    /\ nxt = [x \in Locs |-> IF x \in Heads THEN init_first(kind, x) ELSE NULL]
    /\ prv = [x \in Locs |-> IF x \in Heads THEN init_last(kind, x) ELSE NULL]

(* XXX_FOREACH and the reverse walks; the walk of a broken list is cut off *)
(* after as many steps as there are elements.                              *)
walk(f, from, end) ==
    LET go[n \in 0..Cardinality(Elems), x \in Locs \cup {NULL}] ==
            IF n = 0 \/ x = end THEN <<>> ELSE <<x>> \o go[n - 1, f[x]]
    IN  go[Cardinality(Elems), from]

FOREACH(h) == walk(nxt, nxt[h], init_first(kind, h))

TAILQ_LAST(h) == nxt[prv[prv[h]]]
TAILQ_PREV(e) == nxt[prv[prv[e]]]

TAILQ_FOREACH_REVERSE(h) ==
    walk([x \in Locs |-> IF x \in Range(FOREACH(h)) THEN TAILQ_PREV(x) ELSE NULL],
         TAILQ_LAST(h), NULL)

CIRCLEQ_FOREACH_REVERSE(h) == walk(prv, prv[h], h)

(* What the callers have to respect: an element that is inserted is in no  *)
(* list, and the element next to it, or the one removed, is in the list.   *)
free_elem(e) == \A h \in Heads : e \notin Range(FOREACH(h))
listed(h, e) == e \in Range(FOREACH(h))

LIST_INSERT_AFTER(l, e) ==
    /\ nxt' = [nxt EXCEPT ![e] = nxt[l], ![l] = e]
    /\ prv' = [x \in Locs |-> IF x = e THEN l ELSE IF x = nxt[l] THEN e ELSE prv[x]]

LIST_INSERT_BEFORE(l, e) ==
    /\ nxt' = [nxt EXCEPT ![e] = l, ![prv[l]] = e]
    /\ prv' = [prv EXCEPT ![e] = prv[l], ![l] = e]

LIST_INSERT_HEAD(h, e) ==
    /\ nxt' = [nxt EXCEPT ![e] = nxt[h], ![h] = e]
    /\ prv' = [x \in Locs |-> IF x = e THEN h ELSE IF x = nxt[h] THEN e ELSE prv[x]]

LIST_REMOVE(e) ==
    /\ nxt' = [nxt EXCEPT ![prv[e]] = nxt[e]]
    /\ prv' = [x \in Locs |-> IF x = nxt[e] THEN prv[e] ELSE prv[x]]

(* Mutant: the new element does not take over the rest of the list.        *)
mut_SLIST_INSERT_AFTER(l, e) ==
    nxt' = [nxt EXCEPT ![l] = e] /\ UNCHANGED prv

SLIST_INSERT_AFTER(l, e) ==
    nxt' = [nxt EXCEPT ![e] = nxt[l], ![l] = e] /\ UNCHANGED prv

SLIST_INSERT_HEAD(h, e) ==
    nxt' = [nxt EXCEPT ![e] = nxt[h], ![h] = e] /\ UNCHANGED prv

SLIST_REMOVE_HEAD(h) == nxt' = [nxt EXCEPT ![h] = nxt[nxt[h]]] /\ UNCHANGED prv

(* curelm: the element in front of e, found by walking from the head.      *)
curelm(h, e) == CHOOSE x \in Range(FOREACH(h)) : nxt[x] = e

SLIST_REMOVE(h, e) ==
    IF nxt[h] = e THEN SLIST_REMOVE_HEAD(h)
    ELSE nxt' = [nxt EXCEPT ![curelm(h, e)] = nxt[e]] /\ UNCHANGED prv

STAILQ_INSERT_HEAD(h, e) ==
    /\ nxt' = [nxt EXCEPT ![e] = nxt[h], ![h] = e]
    /\ prv' = IF nxt[h] = NULL THEN [prv EXCEPT ![h] = e] ELSE prv

STAILQ_INSERT_TAIL(h, e) ==
    /\ nxt' = [nxt EXCEPT ![e] = NULL, ![prv[h]] = e]
    /\ prv' = [prv EXCEPT ![h] = e]

STAILQ_INSERT_AFTER(h, l, e) ==
    /\ nxt' = [nxt EXCEPT ![e] = nxt[l], ![l] = e]
    /\ prv' = IF nxt[l] = NULL THEN [prv EXCEPT ![h] = e] ELSE prv

STAILQ_REMOVE_HEAD(h) ==
    /\ nxt' = [nxt EXCEPT ![h] = nxt[nxt[h]]]
    /\ prv' = IF nxt[nxt[h]] = NULL THEN [prv EXCEPT ![h] = h] ELSE prv

(* Mutant: removing the last element leaves stqh_last in it.               *)
mut_STAILQ_REMOVE(h, e) ==
    IF nxt[h] = e THEN STAILQ_REMOVE_HEAD(h)
    ELSE nxt' = [nxt EXCEPT ![curelm(h, e)] = nxt[e]] /\ UNCHANGED prv

STAILQ_REMOVE(h, e) ==
    IF nxt[h] = e THEN STAILQ_REMOVE_HEAD(h)
    ELSE /\ nxt' = [nxt EXCEPT ![curelm(h, e)] = nxt[e]]
         /\ prv' = IF nxt[e] = NULL THEN [prv EXCEPT ![h] = curelm(h, e)] ELSE prv

STAILQ_CONCAT(h, g) ==
    IF nxt[g] = NULL THEN UNCHANGED <<nxt, prv>>
    ELSE /\ nxt' = [nxt EXCEPT ![prv[h]] = nxt[g], ![g] = NULL]
         /\ prv' = [prv EXCEPT ![h] = prv[g], ![g] = g]

(* Where a back pointer goes that has no next element to live in: in the   *)
(* head's tqh_last.                                                        *)
or_last(h, x) == IF x = NULL THEN h ELSE x

TAILQ_INSERT_HEAD(h, e) ==
    /\ nxt' = [nxt EXCEPT ![e] = nxt[h], ![h] = e]
    /\ prv' = [prv EXCEPT ![or_last(h, nxt[h])] = e, ![e] = h]

TAILQ_INSERT_TAIL(h, e) ==
    /\ nxt' = [nxt EXCEPT ![e] = NULL, ![prv[h]] = e]
    /\ prv' = [prv EXCEPT ![e] = prv[h], ![h] = e]

TAILQ_INSERT_AFTER(h, l, e) ==
    /\ nxt' = [nxt EXCEPT ![e] = nxt[l], ![l] = e]
    /\ prv' = [prv EXCEPT ![or_last(h, nxt[l])] = e, ![e] = l]

TAILQ_INSERT_BEFORE(l, e) ==
    /\ nxt' = [nxt EXCEPT ![e] = l, ![prv[l]] = e]
    /\ prv' = [prv EXCEPT ![e] = prv[l], ![l] = e]

TAILQ_REMOVE(h, e) ==
    /\ nxt' = [nxt EXCEPT ![prv[e]] = nxt[e]]
    /\ prv' = [prv EXCEPT ![or_last(h, nxt[e])] = prv[e]]

TAILQ_CONCAT(h, g) ==
    IF nxt[g] = NULL THEN UNCHANGED <<nxt, prv>>
    ELSE /\ nxt' = [nxt EXCEPT ![prv[h]] = nxt[g], ![g] = NULL]
         /\ prv' = [prv EXCEPT ![nxt[g]] = prv[h], ![h] = prv[g], ![g] = g]

CIRCLEQ_INSERT_AFTER(l, e) ==
    /\ nxt' = [nxt EXCEPT ![e] = nxt[l], ![l] = e]
    /\ prv' = [prv EXCEPT ![e] = l, ![nxt[l]] = e]

CIRCLEQ_INSERT_BEFORE(l, e) ==
    /\ nxt' = [nxt EXCEPT ![e] = l, ![prv[l]] = e]
    /\ prv' = [prv EXCEPT ![e] = prv[l], ![l] = e]

CIRCLEQ_INSERT_HEAD(h, e) ==
    /\ nxt' = [nxt EXCEPT ![e] = nxt[h], ![h] = e]
    /\ prv' = [prv EXCEPT ![e] = h, ![IF prv[h] = h THEN h ELSE nxt[h]] = e]

CIRCLEQ_INSERT_TAIL(h, e) ==
    /\ nxt' = [nxt EXCEPT ![e] = h, ![IF nxt[h] = h THEN h ELSE prv[h]] = e]
    /\ prv' = [prv EXCEPT ![e] = prv[h], ![h] = e]

CIRCLEQ_REMOVE(e) ==
    /\ nxt' = [nxt EXCEPT ![prv[e]] = nxt[e]]
    /\ prv' = [prv EXCEPT ![nxt[e]] = prv[e]]

list_step(h) ==
    \/ \E e \in Elems : free_elem(e) /\ LIST_INSERT_HEAD(h, e)
    \/ \E l, e \in Elems : /\ listed(h, l) /\ free_elem(e)
                           /\ LIST_INSERT_AFTER(l, e) \/ LIST_INSERT_BEFORE(l, e)
    \/ \E e \in Elems : listed(h, e) /\ LIST_REMOVE(e)

slist_step(h) ==
    \/ \E e \in Elems : free_elem(e) /\ SLIST_INSERT_HEAD(h, e)
    \/ \E l, e \in Elems : listed(h, l) /\ free_elem(e) /\ SLIST_INSERT_AFTER(l, e)
    \/ nxt[h] # NULL /\ SLIST_REMOVE_HEAD(h)
    \/ \E e \in Elems : listed(h, e) /\ SLIST_REMOVE(h, e)

stailq_step(h) ==
    \/ \E e \in Elems : free_elem(e) /\ (STAILQ_INSERT_HEAD(h, e) \/ STAILQ_INSERT_TAIL(h, e))
    \/ \E l, e \in Elems : listed(h, l) /\ free_elem(e) /\ STAILQ_INSERT_AFTER(h, l, e)
    \/ nxt[h] # NULL /\ STAILQ_REMOVE_HEAD(h)
    \/ \E e \in Elems : listed(h, e) /\ STAILQ_REMOVE(h, e)
    \/ \E g \in Heads \ {h} : STAILQ_CONCAT(h, g)

tailq_step(h) ==
    \/ \E e \in Elems : free_elem(e) /\ (TAILQ_INSERT_HEAD(h, e) \/ TAILQ_INSERT_TAIL(h, e))
    \/ \E l, e \in Elems :
           /\ listed(h, l) /\ free_elem(e)
           /\ TAILQ_INSERT_AFTER(h, l, e) \/ TAILQ_INSERT_BEFORE(l, e)
    \/ \E e \in Elems : listed(h, e) /\ TAILQ_REMOVE(h, e)
    \/ \E g \in Heads \ {h} : TAILQ_CONCAT(h, g)

circleq_step(h) ==
    \/ \E e \in Elems : free_elem(e) /\ (CIRCLEQ_INSERT_HEAD(h, e) \/ CIRCLEQ_INSERT_TAIL(h, e))
    \/ \E l, e \in Elems :
           /\ listed(h, l) /\ free_elem(e)
           /\ CIRCLEQ_INSERT_AFTER(l, e) \/ CIRCLEQ_INSERT_BEFORE(l, e)
    \/ \E e \in Elems : listed(h, e) /\ CIRCLEQ_REMOVE(e)

QueueNext ==
    /\ UNCHANGED kind
    /\ \E h \in Heads :
        \/ kind = "LIST" /\ list_step(h)
        \/ kind = "SLIST" /\ slist_step(h)
        \/ kind = "STAILQ" /\ stailq_step(h)
        \/ kind = "TAILQ" /\ tailq_step(h)
        \/ kind = "CIRCLEQ" /\ circleq_step(h)

QueueSpec == QueueInit(Kinds) /\ [][QueueNext]_qvars

LS == INSTANCE ListSeq WITH lists <- [h \in Heads |-> FOREACH(h)]

(* Every macro, whatever was inserted, removed or concatenated before it,  *)
(* does to the elements a walk from the head visits what it does to the    *)
(* sequence the head stands for.                                           *)
ImplementsSeq == LS!SeqSpec

(* Of an element that is in a list of a doubly linked family, the word at  *)
(* the address its back pointer holds is the element itself (readme.md of  *)
(* tailq: *tqe_prev is the element's own address).                         *)
BackPointers ==
    kind \in {"LIST", "TAILQ", "CIRCLEQ"} =>
        \A h \in Heads, e \in Elems : listed(h, e) => nxt[prv[e]] = e

(* The reverse walks of TAILQ, which read an element as if it were a head, *)
(* and of CIRCLEQ visit the elements of the forward walk backwards; the    *)
(* last pointer of an STAILQ is the address of its last element's next     *)
(* field, or of the head.                                                  *)
ReverseWalks ==
    \A h \in Heads :
        /\ kind = "TAILQ" => TAILQ_FOREACH_REVERSE(h) = Reverse(FOREACH(h))
        /\ kind = "CIRCLEQ" => CIRCLEQ_FOREACH_REVERSE(h) = Reverse(FOREACH(h))
        /\ kind = "STAILQ" =>
               prv[h] = (IF FOREACH(h) = <<>> THEN h ELSE Last(FOREACH(h)))

\* Back and tail pointers of queue.h fit the forward ones after any operations,
\* so that the reverse walks visit the elements of the forward ones.
ListsSound == QueueTypeOK /\ BackPointers /\ ReverseWalks
=============================================================================

-------------------------------- MODULE Rcu --------------------------------
(***************************************************************************)
(* src/mod/rcu/rcu.c: foo_update_a publishes a new struct foo under a spin *)
(* lock, waits for a grace period and frees the old one; foo_update_a_no_  *)
(* blk hands the old one to call_rcu (or kfree_rcu); foo_get_a reads with  *)
(* no lock.  A structure is a number, 0 the static g_foo; its contents are *)
(* the updates that went into it.  The grace period is the kernel's: it    *)
(* ends when every reader that was in its section when it began has left.  *)
(***************************************************************************)
EXTENDS Naturals, FiniteSets

CONSTANTS
    Updaters,       \* calls of an update function, one each
    Blocking,       \* those that call foo_update_a; the rest do not block
    Readers         \* threads that call foo_get_a over and over

VARIABLES
    gbl_foo,        \* the structure the global pointer holds
    foo,            \* foo[s]: the updates structure s carries
    nalloc,         \* kmalloc has returned 1..nalloc
    freed,          \* the structures given to kfree
    foo_mutex,      \* the spin lock's holder, {} when free
    upc, new_fp, old_fp,    \* an updater's step and locals
    rcupc, fp,                \* a reader's
    grace           \* grace[u]: the readers u's grace period waits for

rcuvars == <<gbl_foo, foo, nalloc, freed, foo_mutex, upc, new_fp, old_fp, rcupc, fp, grace>>

ASSUME RcuAssumption == IsFiniteSet(Updaters)

Structs == 0..Cardinality(Updaters)

RcuInit ==
    /\ gbl_foo = 0 /\ foo = [s \in Structs |-> {}] /\ nalloc = 0 /\ freed = {}
    /\ foo_mutex = {}
    /\ upc = [u \in Updaters |-> "kmalloc"]
    /\ new_fp = [u \in Updaters |-> 0] /\ old_fp = [u \in Updaters |-> 0]
    /\ rcupc = [r \in Readers |-> "out"] /\ fp = [r \in Readers |-> 0]
    /\ grace = [u \in Updaters |-> {}]

ugoto(u, from, to) == upc[u] = from /\ upc' = [upc EXCEPT ![u] = to]
rcugoto(r, from, to) == rcupc[r] = from /\ rcupc' = [rcupc EXCEPT ![r] = to]

kmalloc(u) ==
    /\ ugoto(u, "kmalloc", "lock")
    /\ nalloc' = nalloc + 1 /\ new_fp' = [new_fp EXCEPT ![u] = nalloc + 1]
    /\ UNCHANGED <<gbl_foo, foo, freed, foo_mutex, old_fp, rcupc, fp, grace>>

lock_free(u) == foo_mutex = {}

(* spin_lock, the copy of the old structure and the new a.                 *)
copy_old(u) ==
    /\ lock_free(u) /\ ugoto(u, "lock", "assign")
    /\ foo_mutex' = {u}
    /\ old_fp' = [old_fp EXCEPT ![u] = gbl_foo]
    /\ foo' = [foo EXCEPT ![new_fp[u]] = foo[gbl_foo] \cup {u}]
    /\ UNCHANGED <<gbl_foo, nalloc, freed, new_fp, rcupc, fp, grace>>

(* rcu_assign_pointer and spin_unlock.                                     *)
rcu_assign_pointer(u) ==
    /\ ugoto(u, "assign", "grace")
    /\ gbl_foo' = new_fp[u] /\ foo_mutex' = {}
    /\ UNCHANGED <<foo, nalloc, freed, new_fp, old_fp, rcupc, fp, grace>>

in_section == {r \in Readers : rcupc[r] # "out"}

(* synchronize_rcu in foo_update_a, call_rcu or kfree_rcu in the others: a *)
(* grace period begins.  Only foo_update_a waits for it here; what is left *)
(* of the others is the callback.                                          *)
begin_grace(u) ==
    /\ ugoto(u, "grace", "kfree")
    /\ grace' = [grace EXCEPT ![u] = in_section]
    /\ UNCHANGED <<gbl_foo, foo, nalloc, freed, foo_mutex, new_fp, old_fp, rcupc, fp>>

(* Mutant: the new structure is freed, not the old.                        *)
mut_reclaim(u) == new_fp[u]

reclaim(u) == old_fp[u]

(* kfree at the end of foo_update_a.                                       *)
kfree_old(u) ==
    /\ u \in Blocking /\ grace[u] = {} /\ ugoto(u, "kfree", "done")
    /\ freed' = freed \cup {reclaim(u)}
    /\ UNCHANGED <<gbl_foo, foo, nalloc, foo_mutex, new_fp, old_fp, rcupc, fp, grace>>

(* The callback of call_rcu.                                               *)
foo_reclaim(u) ==
    /\ u \notin Blocking /\ grace[u] = {} /\ ugoto(u, "kfree", "done")
    /\ freed' = freed \cup {reclaim(u)}
    /\ UNCHANGED <<gbl_foo, foo, nalloc, foo_mutex, new_fp, old_fp, rcupc, fp, grace>>

rcu_read_lock(r) ==
    /\ rcugoto(r, "out", "locked")
    /\ UNCHANGED <<gbl_foo, foo, nalloc, freed, foo_mutex, upc, new_fp, old_fp, fp, grace>>

rcu_dereference(r) ==
    /\ rcugoto(r, "locked", "deref")
    /\ fp' = [fp EXCEPT ![r] = gbl_foo]
    /\ UNCHANGED <<gbl_foo, foo, nalloc, freed, foo_mutex, upc, new_fp, old_fp, grace>>

leaves(r) == [u \in Updaters |-> grace[u] \ {r}]

(* retval = fp->a and rcu_read_unlock; the local fp goes out of scope.     *)
rcu_read_unlock(r) ==
    /\ rcugoto(r, "deref", "out")
    /\ grace' = leaves(r)
    /\ fp' = [fp EXCEPT ![r] = 0]
    /\ UNCHANGED <<gbl_foo, foo, nalloc, freed, foo_mutex, upc, new_fp, old_fp>>

update_step(u) ==
    \/ kmalloc(u) \/ copy_old(u) \/ rcu_assign_pointer(u) \/ begin_grace(u)
    \/ kfree_old(u) \/ foo_reclaim(u)

section_step(r) == rcu_dereference(r) \/ rcu_read_unlock(r)

RcuNext ==
    \/ \E u \in Updaters : update_step(u)
    \/ \E r \in Readers : rcu_read_lock(r) \/ section_step(r)

RcuSpec == RcuInit /\ [][RcuNext]_rcuvars

(* An updater runs on, a reader leaves the section it is in, and need not  *)
(* enter one.  Each updater takes the lock once, so that weak fairness is  *)
(* enough for it.                                                          *)
RcuFair ==
    /\ \A u \in Updaters : WF_rcuvars(update_step(u))
    /\ \A r \in Readers : WF_rcuvars(section_step(r))

RcuFairSpec == RcuSpec /\ RcuFair

(* A reader that holds a pointer from rcu_dereference never reads a        *)
(* structure that has been freed, even when it took the pointer before the *)
(* update and reads after several others (rcu.c: "ensure that any readers  *)
(* that might have references to the old structure complete").             *)
NoReadAfterFree == \A r \in Readers : rcupc[r] = "deref" => fp[r] \notin freed

(* No update is lost: the structure published last carries every update    *)
(* that has been published, and it is not freed.                           *)
NoLostUpdate ==
    /\ foo[gbl_foo] = {u \in Updaters : upc[u] \in {"grace", "kfree", "done"}}
    /\ gbl_foo \notin freed

(* Every structure that was replaced is freed in the end, however often    *)
(* readers come back; g_foo, which no kmalloc returned, is one of them.    *)
ReplacedAreFreed == <>[](freed = (0..Cardinality(Updaters)) \ {gbl_foo})

\* No reader of gbl_foo uses a structure that was freed, and no update is lost.
RcuSafe == NoReadAfterFree /\ NoLostUpdate
=============================================================================

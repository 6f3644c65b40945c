--------------------------- MODULE ChainbaseStore ---------------------------
(***************************************************************************)
(* The revisioned, undoable store the receiver keeps its persistent state  *)
(* in (spec.md section 3, "Revisioned Store contract"; section 6,          *)
(* "Persistent state layout").  The store is the chainbase library, a      *)
(* dependency and not code of this repository, so these operators follow   *)
(* the contract the spec states for it:                                    *)
(*   set_revision(n)  sets the revision;                                   *)
(*   start_undo_scope / push  materialise a scope as the current revision; *)
(*   undo()  discards the top scope (and fails at the baseline);           *)
(*   commit(n)  fuses every scope with revision <= n into the baseline.    *)
(*                                                                         *)
(* A store is a record                                                     *)
(*   data  : the current contents of the indexes (opaque here)             *)
(*   stack : the undo stack, oldest scope first; a scope is                *)
(*           [rev |-> its revision, undo |-> the contents it restores]     *)
(*   rev   : the store's revision                                          *)
(***************************************************************************)
EXTENDS Integers, Sequences

LOCAL INSTANCE SequencesExt

NewStore(d) == [data |-> d, stack |-> <<>>, rev |-> 0]

set_revision(st, n) == [st EXCEPT !.rev = n]

(* start_undo_session, the modifications giving newData, and push(): the   *)
(* scope is materialised as the store's current revision.                  *)
PushScope(st, newData) ==
    [data  |-> newData,
     stack |-> Append(st.stack, [rev |-> st.rev, undo |-> st.data]),
     rev   |-> st.rev]

(* undo(): restore the contents saved by the top scope and step the        *)
(* revision back.  Only defined when a scope exists; at the baseline undo  *)
(* fails (callers test st.stack # <<>> first).                             *)
undo(st) ==
    [data  |-> Last(st.stack).undo,
     stack |-> Front(st.stack),
     rev   |-> st.rev - 1]

(* commit(n): scopes are fused from the oldest one while their revision    *)
(* is <= n; they can no longer be undone.                                  *)
RECURSIVE commit(_, _)
commit(st, n) ==
    IF st.stack # <<>> /\ Head(st.stack).rev <= n
    THEN commit([st EXCEPT !.stack = Tail(st.stack)], n)
    ELSE st

(* The durable baseline: the contents an undo of every scope would give.   *)
Baseline(st) == IF st.stack = <<>> THEN st.data ELSE Head(st.stack).undo

=============================================================================

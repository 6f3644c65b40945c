---------------------------- MODULE ChainFollower ----------------------------
(* What the receiver promises the consumer of its channels (spec.md 1 and  *)
(* 5): the consumer's copy of the chain, built from the fork and block     *)
(* events it has been given, is always the beginning of a chain the node   *)
(* really held.  It changes by dropping its top blocks (a fork event) or   *)
(* by taking the next block of such a chain (a block event); a block is    *)
(* never skipped and never placed on top of blocks of another branch.      *)
EXTENDS Sequences, SequencesExt

VARIABLES
    branches,   \* the id sequences of every chain the node has held
    view        \* the consumer's chain: its block n has id view[n]

vars == <<branches, view>>

Init ==
    /\ branches # {}
    /\ view = <<>>

(* The node produces blocks or switches forks; the consumer sees nothing.  *)
Learn ==
    /\ branches \subseteq branches'
    /\ view' = view

(* A fork event: the consumer drops its blocks from some height up.        *)
Rewind ==
    /\ \E k \in 0 .. Len(view) - 1 : view' = SubSeq(view, 1, k)
    /\ branches' = branches

(* A block event: on top of its first k blocks, which some held chain      *)
(* begins with, the consumer takes that chain's block k + 1.               *)
Adopt ==
    /\ \E br \in branches, k \in 0 .. Len(view) :
          /\ k < Len(br)
          /\ SubSeq(view, 1, k) = SubSeq(br, 1, k)
          /\ view' = SubSeq(br, 1, k + 1)
    /\ branches' = branches

Next == Learn \/ Rewind \/ Adopt

Spec == Init /\ [][Next]_vars

(* The consumer's chain is always the beginning of a chain the node held. *)
ViewOnABranch == \E br \in branches : IsPrefix(view, br)
=============================================================================

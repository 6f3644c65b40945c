----------------------------- MODULE TraceFilter -----------------------------
(* receive_traces: the transaction traces of each block result are decoded *)
(* and published on the transaction_traces channel, except those whose     *)
(* first action is in the action blacklist plugin_initialize sets up.      *)
(* Only the first action of a trace is looked at; inline traces never are. *)
EXTENDS Sequences, SequencesExt

CONSTANTS
    AccountNames,    \* abieos names of accounts
    ActionNames,     \* abieos names of actions
    eosio, onblock, blocktwitter, tweet,
    HasSubscribers,  \* the transaction_traces channel has subscribers
    MaxActions,      \* bound on the actions of one transaction trace
    MaxFrames        \* bound on the block results received

ASSUME {eosio, blocktwitter} \subseteq AccountNames /\ {onblock, tweet} \subseteq ActionNames
ASSUME HasSubscribers \in BOOLEAN /\ MaxActions \in Nat /\ MaxFrames \in Nat

(* std::map::emplace inserts a key only when it is absent.                 *)
Emplace(m, k, v) == m @@ (k :> v)

(* plugin_initialize: blacklist_actions, account -> set of action names.   *)
blacklist_actions ==
    Emplace(Emplace([a \in {} |-> {}], eosio, {onblock}), blocktwitter, {tweet})

(* An action_trace, reduced to the fields the blacklist reads, and a       *)
(* transaction_trace as its sequence of top-level action traces.          *)
ActionTrace == [account : AccountNames, name : ActionNames]
Traces == UNION {[1 .. n -> ActionTrace] : n \in 0 .. MaxActions}

(* The blacklist test of receive_traces, on traces[0].                     *)
IsBlacklistedAnyAction(tr) ==
    \E i \in DOMAIN tr :
        tr[i].account \in DOMAIN blacklist_actions
        /\ tr[i].name \in blacklist_actions[tr[i].account]

IsBlacklisted(tr) ==
    /\ Len(tr) > 0
    /\ tr[1].account \in DOMAIN blacklist_actions
    /\ tr[1].name \in blacklist_actions[tr[1].account]

(* The loop of receive_traces: what it publishes for the traces of one    *)
(* block result.                                                           *)
Published(trs) ==
    IF HasSubscribers
    THEN FoldLeft(LAMBDA acc, tr : IF IsBlacklisted(tr) THEN acc ELSE Append(acc, tr),
                  <<>>, trs)
    ELSE <<>>

VARIABLES
    received,   \* history: the traces of every block result, in order
    published   \* the transaction_trace events published, in order

vars == <<received, published>>

Init ==
    /\ received = <<>>
    /\ published = <<>>

(* One block result carrying traces: the block's traces are one sequence  *)
(* of at most two transaction traces.                                      *)
receive_traces ==
    /\ Len(received) < MaxFrames
    /\ \E trs \in UNION {[1 .. n -> Traces] : n \in 0 .. 2} :
          /\ received' = Append(received, trs)
          /\ published' = published \o Published(trs)

Spec == Init /\ [][receive_traces]_vars

-----------------------------------------------------------------------------
(* Reference definition, spec.md 4.3 and 6: the blacklist is the set of    *)
(* (account, action) pairs, and a trace is dropped exactly when its first  *)
(* action is one of them.                                                  *)
BlacklistPairs == {<<eosio, onblock>>, <<blocktwitter, tweet>>}

Dropped(tr) == Len(tr) > 0 /\ <<tr[1].account, tr[1].name>> \in BlacklistPairs

(* With subscribers, receive_traces publishes, over any sequence of block  *)
(* results, exactly the received traces the reference keeps, in the order *)
(* received: no blacklisted trace leaks and no other trace is lost or      *)
(* reordered, traces without actions included.                             *)
PublishesExactlyUnlisted ==
    published =
        IF HasSubscribers
        THEN SelectSeq(FlattenSeq(received), LAMBDA tr : ~Dropped(tr))
        ELSE <<>>
=============================================================================

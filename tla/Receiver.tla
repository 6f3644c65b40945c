------------------------------ MODULE Receiver ------------------------------
(***************************************************************************)
(* The receiver engine of eos-chronicle (receiver_plugin.cpp) together     *)
(* with the node's state-history server it reads from and the exporter     *)
(* that acknowledges blocks.                                               *)
(*                                                                         *)
(* Receiver: load_state on start, the read loop (continue_read,            *)
(* check_pause), receive_result with its fork handling, received-block     *)
(* ring, ABI deltas and commit, the exporter controls ack_block and        *)
(* slowdown, and abort_receiver.  One receive_result is one action: the    *)
(* reactor is single-threaded and receive_result does not yield.           *)
(*                                                                         *)
(* Event bus and exporter: receive_result and load_state publish          *)
(* fork_event and block_event on appbase channels; publish posts the       *)
(* delivery to the reactor's priority queue, so an exporter handles them   *)
(* later, in order, and forwards them to a downstream consumer that keeps  *)
(* blocks by number.  The exporter acknowledges blocks it has delivered.   *)
(*                                                                         *)
(* Server (environment): a chain of blocks with a last irreversible block; *)
(* blocks are produced, LIB advances, and the chain forks above LIB.  On a *)
(* connection it pushes get_blocks_result_v0 frames, in order, from the    *)
(* block the request asks for; after a fork it continues from the fork     *)
(* point.  Block ids are the fork generation that created the block.      *)
(***************************************************************************)
EXTENDS Integers, Sequences, FiniteSets, TLC

LOCAL INSTANCE SequencesExt

CONSTANTS
    Accounts,        \* contract accounts appearing in deltas
    AbiVersions,     \* valid serialized ABIs
    BadAbi,          \* serialized ABI that abieos rejects
    BlockOps,        \* the delta a block may carry (see Ops)
    MaxBlock,        \* the server chain never grows past this height
    MaxForks,        \* number of forks the server may perform
    MaxRestarts,     \* number of process restarts
    MaxInFlight,     \* frames sent and not yet read (the request allows 2^32-1)
    ExporterWillAck, \* exporter_will_ack_blocks was called at startup
    MaxUnconfirmed,  \* its max_unconfirmed argument
    RowSubscribers,  \* table_row_updates or abi_errors has subscribers
    AbiSubscribers,  \* abi_updates has subscribers
    ExporterSlowdown,  \* the exporter may call slowdown()
    MaxQueueSize,    \* max-queue-size: queued deliveries above it pause reads
    MaxEvents,       \* model bound: no pause is taken with this many queued
    UIntMod,         \* 2^width of uint32_t arithmetic (see README)
    ReceiverKeepsUp, \* LIB only passes blocks the receiver already holds
    AcksBlockEvents, \* the exporter acks the block of the last block_event it delivered
    ConsumerReadsReason, \* the downstream consumer tells restart forks apart
    Dependents       \* plugins registered by donot_start_receiver_before, in order

(* A present row of the "account" table: account_object's name, and its   *)
(* abi, empty ("clearabi") or not ("setabi").                              *)
AccountRows ==
    [kind : {"setabi"}, account : Accounts, abi : AbiVersions \cup {BadAbi}]
    \cup [kind : {"clearabi"}, account : Accounts]

(* A row of the "contract_row" table: the key_value_object's code.         *)
ContractRows == [kind : {"row"}, account : Accounts]

(* The table_delta_v0 rows a block carries, as one row of one table, or    *)
(* none.                                                                   *)
Ops == {[kind |-> "none"]} \cup AccountRows \cup ContractRows

ASSUME BlockOps \subseteq Ops /\ BlockOps # {}
ASSUME MaxBlock \in Nat \ {0} /\ MaxForks \in Nat /\ MaxRestarts \in Nat
ASSUME MaxInFlight \in Nat \ {0}
ASSUME Dependents \in Seq(STRING) /\ Len(Dependents) = Cardinality(ToSet(Dependents))
ASSUME ExporterWillAck \in BOOLEAN /\ RowSubscribers \in BOOLEAN /\ AbiSubscribers \in BOOLEAN
ASSUME ExporterSlowdown \in BOOLEAN /\ MaxQueueSize \in Nat /\ MaxEvents \in Nat
ASSUME ReceiverKeepsUp \in BOOLEAN /\ ConsumerReadsReason \in BOOLEAN /\ AcksBlockEvents \in BOOLEAN
ASSUME ExporterWillAck => MaxUnconfirmed \in Nat \ {0}
ASSUME UIntMod \in Nat /\ UIntMod > 2 * MaxBlock

Store == INSTANCE ChainbaseStore
Reg   == INSTANCE AbiRegistry

NoId == 0                       \* the zeroed checksum256
Ids  == 0 .. MaxForks + 1
Nums == 0 .. MaxBlock
Phases == {"down", "ready", "reading", "closed"}
PauseValues == {0} \cup {100 * 2^k : k \in 0 .. 7}

VARIABLES
    \* state-history server
    chain,           \* the server's chain: block n is chain[n] = [id, op]
    lib,             \* its last irreversible block
    gen,             \* fork generation, the id of newly produced blocks
    next,            \* next block the server sends on this connection
    msgs,            \* frames sent and not yet read, in order
    branches,        \* history: every chain the server held
    \* receiver_plugin_impl
    db,              \* chainbase store (ChainbaseStore record)
    head, head_id, irreversible, irreversible_id,
    ctx,             \* contract_abi_ctxt; DOMAIN ctx = contract_abi_imported
    phase,           \* where the read loop is (see Phases)
    aborting,
    pause_time_msec,
    slowdown_requested,
    exporter_acked_block,
    dependent_plugins, \* receiver_plugin::dependent_plugins not yet seen started
    startup_pending, \* a call of start_after_dependencies is due (startup or 1 s timer)
    \* appbase channels and the exporter
    events,          \* published events not yet delivered, in order
    exported,        \* downstream table: block number -> [id, evs]
    exporter_block,  \* last block this process's exporter delivered
    ack_misused,     \* history: some ack_block call threw
    dep_started,     \* dependent plugins appbase has started in this process
    \* history
    accepted,        \* blocks of the branch the receiver has accepted
    rejected,        \* receive_result has thrown on some frame
    restarts

server   == <<chain, lib, gen, next, msgs, branches>>
receiver == <<db, head, head_id, irreversible, irreversible_id, ctx, phase,
              aborting, pause_time_msec, slowdown_requested,
              exporter_acked_block>>
exporter == <<exported, exporter_block, ack_misused>>
startup  == <<dependent_plugins, startup_pending, dep_started>>
vars     == <<server, receiver, events, exporter, startup, accepted, rejected, restarts>>

-----------------------------------------------------------------------------
(* Persistent contents of the store: the state_object singleton (a zeroed  *)
(* one stands for "not created yet", which load_state reads the same way), *)
(* the received-block ring (block_index -> block_id) and contract ABIs.    *)

ZeroState == [head |-> 0, head_id |-> NoId, irreversible |-> 0, irreversible_id |-> NoId]
NoRing    == [n \in {} |-> NoId]
InitData  == [state |-> ZeroState, ring |-> NoRing, abis |-> Reg!NoAbis]

(* uint32_t subtraction *)
USub(a, b) == (a - b) % UIntMod

IdOf(n) == IF n = 0 THEN NoId ELSE chain[n].id

(* The get_blocks_result_v0 the server sends for block n; prev_block is    *)
(* absent for block 1 (NoId never equals a head_id).                       *)
Frame(n) ==
    [block_num |-> n, block_id |-> chain[n].id,
     prev_id   |-> IdOf(n - 1),
     lib_num   |-> lib, lib_id |-> IdOf(lib),
     op        |-> chain[n].op]

(* The server's handling of get_blocks_request_v0: start from start_block  *)
(* unless a have_positions entry below it names a block id the server does *)
(* not have; then start from the lowest such entry.                        *)
ResumeFrom(positions, start) ==
    LET stale == {n \in DOMAIN positions :
                    n < start /\ (n > Len(chain) \/ chain[n].id # positions[n])}
    IN  IF stale = {} THEN start
        ELSE CHOOSE n \in stale : \A m \in stale : n <= m

(* The loop "while (db->revision() >= block_num) db->undo();" of the fork *)
(* path of receive_result.  When the stack runs out first, undo() fails at *)
(* the baseline: the result then still has rev >= n, which is how the      *)
(* caller sees the failure.                                                *)
RECURSIVE UndoWhileAbove(_, _)
UndoWhileAbove(st, n) ==
    IF st.rev > n /\ st.stack # <<>>
    THEN UndoWhileAbove(Store!undo(st), n)
    ELSE st

RECURSIVE UndoWhileAtLeast(_, _)
UndoWhileAtLeast(st, n) ==
    IF st.rev >= n /\ st.stack # <<>>
    THEN UndoWhileAtLeast(Store!undo(st), n)
    ELSE st

(* "while (index.stack().size() > 0) db->undo();" of load_state.           *)
RECURSIVE UndoAll(_)
UndoAll(st) == IF st.stack = <<>> THEN st ELSE UndoAll(Store!undo(st))

(* The channel events the engine publishes: fork_event (fork_block_num,   *)
(* fork_reason), block_event (block_num, and the block whose id it         *)
(* carries), receiver_pause, and the events of receive_deltas and the ABI  *)
(* registry, stamped with the head block: abi_update, abi_removal,         *)
(* abi_error, table_row_update (with the ABI the row is decoded with) and  *)
(* block_table_delta.                                                      *)
ForkEvent(n, reason) == [kind |-> "fork", num |-> n, reason |-> reason]
BlockEvent(n, id)    == [kind |-> "block", num |-> n, id |-> id]
PauseEvent(hd)       == [kind |-> "pause", num |-> hd]
AbiUpdateEvent(n, a, v)  == [kind |-> "abi_update", num |-> n, account |-> a, abi |-> v]
AbiRemovalEvent(n, a)    == [kind |-> "abi_removal", num |-> n, account |-> a]
AbiErrorEvent(n, a)      == [kind |-> "abi_error", num |-> n, account |-> a]
RowEvent(n, a, v)        == [kind |-> "table_row_update", num |-> n, account |-> a, abi |-> v]
TableDeltaEvent(n)       == [kind |-> "block_table_delta", num |-> n]
DeltaKinds == {"abi_update", "abi_removal", "abi_error", "table_row_update"}

(* check_pause announces a pause of 2 s or more with a receiver_pause.     *)
PauseEvents(p, hd) == IF p >= 2000 THEN <<PauseEvent(hd)>> ELSE <<>>

(* The fork_event receive_result publishes once the rollback succeeded.    *)
NetworkForkEventsDropped(b) == <<>>

NetworkForkEvents(b) == <<ForkEvent(b, "network")>>

(* The fork_event load_state publishes after undoing pending scopes: its   *)
(* fork_block_num is the head read back from the store.                    *)
RestartForkEvents(st, hd) == IF st.stack # <<>> THEN <<ForkEvent(hd, "restart")>> ELSE <<>>

(* A downstream consumer keeps blocks by number.  It reads a fork_event as *)
(* spec.md 5 states it ("fork events precede any event for blocks at or    *)
(* above the fork point on the new branch"), dropping the blocks from      *)
(* fork_block_num up; with ConsumerReadsReason it takes the fork_block_num *)
(* of a restart fork_event for the last block kept, as load_state sets it. *)
(* A block_event stores its block, and the delta events that follow it are *)
(* recorded with the block they are stamped with.                         *)
FirstDropped(ev) ==
    IF ConsumerReadsReason /\ ev.reason = "restart" THEN ev.num + 1 ELSE ev.num

Consume(t, ev) ==
    CASE ev.kind = "fork"  -> [m \in {k \in DOMAIN t : k < FirstDropped(ev)} |-> t[m]]
      [] ev.kind = "block" -> (ev.num :> [id |-> ev.id, evs |-> <<>>]) @@ t
      [] ev.kind \in DeltaKinds /\ ev.num \in DOMAIN t
                           -> [t EXCEPT ![ev.num].evs = Append(@, ev)]
      [] OTHER             -> t

ChainIds(c) == [n \in DOMAIN c |-> c[n].id]

-----------------------------------------------------------------------------
Init ==
    /\ chain = <<[id |-> 1, op |-> [kind |-> "none"]]>>   \* genesis, irreversible
    /\ lib = 1
    /\ gen = 1
    /\ next = 1
    /\ msgs = <<>>
    /\ branches = {chain}
    /\ db = Store!NewStore(InitData)
    /\ head = 0 /\ head_id = NoId /\ irreversible = 0 /\ irreversible_id = NoId
    /\ ctx = Reg!NoAbis
    /\ phase = "down"
    /\ aborting = FALSE
    /\ pause_time_msec = 0
    /\ slowdown_requested = FALSE
    /\ exporter_acked_block = 0
    /\ events = <<>>
    /\ exported = <<>>
    /\ exporter_block = 0
    /\ ack_misused = FALSE
    /\ dependent_plugins = Dependents
    /\ startup_pending = TRUE      \* plugin_startup calls it
    /\ dep_started = {}
    /\ accepted = <<>>
    /\ rejected = FALSE
    /\ restarts = 0

-----------------------------------------------------------------------------
(***************************************************************************)
(* Receiver actions                                                        *)
(***************************************************************************)

(* request_blocks: the have_positions of the request are the ring entries *)
(* from the irreversible block up to head.                                 *)
HavePositions(ring, irr, hd) ==
    [n \in {m \in DOMAIN ring : irr <= m /\ m <= hd} |-> ring[n]]

(* start(): load_state (undo every uncommitted scope, read the state       *)
(* singleton, reset the acknowledged block, rebuild the ABI context), then *)
(* resolve, connect, handshake, receive_abi and request_blocks.  Any I/O   *)
(* error on the way closes the socket.  request_blocks asks from head+1    *)
(* with have_positions = ring entries between irreversible and head.       *)
start ==
    /\ phase = "down"
    /\ LET st  == UndoAll(db)
           s   == st.data.state
           pos == HavePositions(st.data.ring, s.irreversible, s.head)
       IN  /\ db' = st
           /\ head' = s.head /\ head_id' = s.head_id
           /\ irreversible' = s.irreversible /\ irreversible_id' = s.irreversible_id
           /\ exporter_acked_block' = IF ExporterWillAck THEN s.head ELSE exporter_acked_block
           /\ accepted' = SubSeq(accepted, 1, s.head)
           /\ events' = events \o RestartForkEvents(db, s.head)
           /\ \/ /\ phase' = "ready"
                 /\ next' = ResumeFrom(pos, s.head + 1)
                 /\ msgs' = <<>>
              \/ /\ phase' = "closed"
                 /\ UNCHANGED <<next, msgs>>
    /\ ctx' = Reg!NoAbis
    /\ UNCHANGED <<chain, lib, gen, branches, aborting, pause_time_msec, slowdown_requested,
                   exporter, rejected, restarts>>

(* start_after_dependencies: erase the leading dependent plugins appbase   *)
(* reports started; stop at the first one that is not.  If one is left,    *)
(* re-arm the 1 s timer to call again; otherwise launch the receiver with  *)
(* start().  plugin_startup makes the first call.                          *)
RemainingDependents(deps, started) ==
    LET i == SelectInSeq(deps, LAMBDA p : p \notin started)
    IN  IF i = 0 THEN <<>> ELSE SubSeq(deps, i, Len(deps))

(* The loop written as an if: launch once the first dependent started.    *)
start_after_dependencies_first_only ==
    /\ phase = "down"
    /\ startup_pending
    /\ \/ /\ dependent_plugins = <<>> \/ dependent_plugins[1] \in dep_started
          /\ start
          /\ dependent_plugins' = <<>>
          /\ startup_pending' = FALSE
       \/ /\ dependent_plugins # <<>> /\ dependent_plugins[1] \notin dep_started
          /\ UNCHANGED <<vars>>
    /\ UNCHANGED dep_started

(* The waiting branch without the timer: nothing calls again.             *)
start_after_dependencies_no_retry ==
    /\ phase = "down"
    /\ startup_pending
    /\ LET rest == RemainingDependents(dependent_plugins, dep_started)
       IN  \/ /\ rest = <<>>
              /\ start
              /\ dependent_plugins' = <<>>
              /\ startup_pending' = FALSE
           \/ /\ rest # <<>>
              /\ dependent_plugins' = rest
              /\ startup_pending' = FALSE
              /\ UNCHANGED <<server, receiver, events, exporter, accepted, rejected, restarts>>
    /\ UNCHANGED dep_started

start_after_dependencies ==
    /\ phase = "down"
    /\ startup_pending
    /\ LET rest == RemainingDependents(dependent_plugins, dep_started)
       IN  \/ /\ rest = <<>>
              /\ start
              /\ dependent_plugins' = <<>>
              /\ startup_pending' = FALSE
           \/ /\ rest # <<>>
              /\ dependent_plugins' = rest
              /\ UNCHANGED <<startup_pending, server, receiver, events, exporter,
                             accepted, rejected, restarts>>
    /\ UNCHANGED dep_started

(* appbase's startup calls plugin_startup of a dependent plugin, which is  *)
(* then in state started.  The order among dependents is left open.        *)
PluginStarted ==
    /\ \E p \in ToSet(Dependents) \ dep_started : dep_started' = dep_started \cup {p}
    /\ UNCHANGED <<server, receiver, events, exporter, dependent_plugins, startup_pending,
                   accepted, rejected, restarts>>

(* check_pause, called by continue_read before every read.  The appbase    *)
(* priority queue holds the channel deliveries not yet run (events).       *)
(* Pausing arms the timer, whose expiry calls continue_read again, so the  *)
(* phase stays "ready".                                                    *)
NextPauseUncapped(p) == IF p = 0 THEN 100 ELSE p * 2

NextPause(p) == IF p = 0 THEN 100 ELSE IF p < 8000 THEN p * 2 ELSE p

PauseWanted(queueFull) ==
    \/ slowdown_requested
    \/ ExporterWillAck /\ USub(head, exporter_acked_block) >= MaxUnconfirmed
    \/ queueFull

check_pause_timer_lost ==
    /\ phase = "ready"
    /\ pause_time_msec = 0
    /\ IF PauseWanted(Len(events) > MaxQueueSize)
       THEN /\ Len(events) < MaxEvents
            /\ slowdown_requested' = FALSE
            /\ pause_time_msec' = NextPause(pause_time_msec)
            /\ events' = events \o PauseEvents(pause_time_msec', head)
            /\ UNCHANGED phase
       ELSE /\ pause_time_msec' = 0
            /\ phase' = "reading"
            /\ UNCHANGED <<slowdown_requested, events>>
    /\ UNCHANGED <<server, startup, db, head, head_id, irreversible, irreversible_id, ctx,
                   aborting, exporter_acked_block, exporter, accepted,
                   rejected, restarts>>

check_pause ==
    /\ phase = "ready"
    /\ IF PauseWanted(Len(events) > MaxQueueSize)
       THEN /\ Len(events) < MaxEvents
            /\ slowdown_requested' = FALSE
            /\ pause_time_msec' = NextPause(pause_time_msec)
            /\ events' = events \o PauseEvents(pause_time_msec', head)
            /\ UNCHANGED phase
       ELSE /\ pause_time_msec' = 0
            /\ phase' = "reading"
            /\ UNCHANGED <<slowdown_requested, events>>
    /\ UNCHANGED <<server, startup, db, head, head_id, irreversible, irreversible_id, ctx,
                   aborting, exporter_acked_block, exporter, accepted,
                   rejected, restarts>>

(* The account and contract_row deltas of one block (receive_deltas).      *)
ApplyDelta(reg, op) ==
    CASE op.kind = "setabi"   -> Reg!save_contract_abi(reg, op.account, op.abi)
      [] op.kind = "clearabi" -> Reg!clear_contract_abi(reg, op.account)
      [] op.kind = "row" /\ RowSubscribers
                              -> Reg!get_contract_abi_ready(reg, op.account).reg
      [] OTHER                -> reg

(* The events receive_deltas publishes for block n's delta, given the     *)
(* registry before it: save_contract_abi's abi_error or abi_update,        *)
(* clear_contract_abi's abi_removal when a record existed, a contract row's *)
(* table_row_update or abi_error, then the block_table_delta.              *)
SaveEvents(op, n) ==
    CASE op.abi = BadAbi  -> <<AbiErrorEvent(n, op.account)>>
      [] AbiSubscribers   -> <<AbiUpdateEvent(n, op.account, op.abi)>>
      [] OTHER            -> <<>>

ClearEventsUnconditional(reg, op, n) == <<AbiRemovalEvent(n, op.account)>>

ClearEvents(reg, op, n) ==
    IF op.account \in DOMAIN reg.abis THEN <<AbiRemovalEvent(n, op.account)>> ELSE <<>>

AbiEvents(reg, op, n) ==
    IF op.kind = "setabi" THEN SaveEvents(op, n) ELSE ClearEvents(reg, op, n)

RowEvents(reg, op, n) ==
    LET r == Reg!get_contract_abi_ready(reg, op.account)
    IN  IF r.ready THEN <<RowEvent(n, op.account, r.reg.ctx[op.account])>>
                   ELSE <<AbiErrorEvent(n, op.account)>>

DeltaEvents(reg, op, n) ==
    CASE op.kind = "row" -> (IF RowSubscribers THEN RowEvents(reg, op, n) ELSE <<>>)
                             \o <<TableDeltaEvent(n)>>
      [] op.kind = "none" -> <<>>
      [] OTHER            -> AbiEvents(reg, op, n) \o <<TableDeltaEvent(n)>>

(* The received-block ring after adding block b: create the entry, then    *)
(* remove entries below the irreversible block known before this frame.    *)
AddToRing(ring, b, id, irr) ==
    [n \in {m \in DOMAIN ring \cup {b} : m >= irr} |-> IF n = b THEN id ELSE ring[n]]

(* save_state: the state singleton written before the scope is pushed.    *)
save_state(hd, hid, irr, iid) ==
    [head |-> hd, head_id |-> hid, irreversible |-> irr, irreversible_id |-> iid]

CommitRevIgnoringAcks(irr, acked) == irr

(* commit_rev: the irreversible block, or the acknowledged one if lower.   *)
CommitRev(irr, acked) ==
    IF ExporterWillAck /\ acked < irr THEN acked ELSE irr

(* receive_result for a frame with this_block.  Failures throw and the     *)
(* socket is closed (catch_and_close); the open undo session is then       *)
(* discarded, so the data reverts while revision changes and undos done    *)
(* before it stay.                                                         *)
receive_result ==
    /\ phase = "reading"
    /\ msgs # <<>>
    /\ msgs' = Tail(msgs)
    /\ LET f      == Head(msgs)
           b      == f.block_num
           st1    == IF db.rev < b THEN Store!set_revision(db, b) ELSE db
           atHead == b > f.lib_num
           isFork == atHead /\ b <= head
           st2    == IF isFork THEN UndoWhileAtLeast(st1, b) ELSE st1
           ctx2   == IF isFork THEN Reg!NoAbis ELSE ctx
           rolledBack == ~isFork \/ (st2.rev < b /\ st2.rev > 0)
           forkEvs == IF isFork /\ rolledBack THEN NetworkForkEvents(b) ELSE <<>>
           linked == ~atHead \/ isFork \/ head = 0 \/ f.prev_id = head_id
           addBlock  == b > irreversible
           duplicate == addBlock /\ b \in DOMAIN st2.data.ring
           ring   == IF addBlock
                     THEN AddToRing(st2.data.ring, b, f.block_id, irreversible)
                     ELSE st2.data.ring
           reg0   == [ctx |-> ctx2, abis |-> st2.data.abis]
           reg    == ApplyDelta(reg0, f.op)
           state  == save_state(b, f.block_id, f.lib_num, f.lib_id)
           pushed == Store!PushScope(st2, [state |-> state, ring |-> ring, abis |-> reg.abis])
       IN  IF ~rolledBack \/ ~linked \/ duplicate
           THEN \* "Cannot rollback", "prev_block does not match", or the
                \* unique block_index rejecting the create
                /\ phase' = "closed"
                /\ db' = st2
                /\ ctx' = ctx2
                /\ rejected' = TRUE
                /\ events' = events \o forkEvs
                /\ UNCHANGED <<head, head_id, irreversible, irreversible_id, accepted>>
           ELSE /\ head' = b /\ head_id' = f.block_id
                /\ irreversible' = f.lib_num /\ irreversible_id' = f.lib_id
                /\ ctx' = reg.ctx
                /\ events' = events \o forkEvs \o <<BlockEvent(b, f.block_id)>>
                                     \o DeltaEvents(reg0, f.op, b)
                /\ UNCHANGED rejected
                /\ IF aborting
                   THEN /\ phase' = "closed"           \* return false before push
                        /\ db' = st2
                        /\ UNCHANGED accepted
                   ELSE /\ phase' = "ready"
                        /\ db' = Store!commit(pushed, CommitRev(f.lib_num, exporter_acked_block))
                        /\ accepted' = Append(SubSeq(accepted, 1, b - 1),
                                              [id |-> f.block_id, op |-> f.op])
    /\ UNCHANGED <<startup, chain, lib, gen, next, branches, aborting, pause_time_msec,
                   slowdown_requested, exporter_acked_block, exporter, restarts>>

(* An error completing async_read (on_fail closes the socket).             *)
read_fails ==
    /\ phase = "reading"
    /\ phase' = "closed"
    /\ UNCHANGED <<server, startup, db, head, head_id, irreversible, irreversible_id, ctx,
                   aborting, pause_time_msec, slowdown_requested,
                   exporter_acked_block, events, exporter, accepted, rejected, restarts>>

(* abort_receiver: close the socket and set aborting.  An outstanding read *)
(* may still complete with a frame already received; a read not started    *)
(* yet (phase "ready", possibly behind the pause timer) can only fail.     *)
abort_receiver ==
    /\ phase \in {"ready", "reading"}
    /\ ~aborting
    /\ aborting' = TRUE
    /\ phase' = IF phase = "reading" THEN "reading" ELSE "closed"
    /\ UNCHANGED <<server, startup, db, head, head_id, irreversible, irreversible_id, ctx,
                   pause_time_msec, slowdown_requested, exporter_acked_block,
                   events, exporter, accepted, rejected, restarts>>

(* The process stops (crash, or quit after close/abort) and a supervisor   *)
(* starts it again: everything but the store is lost, the queued channel  *)
(* deliveries included.  The downstream consumer keeps its table.         *)
Restart ==
    /\ phase # "down"
    /\ restarts < MaxRestarts
    /\ restarts' = restarts + 1
    /\ phase' = "down"
    /\ msgs' = <<>>
    /\ head' = 0 /\ head_id' = NoId /\ irreversible' = 0 /\ irreversible_id' = NoId
    /\ ctx' = Reg!NoAbis
    /\ aborting' = FALSE
    /\ pause_time_msec' = 0
    /\ slowdown_requested' = FALSE
    /\ exporter_acked_block' = 0
    /\ events' = <<>>
    /\ exporter_block' = 0
    /\ dependent_plugins' = Dependents
    /\ startup_pending' = TRUE
    /\ dep_started' = {}
    /\ UNCHANGED <<chain, lib, gen, next, branches, db, exported, ack_misused,
                   accepted, rejected>>

-----------------------------------------------------------------------------
(***************************************************************************)
(* Exporter calls                                                          *)
(***************************************************************************)

Connected == phase \in {"ready", "reading"}

(* The reactor runs a queued channel delivery: the exporter forwards the   *)
(* event downstream.                                                       *)
deliver_event ==
    /\ phase # "down"
    /\ events # <<>>
    /\ events' = Tail(events)
    /\ exported' = Consume(exported, Head(events))
    /\ exporter_block' = IF Head(events).kind = "block" THEN Head(events).num
                                                        ELSE exporter_block
    /\ UNCHANGED <<server, startup, receiver, ack_misused, accepted, rejected, restarts>>

(* The last block the exporter acknowledges: the block of the last         *)
(* block_event it delivered, or, if it waits for a block's events to end,  *)
(* the block before it (the one a later block_event has closed).           *)
LastAckable == IF AcksBlockEvents THEN exporter_block ELSE exporter_block - 1

(* ack_block(n): the exporter acknowledges a block it delivered, at most   *)
(* LastAckable.  A block_num below exporter_acked_block throws; it is      *)
(* what an exporter passes when it acks LastAckable and that block is      *)
(* below the acknowledged one.                                             *)
ack_block ==
    /\ ExporterWillAck
    /\ Connected
    /\ \/ /\ \E n \in exporter_acked_block + 1 .. LastAckable : exporter_acked_block' = n
          /\ UNCHANGED ack_misused
       \/ /\ 0 < LastAckable /\ LastAckable < exporter_acked_block
          /\ ack_misused' = TRUE
          /\ UNCHANGED exporter_acked_block
    /\ UNCHANGED <<server, startup, db, head, head_id, irreversible, irreversible_id, ctx,
                   phase, aborting, pause_time_msec, slowdown_requested,
                   events, exported, exporter_block, accepted, rejected, restarts>>

slowdown ==
    /\ ExporterSlowdown
    /\ Connected
    /\ ~slowdown_requested
    /\ slowdown_requested' = TRUE
    /\ UNCHANGED <<server, startup, db, head, head_id, irreversible, irreversible_id, ctx,
                   phase, aborting, pause_time_msec, exporter_acked_block,
                   events, exporter, accepted, rejected, restarts>>

-----------------------------------------------------------------------------
(***************************************************************************)
(* State-history server (environment)                                      *)
(***************************************************************************)

Produce ==
    /\ Len(chain) < MaxBlock
    /\ \E op \in BlockOps : chain' = Append(chain, [id |-> gen, op |-> op])
    /\ branches' = branches \cup {chain'}
    /\ UNCHANGED <<startup, lib, gen, next, msgs, receiver, events, exporter, accepted, rejected, restarts>>

(* LIB advances.  With ReceiverKeepsUp the receiver runs ahead of        *)
(* finality, the usual regime (LIB lags the head by hundreds of blocks):   *)
(* LIB never passes a block the receiver has not accepted on this branch.  *)
KeptUp(n) ==
    n <= Len(accepted) /\ \A m \in 1 .. n : accepted[m].id = chain[m].id

AdvanceLib ==
    /\ \E n \in lib + 1 .. Len(chain) :
         /\ ReceiverKeepsUp => KeptUp(n)
         /\ lib' = n
    /\ UNCHANGED <<startup, chain, gen, next, msgs, branches, receiver, events, exporter,
                   accepted, rejected, restarts>>

(* A fork replaces the blocks from f (above LIB) by one new block.         *)
Fork ==
    /\ gen <= MaxForks
    /\ \E f \in lib + 1 .. Len(chain), op \in BlockOps :
         /\ chain' = Append(SubSeq(chain, 1, f - 1), [id |-> gen + 1, op |-> op])
         /\ next' = IF f < next THEN f ELSE next
    /\ gen' = gen + 1
    /\ branches' = branches \cup {chain'}
    /\ UNCHANGED <<startup, lib, msgs, receiver, events, exporter, accepted, rejected, restarts>>

Send ==
    /\ Connected
    /\ next <= Len(chain)
    /\ Len(msgs) < MaxInFlight
    /\ msgs' = Append(msgs, Frame(next))
    /\ next' = next + 1
    /\ UNCHANGED <<startup, chain, lib, gen, branches, receiver, events, exporter,
                   accepted, rejected, restarts>>

-----------------------------------------------------------------------------
Next ==
    \/ start_after_dependencies
    \/ PluginStarted
    \/ check_pause
    \/ receive_result
    \/ read_fails
    \/ abort_receiver
    \/ Restart
    \/ deliver_event
    \/ ack_block
    \/ slowdown
    \/ Produce
    \/ AdvanceLib
    \/ Fork
    \/ Send

Spec == Init /\ [][Next]_vars

(* The reactor runs every handler it has queued: a pending read completes  *)
(* (receive_result), the pause timer fires (check_pause), a stopped        *)
(* process is started again (start), queued channel deliveries run         *)
(* (deliver_event).  The server keeps sending while the                    *)
(* socket is open, and an exporter that called exporter_will_ack_blocks    *)
(* acknowledges the blocks it was given.  Failures, aborts, restarts,      *)
(* slowdown and the server's chain changes are never forced.               *)
Fairness ==
    /\ WF_vars(start_after_dependencies)
    /\ WF_vars(PluginStarted)
    /\ WF_vars(check_pause)
    /\ WF_vars(receive_result)
    /\ WF_vars(Send)
    /\ WF_vars(deliver_event)
    /\ WF_vars(ack_block)

FairSpec == Spec /\ Fairness

-----------------------------------------------------------------------------
(***************************************************************************)
(* Properties                                                              *)
(***************************************************************************)

TypeOK ==
    /\ phase \in Phases
    /\ head \in Nums /\ irreversible \in Nums
    /\ head_id \in Ids /\ irreversible_id \in Ids
    /\ pause_time_msec \in PauseValues
    /\ aborting \in BOOLEAN /\ slowdown_requested \in BOOLEAN
    /\ exporter_acked_block \in Nums
    /\ DOMAIN ctx \subseteq Accounts
    /\ db.rev \in -1 .. MaxBlock
    /\ DOMAIN db.data.ring \subseteq 1 .. MaxBlock
    /\ dependent_plugins \in Seq(ToSet(Dependents)) /\ startup_pending \in BOOLEAN
    /\ dep_started \subseteq ToSet(Dependents)
    /\ DOMAIN db.data.abis \subseteq Accounts
    /\ Len(db.stack) <= MaxBlock * (MaxForks + 1)
    /\ \A i \in DOMAIN events :
          events[i] \in {ForkEvent(n, r) : n \in Nums, r \in {"network", "restart"}}
                         \cup {BlockEvent(n, id) : n \in Nums, id \in Ids}
                         \cup {PauseEvent(n) : n \in Nums} \cup {TableDeltaEvent(n) : n \in Nums}
                         \cup [kind : {"abi_removal", "abi_error"}, num : Nums, account : Accounts]
                         \cup [kind : {"abi_update", "table_row_update"}, num : Nums,
                                account : Accounts, abi : AbiVersions]
    /\ DOMAIN exported \subseteq 1 .. MaxBlock
    /\ \A n \in DOMAIN exported : exported[n].id \in Ids /\ Len(exported[n].evs) <= 1
    /\ exporter_block \in Nums /\ ack_misused \in BOOLEAN

(* The abieos context the receiver decodes contract rows with, and hands   *)
(* to exporters, holds for every imported account exactly the ABI stored   *)
(* for it.  This is what init_contract_abi_ctxt is called for: before the  *)
(* undo of a fork (receive_result), on load_state, and before replacing or *)
(* removing an imported ABI (save_contract_abi, clear_contract_abi).       *)
AbiCacheCoherent ==
    Connected =>
        \A a \in DOMAIN ctx : a \in DOMAIN db.data.abis /\ ctx[a] = db.data.abis[a]

(* The persistent store always describes the branch the receiver has      *)
(* accepted, however forks, commits and restarts interleaved: the state   *)
(* singleton's head is its tip, every ring entry names that branch's      *)
(* block, and the ABI records are what that branch's account deltas       *)
(* define.  Fork rollback (the undo loop of receive_result) must remove   *)
(* exactly the abandoned blocks and load_state must fall back to a        *)
(* committed prefix of the branch.                                        *)
StoreFollowsAccepted ==
    Connected =>
        /\ db.data.state.head = Len(accepted)
        /\ head = Len(accepted)
        /\ \A n \in DOMAIN db.data.ring :
              n <= Len(accepted) /\ db.data.ring[n] = accepted[n].id
        /\ db.data.abis = Reg!AbisOfChain(accepted)

(* Against a server that behaves (frames in order, forks only above LIB,  *)
(* resending from the fork point), receive_result never throws: forks are *)
(* rolled back, prev_block links to head_id, the ring never receives a    *)
(* block_index twice, and the undo stack always reaches below the fork    *)
(* point.                                                                 *)
NoProtocolError == ~rejected

(* spec.md 8 "Ring pruning": after a frame, no received-block entry lies  *)
(* below the irreversible block (the truncation loop in receive_result).  *)
RingPruned ==
    phase = "ready" /\ db.stack # <<>> =>
        \A n \in DOMAIN db.data.ring : n >= irreversible

(* Backpressure never stalls the reader for good: while the connection    *)
(* stays open, the receiver eventually holds the server's head block.      *)
(* check_pause keeps re-arming its timer while head - exporter_acked_block *)
(* (uint32_t) is at least max_unconfirmed, so this depends on the exporter *)
(* being able to acknowledge its way out of every pause.                   *)
CatchesUp ==
    Connected ~> (~Connected \/ (head = Len(chain) /\ head_id = chain[Len(chain)].id))

(* The receiver is launched only after every plugin registered with       *)
(* donot_start_receiver_before has started: whenever start() has run in   *)
(* this process (connected, or closed after it), appbase has started all  *)
(* of them.  A plugin erased from dependent_plugins is never looked at    *)
(* again, so this depends on the loop checking every remaining entry.     *)
DependentsStartedFirst ==
    phase # "down" => ToSet(Dependents) \subseteq dep_started

(* A stopped process eventually runs start(): the 1 s timer keeps polling  *)
(* the dependent plugins until appbase has started them all.               *)
ReceiverLaunches ==
    phase = "down" ~> phase # "down"

(* spec.md 4.7 and 7: acking a block below a prior ack is misuse, a hard  *)
(* error.  An exporter that acks the blocks it delivers never misuses      *)
(* ack_block, whatever forks the receiver went through.                    *)
NoAckMisuse == ~ack_misused

(* The consumer's chain as ChainFollower sees it: the downstream table    *)
(* when it holds blocks 1..k, and a chain no node held when it has a gap.  *)
ViewOf(t) == IF \E k \in Nums : DOMAIN t = 1 .. k THEN [n \in DOMAIN t |-> t[n].id] ELSE <<NoId>>

Follower == INSTANCE ChainFollower
                WITH branches <- {ChainIds(c) : c \in branches}, view <- ViewOf(exported)

(* The fork_events and block_events receive_result and load_state publish, *)
(* delivered in order by the channels and read as spec.md 5 defines them,  *)
(* keep the consumer's copy of the chain on a chain the node held: each    *)
(* event drops top blocks or adds the next block of such a chain, through  *)
(* forks, rollback failures, pauses and restarts.                          *)
FollowerSpec == Follower!Spec

(* Reference definition (spec.md 4.4 and 4.6): the delta events of block  *)
(* n of chain c, given the ABI records its earlier blocks define.  A valid *)
(* non-empty ABI yields one abi_update, a rejected one an abi_error, an    *)
(* empty one an abi_removal for an account that had an ABI; a contract row *)
(* is decoded with the account's ABI, or yields an abi_error without one.  *)
ExpectedDeltaEvents(c, n) ==
    LET op     == c[n].op
        before == Reg!AbisOfChain(SubSeq(c, 1, n - 1))
    IN  CASE op.kind = "setabi" /\ op.abi = BadAbi -> <<AbiErrorEvent(n, op.account)>>
          [] op.kind = "setabi" /\ AbiSubscribers  -> <<AbiUpdateEvent(n, op.account, op.abi)>>
          [] op.kind = "clearabi" /\ op.account \in DOMAIN before
                                                   -> <<AbiRemovalEvent(n, op.account)>>
          [] op.kind = "row" /\ RowSubscribers
                -> IF op.account \in DOMAIN before
                   THEN <<RowEvent(n, op.account, before[op.account])>>
                   ELSE <<AbiErrorEvent(n, op.account)>>
          [] OTHER -> <<>>

(* Every block the consumer holds below its top block (a block a later    *)
(* block_event has closed) came with exactly the ABI and table-row events *)
(* its chain defines for it: no ABI change is missed or reported twice,   *)
(* and every contract row was decoded with the ABI of its own branch at   *)
(* that height.  This ties the undo of ABI records and the rebuild of the *)
(* abieos context on a fork, their lazy reload, the order of the queued   *)
(* deliveries, and, across a crash, what the exporter acknowledged before *)
(* the commit that made a block permanent.                                *)
ConsumerSeesBranchDeltas ==
    LET v == ViewOf(exported)
    IN  \A c \in branches :
            IsPrefix(v, ChainIds(c)) =>
                \A n \in 1 .. Len(v) - 1 : exported[n].evs = ExpectedDeltaEvents(c, n)

=============================================================================

----------------------------- MODULE MCReceiver -----------------------------
(* Model-checking instance of Receiver: one contract account, two valid    *)
(* ABIs and one that abieos rejects, a chain of at most 3 blocks, a        *)
(* bounded number of forks and one process restart.                       *)
EXTENDS Receiver

CONSTANTS a1, v1, v2, bad

MCAccounts    == {a1}
MCAbiVersions == {v1, v2}

(* Every kind of delta a block can carry for the account, with valid ABIs. *)
MCBlockOps ==
    {[kind |-> "setabi", account |-> a1, abi |-> v1],
     [kind |-> "setabi", account |-> a1, abi |-> v2],
     [kind |-> "clearabi", account |-> a1],
     [kind |-> "row", account |-> a1]}

(* The same with an ABI abieos_set_abi_bin rejects in place of v2.         *)
MCBlockOpsBad ==
    {[kind |-> "setabi", account |-> a1, abi |-> v1],
     [kind |-> "setabi", account |-> a1, abi |-> bad],
     [kind |-> "clearabi", account |-> a1],
     [kind |-> "row", account |-> a1]}

(* Blocks without account or contract_row deltas, for the runs about      *)
(* block numbers alone.                                                    *)
MCBlockOpsNone == {[kind |-> "none"]}

(* uint32_t arithmetic: with every block number below 8, a difference     *)
(* that wraps modulo 2^16 compares with max_unconfirmed exactly as one    *)
(* that wraps modulo 2^32.                                                *)
MCUIntMod == 65536

(* Exporter plugins that called donot_start_receiver_before, and a       *)
(* process with none (the receiver starts at plugin_startup).             *)
MCDependents     == <<"exp_ws", "exp_zmq">>
MCDependentsOne  == <<"exp_zmq">>
MCDependentsNone == <<>>
=============================================================================

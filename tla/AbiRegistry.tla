---------------------------- MODULE AbiRegistry ----------------------------
(***************************************************************************)
(* The ABI registry of receiver_plugin_impl (spec.md 4.6): the contract    *)
(* ABI records persisted in the store (contract_abi_index) and the         *)
(* process-lifetime abieos decoder context that caches some of them.       *)
(*                                                                         *)
(* A registry value is a record                                            *)
(*   ctx  : the decoder context, account -> ABI it holds; its domain is    *)
(*          contract_abi_imported                                          *)
(*   abis : the contract_abi_index of the store, account -> stored ABI     *)
(*                                                                         *)
(* An ABI is a model value; BadAbi stands for bytes abieos_set_abi_bin     *)
(* rejects.  abieos itself is a dependency: set_abi_bin adds or replaces   *)
(* the contract's schema (spec.md 3, "ABI Decode Context").                *)
(***************************************************************************)
EXTENDS TLC

LOCAL INSTANCE SequencesExt

CONSTANT BadAbi

NoAbis == [a \in {} |-> BadAbi]

Without(f, a) == [x \in DOMAIN f \ {a} |-> f[x]]

(* init_contract_abi_ctxt: destroy and recreate the context, forget what   *)
(* was imported.                                                           *)
init_contract_abi_ctxt(reg) == [reg EXCEPT !.ctx = NoAbis]

Imported(reg, a) == a \in DOMAIN reg.ctx

(* clear_contract_abi: rebuild the context if the account was imported     *)
(* (abieos cannot remove a contract), then remove the record if any.       *)
clear_contract_abi_no_rebuild(reg, a) == [reg EXCEPT !.abis = Without(@, a)]

clear_contract_abi_if_imported(reg, a) ==
    IF Imported(reg, a)
    THEN [init_contract_abi_ctxt(reg) EXCEPT !.abis = Without(@, a)]
    ELSE reg

clear_contract_abi(reg, a) ==
    LET r == IF Imported(reg, a) THEN init_contract_abi_ctxt(reg) ELSE reg
    IN  [r EXCEPT !.abis = Without(@, a)]

(* save_contract_abi: rebuild the context if the account was imported;     *)
(* abieos_set_abi_bin validates the bytes: on failure an abi_error is      *)
(* published and the record is left alone; on success the account is      *)
(* imported and the record created or modified.                            *)
save_contract_abi_store_first(reg, a, v) ==
    LET r == IF Imported(reg, a) THEN init_contract_abi_ctxt(reg) ELSE reg
    IN  [ctx  |-> IF v = BadAbi THEN r.ctx ELSE (a :> v) @@ r.ctx,
         abis |-> (a :> v) @@ r.abis]

save_contract_abi_import_first(reg, a, v) ==
    LET r == IF Imported(reg, a) THEN init_contract_abi_ctxt(reg) ELSE reg
    IN  [ctx  |-> (a :> v) @@ r.ctx,
         abis |-> IF v = BadAbi THEN r.abis ELSE (a :> v) @@ r.abis]

save_contract_abi(reg, a, v) ==
    LET r == IF Imported(reg, a) THEN init_contract_abi_ctxt(reg) ELSE reg
    IN  IF v = BadAbi
        THEN r
        ELSE [ctx  |-> (a :> v) @@ r.ctx,
              abis |-> (a :> v) @@ r.abis]

get_contract_abi_ready_imported_only(reg, a) ==
    [ready |-> Imported(reg, a), reg |-> reg]

(* get_contract_abi_ready: TRUE when imported; otherwise import the stored *)
(* record if there is one.  Returns [ready, reg].                          *)
get_contract_abi_ready(reg, a) ==
    IF Imported(reg, a)
    THEN [ready |-> TRUE, reg |-> reg]
    ELSE IF a \in DOMAIN reg.abis
         THEN [ready |-> TRUE,
               reg   |-> [reg EXCEPT !.ctx = (a :> reg.abis[a]) @@ @]]
         ELSE [ready |-> FALSE, reg |-> reg]

(* Reference definition (spec.md 3, "ABI Record"): the records a branch   *)
(* defines, folding its blocks' account rows from the first block: a       *)
(* non-empty valid ABI creates or replaces the record, an empty one        *)
(* removes it, a rejected one changes nothing.                             *)
AccountRow(abis, blk) ==
    CASE blk.op.kind = "setabi" /\ blk.op.abi # BadAbi -> (blk.op.account :> blk.op.abi) @@ abis
      [] blk.op.kind = "clearabi"                     -> Without(abis, blk.op.account)
      [] OTHER                                        -> abis

AbisOfChain(blocks) == FoldLeft(AccountRow, NoAbis, blocks)

=============================================================================

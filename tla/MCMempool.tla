---------------------------- MODULE MCMempool ----------------------------
(***************************************************************************)
(* A small pool: two solvent senders, one without balance, a replacement   *)
(* pair, a deploy, staking transactions that may evict, a nonce gap.       *)
(***************************************************************************)
EXTENDS Mempool

CONSTANTS s1, s2, s3, c1

Tx(hash, sender, nonce, price, type, to) ==
    [hash |-> hash, sender |-> sender, nonce |-> nonce, gas_price |-> price, gas_limit |-> 1,
     value |-> 0, chain_id |-> 1, tx_type |-> type, to |-> to, wellformed |-> TRUE,
     stake |-> 0, hint |-> None]

MCTxs == {Tx(1, s1, 0, 10, "ContractCall", c1),
          Tx(2, s1, 0, 11, "ContractCall", c1),
          Tx(3, s1, 1, 12, "Transfer", None),
          Tx(4, s2, 0, 10, "Stake", None),
          Tx(5, s2, 1, 13, "Stake", None),
          Tx(6, s3, 0, 10, "Transfer", None)}
ReplayTxs == {t \in MCTxs : t.sender = s1}
MCSenders == {s1, s2, s3}
MCContracts == {c1}
MCBalance == [s \in MCSenders |-> IF s = s3 THEN 0 ELSE 100]
MCContext == [chain_id |-> 1, base_fee |-> 0]
=============================================================================

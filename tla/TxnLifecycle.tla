---------------------------- MODULE TxnLifecycle ----------------------------
(***************************************************************************)
(* What the transaction manager promises of a transaction's life: it holds  *)
(* one slot of the pool, which nobody else holds, from Begin until it ends; *)
(* it ends once, committed or aborted; and when it has a WAL it ends        *)
(* committed only after a commit record of its own became durable. A record *)
(* may become durable and the transaction still end aborted: Commit can     *)
(* fail after the append, and a later Sync by anyone flushes the log.       *)
(***************************************************************************)
CONSTANTS Txs, WalTxs, Slots, NoSlot

VARIABLES
  held,      \* the slot each transaction holds, NoSlot before and after
  outcome,   \* none, active, committed or aborted
  durable    \* transactions with a durable commit record

lvars == <<held, outcome, durable>>

LInit ==
  /\ held = [t \in Txs |-> NoSlot]
  /\ outcome = [t \in Txs |-> "none"]
  /\ durable = {}

LBegin(t) ==
  /\ outcome[t] = "none"
  /\ \E s \in Slots : /\ \A u \in Txs : held[u] # s
                      /\ held' = [held EXCEPT ![t] = s]
  /\ outcome' = [outcome EXCEPT ![t] = "active"]
  /\ UNCHANGED durable

\* One Sync makes the records of a set of transactions durable at once.
LLog ==
  /\ \E T \in SUBSET {t \in WalTxs : outcome[t] # "none"} : durable' = durable \cup T
  /\ UNCHANGED <<held, outcome>>

LEnd(t) ==
  /\ outcome[t] = "active"
  /\ \E o \in {"committed", "aborted"} :
       /\ o = "committed" => t \in durable \/ t \notin WalTxs
       /\ outcome' = [outcome EXCEPT ![t] = o]
  /\ held' = [held EXCEPT ![t] = NoSlot]
  /\ UNCHANGED durable

LNext == LLog \/ \E t \in Txs : LBegin(t) \/ LEnd(t)

LSpec == LInit /\ [][LNext]_lvars
=============================================================================

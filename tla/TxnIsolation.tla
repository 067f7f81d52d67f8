---------------------------- MODULE TxnIsolation ----------------------------
(***************************************************************************)
(* What readers may rely on: the version chains a Get walks, and the        *)
(* versions it settles on, stated over the histories TxnProtocol keeps.     *)
(* Every property says what a Get would return if it were called now.       *)
(***************************************************************************)
EXTENDS TxnProtocol

\* The goroutine inside Commit is scheduled, and the WAL calls it makes return.
FairSpec == Spec /\ \A t \in Txs : WF_vars(CommitStep(t) \/ ReleaseSlot(t))

\* Every chain ends in nil and holds versions of its own key only: "the node lives as long
\* as the arena backs its memory and any live version chain references it" (MV/version.go).
ChainsWellFormed ==
  \A k \in Keys : \E i \in 0..WalkLimit :
     /\ Walk(k)[i] = Nil
     /\ \A j \in 0..(i - 1) : Walk(k)[j] # Nil => node[Walk(k)[j]].key = k

\* A transaction reads its own last write of a key, whatever others pushed on the chain
\* since and after a Commit of its own that failed (protocol.go Get).
ReadYourWrites ==
  \A t \in Txs, k \in Keys :
     pc[t] = "open" /\ mine[t][k] # 0 =>
       GetValue(t, k) = IF mine[t][k] = Tombstone THEN <<0, 0>> ELSE <<bts[t], mine[t][k]>>

\* A version is stamped by its own transaction and with that transaction's current or an
\* earlier commit timestamp, never one of somebody else: the loop of Commit recognises the
\* node by txnID alone (protocol.go Commit).
StampedByOwner ==
  \A a \in Addr : node[a].txnID # 0 /\ node[a].endTS # MaxU64 =>
     \E t \in Txs : bts[t] = node[a].txnID /\ bts[t] < node[a].endTS /\ node[a].endTS <= cts[t]

\* A Commit that has its timestamp returns, with success or with the WAL's error: the loops
\* over the version chains end (protocol.go Commit).
CommitReturns == \A t \in Txs : pc[t] = "stamp" ~> pc[t] \in {"open", "done"}
=============================================================================

--------------------- MODULE ExternalTransferInvariant ---------------------
(***************************************************************************)
(* The inductive invariant of ExternalTransfer, from which                 *)
(* ExternalTransferProofs derives its safety properties.                   *)
(***************************************************************************)
EXTENDS ExternalTransfer

HoldsRow == {"debit", "insert", "fee", "commit"}     \* FOR UPDATE on the source
Owning == {"fee", "commit", "cachePending", "send", "markFailed"}   \* has inserted

\* No two transactions hold one source account, and what the balance check
\* found there is there until the commit.
LockInv ==
    /\ \A g, h \in Handlers :
          pc[g] \in HoldsRow /\ pc[h] \in HoldsRow /\ From(g) = From(h) => g = h
    /\ \A h \in Handlers :
          pc[h] \in {"insert", "fee", "commit"} => balance[From(h)] >= Total(h)

\* One handler at most has inserted the row of a transfer: until it commits
\* there is no row, and until it sends there is no message.
OwnerInv ==
    /\ \A g, h \in Handlers :
          pc[g] \in Owning /\ pc[h] \in Owning /\ Ref(g) = Ref(h) => g = h
    /\ \A h \in Handlers :
          /\ pc[h] \in {"fee", "commit"} => status[Ref(h)] = NoStatus
          /\ pc[h] \in Owning \ {"fee", "commit"} => status[Ref(h)] = "PENDING"
          /\ pc[h] \in Owning => sent[Ref(h)] = 0

\* No more transactions than connections.
PoolInv == Cardinality({h \in Handlers : pc[h] \in InTransaction}) <= PoolSize

IInv == /\ TypeOK /\ LockInv /\ OwnerInv /\ PoolInv
        /\ NoOverdraft /\ SentOnce /\ SuccessIsDurable /\ CachedIsCommitted
=============================================================================

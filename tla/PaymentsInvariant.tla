------------------------- MODULE PaymentsInvariant -------------------------
(***************************************************************************)
(* The inductive invariants of Payments from which PaymentsProofs derives  *)
(* its safety properties: IInv needs nothing of the environment, SerialInv *)
(* is for requests that do not overlap and a Redis that keeps its keys.    *)
(***************************************************************************)
EXTENDS Payments

CreateSteps == {"idempotency", "database", "cacheDuplicate", "pay",
                "cacheCompleted", "enqueue"}
BatchSteps == {"doubleSpending", "transfer", "store"}

\* The steps after the first Redis command that got through.
PastRedis == {"database", "cacheDuplicate", "storeNonce", "signature", "pay",
              "cacheCompleted", "enqueue", "doubleSpending", "transfer", "store"}

\* A handler is at a step of its endpoint, with a payment left to work on.
HandlerInv ==
    \A h \in Handlers :
        /\ pc[h] \in CreateSteps => IsCreate(h)
        /\ pc[h] \in BatchSteps => ~IsCreate(h)
        /\ Len(replies[h]) <= Len(req[h].items)
        /\ Active(h) \/ pc[h] = "idle" => Len(replies[h]) < Len(req[h].items)
        /\ pc[h] \in PastRedis => client

\* Only a finished handler has a settlement goroutine, for processed payments.
GoroutineInv ==
    \A h \in Handlers :
        /\ toSettle[h] \subseteq Processed(replies[h])
        /\ pc[h] # "done" => toSettle[h] = {}

\* What the step a handler is at says about the payment it is working on.
StoredInv ==
    /\ \A h \in Handlers :
          /\ pc[h] \in {"cacheDuplicate", "cacheCompleted", "enqueue"} => Stored(Current(h))
          /\ pc[h] = "store" => moved[Current(h)] >= 1
    /\ \A p \in Payments : Stored(p) => moved[p] >= 1

\* Handler h inserted the row of its i-th payment and lived to tell.
Inserted(h, i) ==
    \/ i \in DOMAIN replies[h] /\ replies[h][i] \in {"created", "processed"}
    \/ i = Len(replies[h]) + 1 /\ pc[h] \in {"cacheCompleted", "enqueue"}

\* At most one handler can say so of a payment, and of one item of it.
InsertedOnce ==
    \A g, h \in Handlers : \A i \in DOMAIN req[g].items, j \in DOMAIN req[h].items :
        /\ Inserted(g, i) /\ Inserted(h, j) /\ req[g].items[i] = req[h].items[j]
        => g = h /\ i = j

\* A payment in the queue has its row, and no batch inserted it.
QueueInv ==
    \A a \in DOMAIN queue :
        /\ Stored(queue[a])
        /\ \A h \in Handlers : \A i \in DOMAIN replies[h] :
              replies[h][i] = "processed" => req[h].items[i] # queue[a]

\* A payment that was sent is one whose handler told the client.
SentInv ==
    \A p \in Payments :
        \/ sent[p] = 0
        \/ /\ sent[p] = 1
           /\ \E h \in Handlers : \E i \in DOMAIN replies[h] \ toSettle[h] :
                 replies[h][i] = "processed" /\ req[h].items[i] = p /\ pc[h] = "done"

IInv == /\ TypeOK /\ HandlerInv /\ GoroutineInv /\ StoredInv
        /\ RowIffMoved /\ CachedIsStored /\ SuccessIsTrue
        /\ InsertedOnce /\ QueueInv /\ SentInv

-----------------------------------------------------------------------------
\* The conditions under which a nonce protects against a replay.
Serial == ~Overlap /\ ~KeysLost /\ NonceTTL > PastWindow + FutureWindow

\* No two requests in progress are for the same payment.
DisjointInv ==
    \A g, h \in Handlers :
        Active(g) /\ Active(h) /\ Items(g) \cap Items(h) # {} => g = h

\* The nonce of p lives for as long as the timestamp of p is accepted.
Covered(p) == nonce[p] > Payment[p].timestamp + PastWindow

NonceInv ==
    /\ \A h \in Handlers :
          /\ pc[h] \in {"checkNonce", "storeNonce"} =>
                /\ Payment[Current(h)].timestamp <= now + FutureWindow
                /\ Payment[Current(h)].timestamp + PastWindow >= now
          /\ pc[h] \in {"storeNonce", "signature", "pay", "doubleSpending", "transfer"} =>
                moved[Current(h)] = 0
          /\ pc[h] \in {"signature", "pay", "doubleSpending", "transfer"} =>
                Covered(Current(h))
    /\ \A p \in Payments : moved[p] > 0 => Covered(p)

SerialInv == DisjointInv /\ NonceInv /\ MoneyMovesOnce
=============================================================================

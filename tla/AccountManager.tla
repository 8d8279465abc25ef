--------------------------- MODULE AccountManager ---------------------------
(***************************************************************************)
(* The transactions the TypeScript deployer sends from one account:        *)
(* Contract.remoteCall and ContractDeployer.construct run concurrently in  *)
(* one event loop, AccountManager.getNonce numbers them, and               *)
(* Connector.waitForTransactionReceipt waits for each of them.  The code   *)
(* between two awaits is one action.  The node is external: it executes    *)
(* the transactions of an account in the order of their nonces, and no     *)
(* other program uses the account.                                         *)
(***************************************************************************)
EXTENDS Naturals

CONSTANTS
    Calls,          \* the concurrent calls
    FirstNonce,     \* the account's transaction count at the start
    None            \* no nonce yet

ASSUME AccountParameters ==
    /\ FirstNonce \in Nat
    /\ None \notin Nat

VARIABLES
    pc,             \* where a call awaits
    nonce,          \* the nonce of a call, None until it has one
    cached,         \* AccountManager.nonces for the account
    count,          \* a call's answer to getTransactionCount
    pending,        \* node: nonces of the transactions it has received
    mined           \* node: number of the account's transactions in blocks

vars == <<pc, nonce, cached, count, pending, mined>>

Init ==
    /\ pc = [c \in Calls |-> "idle"]
    /\ nonce = [c \in Calls |-> None]
    /\ cached = None
    /\ count = [c \in Calls |-> None]
    /\ pending = {}
    /\ mined = FirstNonce

At(c, from, to) == pc[c] = from /\ pc' = [pc EXCEPT ![c] = to]

\* The call is made and asks the node for a gas estimate, which the node
\* refuses when the transaction would revert.
Start(c) ==
    /\ At(c, "idle", "estimating")
    /\ UNCHANGED <<nonce, cached, count, pending, mined>>

EstimateRefused(c) ==
    /\ At(c, "estimating", "failed")
    /\ UNCHANGED <<nonce, cached, count, pending, mined>>

TakeNonce(c, n) ==
    /\ nonce' = [nonce EXCEPT ![c] = n]
    /\ cached' = n

\* The estimate arrives; getNonce increments the nonce it has cached ...
NextNonce(c) ==
    /\ At(c, "estimating", "signed")
    /\ cached # None
    /\ TakeNonce(c, cached + 1)
    /\ UNCHANGED <<count, pending, mined>>

\* ... or asks the node for the account's transaction count.
AskCount(c) ==
    /\ At(c, "estimating", "counting")
    /\ cached = None
    /\ UNCHANGED <<nonce, cached, count, pending, mined>>

\* The node reads the count when the request reaches it.
AnswerCount(c) ==
    /\ pc[c] = "counting"
    /\ count[c] = None
    /\ count' = [count EXCEPT ![c] = mined]
    /\ UNCHANGED <<pc, nonce, cached, pending, mined>>

\* ... or the request fails, and with it the call.
CountFails(c) ==
    /\ At(c, "counting", "failed")
    /\ UNCHANGED <<nonce, cached, count, pending, mined>>

\* A fault to check against: the answer is used without a second look.
CountedNonceUnchecked(c) == count[c]

\* A fault to check against: the count of transactions is taken for the last
\* nonce used.
CountedNonceTooHigh(c) == IF cached # None THEN cached + 1 ELSE count[c] + 1

\* What getNonce makes of the answer: someone else may have taken a nonce
\* before the await returned.
CountedNonce(c) == IF cached # None THEN cached + 1 ELSE count[c]

ResumeWithCount(c) ==
    /\ count[c] # None
    /\ At(c, "counting", "signed")
    /\ TakeNonce(c, CountedNonce(c))
    /\ UNCHANGED <<count, pending, mined>>

\* sendRawTransaction reaches the node.  Requests overtake each other, so the
\* node keeps a transaction whose predecessors have not arrived.
Send(c) ==
    /\ At(c, "signed", "waiting")
    /\ pending' = pending \cup {nonce[c]}
    /\ UNCHANGED <<nonce, cached, count, mined>>

\* sendRawTransaction fails on its way: the call throws, its nonce is spent.
SendFails(c) ==
    /\ At(c, "signed", "failed")
    /\ UNCHANGED <<nonce, cached, count, pending, mined>>

\* External: the node puts the account's next transaction into a block.
Mine ==
    /\ mined \in pending
    /\ mined' = mined + 1
    /\ UNCHANGED <<pc, nonce, cached, count, pending>>

\* The receipt of the call's transaction, with either status: a status of 0
\* makes the call throw.  There is no receipt before the block, and no timeout.
Receipt(c) ==
    /\ At(c, "waiting", "done") \/ At(c, "waiting", "failed")
    /\ nonce[c] < mined
    /\ UNCHANGED <<nonce, cached, count, pending, mined>>

\* The answer to sendRawTransaction is lost, or a poll for the receipt rejects: the
\* call throws, its transaction mined or not.
PollFails(c) ==
    /\ At(c, "waiting", "failed")
    /\ UNCHANGED <<nonce, cached, count, pending, mined>>

Step(c) ==
    \/ Start(c) \/ EstimateRefused(c)
    \/ NextNonce(c) \/ AskCount(c) \/ AnswerCount(c) \/ ResumeWithCount(c)
    \/ CountFails(c) \/ Send(c) \/ SendFails(c) \/ Receipt(c) \/ PollFails(c)

Next == Mine \/ \E c \in Calls : Step(c)

Spec == Init /\ [][Next]_vars

-----------------------------------------------------------------------------

Calling == {"idle", "estimating", "counting", "signed", "waiting", "done", "failed"}

\* Every variable has its type, and a call has a nonce from the moment its
\* transaction is signed.
TypeOK ==
    /\ pc \in [Calls -> Calling]
    /\ nonce \in [Calls -> Nat \cup {None}]
    /\ cached \in Nat \cup {None}
    /\ count \in [Calls -> Nat \cup {None}]
    /\ pending \subseteq Nat
    /\ mined \in Nat
    /\ \A c \in Calls : pc[c] \in {"signed", "waiting", "done"} => nonce[c] # None

Taken == {nonce[c] : c \in Calls} \ {None}

\* No two of the concurrent calls sign with the same nonce, though several may
\* find the cache empty and ask the node at the same time.
NoncesUnique ==
    \A c, d \in Calls : c # d /\ nonce[c] # None => nonce[c] # nonce[d]

\* The nonces taken have no gap: they are the account's next ones, up to the
\* cached one.
NoncesContiguous ==
    Taken = IF cached = None THEN {} ELSE FirstNonce .. cached

\* What NoncesUnique rests on: the cached nonce is the greatest one taken.
CacheIsGreatest ==
    \A c \in Calls : nonce[c] # None => cached # None /\ nonce[c] <= cached

NonceInv == TypeOK /\ CacheIsGreatest /\ NoncesUnique

\* What NoncesContiguous rests on: a call takes one nonce at most, the node has
\* none that was not taken, and its count is the first one until one is taken.
ContiguousInv ==
    /\ NoncesContiguous
    /\ cached # None => FirstNonce <= cached
    /\ \A c \in Calls : pc[c] \in {"idle", "estimating", "counting"} => nonce[c] = None
    /\ pending \subseteq Taken
    /\ cached = None => /\ mined = FirstNonce
                        /\ \A c \in Calls : count[c] \in {None, FirstNonce}

\* A nonce that was taken and whose transaction never reaches the node.
Lost(d) == pc[d] = "failed" /\ nonce[d] # None /\ nonce[d] \notin pending

\* Requests are answered or fail, and the node mines what it can.
Fairness ==
    /\ WF_vars(Mine)
    /\ \A c \in Calls :
           /\ WF_vars(EstimateRefused(c) \/ NextNonce(c) \/ AskCount(c))
           /\ WF_vars(AnswerCount(c) \/ ResumeWithCount(c) \/ CountFails(c))
           /\ WF_vars(Send(c) \/ SendFails(c))
           /\ WF_vars(Receipt(c))

FairSpec == Spec /\ Fairness

\* A call that is made comes to an end, unless the transaction of a smaller
\* nonce was lost on its way to the node: then its receipt is polled for ever.
CallsSettle ==
    \A c \in Calls :
        pc[c] # "idle" ~>
            \/ pc[c] \in {"done", "failed"}
            \/ \E d \in Calls : Lost(d) /\ nonce[c] # None /\ nonce[d] < nonce[c]

=============================================================================

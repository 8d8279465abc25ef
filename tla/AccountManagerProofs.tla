------------------------ MODULE AccountManagerProofs ------------------------
(***************************************************************************)
(* AccountManager.getNonce never gives a nonce twice, for any number of    *)
(* concurrent calls.                                                       *)
(***************************************************************************)
EXTENDS AccountManager, TLAPS

USE AccountParameters

\* The answer to getTransactionCount is a number once it has come, and the
\* nonce getNonce makes of it is greater than every nonce taken.
LEMMA CountedNonceIsFresh ==
    ASSUME NonceInv, NEW c \in Calls, count[c] # None
    PROVE  /\ CountedNonce(c) \in Nat
           /\ \A d \in Calls : nonce[d] # None => nonce[d] < CountedNonce(c)
<1>1. count[c] \in Nat /\ (cached # None => cached \in Nat)
  BY DEF NonceInv, TypeOK
<1>2. \A d \in Calls : nonce[d] # None => nonce[d] \in Nat /\ cached # None /\ nonce[d] <= cached
  BY DEF NonceInv, TypeOK, CacheIsGreatest
<1>. QED
  BY <1>1, <1>2 DEF CountedNonce

\* A call that takes a number greater than all nonces taken keeps them unique
\* and the cached nonce the greatest.
LEMMA FreshNonceKeepsInv ==
    ASSUME NonceInv, NEW c \in Calls, NEW n \in Nat, TakeNonce(c, n),
           \A d \in Calls : nonce[d] # None => nonce[d] < n
    PROVE  /\ nonce' \in [Calls -> Nat \cup {None}] /\ cached' \in Nat
           /\ CacheIsGreatest' /\ NoncesUnique'
<1>1. nonce \in [Calls -> Nat \cup {None}]
  BY DEF NonceInv, TypeOK
<1>2. \A d \in Calls : nonce'[d] = IF d = c THEN n ELSE nonce[d]
  BY <1>1 DEF TakeNonce
<1>3. nonce' \in [Calls -> Nat \cup {None}] /\ cached' = n
  BY <1>1 DEF TakeNonce
<1>4. CacheIsGreatest'
  BY <1>1, <1>2, <1>3 DEF CacheIsGreatest
<1>5. NoncesUnique'
  BY <1>1, <1>2 DEF NoncesUnique, NonceInv
<1>. QED
  BY <1>3, <1>4, <1>5

\* NonceInv holds at the start.
LEMMA NonceInvInit == Init => NonceInv
BY DEF Init, NonceInv, TypeOK, CacheIsGreatest, NoncesUnique, Calling

\* A step that leaves the nonces and the cache alone keeps what relates them.
LEMMA NoncesUntouched ==
    ASSUME NonceInv, UNCHANGED <<nonce, cached>>
    PROVE  CacheIsGreatest' /\ NoncesUnique'
BY DEF NonceInv, CacheIsGreatest, NoncesUnique

\* A call that only moves to another await keeps NonceInv, if it has a nonce
\* wherever one is required.
LEMMA MoveKeepsInv ==
    ASSUME NonceInv, NEW c \in Calls, NEW from, NEW to \in Calling, At(c, from, to),
           to \in {"signed", "waiting", "done"} => from \in {"signed", "waiting", "done"},
           UNCHANGED <<nonce, cached, count, mined>>, pending' \subseteq Nat
    PROVE  NonceInv'
<1>1. CacheIsGreatest' /\ NoncesUnique'
  BY NoncesUntouched
<1>2. TypeOK'
  BY DEF NonceInv, TypeOK, At
<1>. QED
  BY <1>1, <1>2 DEF NonceInv

\* Every step keeps NonceInv.
LEMMA NonceInvNext == NonceInv /\ [Next]_vars => NonceInv'
<1>. SUFFICES ASSUME NonceInv, [Next]_vars
              PROVE  NonceInv'
  OBVIOUS
<1>t. TypeOK
  BY DEF NonceInv
<1>1. CASE UNCHANGED vars
  BY <1>1 DEF vars, NonceInv, TypeOK, CacheIsGreatest, NoncesUnique
<1>2. CASE Mine
  <2>1. CacheIsGreatest' /\ NoncesUnique'
    BY <1>2, NoncesUntouched DEF Mine
  <2>2. TypeOK'
    BY <1>2, <1>t DEF Mine, TypeOK
  <2>. QED
    BY <2>1, <2>2 DEF NonceInv
<1>3. ASSUME NEW c \in Calls, Step(c)
      PROVE  NonceInv'
  <2>1. CASE Start(c)
    BY <2>1, <1>t, MoveKeepsInv DEF Start, TypeOK, Calling
  <2>2. CASE EstimateRefused(c)
    BY <2>2, <1>t, MoveKeepsInv DEF EstimateRefused, TypeOK, Calling
  <2>3. CASE NextNonce(c)
    <3>1. cached \in Nat /\ cached + 1 \in Nat /\ TakeNonce(c, cached + 1)
      BY <2>3, <1>t DEF NextNonce, TypeOK
    <3>2. \A d \in Calls : nonce[d] # None => nonce[d] < cached + 1
      BY <3>1, <1>t DEF NonceInv, TypeOK, CacheIsGreatest
    <3>3. /\ nonce' \in [Calls -> Nat \cup {None}] /\ cached' \in Nat
          /\ CacheIsGreatest' /\ NoncesUnique'
      BY <3>1, <3>2, FreshNonceKeepsInv
    <3>4. \A d \in Calls : nonce'[d] = IF d = c THEN cached + 1 ELSE nonce[d]
      BY <3>1, <1>t DEF TakeNonce, TypeOK
    <3>5. TypeOK'
      BY <2>3, <3>1, <3>3, <3>4, <1>t DEF NextNonce, At, TypeOK, Calling
    <3>. QED
      BY <3>3, <3>5 DEF NonceInv
  <2>4. CASE AskCount(c)
    BY <2>4, <1>t, MoveKeepsInv DEF AskCount, TypeOK, Calling
  <2>5. CASE AnswerCount(c)
    <3>1. CacheIsGreatest' /\ NoncesUnique'
      BY <2>5, NoncesUntouched DEF AnswerCount
    <3>2. TypeOK'
      BY <2>5, <1>t DEF AnswerCount, TypeOK
    <3>. QED
      BY <3>1, <3>2 DEF NonceInv
  <2>6. CASE ResumeWithCount(c)
    <3>. DEFINE n == CountedNonce(c)
    <3>1. n \in Nat /\ \A d \in Calls : nonce[d] # None => nonce[d] < n
      BY <2>6, CountedNonceIsFresh DEF ResumeWithCount
    <3>2. TakeNonce(c, n)
      BY <2>6 DEF ResumeWithCount
    <3>. HIDE DEF n
    <3>3. /\ nonce' \in [Calls -> Nat \cup {None}] /\ cached' \in Nat
          /\ CacheIsGreatest' /\ NoncesUnique'
      BY <3>1, <3>2, FreshNonceKeepsInv
    <3>4. \A d \in Calls : nonce'[d] = IF d = c THEN n ELSE nonce[d]
      BY <3>2, <1>t DEF TakeNonce, TypeOK
    <3>5. TypeOK'
      BY <2>6, <3>1, <3>3, <3>4, <1>t DEF ResumeWithCount, At, TypeOK, Calling
    <3>. QED
      BY <3>3, <3>5 DEF NonceInv
  <2>7. CASE CountFails(c)
    BY <2>7, <1>t, MoveKeepsInv DEF CountFails, TypeOK, Calling
  <2>8. CASE Send(c)
    <3>1. nonce[c] \in Nat
      BY <2>8, <1>t DEF Send, At, TypeOK
    <3>2. pending' \subseteq Nat
      BY <2>8, <3>1, <1>t DEF Send, TypeOK
    <3>. QED
      BY <2>8, <3>2, MoveKeepsInv DEF Send, Calling
  <2>9. CASE SendFails(c)
    BY <2>9, <1>t, MoveKeepsInv DEF SendFails, TypeOK, Calling
  <2>10. CASE Receipt(c)
    BY <2>10, <1>t, MoveKeepsInv DEF Receipt, TypeOK, Calling
  <2>11. CASE PollFails(c)
    BY <2>11, <1>t, MoveKeepsInv DEF PollFails, TypeOK, Calling
  <2>. QED
    BY <1>3, <2>1, <2>2, <2>3, <2>4, <2>5, <2>6, <2>7, <2>8, <2>9, <2>10, <2>11 DEF Step
<1>. QED
  BY <1>1, <1>2, <1>3 DEF Next

\* However many calls the deployer makes at once and in whatever order the
\* node answers, getNonce's cache is the greatest nonce given and no two calls
\* sign with the same one.
THEOREM NonceInvariant == Spec => []NonceInv
<1>. QED
  BY NonceInvInit, NonceInvNext, PTL DEF Spec

-----------------------------------------------------------------------------
(* Contiguity *)

\* A call without a nonce that takes one adds it to those taken.
LEMMA TakeNonceAdds ==
    ASSUME TypeOK, NEW c \in Calls, NEW n \in Nat, TakeNonce(c, n), nonce[c] = None
    PROVE  /\ Taken' = Taken \cup {n}
           /\ \A d \in Calls : nonce'[d] = IF d = c THEN n ELSE nonce[d]
<1>1. \A d \in Calls : nonce'[d] = IF d = c THEN n ELSE nonce[d]
  BY DEF TypeOK, TakeNonce
<1>2. n # None
  OBVIOUS
<1>. QED
  BY <1>1, <1>2 DEF Taken

\* The nonce that getNonce gives continues those taken.
LEMMA NextNonceContinues ==
    ASSUME TypeOK, ContiguousInv, NEW c \in Calls, NEW n \in Nat, TakeNonce(c, n),
           nonce[c] = None, n = IF cached = None THEN FirstNonce ELSE cached + 1
    PROVE  /\ NoncesContiguous' /\ cached' # None /\ FirstNonce <= cached'
           /\ Taken \subseteq Taken'
<1>1. Taken' = Taken \cup {n} /\ cached' = n /\ n # None
  BY TakeNonceAdds DEF TakeNonce
<1>2. cached # None => cached \in Nat /\ FirstNonce <= cached
  BY DEF TypeOK, ContiguousInv
<1>3. Taken' = FirstNonce .. n
  BY <1>1, <1>2 DEF ContiguousInv, NoncesContiguous
<1>. QED
  BY <1>1, <1>2, <1>3 DEF NoncesContiguous

\* A step that leaves the nonces and the cache alone.
LEMMA TakenUntouched ==
    ASSUME ContiguousInv, UNCHANGED <<nonce, cached>>
    PROVE  /\ Taken' = Taken /\ NoncesContiguous'
           /\ cached' # None => FirstNonce <= cached'
BY DEF ContiguousInv, NoncesContiguous, Taken

\* Every step keeps what NoncesContiguous rests on.
LEMMA ContiguousNext == NonceInv /\ ContiguousInv /\ [Next]_vars => ContiguousInv'
<1>. SUFFICES ASSUME NonceInv, ContiguousInv, [Next]_vars
              PROVE  ContiguousInv'
  OBVIOUS
<1>t. TypeOK
  BY DEF NonceInv
<1>1. CASE UNCHANGED vars
  BY <1>1, TakenUntouched DEF vars, ContiguousInv
<1>2. CASE Mine
  <2>1. cached # None
    BY <1>2 DEF Mine, ContiguousInv, NoncesContiguous
  <2>. QED
    BY <1>2, <2>1, TakenUntouched DEF Mine, ContiguousInv
<1>3. ASSUME NEW c \in Calls, NEW from, NEW to, At(c, from, to),
             UNCHANGED <<nonce, cached, count, mined>>, pending' \subseteq Taken,
             to \in {"idle", "estimating", "counting"}
                 => from \in {"idle", "estimating", "counting"}
      PROVE  ContiguousInv'
  <2>1. \A d \in Calls : pc'[d] = IF d = c THEN to ELSE pc[d]
    BY <1>3, <1>t DEF At, TypeOK
  <2>2. \A d \in Calls : pc'[d] \in {"idle", "estimating", "counting"} => nonce'[d] = None
    BY <1>3, <2>1 DEF At, ContiguousInv
  <2>. QED
    BY <1>3, <2>2, TakenUntouched DEF ContiguousInv
<1>4. ASSUME NEW c \in Calls, NEW n \in Nat, TakeNonce(c, n), nonce[c] = None,
             n = IF cached = None THEN FirstNonce ELSE cached + 1,
             NEW from, At(c, from, "signed"), UNCHANGED <<count, pending, mined>>
      PROVE  ContiguousInv'
  <2>1. \A d \in Calls : pc'[d] = IF d = c THEN "signed" ELSE pc[d]
    BY <1>4, <1>t DEF At, TypeOK
  <2>2. \A d \in Calls : nonce'[d] = IF d = c THEN n ELSE nonce[d]
    BY <1>4, <1>t, TakeNonceAdds
  <2>3. /\ NoncesContiguous' /\ cached' # None /\ FirstNonce <= cached'
        /\ Taken \subseteq Taken'
    BY <1>4, <1>t, NextNonceContinues
  <2>. QED
    BY <1>4, <2>1, <2>2, <2>3 DEF ContiguousInv
<1>5. ASSUME NEW c \in Calls, Step(c)
      PROVE  ContiguousInv'
  <2>0. pending \subseteq Taken
    BY DEF ContiguousInv
  <2>1. CASE Start(c)
    BY <2>1, <2>0, <1>3 DEF Start
  <2>2. CASE EstimateRefused(c)
    BY <2>2, <2>0, <1>3 DEF EstimateRefused
  <2>3. CASE NextNonce(c)
    <3>1. nonce[c] = None /\ cached # None /\ cached + 1 \in Nat
      BY <2>3, <1>t DEF NextNonce, At, ContiguousInv, TypeOK
    <3>2. TakeNonce(c, cached + 1) /\ At(c, "estimating", "signed")
          /\ UNCHANGED <<count, pending, mined>>
      BY <2>3 DEF NextNonce
    <3>. QED
      BY <3>1, <3>2, <1>4
  <2>4. CASE AskCount(c)
    BY <2>4, <2>0, <1>3 DEF AskCount
  <2>5. CASE AnswerCount(c)
    <3>1. cached = None => \A d \in Calls : count'[d] \in {None, FirstNonce}
      BY <2>5, <1>t DEF AnswerCount, ContiguousInv, TypeOK
    <3>. QED
      BY <2>5, <3>1, TakenUntouched DEF AnswerCount, ContiguousInv
  <2>6. CASE ResumeWithCount(c)
    <3>1. nonce[c] = None /\ count[c] # None
      BY <2>6 DEF ResumeWithCount, At, ContiguousInv
    <3>2. CountedNonce(c) = IF cached = None THEN FirstNonce ELSE cached + 1
      BY <3>1 DEF CountedNonce, ContiguousInv
    <3>3. CountedNonce(c) \in Nat
      BY <3>2, <1>t DEF TypeOK
    <3>4. TakeNonce(c, CountedNonce(c)) /\ At(c, "counting", "signed")
          /\ UNCHANGED <<count, pending, mined>>
      BY <2>6 DEF ResumeWithCount
    <3>. QED
      BY <3>1, <3>2, <3>3, <3>4, <1>4
  <2>7. CASE CountFails(c)
    BY <2>7, <2>0, <1>3 DEF CountFails
  <2>8. CASE Send(c)
    <3>1. nonce[c] # None
      BY <2>8, <1>t DEF Send, At, TypeOK
    <3>2. pending' \subseteq Taken
      BY <2>8, <2>0, <3>1 DEF Send, Taken
    <3>. QED
      BY <2>8, <3>2, <1>3 DEF Send
  <2>9. CASE SendFails(c)
    BY <2>9, <2>0, <1>3 DEF SendFails
  <2>10. CASE Receipt(c)
    BY <2>10, <2>0, <1>3 DEF Receipt
  <2>11. CASE PollFails(c)
    BY <2>11, <2>0, <1>3 DEF PollFails
  <2>. QED
    BY <1>5, <2>1, <2>2, <2>3, <2>4, <2>5, <2>6, <2>7, <2>8, <2>9, <2>10, <2>11 DEF Step
<1>. QED
  BY <1>1, <1>2, <1>5 DEF Next

\* The nonces given are the account's next ones without a gap, so that the node
\* can mine them all, however many calls ask for one while the cache is empty.
THEOREM NoncesAreContiguous == Spec => []NoncesContiguous
<1>1. Init => ContiguousInv
  BY DEF Init, ContiguousInv, NoncesContiguous, Taken
<1>2. ContiguousInv => NoncesContiguous
  BY DEF ContiguousInv
<1>. QED
  BY <1>1, <1>2, ContiguousNext, NonceInvariant, PTL DEF Spec

=============================================================================

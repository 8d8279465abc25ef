------------------------------ MODULE BEP20Ops ------------------------------
(***************************************************************************)
(* What a BEP20 token (libraries/token/BEP20.sol) does to the balances of  *)
(* its holders, as operators on a function from accounts to uint256.       *)
(* SafeMath reverts the transaction instead of wrapping, so every operator *)
(* comes with the condition under which the code does not revert.          *)
(***************************************************************************)
EXTENDS Integers

CONSTANT MaxUint            \* 2^256 - 1 in the code

ASSUME Width == MaxUint \in Nat

Uint == 0 .. MaxUint

\* A fault to check against: both balances are read before either is written.
MovedFromOldBalances(bal, from, to, amount) ==
    [bal EXCEPT ![from] = bal[from] - amount, ![to] = bal[to] + amount]

\* _transfer debits the sender first and then credits the recipient, so a
\* transfer of an account to itself leaves its balance as it was.
Moved(bal, from, to, amount) ==
    LET debited == [bal EXCEPT ![from] = @ - amount]
    IN  [debited EXCEPT ![to] = @ + amount]

\* Faults to check against: no SafeMath on the debit, and an account that
\* cannot be emptied.
CanMoveUnchecked(bal, from, to, amount) == from # to => bal[to] + amount <= MaxUint
CanMoveStrictly(bal, from, to, amount) ==
    /\ bal[from] > amount
    /\ from # to => bal[to] + amount <= MaxUint

\* The two SafeMath conditions of _transfer.
CanMove(bal, from, to, amount) ==
    /\ bal[from] >= amount
    /\ from # to => bal[to] + amount <= MaxUint

=============================================================================

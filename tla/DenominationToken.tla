-------------------------- MODULE DenominationToken --------------------------
(***************************************************************************)
(* TestNetDenominationToken behind its Delegator: a BEP20 token that is    *)
(* minted for ether, burnt for ether, and given away by a faucet.          *)
(*                                                                         *)
(* One action is one public function.  A constructor writes the storage of *)
(* the target, so behind the Delegator the owner is the zero address and   *)
(* the functions reserved for it (mint, renounceOwnership,                 *)
(* transferOwnership) revert for ever.                                     *)
(***************************************************************************)
EXTENDS BEP20Ops, Functions, FiniteSets

CONSTANTS
    Holders,        \* accounts that hold tokens and ether
    InitialEther,   \* ether of the holders
    Amounts,        \* amounts of tokens and ether a call may name
    MaxGrants,      \* bound: allowances granted to one spender
    MaxFaucet       \* bound: tokens the faucet gives away

ASSUME TokenParameters ==
    /\ IsFiniteSet(Holders)
    /\ InitialEther \in [Holders -> Uint]
    /\ Amounts \subseteq Uint
    /\ MaxGrants \in Nat /\ MaxFaucet \in Nat

VARIABLES
    balances,       \* _balances
    allowances,     \* _allowances, by owner and spender
    totalSupply,    \* _totalSupply
    ether,          \* address(this).balance
    wallet,         \* the ether of the holders
    grants,         \* history: allowances granted by owner to spender, unspent
    given,          \* history: tokens from the faucet
    presented       \* history: ether that came with a withdrawal

tokenVars == <<balances, totalSupply>>
etherVars == <<ether, wallet, presented>>
grantVars == <<allowances, grants>>
vars == <<tokenVars, etherVars, grantVars, given>>

Init ==
    /\ balances = [h \in Holders |-> 0]
    /\ allowances = [h \in Holders |-> [s \in Holders |-> 0]]
    /\ totalSupply = 0
    /\ ether = 0
    /\ wallet = InitialEther
    /\ grants = [h \in Holders |-> [s \in Holders |-> 0]]
    /\ given = 0
    /\ presented = 0

-----------------------------------------------------------------------------
(* BEP20 *)

transfer(sender, recipient, amount) ==
    /\ CanMove(balances, sender, recipient, amount)
    /\ balances' = Moved(balances, sender, recipient, amount)
    /\ UNCHANGED <<totalSupply, etherVars, grantVars, given>>

Approve(owner, spender, amount) ==
    /\ amount \in Uint
    /\ allowances' = [allowances EXCEPT ![owner][spender] = amount]

Grant(owner, spender, amount) ==
    /\ grants[owner][spender] + amount <= MaxGrants
    /\ grants' = [grants EXCEPT ![owner][spender] = @ + amount]

approve(owner, spender, amount) ==
    /\ Approve(owner, spender, amount)
    /\ Grant(owner, spender, amount)
    /\ UNCHANGED <<tokenVars, etherVars, given>>

increaseAllowance(owner, spender, added) ==
    /\ Approve(owner, spender, allowances[owner][spender] + added)
    /\ Grant(owner, spender, added)
    /\ UNCHANGED <<tokenVars, etherVars, given>>

decreaseAllowance(owner, spender, subtracted) ==
    /\ Approve(owner, spender, allowances[owner][spender] - subtracted)
    /\ UNCHANGED <<tokenVars, etherVars, grants, given>>

\* A fault to check against: the allowance is checked and not reduced.
KeptAllowance(owner, spender, amount) ==
    /\ allowances[owner][spender] >= amount
    /\ UNCHANGED allowances

\* The last statement of transferFrom.
SpendAllowance(owner, spender, amount) ==
    Approve(owner, spender, allowances[owner][spender] - amount)

transferFrom(spender, sender, recipient, amount) ==
    /\ CanMove(balances, sender, recipient, amount)
    /\ balances' = Moved(balances, sender, recipient, amount)
    /\ SpendAllowance(sender, spender, amount)
    /\ grants' = [grants EXCEPT ![sender][spender] = @ - amount]
    /\ UNCHANGED <<totalSupply, etherVars, given>>

\* _mint and _burn.
Minted(account, amount) ==
    /\ totalSupply + amount <= MaxUint
    /\ balances[account] + amount <= MaxUint
    /\ totalSupply' = totalSupply + amount
    /\ balances' = [balances EXCEPT ![account] = @ + amount]

CanBurn(account, amount) == balances[account] >= amount /\ totalSupply >= amount

Burnt(account, amount) ==
    /\ CanBurn(account, amount)
    /\ balances' = [balances EXCEPT ![account] = @ - amount]
    /\ totalSupply' = totalSupply - amount

-----------------------------------------------------------------------------
(* TestNetDenominationToken *)

\* The value of the call has arrived when the assertion is evaluated.
depositEther(sender, value) ==
    /\ wallet[sender] >= value
    /\ Minted(sender, value)
    /\ ether' = ether + value
    /\ ether' >= totalSupply'
    /\ wallet' = [wallet EXCEPT ![sender] = @ - value]
    /\ UNCHANGED <<grantVars, given, presented>>

\* A fault to check against: the tokens are not burnt.
NotBurnt(account, amount) ==
    /\ balances[account] >= amount
    /\ UNCHANGED tokenVars

Redeemed(account, amount) == Burnt(account, amount)

\* A withdrawal does not revert: there are the ether the call brings, the
\* tokens to be burnt, and the ether to be sent.
CanWithdraw(sender, from, amount, value) ==
    /\ wallet[sender] >= value
    /\ amount > 0
    /\ CanBurn(from, amount)
    /\ ether + value >= amount

\* Tokens of an account are burnt and their ether is sent to another; the call
\* may bring ether of its own.
withdrawEtherInternal(sender, from, to, amount, value) ==
    /\ CanWithdraw(sender, from, amount, value)
    /\ Redeemed(from, amount)
    /\ ether' = ether + value - amount
    /\ LET paid == [wallet EXCEPT ![sender] = @ - value]
       IN  wallet' = [paid EXCEPT ![to] = @ + amount]
    /\ presented' = presented + value
    /\ UNCHANGED <<grantVars, given>>

withdrawEther(sender, amount) == withdrawEtherInternal(sender, sender, sender, amount, 0)

faucet(sender, amount) ==
    /\ given + amount <= MaxFaucet
    /\ Minted(sender, amount)
    /\ given' = given + amount
    /\ UNCHANGED <<etherVars, grantVars>>

Next ==
    \E h, i, j \in Holders, a \in Amounts :
        \/ transfer(h, i, a)
        \/ approve(h, i, a) \/ increaseAllowance(h, i, a) \/ decreaseAllowance(h, i, a)
        \/ transferFrom(h, i, j, a)
        \/ depositEther(h, a) \/ faucet(h, a) \/ withdrawEther(h, a)
        \/ \E v \in Amounts : withdrawEtherInternal(h, i, j, a, v)

Spec == Init /\ [][Next]_vars

-----------------------------------------------------------------------------

\* Every variable has its type; balances, allowances and the supply are uint256.
TypeOK ==
    /\ balances \in [Holders -> Uint]
    /\ allowances \in [Holders -> [Holders -> Uint]]
    /\ totalSupply \in Uint
    /\ ether \in Nat
    /\ wallet \in [Holders -> Nat]
    /\ grants \in [Holders -> [Holders -> Int]]
    /\ given \in Nat /\ presented \in Nat

\* The ether in the token, and what the faucet gave away, account for every
\* token there is, to the last wei.
EtherBalance == ether + given = totalSupply + presented

\* The holders together have the total supply, to the last token.
SupplyIsHeld == FoldFunction(+, 0, balances) = totalSupply

\* While nobody used the faucet the assertion of depositEther cannot fail, and
\* every holder can turn all tokens back into ether.
HonouredWhileUntapped ==
    given = 0 =>
        /\ ether >= totalSupply
        /\ \A h \in Holders : balances[h] > 0 => CanWithdraw(h, h, balances[h], 0)

\* A spender never has more than what the owner granted and the spender did
\* not use, over any mixture of approvals, increases, decreases and transfers.
AllowanceWithinGrants ==
    \A h, s \in Holders : allowances[h][s] <= grants[h][s]

\* The invariant that is inductive.
TokenInv == TypeOK /\ EtherBalance /\ AllowanceWithinGrants /\ SupplyIsHeld

\* Ether leaves the token only for as many tokens that are burnt, so what is
\* taken from it and the supply never drift apart in one call.
EtherLeavesForTokens ==
    [][ether' < ether => totalSupply - totalSupply' >= ether - ether']_vars

=============================================================================

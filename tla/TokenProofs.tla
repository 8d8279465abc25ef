----------------------------- MODULE TokenProofs -----------------------------
(***************************************************************************)
(* The accounts of the denomination token, proved for any holders and      *)
(* amounts: its ether explains its supply, allowances their grants, and    *)
(* the balances add up to the supply, so that while nobody used the faucet *)
(* every holder can withdraw.                                              *)
(***************************************************************************)
EXTENDS DenominationToken, BEP20Proofs

\* TokenInv but for its sum over the holders, which changes with the balances
\* alone.
Accounted == TypeOK /\ EtherBalance /\ AllowanceWithinGrants

\* _mint and _burn keep the types, and the supply follows the amount.
LEMMA MintIsTyped ==
    ASSUME TypeOK, NEW h \in Holders, NEW amount \in Uint, Minted(h, amount)
    PROVE  /\ balances' \in [Holders -> Uint]
           /\ totalSupply' \in Uint
           /\ totalSupply' = totalSupply + amount
BY TokenParameters DEF TypeOK, Minted, Uint

LEMMA BurnIsTyped ==
    ASSUME TypeOK, NEW h \in Holders, NEW amount \in Uint, Redeemed(h, amount)
    PROVE  /\ balances' \in [Holders -> Uint]
           /\ totalSupply' \in Uint
           /\ totalSupply' = totalSupply - amount
BY TokenParameters, Width DEF TypeOK, Redeemed, Burnt, CanBurn, Uint

\* An approval writes one allowance, and a grant adds to the history of one.
LEMMA ApproveIsTyped ==
    ASSUME TypeOK, NEW h \in Holders, NEW s \in Holders, NEW amount \in Int,
           Approve(h, s, amount)
    PROVE  /\ allowances' \in [Holders -> [Holders -> Uint]]
           /\ \A x, y \in Holders :
                  allowances'[x][y] = IF x = h /\ y = s THEN amount ELSE allowances[x][y]
BY DEF TypeOK, Approve

LEMMA GrantIsTyped ==
    ASSUME TypeOK, NEW h \in Holders, NEW s \in Holders, NEW amount \in Int,
           grants' = [grants EXCEPT ![h][s] = @ + amount]
    PROVE  /\ grants' \in [Holders -> [Holders -> Int]]
           /\ \A x, y \in Holders :
                  grants'[x][y] = IF x = h /\ y = s THEN grants[x][y] + amount
                                                    ELSE grants[x][y]
BY DEF TypeOK

\* The numbers the invariant compares.
LEMMA Numbers ==
    ASSUME TypeOK
    PROVE  /\ Uint \subseteq Nat /\ Amounts \subseteq Nat
           /\ totalSupply \in Nat
           /\ \A x, y \in Holders : allowances[x][y] \in Nat /\ grants[x][y] \in Int
<1>1. Uint \subseteq Nat /\ Amounts \subseteq Nat
  BY TokenParameters DEF Uint
<1>2. \A x, y \in Holders : allowances[x][y] \in Uint /\ grants[x][y] \in Int
  BY DEF TypeOK
<1> QED
  BY <1>1, <1>2 DEF TypeOK

LEMMA AccountedInit == Init => Accounted
BY TokenParameters, Width DEF Init, Accounted, TypeOK, EtherBalance, AllowanceWithinGrants, Uint

LEMMA WithdrawalKeepsInv ==
    ASSUME Accounted, NEW h \in Holders, NEW i \in Holders, NEW j \in Holders,
           NEW a \in Uint, NEW v \in Uint, withdrawEtherInternal(h, i, j, a, v)
    PROVE  Accounted'
<1> USE DEF Accounted, withdrawEtherInternal, CanWithdraw
<1>1. /\ balances' \in [Holders -> Uint]
      /\ totalSupply' \in Uint
      /\ totalSupply' = totalSupply - a
  BY BurnIsTyped
<1>2. a \in Nat /\ v \in Nat
  BY TokenParameters DEF Uint
<1>3. wallet' \in [Holders -> Nat]
  <2> DEFINE paid == [wallet EXCEPT ![h] = @ - v]
  <2>1. paid \in [Holders -> Nat]
    BY <1>2 DEF TypeOK
  <2>2. wallet' = [paid EXCEPT ![j] = @ + a]
    OBVIOUS
  <2> HIDE DEF paid
  <2> QED
    BY <1>2, <2>1, <2>2
<1>4. ether' \in Nat /\ presented' \in Nat
  BY <1>2 DEF TypeOK
<1>5. TypeOK'
  BY <1>1, <1>3, <1>4 DEF TypeOK, grantVars
<1>6. EtherBalance'
  <2>1. totalSupply \in Int
    BY TokenParameters DEF TypeOK, Uint
  <2> QED
    BY <1>1, <1>2, <2>1 DEF TypeOK, EtherBalance
<1>7. AllowanceWithinGrants'
  BY DEF AllowanceWithinGrants, grantVars
<1> QED
  BY <1>5, <1>6, <1>7

LEMMA AccountedNext == Accounted /\ [Next]_vars => Accounted'
<1> SUFFICES ASSUME Accounted, [Next]_vars PROVE Accounted'
  OBVIOUS
<1> USE DEF Accounted
<1>0. Amounts \subseteq Uint /\ Uint \subseteq Nat /\ MaxUint \in Nat
  BY TokenParameters, Width DEF Uint
<1>1. ASSUME NEW h \in Holders, NEW i \in Holders, NEW a \in Amounts, transfer(h, i, a)
      PROVE  Accounted'
  <2>1. balances' \in [Holders -> Uint]
    BY <1>0, <1>1, MovedFacts DEF transfer, TypeOK
  <2> QED
    BY <1>1, <2>1 DEF transfer, TypeOK, EtherBalance, AllowanceWithinGrants,
                      etherVars, grantVars
<1>2. ASSUME NEW h \in Holders, NEW i \in Holders, NEW a \in Amounts,
             approve(h, i, a) \/ increaseAllowance(h, i, a)
      PROVE  Accounted'
  <2>1. a \in Nat /\ a \in Int
    BY <1>0
  <2>2. PICK n \in Int : /\ n \in {a, allowances[h][i] + a}
                         /\ Approve(h, i, n)
    BY <1>2, <2>1 DEF approve, increaseAllowance, TypeOK, Approve, Uint
  <2>3. /\ grants' = [grants EXCEPT ![h][i] = @ + a]
        /\ UNCHANGED <<tokenVars, etherVars, given>>
    BY <1>2 DEF approve, increaseAllowance, Grant
  <2>4. TypeOK'
    BY <2>1, <2>2, <2>3, ApproveIsTyped, GrantIsTyped DEF TypeOK, tokenVars, etherVars
  <2>5. EtherBalance'
    BY <2>3 DEF EtherBalance, tokenVars, etherVars
  <2>6. AllowanceWithinGrants'
    <3>1. \A x, y \in Holders :
             /\ allowances'[x][y] = IF x = h /\ y = i THEN n ELSE allowances[x][y]
             /\ grants'[x][y] = IF x = h /\ y = i THEN grants[x][y] + a ELSE grants[x][y]
      <4>1. \A x, y \in Holders :
               allowances'[x][y] = IF x = h /\ y = i THEN n ELSE allowances[x][y]
        BY <2>2, ApproveIsTyped
      <4>2. \A x, y \in Holders :
               grants'[x][y] = IF x = h /\ y = i THEN grants[x][y] + a ELSE grants[x][y]
        BY <2>1, <2>3, GrantIsTyped
      <4> QED
        BY <4>1, <4>2
    <3>2. \A x, y \in Holders : /\ allowances[x][y] \in Nat /\ grants[x][y] \in Int
                                /\ allowances[x][y] <= grants[x][y]
      BY Numbers DEF AllowanceWithinGrants
    <3> QED
      BY <2>1, <2>2, <3>1, <3>2 DEF AllowanceWithinGrants
  <2> QED
    BY <2>4, <2>5, <2>6
<1>3. ASSUME NEW h \in Holders, NEW i \in Holders, NEW a \in Amounts,
             decreaseAllowance(h, i, a)
      PROVE  Accounted'
  <2>1. a \in Nat /\ allowances[h][i] - a \in Int
    BY Numbers
  <2>2. Approve(h, i, allowances[h][i] - a)
    BY <1>3 DEF decreaseAllowance
  <2>3. TypeOK'
    BY <1>3, <2>1, <2>2, ApproveIsTyped DEF decreaseAllowance, TypeOK, tokenVars, etherVars
  <2>4. \A x, y \in Holders : allowances'[x][y] <= allowances[x][y]
    <3>1. \A x, y \in Holders : allowances[x][y] \in Int
      BY Numbers
    <3> QED
      BY <2>1, <2>2, <3>1, ApproveIsTyped
  <2>5. AllowanceWithinGrants'
    <3>1. \A x, y \in Holders : /\ allowances[x][y] \in Int /\ allowances'[x][y] \in Int
                                /\ grants[x][y] \in Int /\ grants'[x][y] = grants[x][y]
      <4>1. \A x, y \in Holders : allowances'[x][y] \in Uint
        BY <2>3 DEF TypeOK
      <4>2. grants' = grants
        BY <1>3 DEF decreaseAllowance
      <4> QED
        BY <4>1, <4>2, Numbers
    <3> QED
      BY <2>4, <3>1 DEF AllowanceWithinGrants
  <2> QED
    BY <1>3, <2>3, <2>5 DEF decreaseAllowance, EtherBalance, tokenVars, etherVars
<1>4. ASSUME NEW h \in Holders, NEW i \in Holders, NEW j \in Holders, NEW a \in Amounts,
             transferFrom(h, i, j, a)
      PROVE  Accounted'
  <2>1. a \in Nat /\ -a \in Int /\ allowances[i][h] - a \in Int
    BY Numbers
  <2>2. Approve(i, h, allowances[i][h] - a)
    BY <1>4 DEF transferFrom, SpendAllowance
  <2>3. grants' = [grants EXCEPT ![i][h] = @ + (-a)]
    BY <1>4, <2>1 DEF transferFrom, TypeOK
  <2>4. balances' \in [Holders -> Uint]
    BY <1>0, <1>4, MovedFacts DEF transferFrom, TypeOK
  <2>5. TypeOK'
    <3>1. allowances' \in [Holders -> [Holders -> Uint]]
      BY <2>1, <2>2, ApproveIsTyped
    <3>2. grants' \in [Holders -> [Holders -> Int]]
      BY <2>1, <2>3, GrantIsTyped
    <3> QED
      BY <1>4, <2>4, <3>1, <3>2 DEF transferFrom, TypeOK, etherVars
  <2>6. AllowanceWithinGrants'
    <3>1. \A x, y \in Holders :
             /\ allowances'[x][y] = IF x = i /\ y = h THEN allowances[i][h] - a
                                                     ELSE allowances[x][y]
             /\ grants'[x][y] = IF x = i /\ y = h THEN grants[x][y] + (-a)
                                                 ELSE grants[x][y]
      <4>1. \A x, y \in Holders :
               allowances'[x][y] = IF x = i /\ y = h THEN allowances[i][h] - a
                                                     ELSE allowances[x][y]
        BY <2>1, <2>2, ApproveIsTyped
      <4>2. \A x, y \in Holders :
               grants'[x][y] = IF x = i /\ y = h THEN grants[x][y] + (-a)
                                                 ELSE grants[x][y]
        <5> DEFINE d == -a
        <5>1. TypeOK /\ d \in Int /\ grants' = [grants EXCEPT ![i][h] = @ + d]
          BY <2>1, <2>3
        <5> HIDE DEF d
        <5>2. \A x, y \in Holders :
                 grants'[x][y] = IF x = i /\ y = h THEN grants[x][y] + d ELSE grants[x][y]
          BY <5>1, GrantIsTyped
        <5> QED
          BY <5>2 DEF d
      <4> QED
        BY <4>1, <4>2
    <3>2. \A x, y \in Holders : /\ allowances[x][y] \in Nat /\ grants[x][y] \in Int
                                /\ allowances[x][y] <= grants[x][y]
      BY Numbers DEF AllowanceWithinGrants
    <3> QED
      BY <2>1, <3>1, <3>2 DEF AllowanceWithinGrants
  <2> QED
    BY <1>4, <2>5, <2>6 DEF transferFrom, EtherBalance, etherVars
<1>5. ASSUME NEW h \in Holders, NEW a \in Amounts, depositEther(h, a)
      PROVE  Accounted'
  <2>1. /\ balances' \in [Holders -> Uint]
        /\ totalSupply' \in Uint
        /\ totalSupply' = totalSupply + a
    BY <1>0, <1>5, MintIsTyped DEF depositEther
  <2>2. a \in Nat /\ totalSupply \in Nat
    BY <1>0 DEF TypeOK
  <2>3. TypeOK'
    <3>1. wallet' \in [Holders -> Nat]
      BY <1>5, <2>2 DEF depositEther, TypeOK
    <3>2. ether' \in Nat
      BY <1>5, <2>2 DEF depositEther, TypeOK
    <3> QED
      BY <1>5, <2>1, <3>1, <3>2 DEF depositEther, TypeOK, grantVars
  <2> QED
    BY <1>5, <2>1, <2>2, <2>3
       DEF depositEther, TypeOK, EtherBalance, AllowanceWithinGrants, grantVars
<1>6. ASSUME NEW h \in Holders, NEW a \in Amounts, faucet(h, a)
      PROVE  Accounted'
  <2>1. /\ balances' \in [Holders -> Uint]
        /\ totalSupply' \in Uint
        /\ totalSupply' = totalSupply + a
    BY <1>0, <1>6, MintIsTyped DEF faucet
  <2>2. a \in Nat /\ totalSupply \in Nat
    BY <1>0 DEF TypeOK
  <2>3. TypeOK'
    BY <1>6, <2>1, <2>2 DEF faucet, TypeOK, grantVars, etherVars
  <2> QED
    BY <1>6, <2>1, <2>2, <2>3
       DEF faucet, TypeOK, EtherBalance, AllowanceWithinGrants, grantVars, etherVars
<1>7. ASSUME NEW h \in Holders, NEW a \in Amounts, withdrawEther(h, a)
      PROVE  Accounted'
  <2>1. 0 \in Uint
    BY TokenParameters, Width DEF Uint
  <2> QED
    BY <1>0, <1>7, <2>1, WithdrawalKeepsInv DEF withdrawEther
<1>8. ASSUME NEW h \in Holders, NEW i \in Holders, NEW j \in Holders, NEW a \in Amounts,
             NEW v \in Amounts, withdrawEtherInternal(h, i, j, a, v)
      PROVE  Accounted'
  BY <1>0, <1>8, WithdrawalKeepsInv
<1>9. CASE UNCHANGED vars
  BY <1>9 DEF vars, tokenVars, etherVars, grantVars, TypeOK, EtherBalance,
              AllowanceWithinGrants
<1> QED
  BY <1>1, <1>2, <1>3, <1>4, <1>5, <1>6, <1>7, <1>8, <1>9 DEF Next

-----------------------------------------------------------------------------
(* The balances and the supply *)

\* SupplyIsHeld in terms of Total, as the calls preserve it.
Held == Total(balances, Holders) = totalSupply

LEMMA HeldIsSum ==
    ASSUME TypeOK
    PROVE  SupplyIsHeld <=> Held
<1>1. balances \in [Holders -> Int]
  BY DEF TypeOK, Uint
<1>2. FoldFunction(+, 0, balances) = Total(balances, Holders)
  BY <1>1, FoldIsTotal
<1> QED
  BY <1>2 DEF SupplyIsHeld, Held

\* A call that moves tokens, that writes one balance and the supply, or neither.
LEMMA MoveHeld ==
    ASSUME TypeOK, Held, NEW i \in Holders, NEW j \in Holders, NEW a \in Nat,
           balances' = Moved(balances, i, j, a), UNCHANGED totalSupply
    PROVE  Held'
<1>1. balances \in [Holders -> Uint] /\ IsFiniteSet(Holders)
  BY TokenParameters DEF TypeOK
<1> QED
  BY <1>1, MovedKeepsTotal DEF Held

LEMMA WriteHeld ==
    ASSUME TypeOK, Held, NEW h \in Holders, NEW d \in Int,
           balances' = [balances EXCEPT ![h] = @ + d],
           totalSupply' = totalSupply + d
    PROVE  Held'
<1>1. balances \in [Holders -> Int] /\ IsFiniteSet(Holders)
  BY TokenParameters DEF TypeOK, Uint
<1> QED
  BY <1>1, TotalWritten DEF Held

LEMMA HeldInit == Init => Held
<1> SUFFICES ASSUME Init PROVE Held
  OBVIOUS
<1>1. \A h \in Holders : balances[h] = 0
  BY DEF Init
<1>2. Total(balances, Holders) = 0
  BY <1>1, TotalZero, TokenParameters
<1> QED
  BY <1>2 DEF Held, Init

LEMMA HeldNext == TypeOK /\ Held /\ [Next]_vars => Held'
<1> SUFFICES ASSUME TypeOK, Held, [Next]_vars PROVE Held'
  OBVIOUS
<1>0. Amounts \subseteq Nat /\ Uint \subseteq Nat /\ 0 \in Uint /\ Amounts \subseteq Uint
  BY TokenParameters, Width DEF Uint
<1>1. ASSUME UNCHANGED tokenVars PROVE Held'
  BY <1>1 DEF Held, tokenVars
<1>2. ASSUME NEW h \in Holders, NEW i \in Holders, NEW j \in Holders, NEW a \in Amounts,
             transfer(h, i, a) \/ transferFrom(h, i, j, a)
      PROVE  Held'
  <2>1. CASE transfer(h, i, a)
    BY <1>0, <2>1, MoveHeld DEF transfer
  <2>2. CASE transferFrom(h, i, j, a)
    BY <1>0, <2>2, MoveHeld DEF transferFrom
  <2> QED
    BY <1>2, <2>1, <2>2
<1>3. ASSUME NEW h \in Holders, NEW a \in Amounts, depositEther(h, a) \/ faucet(h, a)
      PROVE  Held'
  <2>1. Minted(h, a) /\ a \in Int
    BY <1>0, <1>3 DEF depositEther, faucet
  <2> QED
    BY <2>1, WriteHeld DEF Minted
<1>4. ASSUME NEW h \in Holders, NEW i \in Holders, NEW j \in Holders, NEW a \in Uint,
             NEW v \in Uint, withdrawEtherInternal(h, i, j, a, v)
      PROVE  Held'
  <2>1. Redeemed(i, a) /\ a \in Nat /\ -a \in Int
    BY <1>0, <1>4 DEF withdrawEtherInternal
  <2>2. /\ balances' = [balances EXCEPT ![i] = @ - a] /\ totalSupply' = totalSupply - a
        /\ balances[i] \in Int /\ totalSupply \in Int
    BY <2>1, Width DEF Redeemed, Burnt, TypeOK, Uint
  <2>3. balances' = [balances EXCEPT ![i] = @ + (-a)] /\ totalSupply' = totalSupply + (-a)
    BY <2>1, <2>2
  <2> QED
    BY <2>1, <2>3, WriteHeld
<1>5. ASSUME NEW h \in Holders, NEW i \in Holders, NEW a \in Amounts,
             \/ approve(h, i, a) \/ increaseAllowance(h, i, a)
             \/ decreaseAllowance(h, i, a)
      PROVE  UNCHANGED tokenVars
  BY <1>5 DEF approve, increaseAllowance, decreaseAllowance
<1>6. UNCHANGED vars => UNCHANGED tokenVars
  BY DEF vars
<1>7. ASSUME NEW h \in Holders, NEW a \in Amounts, withdrawEther(h, a)
      PROVE  Held'
  BY <1>0, <1>4, <1>7 DEF withdrawEther
<1> QED
  BY <1>0, <1>1, <1>2, <1>3, <1>4, <1>5, <1>6, <1>7 DEF Next

-----------------------------------------------------------------------------

\* For any holders and any amounts: every token was paid for in ether that is
\* in the token, came from the faucet, or was redeemed; no spender holds more
\* allowance than grants; the holders have the supply; nothing leaves uint256.
THEOREM TokenInvariant == Spec => []TokenInv
<1>1. Init => Accounted /\ Held
  BY AccountedInit, HeldInit
<1>2. Accounted /\ Held /\ [Next]_vars => (Accounted /\ Held)'
  BY AccountedNext, HeldNext DEF Accounted
<1>3. Accounted /\ Held => TokenInv
  BY HeldIsSum DEF Accounted, TokenInv
<1> QED
  BY <1>1, <1>2, <1>3, PTL DEF Spec

\* While nobody used the faucet the token is honest: its ether covers the supply,
\* so depositEther's assertion holds, and every holder can redeem every token in
\* one withdrawal, whatever the other holders did.
THEOREM Honoured == Spec => []HonouredWhileUntapped
<1>1. TokenInv => HonouredWhileUntapped
  <2> SUFFICES ASSUME TokenInv, given = 0
               PROVE  /\ ether >= totalSupply
                      /\ \A h \in Holders : balances[h] > 0 => CanWithdraw(h, h, balances[h], 0)
    BY DEF HonouredWhileUntapped
  <2>1. /\ balances \in [Holders -> Nat] /\ totalSupply \in Nat
        /\ ether \in Nat /\ presented \in Nat /\ wallet \in [Holders -> Nat]
    BY Width DEF TokenInv, TypeOK, Uint
  <2>2. ether >= totalSupply
    BY <2>1 DEF TokenInv, EtherBalance
  <2>3. Total(balances, Holders) = totalSupply
    BY HeldIsSum DEF TokenInv, Held
  <2>4. \A h \in Holders : balances[h] <= totalSupply
    BY <2>1, <2>3, WithinTotal, TokenParameters
  <2> QED
    BY <2>1, <2>2, <2>4 DEF CanWithdraw, CanBurn
<1> QED
  BY <1>1, TokenInvariant, PTL

\* Ether leaves the token only against tokens that are burnt.
THEOREM EtherForTokens == Spec => EtherLeavesForTokens
<1>1. TokenInv /\ [Next]_vars
        => [ether' < ether => totalSupply - totalSupply' >= ether - ether']_vars
  <2> SUFFICES ASSUME TokenInv, Next, ether' < ether
               PROVE  totalSupply - totalSupply' >= ether - ether'
    OBVIOUS
  <2>1. PICK h, i, j \in Holders, a \in Amounts, v \in Uint :
            withdrawEtherInternal(h, i, j, a, v)
    <3>1. \A h \in Holders, a \in Amounts : ~depositEther(h, a)
      BY TokenParameters DEF depositEther, TokenInv, TypeOK, Uint
    <3>2. 0 \in Uint /\ Amounts \subseteq Uint /\ ~(ether < ether)
      BY TokenParameters, Width DEF Uint, TokenInv, TypeOK
    <3> QED
      BY <3>1, <3>2 DEF Next, transfer, approve, increaseAllowance, decreaseAllowance,
           transferFrom, faucet, withdrawEther, etherVars
  <2>2. a \in Nat /\ v \in Nat /\ totalSupply' = totalSupply - a
    BY <2>1, TokenParameters, BurnIsTyped DEF withdrawEtherInternal, TokenInv, Uint
  <2> QED
    BY <2>1, <2>2, TokenParameters DEF withdrawEtherInternal, TokenInv, TypeOK, Uint
<1> QED
  BY <1>1, TokenInvariant, PTL DEF Spec, EtherLeavesForTokens

=============================================================================

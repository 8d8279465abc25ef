# A TLA+ verification of AugurLite

AugurLite is a prediction market protocol of Solidity contracts
(`src/source/contracts`) with a TypeScript deployer (`src/source/libraries`,
`src/source/deployment`).  Users buy *complete sets* (one share of every outcome
of a market) by escrowing `numTicks` denomination tokens per set in the market,
trade the shares elsewhere, sell complete sets back at any time, and claim the
proceeds of their shares after the market's oracle has resolved it.  This
directory models the contracts and the deployer in TLA+, checks them with TLC on
small instances and proves the main invariants with TLAPS for all instances.

## 1. The system

| Part | State | Operations | Calls and is called by |
|---|---|---|---|
| `Market` | creation parameters, share tokens, mailbox, `resolutionTime`, `payoutNumerators`, `invalid` | `initialize`, `approveSpenders`, `resolve`, `assertBalances` | created by `MarketFactory`; holds the escrow in the denomination token; asks `Controller` for time and stop |
| `CompleteSets` | reentrancy lock | buy and sell complete sets | takes tokens through `AugurLite.trustedTransfer`, pays with the market's approval, mints and burns shares |
| `ClaimTradingProceeds` | reentrancy lock | claim, by anyone for any holder | loops over the outcomes: burn, log, pay holder, pay mailbox |
| `Mailbox` | owner | withdraw any token, transfer | collects the market creator's fees |
| `BEP20`, `ShareToken` | balances, allowances, supply | transfer, approve, mint, burn | SafeMath reverts instead of wrapping |
| `Controller`, `Controlled` | owner, whitelist, registry, `stopped` | administration, `emergencyStop` | asked by every other contract at every call |
| `AugurLite` | known universes | `createUniverse`, `trustedTransfer`, logging | its logs check who calls and revert otherwise |
| `Universe` | its markets, its token | create markets of three kinds | asked by `MarketValidator` |
| factories, `Delegator` | none, or a name to look up | create universes, markets, mailboxes, share tokens | public: anyone may call them |
| `Time`, `TimeControlled` | none, or a timestamp | read, set | registered as `Time` |
| `TestNetDenominationToken` | its tokens and its ether | deposit, withdraw, faucet, BEP20 | the denomination token of every deployment that is not production |
| `AccountManager`, `Connector`, `Contract.remoteCall` | the cached nonce | estimate, take a nonce, send, poll the receipt | used concurrently by all tasks of the deployer |
| `ContractDeployer` | addresses of the uploads | `deploy` | the contracts above, through the node |
| `deployContracts`, `deployNetworks`, configurations | `addresses.json`, `upload-block-numbers.json` | deploy to one network, or to a list | `ContractDeployer`, once per network |
| `ContractCompiler` | `contracts.json`, `abi.json` | compile, or answer from the cache | run by `compileContracts`, the generator and `compileAndDeploy`; spawns flatteners and `solc` |
| `ContractInterfaceGenerator` | `ContractInterfaces.ts` | generate a class per contract | `ContractCompiler`; the deployer calls the contracts through the classes |

What is hard about it:

- *Sequences of calls.* Every contract call is a transaction and atomic, but users
  call in every order, and one escrow serves sales and claims, of shares that were
  passed on, before and after a resolution that may be *invalid* and then pays
  floors that do not add up to what the sets cost.
- *Arithmetic at its limits*: rounding of fees and of invalid payouts, allowances
  that run down, checked additions that could block somebody's claim.
- *The emergency stop*, which cannot be lifted and has to end trading and creation in
  every state, although some functions do not ask for it, and the accounts on the
  Controller's *whitelist*, which may call those.
- *Asynchrony in the deployer*: dozens of concurrent tasks that share one nonce
  counter across an `await`, requests that fail, transactions that are lost after
  they took a nonce, a promise that nothing awaits, and a process that exits.
- *Files as shared state.*  The build is a sequence of processes that decide by the
  times of files what is current, and deployments to several networks replace their
  entry of two files they share.  Processes are killed, overlap, and a developer
  changes the sources beside them.

`PROJECT.json` lists the hazards at their lines with the properties aimed at them.

## 2. Modules

| Module | Models | Proofs |
|---|---|---|
| `BEP20Ops` | a token's `_transfer` and its SafeMath conditions | `BEP20Proofs` |
| `MarketRules` | the parameters of `Market.initialize`, fee and resolution arithmetic | `MarketTradingProofs` |
| `MarketTrading` | one market with its tokens, mailbox and the two trading contracts | `MarketTradingProofs` |
| `MarketWhitelist` | a market beside accounts on the whitelist, which call what has no stop check | `MarketTradingProofs` |
| `ClaimLoop` | the claim as the loop of the code, to compare with the closed form | `MarketTradingProofs` |
| `Vault`, `MarketVault` | what a market promises, and the mapping of `MarketTrading` to it | `MarketTradingProofs` |
| `Protocol` | Controller, AugurLite, universes, markets, factories, validator | `ProtocolProofs` |
| `AccountManager` | concurrent transactions of the deployer and their nonces | `AccountManagerProofs` |
| `Deployment` | `ContractDeployer.deploy` and the effect of its transactions | `DeploymentProofs` |
| `DenominationToken` | `TestNetDenominationToken` with the BEP20 interface it inherits | `TokenProofs` |
| `DeployNetworks` | processes that deploy to lists of networks and publish in shared files | `DeployNetworksProofs` |
| `Interfaces` | what the compiler keeps, and the classes that are generated from it | `BuildProofs` |
| `Build` | the scripts of the build over the files, with crashes and edits | `BuildProofs` |
| `MC*` | constants of the instances that TLC checks | |

Operators that a comment introduces as a *fault to check against* are no part of
the specifications.  Each is a plausible slip in the operator next to it, listed
under `mutants` in `PROJECT.json`; with it, TLC finds the named property violated.

### The market (`MarketTrading`)

One action is one public call with every call it makes; a call that reverts is not
a step.  `Buy`, `Sell`, `Claim`, `Resolve`, `ApproveSpenders`, `EmergencyStop`,
`TransferMailbox` are the functions of that name; `WithdrawCash` and
`WithdrawShares` are `Mailbox.withdrawTokens`; `TransferCash` and `TransferShares`
are transfers by users, to each other, to the market and to the mailbox
(`transferFrom` by a third party has the same effect on balances).  `NextBlock`
lets time pass; calls of one block share its timestamp, which matters because a
claim needs a *later* timestamp than the resolution.  With `controlledTime` it is
`SetTimestamp` that changes the time, back and forth: the owner of
`TimeControlled` needs no reason, and a claim that was open may close again.

Decisions worth knowing when reading it next to the code:

- `assertBalances()` ends a buy, a sale and a claim in the code.  Here it is not a
  guard: that it never fails is the invariant `Solvent`, which is proved.
- `Claim` is the sum of what the loop over the outcomes does.  `ClaimLoop` runs the
  loop iteration by iteration with the checks in the order of the code;
  `ClaimSucceedsLikeLoop` says that both succeed in the same states,
  `ClaimEndsLikeLoop` that they end in the same one, with balances up to the largest
  `uint256`.  Both are checked in the run `market_liveness` and proved.
- `CanSell` and `CanClaim` are all that a sale and a claim require; `Sell` and
  `Claim` are these guards and their updates.  That a call is not blocked is stated
  with its guard, and so can be proved.  `CanStop` (`Protocol`) and `CanWithdraw`
  (`DenominationToken`) serve the same purpose.
- The log of a claim computes holder balance + payment with SafeMath
  (`ClaimTradingProceeds.sol:54`).  For all holders but the market itself the
  transfer that follows checks the same sum.  `LoggedBalanceFits` covers the
  exception, which is why `ClaimNeverBlocked` leaves the market out as a holder: it
  can hold shares that were sent to it, and a claim for them pays it from its own
  escrow.
- A sale pays the fee before the seller and a claim after the holder; the balances
  do not depend on it, so both use `PaidOut`.
- The trading contracts are whitelisted and registered, and nobody else uses the
  whitelist; `Protocol` and `Deployment` are about the first, the next section about
  the second.  The denomination token is a plain BEP20 of this repository with a
  fixed supply; `DenominationToken` is about the one that has ether and a faucet.
- Left out: events, the market's ether (`withdrawInEmergency`) and ownership, which
  serves nothing else; the reentrancy locks, which are closed again within the
  transaction and can only be hit by a token that calls back.

### The accounts on the whitelist (`MarketWhitelist`)

`Controller.sol:30` puts the deployer's account on the whitelist, a deployment leaves
it there, and the owner may add any other.  Such an account can call
`buyCompleteSets` and `sellCompleteSets` for anybody, `createShares` and
`destroyShares` of every share token, and `AugurLite.trustedTransfer`: what the public
functions call after their checks.  None of these asks whether the contracts are
stopped; only `publicBuyCompleteSets`, `publicSellCompleteSets`,
`claimTradingProceeds`, `resolve` and `approveSpenders` do.  `MarketTrading` has the
public functions alone, and its results (`Solvent`, `SuppliesEqualUntilResolved`,
`SellNeverBlocked`, `ClaimNeverBlocked`, `ImplementsVault`, `BurntSharesArePaid`, the
agreement of claim and loop, `HoldersAreSettled`) hold **only as long as nobody
uses the whitelist this way**: shares minted for nothing make a market insolvent.
`MarketWhitelist` adds the whitelisted calls.  There `assertBalances()` is a guard,
which may fail, and the claim is the loop of `ClaimLoop` itself.  What is stated in
this larger system is what survives: `Conservation`, `ResolutionIsFinal`, and
`StopFreezesMarket`.  The last one says what a stop ends for everybody else, and that
whitelisted accounts take out of the market only the price of complete sets they burn
(their own or others'), as long as the approval to `CompleteSets` lasts, which nobody
can renew.  `Conservation` is proved for `MarketTrading` and checked here.

### The token of the test networks (`DenominationToken`)

One action per public function.  A constructor writes the storage of the contract
it is part of, not that of a `Delegator`, so behind its delegator the token has no
owner and `mint`, `renounceOwnership` and `transferOwnership` revert for everyone;
they are no actions.  `withdrawEtherInternal` is public in the code: anyone may
turn anyone's tokens into ether for anyone, and bring ether of their own.  That is
modelled as it is; what the token still keeps is that ether leaves it only against
burnt tokens, so `EtherBalance` accounts for every token by ether and by the faucet.
Three histories (`grants`, `given`, `presented`) state it.  Ether that is forced
into the token by other means only adds to the left side and is left out.

### The contracts behind it (`Protocol`)

Controller administration, universes created through AugurLite
(`createUniverse`) or directly through the public factory
(`createUnknownUniverse`), markets created through a universe (`createMarket`) or
directly (`createStrayMarket`), and the stop.  A `Delegator` needs its names in the
registry at every call: `Registered`.  The names are two sets, those a universe
needs and those a market needs.  `marketIsLegit` is `MarketValidator`'s check.

The factories take `_controller` from the caller.  What is created under another one
is `foreign`: it asks that controller for its code at every call and may answer
anything, another thing each time (`ForeignUniverse`, `ForeignMarket`), a stop of the
real Controller does not reach it, and a market under the Controller may name a
foreign universe.  The properties say what of this gets near the real markets: a
foreign universe is never known to AugurLite, and no market becomes legitimate
through one.  A foreign controller can also call `setController` of what it created;
that is one more way to answer anything.

The owner's powers are as wide as the code has them.  `transferOwnership` accepts any
address; once the owner is the address 0 or a contract that cannot call, nobody can
stop, register or hand on any more.  The run reaches that, and no property denies it:
`OwnerCanStop` is about owners who can call.  `removeFromWhitelist` of `CompleteSets`
or `ClaimTradingProceeds` ends buying, selling or claiming for everyone, since the
share tokens and `trustedTransfer` refuse a caller that is not listed: `Tradable` has
the whitelist, and `LegitMarketsStay` says that this and the stop are the only calls
that end it.

### Nonces (`AccountManager`)

Every call runs estimate, `getNonce`, signing, `sendRawTransaction` and the polling of
the receipt, with an interleaving point at each `await`.  `getNonce` reads the cache,
and while there is none asks the node and looks at the cache again after the answer.
Requests overtake each other, fail before or after the nonce is taken or while the
receipt is polled for, and the node mines transactions in the order of nonces.  Fetched
counts are those of the blocks mined so far: nobody else uses the account.

### The deployer (`Deployment`)

`stage` is what `deploy()` awaits; each stage starts a set of tasks, a task sends the
transactions of its `Plan` one after another, and `pool` holds what is unmined in nonce
order (what `AccountManager` establishes).  `Accepts` says what the contracts require of
a transaction, at its estimate and again when it is mined; `Execute` what it changes.
`resolveAll` awaits all its promises before it throws the first error, except in
`initializeAllContracts`, which does not await it, so the tasks of stage `init` run on
beside the later stages.  A failed request makes its task throw: a read, an estimate, or
a poll for the receipt of a transaction that is mined all the same (`RequestFails`).
Between nonce and node it leaves a `Gap`, behind which nothing is mined any more
(`SendFails`).  The requests `deploy` makes itself are `DeployFails`: the block number
before it starts, `owner_` of the Controller, `getTypeName_` of the new universe,
`net_version` before each of the two files.  An unhandled rejection does not end the
process (Node's behaviour at the version the README asks for).  The deployer owns the
Controller; the code throws at once otherwise.  Whether it runs on real or controlled
time (`useNormalTime`) is chosen at the start, from `TimeModes`.

### Several networks (`DeployNetworks`)

A process has a list of networks: `deployNetworks` the one on its command line,
`deployContracts` the default.  `Start` makes all network configurations, up front;
`Configure` the deployer's, when it is the network's turn.  `Upload` is all of
`deploy()` before the genesis universe, which `Deployment` has in detail, as one
step that succeeds; `Stops` is every failure after which `deployToNetwork` throws,
and a kill.  The genesis universe is an `eth_call` for the address (`Predict`), the
transaction (`Create`) and a look at the address (`Check`); the factory numbers its
universes, and others may create one in between.  The two files are then read,
truncated and written in steps of their own, by any number of processes.  Networks
on one node have one net id and thus one entry.

Three histories say what happened to the files: `overlapped` (two processes were at
them at once), `interrupted` (one stopped between its two writes) and `lost` (one was
stopped while it wrote `addresses.json`).  `published` is what each network's last
finished deployment wrote.  `EntriesStay` compares the file itself with it: while
processes take turns, the file has all entries, except that it is torn while it is
written and stays so after `lost`, *the entries of all networks gone*.  The code
does that, and every later process then throws when it parses the file, after it sent
all its transactions.  Overlapping processes can drop each other's entries, and a
universe that others create between `Predict` and `Create` is published in place of
the deployer's own; the model reaches both, and no property denies them.

### The build (`Interfaces`, `Build`)

`Interfaces` has the pure part: a compiler output is a function from files to the
contracts found in the flattened file; `Kept` are those that are written out,
`Contracts` the deployer's map, `Classes` the TypeScript that is generated.  A
function is its name, whether it is constant, and the types of its parameters.

`Build` runs scripts, which are sequences of programs joined by `&&`: the whole
build, its last program alone, and `compileAndDeploy`.  `pc` names the next step of
the running program, from `Stat` of the cached output to the last write.  The
sources change in any state (`Edit`, `Remove`); a file's time is the clock when it
was last written, or an earlier one if it was moved or copied in with the time it
had; several things can happen in one tick.  `Crash` kills the
script in any state, and `FlattenKilled` a flattener, whose `null` exit code passes
for success.  Histories say what the cache cannot know: sources `changed` since they
were read, and whether the last output was `misled` by that.

The model describes these limits of the cache as they are.  What holds is stated
with them: `CompiledIsCurrent` excepts removed sources, sources changed under a
compilation, sources put in place with a time before the output's, and killed
flatteners; `AbiInStep` excepts a crash between the two outputs;
`DeployerKnowsItsContracts` needs two builds, since `tsc` runs before the generator.

`tsc` emits JavaScript also for broken files (`noEmitOnError` is not set) and then
fails.  Of its errors the model derives two: a class with two methods of one name and
a class before its base.  For any other reason it may fail at any time, since types
are not modelled: those of the deployer against the generated classes, of overriding
methods against those of `Controlled`, and the names of a method's parameters against
`options` and `abi`, which the template declares itself.  A generated name is the
function's, or the function's with `_` behind it (`LocalName`), and so a function `f`
beside a function `f_` that is not constant gives two methods `f_`.
`GeneratedClashes` says that there is no other clash.  No contract of the repository
has a function whose name ends in `_`; `MCBuild` has a version of `AugurLite.sol` that
does.

## 3. Runs

| Run | Question | Instance |
|---|---|---|
| `market_one_trader` | the inductive invariant, equal supplies, that neither sales nor claims can be blocked, and the abstract vault | one user, sales and purchases of 1 or 2 sets, six tokens, three ticks over two outcomes, fee 1/2 |
| `market_whitelist` | conservation, finality and stop, on controlled time, beside a whitelisted account | one user who is on the whitelist, two tokens and two ticks (one set), up to two shares, calls about one share or set and gifts of one token |
| `market_liveness` | holders are settled; fair payment; a claim succeeds and ends like its loop | two users who pass shares on, block time, three ticks, under fairness |
| `market_complete_set_worth` | a statement of the documentation that the code does not keep | as `market_one_trader` |
| `token` | ether, supply and allowances | 2 holders, symmetric, with 2 ether each, amounts 1 and 2, 3 the largest integer, 2 tokens from the faucet |
| `protocol` | containers, stop, registry | 2 users, 2 universes, 2 markets, 2 tokens, 2 codes, 1 name of each kind; foreign universes that contain nothing or all markets; symmetric in universes, tokens, codes |
| `nonces` | unique, contiguous nonces; calls settle | 3 concurrent calls, under fairness |
| `deploy_fresh` | no order of answers makes a deployment on real time throw (`DeploySucceedsOnRealTime`); only complete ones are published; every one ends | real or controlled time, chosen at the start; one failed request, two unmined transactions, exit at the end, under fairness |
| `deploy_controlled_time`, `deploy_again` | what the code does not keep of its documentation | each with the configuration in question |
| `networks` | shared files, genesis universes, ends of runs | 2 processes, 4 networks of which 2 share a node and 1 has no key, 4 environments, 2 runs, 1 universe of others, under fairness |
| `build` | cache, outputs, generated code, ends of scripts | 4 source files, 3 scripts in a row, 1 edit (also with an older time) or removal, 1 crash or killed flattener, 2 ticks, under fairness |

Why these bounds show something:

- Three ticks over two outcomes is the smallest market whose invalid resolution
  leaves a tick unassigned.  A fee
  of one half rounds on every odd amount.  `MaxUint` is so small that the guards on
  overflow and on allowances are reached.  One or two complete sets suffice for
  every mix of sold, claimed, passed-on and outstanding shares, and the proofs
  cover all other numbers.
- In `market_whitelist` one user is every caller, whitelisted or not: what a step may
  do depends on the call (`PublicCall` or `WhitelistedCall`), and shares of the user, the
  market and the mailbox are minted, burnt and redeemed.  Two ticks and one share at
  a time make supplies unequal, markets insolvent and approvals used up; the theorems
  `ResolutionFinal` and `StopFreezes` cover all other numbers.
- `MaxTime = 3` with `endTime = 1` leaves a block before the end, one to resolve in
  and one later to claim in, and resolutions too late to be claimed.
- Three concurrent calls allow two to wait for the transaction count while others
  use the cache; the proof covers any number.
- The deployment uploads the contracts that another step needs (both trading
  contracts, `Time`, `Universe`, `UniverseFactory`, the token with its Delegator);
  the others are uploaded and registered in the same way and nothing looks at them.
  Two unmined transactions (`MaxPool`) let a later estimate come before or after an
  earlier transaction is mined; one failure, of any request of any task or of
  `deploy` itself, covers the error paths, each of which ends its task.
- Two holders and a third role (spender, beneficiary) played by either of them give
  every aliasing of the parties of a call; the proofs cover any number.
- Two runs of two processes are one after the other or at once, with at most four
  deployments, so an entry is written, replaced, and read by another process; one
  universe of others comes before, between or after prediction and creation.
- Three scripts are needed for *two builds and a deployment*; the edit and the crash
  fall into any of their steps.  Two ticks tell sources that are older than the
  output, newer, and of the same tick.  `AugurLite.sol` has versions with another
  signature, a type the generator refuses, no bytecode and a warning of `solc`, and
  functions whose generated names clash.

Deadlock is not checked (`CHECK_DEADLOCK FALSE`): a stopped market at the bound on
time, a settled deployment, a set of finished calls and processes at the bound on
runs really have nothing left to do.

Hazards without a property are listed with a note in `PROJECT.json`: where the code
simply does what the hazard says (a wrong universe published, entries lost to another
process, half a file compiled, time set back behind a resolution) and nothing it
promises is broken, an exception in the nearest property names the case.

### Fairness

- `MarketTrading!FairSpec`: blocks are produced (`WF`), anyone may renew the
  approvals and somebody with an interest does (`WF`), and a holder who wants the
  proceeds sends the claim again as long as it could succeed; since sales by others
  can use up the approval in between, that is `SF` on each user's claim.  The
  protocol has no keeper: without these assumptions nobody is owed a payment by the
  passing of time.
- `AccountManager!FairSpec`: the node answers or the request fails, and it mines
  what it can.  Nothing is assumed about success.
- `Deployment!FairSpec`: the node mines, answered tasks go on, and so does
  `deploy()`.  Failures are never owed.
- `DeployNetworks!FairSpec`: each process that runs goes on.
- `Build!FairSpec`: the running program goes on; edits, ticks, crashes and the start
  of a script are never owed.

## 4. Findings

Each is a run that TLC ends with a counterexample; `PROJECT.json` quotes the
statement.

1. `market_complete_set_worth`: a claimed complete set of an invalid market can be
   worth less than one unit.
2. `deploy_again`: a second deployment to a given Controller always throws.
3. `deploy_controlled_time`: on controlled time, a deployment throws if `Time`'s
   `setController` is not mined when the estimate of `setTimestamp` is made.  The
   cause is a missing `await` (`ContractDeployer.ts:423`), which on any time lets the
   addresses be published, and the process exit, before the contracts have their
   controller; what does hold is `InitializedInTheEnd`.

Not a run of its own: in production a deployment with a genesis universe never
succeeds (`HasToken` in `DeployNetworks`, `CanStart` in `Deployment`).
`createGenesisUniverse` has the configured token address commented out
(`ContractDeployer.ts:465`) and asks for `TestNetDenominationToken`, which
production does not upload; `testrpc` and `testmain` count as production
(`NetworkConfiguration.ts:44`, `:50`), so `deployNetworks` needs `PRODUCTION=false` or
`CREATE_GENESIS_UNIVERSE=false` for them.

The model also shows that the market's approvals of its spenders run down with
use, since `BEP20.transferFrom` decrements an unlimited allowance too; that takes
amounts near 2^256, and `approveSpenders` renews them.  `SellNeverBlocked`,
`ClaimNeverBlocked` and the fairness of `market_liveness` say where it matters.

## 5. Proofs

`tlapm` checks every proof to its leaves.

**Solvency** (`MarketTradingProofs!AlwaysSolvent`), for any users, ticks, fee,
balances and 2 to 8 outcomes.  `Solvent` is not inductive.  After an invalid
resolution claims pay floors, while a complete set can still be *sold* for all its
`numTicks`; knowing only that the market covers the numerators, a sale could make
it insolvent.  The strengthening `Backed` says that for some outcome `o` the market
holds the worth of all shares plus the `Unassigned` ticks for each share of `o`: at
most as many complete sets can ever be put together as there are shares of the
scarcest outcome, and one outcome is enough to bound that.  Before a resolution all
ticks are unassigned and supplies are equal (`SuppliesEqualUntilResolved`), so that
`Backed` is `supply * numTicks`; the resolution moves ticks from unassigned to
assigned, and `MarketTradingProofs!ResolutionWithinNumTicks` (an accepted report
assigns at most `numTicks`) makes that step.  `IInv` is the conjunction;
`Inductive` proves it with a lemma per action, `TypeCorrect` that no SafeMath
condition is missing.  The sum over outcomes is written out for eight of them
(`MAX_OUTCOMES`), so that its arithmetic needs no induction.

**The vault** (`MarketTradingProofs!MarketImplementsVault`): every step of
`MarketTrading` is a step of `Vault` or a stutter, under the mapping of
`MarketVault`.  The proof needs `IInv` (a sale redeems `numTicks` a set because the
assigned and the unassigned ticks add up to that) and how `Liability` moves with
each call.  After a claim in an invalid market the scarcest outcome may have become
scarcer, so a claim lowers the liability by *at least* the worth of its shares.

**Single calls** (`MarketTradingProofs`): `BurntSharesPaid` is proved by a lemma about a
step from a state with `IInv`.  `ResolutionFinal` and `StopFreezes` are theorems of
`WhitelistedSpec`, for any accounts on the whitelist, and rest on `TypeOK` alone
(`WhitelistedTypeCorrect`), as `IInv` does not hold there.  `CallsOfNext` sorts the
steps into the calls that move shares and the `QuietCall`s, which move tokens between
accounts and leave the market no poorer. `BurntSharesPaid` is where the rounding of the
two fees is worked out (`FeeBound`, `FeesBound`): the fee of a claim is rounded outcome
by outcome.

**Conservation** (`MarketTradingProofs!Conserved`), for any finite set of users.
`Conservation` sums over the accounts, with a fold.  `BEP20Proofs` has what
that takes, for any finite set of accounts: `TotalUnfolds` (the fold over a set is a
member and the fold over the rest), `TotalRemove` (whichever member is taken),
`TotalUpdate` (the sum follows the change of one summand), `WithinTotal` (no two
accounts together hold more than the sum).  These are inductions; the induction is
made by hand, from the set of counterexamples and its least element (`LeastNat`,
`InductionOnSubsets`), because the prover cannot instantiate the library's induction
rules.  Then each call is a few changes of one or two balances that cancel
(`MovedKeepsTotal`, `PaidOutKeepsTotal`) or that change the supply by as much
(`SharesConservedAfter`).

**Nobody is blocked** (`SalesGoThrough`, `ClaimsGoThrough`).  In the state of a sale or
a claim each check could fail: the escrow could be short, a payment overflow the
recipient's balance, a burn exceed the supply, a product leave `uint256`.  The proofs
go from `IInv` together with both conservation laws (`Accounted`).
`CashWithinSupply`: two accounts together hold at most the supply of tokens, which is
a `uint256` (`InitialSupply`), so no payment between accounts overflows.
`SharesWithinSupply`: nobody holds more shares than the supply, so no burn fails.
`SetsCovered`: the escrow covers `n` complete sets at `numTicks` each, whenever there
are `n` shares of every outcome, also after an invalid resolution; it is `Backed` that
gives this.  `ProceedsCovered`: it covers what all shares of a holder are worth.
`EnoughToPayOut` puts them together.  What is left is the market's own approval, which
is a hypothesis of both properties.

**The loop of a claim** (`ClaimSucceedsAsLoop`, `ClaimEndsAsLoop`).  The closed form of
`Claim` is what all other results about claims rest on; the code runs a loop in which
each iteration burns, checks and pays on what the earlier ones left.  `After(h, k)` is
the state after `k` iterations, by partial sums (`Upto`); `AfterStep` shows that an
iteration takes it one further, and `LoopIsAfter` that the loop's recursion has no
other solution, by induction on the iterations.  `IterationPasses` then shows that in
a state with `IInv` and conserved tokens no iteration reverts if the allowance covers
the whole claim and, for the market itself, `LoggedBalanceFits`; `LoopUsesAllowance`
and `LoopChecksLog` are the converse.

**Nonces** (`AccountManagerProofs`): `NonceInvariant`: the cache is the greatest nonce
given, all nonces are different, and every count still in flight is answered after
a look at the cache; for any number of calls.  `NoncesAreContiguous` adds that no
nonce is left out, with `ContiguousInv`: every nonce from the first one up to the
cached one belongs to a call, the transactions not mined yet are among those, and
while the cache is empty nothing was mined, so that every count on its way is still
the first nonce.

**Containers** (`ProtocolProofs`), whatever is created under other controllers and
however it answers: `ProtocolInvariant`; `MarketsStayLegit` (a legitimate market stays
one and keeps token and code, and only a stop or a removal from the whitelist ends its
trading); `StopIsEffective` (after a stop nothing is created under the Controller, and
no market becomes legitimate); and `StopPossible`: the owner's stop writes a log
through AugurLite first, which reverts unless AugurLite is registered and has the
Controller as its controller; a legitimate market cannot be there without both, and
neither is ever undone, so a user who owns the Controller can stop.  What all of them
rest on is that the containers of universes under the Controller are written by
`createMarket` alone and that AugurLite knows no foreign universe
(`ContainedMarketsAreKnown`).

**The denomination token** (`TokenProofs`): `TokenInvariant`, which is inductive: the
types, the equation between ether, supply and the histories, the bound on allowances,
and that the balances add up to the supply.  The last one is what `Honoured` takes: a
holder's balance is at most the supply, thus at most the ether as long as the faucet
was not used, so a withdrawal of all of it meets no check that fails.
`EtherForTokens` is about single calls.

**A deployment** (`DeploymentProofs`), for any set of contracts, any bound on the pool
and any number of failures, of receipt polls too.  The invariant `Deployment!IInv` says
three things.  `Progress`: a task is done when all its transactions were mined.
`InOrder`: no task of a later stage starts before those of the awaited stages are done;
the stage `init` is not among them, which is the missing `await`.  `ChainIsSent`:
registry, controllers, whitelist and universe are functions of how many transactions of
each task were mined, which holds because no two tasks send a transaction for the same
name (`TransactionOf`).  From it follow `OpenedLate` (nothing is opened to traders
before the registry is complete), `CompleteWhenPublished` and, with `NothingThrows`,
`FirstDeploymentSucceeds`: the next transaction of every task is one that the contracts
accept (`NextIsAccepted`), now and when it is mined.  That theorem assumes a Controller
of its own and `UniverseHasItsContracts`; without either the deployment throws (findings
2 and the remark on production).  The property is about deployments on real time: with
controlled time the market's stage also calls `setTimestamp`, which needs the controller
of `Time`, set by a task of the stage `init`, for which nothing waits (finding 3).

**Several networks** (`DeployNetworksProofs`), for any processes, networks, requests
and universes of others: `TypeCorrect` with `OwnDeployments` (no two processes publish
the same deployment); `PublishedExists`, whose invariant follows a predicted address
from the `eth_call` (`Foreseen`: only others' universes are at or after it) over the
check to the entry in the file; `FilesInAgreement`, where a process at the files is
one entry ahead of one of them (`OneAhead`); `EntriesKept`, from `OneAtATime`: a
process that takes its turn at the files read what the file holds.

**The build** (`BuildProofs`), for any sources, any changes of them and any number of
scripts, crashes and killed flatteners.  `Build!IInv` follows the running program.
`FilesAreCurrent`: what a compilation has flattened is what the sources are, as long as
`changed` and `cut` say that nothing happened since they were listed.
`CacheIsCurrent`: a whole `contracts.json` that is newer than every source is right
unless `misled`; the write establishes it, because a source changed under the
compilation is either as new as the output or sets `misled`.  From it follow
`CacheIsHonest` and, with `ResultOnDisk`, `ReturnedIsWritten`.  `DeployerIsUpToDate`
needs two builds: `BuildsInStep` says that after the first one the generated code is
that of the sources, and that `tsc` brings it to the JavaScript at the start of the
second; or that the cache was misled and, being newer than every source, is taken for
right for good (`Stuck`), which the property excludes.  `OnlyUnderscoresEverClash` and
the coverage of the classes are lemmas about the operators of `Interfaces`: the
functions that get a method are the first of every name (`OneOfEachName`,
`EveryNameIsKept`), and class 0 is that of `Controlled`.

The proofs assume what the modules' `ASSUME`s state, each of which is a
requirement of the code, the distinctness of addresses or contract names, the width
of the integers (`Width`: the largest one is a natural), that the denomination tokens
in circulation are a `uint256` (`InitialSupply`, as `totalSupply` is), or that users
and holders are finitely many and requests are sequences of names.  TLC evaluates them
in the runs.

Where a property is proved for a smaller system than a run checks it in: `Conserved` is
about `MarketTrading`, the run `market_whitelist` about the larger one.

Model-checked only: all liveness (`HoldersAreSettled`, `DeployEnds`,
`InitializedInTheEnd`, `CallsSettle`, `RunsEnd`, `ScriptsEnd`), which is out of the
prover's reach, and the counterexamples of Section 4.  Every invariant and every
action property of the other runs is stated by a theorem.

## 6. Not modelled

- `Market.withdrawInEmergency` and the ownership that only it uses: a market is not
  sent ether by any contract of the repository.
- Events, names, symbols and the other views of the contracts; `BEP20._burnFrom`,
  which nothing calls; `StandardToken` and `VariableSupplyToken`, which have no users
  left.
- Keys, signing, gas and gas prices, URLs; `Connector.waitUntilConnected`, which only
  the tests call.  The environment variables that move the files of the build:
  `CompilerConfiguration` asks for `OUTPUT_PATH` and reads `OUTPUT_ROOT`.
- The parameters and results of generated methods, beyond the types that the generator
  accepts, and the type errors of `tsc` that come from them; `contracts_flattener`,
  copies that nothing reads.
- `TestFixture` and the tests: clients of the above, read for what they expect.

## 7. Plan

1. Several markets with one denomination token and shared allowances to AugurLite,
   composing `MarketTrading` with `Protocol`.
2. `AccountManager` under `Deployment`, as a refinement of its pool.

# token-extension: a verification project

The repository is a set of Solana programs that show the extensions of the
Token-2022 program at work: transfer fees, frozen default states, memos, CPI
guards, permanent delegates, transfer hooks, mints that can be closed. This
directory holds TLA+ modules that model those programs, the TLC configurations
that check them on small instances, and proofs, checked by TLAPS, of the
properties that hold for every number of wallets, mints and accounts.

## The system

| part | state | operations |
| --- | --- | --- |
| `token_extension` program (`programs/token-extension`) | none of its own | 30 instructions, each a list of checks (Anchor constraints, `require!`) and CPIs |
| `opaque` program (`programs/opaque`) | none | `transfer_sol`: moves SOL with the signature its caller passes on |
| `transfer_hook` program (`programs/transfer-hook`) | one `ExtraAccountMetaList` per mint | `initialize_extra_account_meta_list`; the hook, which Token-2022 reaches through `fallback` |
| Token-2022 (external) | mints and token accounts, with their extensions | what the handlers invoke |
| System, Associated Token Account, Memo (external) | SOL of each address | account creation, SOL transfers; `create_idempotent`; memos |
| clients (`tests/`) | none on chain; the lists of accounts they read | send transactions, some directly to Token-2022; build the list of accounts to gather fees from |

Components interact by cross-program invocation inside one transaction and by
the accounts they share. Transactions of different wallets interleave freely;
one transaction is atomic, a failing CPI undoes the ones before it. A client
works from a snapshot of the chain, and its transaction runs later, or never.

The programs keep no process that could crash. What is hard is the
*sequences* of legal transactions, the checks that the programs leave to
each other, handlers whose calls are only right together, and clients that
overtake each other:

- A fee is first withheld in the receiving account, may be moved to the mint by
  anyone (`harvest_withheld_token`), or be withdrawn by the authority from
  either place. All of it in batches of one to five accounts, from lists that
  were built off chain, may be stale, and may mix mints.
- `filter_sources_account_info` refuses the whole transaction when one account
  lacks the fee extension.
- A mint can be closed while token accounts still name its address, and the
  same keypair can create a mint of another kind there.
- `default_account_state` freezes accounts and no instruction thaws them;
  changing the default later changes no account that exists.
- The CPI guard, required memos and the permanent delegate each add to or take
  from what the owner's signature allows, and accounts get them at different
  times: at creation, by `realloc`, or from the client.
- A hooked mint needs a list account that anyone may create, once, and that
  outlives the mint.
- Rent is paid for slots; `realloc` uses free slots, or buys one.
- `non_transferable_token` makes six calls and `immutable_owner` five, which
  create two accounts; `transfer_token` pays SOL before it moves tokens.
- A mint with metadata is paid for once, for twice its initial length; updates
  and new keys live on that.
- The client that gathers fees lists the accounts that withhold some. When its
  transaction runs another client may have emptied them. It does not split a
  list that is longer than the program accepts.

What makes each component correct: mint creation and closing — nothing is left
under a closed mint, rent returns; account creation — rent matches the slots;
token movement — only those who may debit do, memos and hooks are honoured,
frozen accounts hold nothing; transfer fees — tokens are conserved, fees reach
the withdraw authority only, never overflow, never get stuck; opaque — its toll
is paid with the transfer or not at all; metadata — the mint never owes rent;
the handlers — other wallets see all of their calls or none; the fee clients —
a list does no harm by being stale. Together: the system is a ledger
(`TokenLedger`). Tokens of a mint of `non_transferable_token` should stay where
they are, too, and that does not hold: see the run `non_transferable`.

`PROJECT.json` lists each hazard at its line with the properties that cover it.

## The modules

| module | models | follows |
| --- | --- | --- |
| `Sums` | the sum of a function over a finite set, counted as points under its graph, so that no recursion is needed | — |
| `Token2022` | all state; System and Token-2022 as the handlers use them | external |
| `Opaque` | `TransferSol` | `programs/opaque/src/lib.rs` |
| `TransferHook` | `InitializeExtraAccountMetaList`, `HookAccepts` | `programs/transfer-hook/src/lib.rs` |
| `MintCreation` | the instructions that create, change and close mints | 10 files of `instructions/` |
| `AccountCreation` | token accounts, `create_ata`, `realloc` | `cpi_guard.rs`, `memo_transfer.rs`, `permanent_delegate.rs`, `realloc.rs`, `confidential_transfer.rs` |
| `TokenTransfer` | mint, transfers, burn | `transfer_fee.rs`, `memo_transfer.rs`, `cpi_guard.rs`, `transfer_hook.rs`, `permanent_delegate.rs` |
| `TransferFee` | source filter, withdrawals, harvest | `transfer_fee.rs` |
| `Client` | direct calls of the tests to Token-2022 | `tests/cpiGuard.ts` |
| `TokenExtension` | composition of all the above, `Spec`, the properties | `lib.rs` |
| `TokenLedger` | abstract specification: currencies, holders, fees owed | — |
| `CpiExecution` | the handlers with several calls, one CPI at a time, with commit and rollback | the handlers of `cpi_guard.rs`, `memo_transfer.rs`, `realloc.rs`, `immutable_owner.rs`, `non_transferable_tokens.rs`, and those that create a mint with one extension |
| `CpiInvariant` | what a handler's accounts are after each prefix of its calls | as `CpiExecution` |
| `FeeClient` | clients that list accounts and send the list, which arrives late or never | `tests/utils/index.ts`, `tests/transferFee.ts` |
| `Metadata` | the texts of a mint and the rent for them | `metadata_pointer.rs` |
| `MC*` | restrictions of the next-state relations for TLC | — |
| `SumTheorems`, `TypeProofs`, `SafetyProofs`, `StepProofs`, `RentProofs`, `MetadataProofs`, `CpiProofs`, `FeeClientProofs` | proofs | — |

`CpiExecution`, `FeeClient` and `Metadata` each extend `TokenExtension` with the
variables of their own concern and use its actions or the operators below them.
Each states its specification with all instructions and inputs (`CpiSpec`,
`ClientSpec`, `MetadataSpec`), which the proofs are about; the runs take a part
of it. A step of `ClientSpec` or `MetadataSpec` is by construction an instruction of
`Spec`, or none, so that what is proved of `Spec` holds of them. Two refinements are
more than that:

- `TokenExtension` implements `TokenLedger` (`IsTokenLedger`): a mint is a
  currency, an account a holder, what a mint owes is withheld in its accounts
  and its pool. Creating, closing and creating again a mint, rent, tolls, guards
  and hooks are stuttering steps of the ledger.
- `CpiExecution` implements `TokenExtension` (`HandlersAreAtomic`): the accounts as
  they are between transactions (`Committed`) change as if each handler were one
  step. This is what justifies to model handlers by one action elsewhere.

Both are proved as well as checked.

### State

`mint` and `account` map each address to its record of extensions, or `Absent`.
The `u64` fields that change with movements are variables of their own:
`supply`, `feePool` (withheld in the mint), `amount` and `withheld` (of an
account). `lamports` is SOL per address, in units of one extension slot's rent.
`metaLists` is the set of mints whose hook list exists. `tx` records what the
last transaction carried, its signers and whether it wrote a memo: action
properties speak of it. In the middle of a handler (`CpiExecution`) the memo counts
only if it is the call made right before the transfer (`MemoBefore`): Token-2022
looks at that sibling and no further back.

The hook of a mint is none, the `transfer_hook` program, or another one (`Hooks`):
`initialize_hook_mint` takes any address. Another program is not in the repository,
and accepts what it is given; the properties of hooks speak of `transfer_hook`.
`Lookalikes` are accounts of other programs with the data of a token account, which a
list of fee sources may contain and the filter leaves out.

### Actions

One action per instruction, with the name of the instruction. Its parameters
are the accounts and arguments of the instruction; its guard is every check on
the way — the Anchor constraints, the `require!`s, and the checks of each
program it invokes, because one that fails undoes the transaction; its effect
is that of all the CPIs together. Where a payer and an owner are distinct
accounts of the instruction they are distinct parameters (`p`, `w`).

Abstracted: decimals and data lengths (a wrong one is a refused transaction,
the one that is accepted is the only one; for token accounts the spare length
is `room`; `CpiExecution` has the lengths, and shows that wrong ones are refused
without a trace), interest rates, confidential transfer keys, names of
instructions and logs. An associated token address is the pair of wallet and
mint, and the address of the hook's list the pair of seed and mint: derivation is
injective and gives no address that has a keypair (`OneKindOfAddress`).

Outside the model: wallets do not close or approve token accounts, set
authorities, or thaw accounts by calling Token-2022 on their own. No instruction
of the repository does, but the chain would let them. The properties are thus
about the instructions of the repository and the client calls in `Client`.
Airdrops, which the tests use to fund wallets, are the initial SOL.
Fee epochs are not in the model either: no instruction changes a fee
configuration after the mint is created, so that the older and the newer fee of
Token-2022 are always equal. SOL sent to the address of an account in advance is not modelled:
the opaque program sends to wallets only.

### Variants

Next to a definition there may be a variant of it ("Variant of X: ..."), which
no action uses. It is the definition with a plausible mistake. With the variant
in place of the definition, TLC finds the property that `PROJECT.json` pairs it
with violated: each property is sensitive to a mistake in the code it is about.

## The runs

Each `MC` module restricts `Next` to the instructions that concern a question,
with small sets of inputs. There is one wallet, `Boss`, that creates mints and
pays, and one more, `Alice`; every wallet may sign anything.

| run | question | instance |
| --- | --- | --- |
| `fees` | are tokens conserved, and fees paid to the right account, by every order of transfers and gathering? | 1 mint, 2 associated accounts and 1 more; rates 50 % and 100 %, cap 2, amounts 1 and 3, u64 up to 4; 2 sources; withdraw authority present or not |
| `guard` | who can debit an account, and who can credit it, when guards and memos come and go? do slots stay paid for? | 1 mint, with or without permanent delegate; up to 2 free slots; toll 3 of 12 SOL each |
| `restricted` | do frozen accounts stay empty, and do hooked tokens pass their hook? | 1 mint address, for a closeable mint and, once it is closed, for one with frozen accounts, a hook of this repository or another, a hook extension without program, non transferable tokens or none; 2 associated accounts and 2 more |
| `reuse` | what of the first mint survives when its address is used again? is it all one ledger? | as above; plain closeable, fee and hook mints |
| `two_mints` | can gathering fees of one mint touch another? | 2 mints, groups and members, mixed lists of up to 3 sources |
| `cpi` | do the calls of a handler happen together or not at all? is a right call ever refused half way? | 1 mint, of an extension, or with fees or a hook, 1 account and 2 associated ones; lengths 0, 1, 2, right and wrong; 8 SOL, so that a payer runs out between two calls; transfers refused after the toll is paid, by a guard, a missing memo, a hook or an account that can withhold no fee; compute that runs out at any call |
| `fee_client` | are stale lists accepted, and do they gather all that is there? | 1 fee mint, 2 associated accounts and 1 more; a client of the authority and one of somebody else; lists of up to 2; transfers may go on for ever |
| `metadata` | do texts fit the rent paid for them, whatever is updated? | 1 mint, texts of 0 to 2 units, 2 user keys, mint length 6, so that some updates fit and some do not |
| `guard_extension` | does `initialize_token_account_with` initialise an extension? | as `guard`; a violation is expected |
| `non_transferable` | do tokens of a non transferable mint stay where they are? | as `restricted`; a violation is expected |

The bounds, and why they suffice:

- `MaxU64` 1 to 4 stands for 2^64 - 1. Overflow guards are reached: mint_to
  is refused at the bound in every run. Rates are chosen such that the rounding
  up of an odd amount and the cap both occur with these amounts: half of 1 and
  3 is rounded to 1 and 2, all of 3 is capped to 2.
- `MaxSources` is 5 in the code and 2 or 3 in the runs, with 3 or 4 accounts:
  some lists are too long and gathering takes several transactions. There is one
  look-alike in the runs with lists of any accounts.
- `MaxRoom` 0, or 2 where slots matter: memo and guard compete for them, so
  that `realloc` meets a slot taken, a slot free, and none.
- `InitialLamports` lets the wallets create all accounts, and in `guard` pay the
  toll several times; in `reuse` the payer runs out of SOL through the lists and
  accounts that stay, which is where `CHECK_DEADLOCK FALSE` is for.
- Two wallets: the properties name at most an owner, an authority and a
  stranger, and each wallet is a stranger to the accounts of the other. Symmetry is
  not used: `Boss` is fixed, and temporal properties are checked.

What the runs show. `Conserved` is the ledger's equation; `CreditsFit` says
that no transfer, harvest or withdrawal can fail by overflow. `ClosedMintsHollow`
and `LedgerInv` say that reusing a mint address starts from nothing.
`FeesHarvestable` says that the strict filter never strands fees: what is
withheld always sits in an account with the extension, of a live mint that charges
fees. `FrozenStayEmpty` says that a frozen account is useless but harmless: no
token can be caught in it. `RentPaid` says that each account has the SOL for its slots.
The action properties say who takes part in a step that moves tokens:
`DebitsSigned`, `GuardHolds`, `MemoHonoured`, `FeesGoToAuthority`,
`OneMintAtATime`, `HookGate`.

`cpi` takes handlers apart. `HandlersAreAtomic` would fail if a
handler made one call too few, or left an extension out. `CpiInv` says what the
accounts are in the middle of a handler, so that a call that does something else
than `TokenExtension` says shows at once. `NothingHalfInitialised`
says that no account stays behind that Token-2022 owns and nobody initialised.
`RefusedForCause` says that a refusal has a cause in the accounts before the
transaction, or in the caller's arguments, and never in the order of the
handler's calls: it fails if `initialize_non_transferable_mint` comes after
`initialize_mint2`, or if the memo does not come right before the transfer. What
a program checks of a call is the state predicate `Accepted`; a transaction is
refused when it is false (`Refused`).

`metadata` shows that a mint never needs more rent than it was given, and which SOL
pays for its texts (`TextsPaid`). The rent of what an update cuts off stays with the
mint until it is closed, which a mint with metadata and without close authority
never is. An update cannot always be taken back: no instruction removes a key. It may
leave a text empty, although initialisation refuses empty ones: the code
checks in one place only.

`fee_client` shows that stale lists do no harm: the filter skips accounts that
were emptied, so that a list of one to `MaxSources` accounts is accepted
whenever it arrives (`StaleListsAccepted`, for the reasons in `ListsStayValid`),
and that the transaction gathers all of it (`ListsGatheredInFull`), fees withheld
after the list was made included. `ListAccepted` names the checks of the program
and of Token-2022. The client never splits a list, so that while more than
`MaxSources` accounts withhold fees at once no list of it is accepted; the run has
such lists. That fees are gathered at all is nowhere promised: see Fairness.

`FeesGoToAuthority` includes the case of a fee mint that was created without a
withdraw authority, which `transfer_fee_config` accepts: its fees never come out.
Nothing in the repository says they should.

`guard_extension` records a disagreement of a comment with the code: `lib.rs:152` says that
`initialize_token_account_with` initialises an account "with CPI Guard or
Immutable Owner or Required Memo on Transfer"; the handler only creates the
account and leaves room for an extension, which the client then has to add.

`non_transferable` records another. `lib.rs:98` says of `non_transferable_token` "Create a
token which can't be transferred". What Token-2022 refuses is a transfer from an
account that bears `NonTransferableAccount`, and an account gets that mark when it is
opened, from the mint it is opened for. `NonTransferableStay` says that tokens of a
live non transferable mint leave an account by burning only. The run violates it:

1. `mint_close_authority` creates a mint, and `create_ata` opens an associated account
   for it;
2. `close_mint_account` closes the mint, of which nothing was issued;
3. `non_transferable_token` creates a mint with the same keypair, and an account;
4. tokens are minted to the old associated account, which Token-2022 accepts because
   its owner is immutable;
5. `transfer_to` moves them to the account of step 3, or to any other.

It takes the keypair and the close authority of the first mint, so the wallet that does
it is the one that issues the tokens; but a holder cannot tell from the mint alone that
every account of it keeps its tokens.

### Fairness

None is assumed. Each instruction is the choice of a wallet, and nothing in the
programs obliges one to act. Nor does anything in the clients: each test sends each
transaction once, and `sendAndConfirmTransaction` (`tests/utils/index.ts`) throws when
it is not confirmed. So all properties say what may never happen; none says that fees
are gathered in the end.

## The proofs

The theorems are about the specifications with every instruction and every
input: `Spec` of `TokenExtension`, and `MetadataSpec`, `CpiSpec` and `ClientSpec`,
which extend it. The constants are arbitrary, under the assumptions that the
modules name, all of which TLC evaluates in the runs:

- finitely many addresses (`FinitelyManyAddresses`) of distinct kinds
  (`OneKindOfAddress`), and natural bounds (`BoundsAreNatural`, `TollIsNatural`,
  `SourcesAreBounded`, `LengthsAreNatural`, `MetadataMintLenIsPositive`);
- the values that stand for nothing are nothing: `Absent` is no record
  (`AbsentIsNoState`) and no text (`AbsentIsNoText`), `Idle` is no call
  (`IdleIsNoCall`), an account that was created is not `Absent` either before it is
  initialised (`RawIsNotAbsent`), and nobody has the key `NoOne`, by which an authority that was
  not set is written (`NoOneSigns`);
- the spare length of an account is within the bound on it (`LengthsFitRooms`);
- of `FeeClient`: its mint and wallet exist (`FeeMintIsAMint`), and a client
  withdraws or harvests (`OneJobEach`).

| theorem | module | statement |
| --- | --- | --- |
| `TypeCorrect` | `TypeProofs` | `Spec => []TypeOK` |
| `LedgerInvariant` | `SafetyProofs` | `Spec => []LedgerInv` |
| `SupplyConserved`, `ClosedHollow`, `FrozenEmpty` | `SafetyProofs` | `Spec => []Conserved`, `[]ClosedMintsHollow`, `[]FrozenStayEmpty` |
| `CreditsAlwaysFit` | `SafetyProofs` | `Spec => []CreditsFit` |
| `ImplementsLedger` | `StepProofs` | `Spec => IsTokenLedger` |
| `DebitsAreSigned`, `GuardAlwaysHolds`, `MemoAlwaysHonoured` | `StepProofs` | `Spec =>` the action property |
| `FeesAlwaysGoToAuthority`, `AlwaysOneMintAtATime`, `HookAlwaysGates` | `StepProofs` | `Spec =>` the action property |
| `FeesAlwaysHarvestable` | `StepProofs` | `Spec => []FeesHarvestable` |
| `RentAlwaysPaid` | `RentProofs` | `Spec => []RentPaid` |
| `TextsAlwaysPaid` | `MetadataProofs` | `MetadataSpec => []TextsPaid` |
| `CpiInvariantHolds`, `NeverHalfInitialised` | `CpiProofs` | `CpiSpec => []CpiInv`, `[]NothingHalfInitialised` |
| `HandlersAlwaysAtomic` | `CpiProofs` | `CpiSpec => HandlersAreAtomic`, the refinement of `TokenExtension` |
| `LedgersUnderway` | `CpiProofs` | `CpiSpec => [](LedgerInv /\ Committed!LedgerInv)` |
| `RefusedAlwaysForCause` | `CpiProofs` | `CpiSpec => RefusedForCause` |
| `ListsAlwaysValid` | `FeeClientProofs` | `ClientSpec => []ListsStayValid` |
| `StaleListsAlwaysAccepted` | `FeeClientProofs` | `ClientSpec => []StaleListsAccepted` |
| `ListsAlwaysGatheredInFull` | `FeeClientProofs` | `ClientSpec => ListsGatheredInFull` |

*Types.* `TypeProofs` goes through the operations one lemma each. A credit stays
a u64 because the action's guard says so.

*The ledger.* `Conserved` is not inductive by itself. An account that is opened
joins the accounts of its mint, so it has to be empty before (`UnopenedEmpty`);
a mint that is created starts with supply 0, so the accounts that still name
its address must be empty (`ClosedMintsHollow`); closing gives that, from
supply 0 and conservation. `FrozenStayEmpty` needs that an account is opened
empty. `LedgerInv` is the conjunction. Its proof does not walk through the
instructions: `SafetyProofs` sorts them into steps that leave the ledger alone
(`Quiet`: accounts may open, mints may open and close, amounts stay) and steps that
move the tokens of one mint by one of the six primitives of `Token2022` (`Moves(m)`), shows
that each instruction is one or the other, and that both keep `LedgerInv`. It
starts with the lemma of conservation for each primitive. `SumTheorems`
has the facts on sums: how a sum changes when the function changes in one or two points, when the
set grows by a point of value 0, and that two points are at most the sum.

*Overflow.* `CreditsFit` follows from `LedgerInv`: the parts are bounded by
their sums, the sums together are the supply, and the supply is a u64 by `TypeOK`.

*The abstract ledger.* `StepProofs` sorts every step once more: it is `Quiet`, or the
effect of one primitive on one mint (`StepKinds`, `Effect`). A quiet step may open
one account, which is `TakeCurrency`, or stutters. The ledger needs
that holder to be empty, which is `UnopenedEmpty`, and needs closed mints to owe
nothing, which is `ClosedMintsHollow`: hence the refinement is proved under
`LedgerInv`. A harvest moves fees from the accounts to the pool and leaves what is
owed, by the sum lemmas.

*Access.* For each primitive, an account that is debited satisfies `MayDebit` for
a signer (`DebitsAllowed`), and a credit from another account had the memo
(`MemosGiven`).

*Fees and hooks.* `StepKinds` serves again. Of the effects only the two
withdrawals lessen what is owed, by what the authority's account gains; each
effect touches one mint; a transfer of a hooked mint comes from
`TransferHookToken`, the others fail in `AcceptsHook`. `FeesHarvestable` is inductive
together with `LedgerInv`: a fee is put only where `feeExt` is, by a mint with
fees, and that mint cannot be closed before the fee is gone.

*Rent.* `RentPaid` is inductive with the types. `RentProofs` takes the instructions
one by one: those that create accounts pay for their slots, those that send SOL send
it from wallets, and closing a mint leaves no account. The lemma behind `realloc` and
the guard is that a flag set in a free slot leaves the number of slots as it is, and
without one adds one (`FlagTakesSlot`).

*Metadata.* That the rent suffices says nothing of why the SOL is there, and is not
inductive. `TextsPaid` is: the mint still holds exactly what it was created with.
The lemmas at the end of `RentProofs` (`MintsKept`) go through all the other
instructions: a live mint keeps its SOL, its metadata pointer and its close
authority, unless its close authority closes it; a mint with metadata has none,
and no wallet signs as `NoOne`.

*Handlers, call by call.* `CpiInv` gives, for each handler and each number `k` of
calls made, the working accounts as a function of the accounts before
(`saved`), of the arguments and of the set of calls made (`Done`). One lemma per
kind of call shows that it takes `Underway(k)` to `Underway(k + 1)`; that the
calls come in the right order is not part of the invariant but follows from
what the called programs accept (`InOrder`). After the last call the accounts are
those that the action of `TokenExtension` describes (one lemma per handler), so
that `Commit` is a step of it; the calls, `Rollback` and the start of a handler
are stuttering steps, because others see `saved`. Between two transactions the
instance and the module have the same state, and the remaining lemmas say of each
instruction that its action is the same in both.

*The ledger between two calls.* `LedgerInv` holds of what others see, because
that is a state of `TokenExtension`; it also holds of the accounts a handler works
on, after any of its calls (`LedgersUnderway`). Each call but the transfer is a
quiet step, and the transfer is the primitive of `Token2022`, so that the lemmas of
`SafetyProofs` apply to them as they are; `Rollback` goes back to a state where
it held.

*Refusals.* `RefusedAlwaysForCause` goes through the turns of each handler. `CpiInv`
says which calls were made, hence which one is next, and what the accounts are at
that moment; from `RightCall`, which speaks of the accounts before the transaction, one
lemma per kind of call derives that the call is `Accepted`. The memo extension finds
the slot that `initialize_account3` left free, the rent of the second account
is there after the first was paid, and an account that the transaction opens is
what its mint, created two calls before, makes it. For a transfer the sums have
to fit: no fee is more than the amount (`FeeAtMost`), and that the receiver is not
too full is conservation again, which is why the ledger between two calls comes
first.

*Clients.* A client's step is an instruction or leaves the chain alone, so that the
invariants of `Spec` hold. The lists stay good by an
invariant about all accounts on them: they are open, of the fee mint, with the
fee extension, and the mint is live with fees. A scan establishes it by
`FeesHarvestable`. It stays: accounts keep mint and extensions, and a mint with
fees is never closed, because it was created without a close authority
(`LastingMints`, from `MintsKept`). That the sums fit is conservation: what
a list withholds is part of the supply, next to the pool and to any balance.
Nor can the account that fees go to become useless. It is not frozen, since a
frozen account names a mint that freezes accounts, which has no close authority
either and so never makes room for a mint with fees (`FrozenWithoutFees`); and it
is one of the fee mint, since the associated address is only ever opened for the mint
in it (`AtaMints`). With that, every check in `ListAccepted` passes
(`StaleListsAlwaysAccepted`).

Model-checked only:

- the two violations, which are behaviours and not theorems;
- that the texts and their lengths are those of Token-2022, and all else that is
  external: see below.

What the proofs take for granted is the model: in particular the behaviour of Token-2022 is an
external component, written from how the handlers use it. The theorems say that
the instructions of this repository, in any order, use it such that the
properties hold.

## Not modelled

- `amount_to_ui_amount`: a view of compound interest over floating point time; it
  changes no state.
- Errors, constants, module index, deployment scripts: no behaviour.
- Multisig owners, delegates approved by an owner, confidential balances: no
  instruction of the repository uses them.
- Several instructions in one transaction. `tests/cpiGuard.ts` and
  `tests/transferFee.ts` send two together; every such transaction is two steps
  of the model that nothing comes between.
- SOL sent to an address before its account is created, airdrops, transaction fees.
- In `CpiExecution`: the handlers that create mints with fees, hooks, pointers or
  confidential transfers (they have the same three calls as those modelled),
  and `transfer_hook_token`, whose nested call of the hook changes nothing.
- The computation that resolves the hook's extra accounts, beyond which accounts
  are accepted.

## Plan

Done, in this order: `Token2022`, `TransferFee`, `MintCreation`,
`AccountCreation`, `TokenTransfer`, `TransferHook`, `Opaque`, `TokenExtension`;
types, ledger and access proved; `CpiExecution`, `FeeClient`, `Metadata`,
`TokenLedger`; the refinement of the ledger, fees, hooks and rent proved; the
refinement by `CpiExecution` and the lists of `FeeClient` proved; the ledger between
two calls, the causes of refusals and the acceptance of stale lists proved. Every
invariant and action property that a run finds to hold is a theorem.

What would come next:

1. Liveness, with a client that repeats and splits long lists, once the repository
   has one.

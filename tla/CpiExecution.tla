----------------------------- MODULE CpiExecution -----------------------------
(***************************************************************************)
(* A transaction, one CPI at a time.  A handler that makes several CPIs    *)
(* changes the accounts it was given call after call; what it did becomes  *)
(* visible when the last call returned, and a call that is refused, with   *)
(* the lengths the caller chose for instance, undoes the calls before it.  *)
(*                                                                         *)
(* The accounts of TokenExtension are here the ones the running handler    *)
(* works on, and "saved" is what the others still see.  Committed is that  *)
(* view: it behaves as TokenExtension, where a handler is one step.        *)
(***************************************************************************)
EXTENDS TokenExtension, Sequences

CONSTANTS
    Idle,     \* no instruction is running
    Lengths   \* bound: lengths a caller asks for, in extension slots

\* An account may be left with all of its length, or with the slot of reallocate.
ASSUME LengthsFitRooms == Lengths \cup {1} \subseteq Rooms

VARIABLES
    call,     \* the instruction that runs, with its accounts and arguments
    todo,     \* the CPIs that its handler has still to make
    raw,      \* accounts created and not initialised: length, extensions so far
    saved     \* the accounts as they were before it

cpiVars == <<call, todo, raw, saved>>

Visible(now, before) == IF call = Idle THEN now ELSE before
Committed == INSTANCE TokenExtension WITH
    mint      <- Visible(mint, saved.mint),
    account   <- Visible(account, saved.account),
    supply    <- Visible(supply, saved.supply),
    feePool   <- Visible(feePool, saved.feePool),
    amount    <- Visible(amount, saved.amount),
    withheld  <- Visible(withheld, saved.withheld),
    lamports  <- Visible(lamports, saved.lamports),
    metaLists <- Visible(metaLists, saved.metaLists),
    tx        <- Visible(tx, saved.tx)

-----------------------------------------------------------------------------
(* What each handler calls, in order.                                      *)

\* Mints of one extension, by handlers of the same three calls.
ExtensionKinds ==
    {"mint_close_authority", "default_account_state", "permanent_delegate",
     "interest_bearing_token", "initialize_confidential_mint"}
MintAndAccountKinds == {"immutable_owner", "non_transferable_token"}
TokenAccountKinds   == {"enable_memo", "initialize_token_account_with"}

ExtensionMintCpis == <<"create_mint", "initialize_extension", "initialize_mint2">>

\* Variant of ImmutableOwnerCpis: the account is not initialised.
ImmutableOwnerWithoutAccount3 ==
    <<"create_mint", "initialize_mint2", "create_account",
      "initialize_immutable_owner">>

\* Variant of ImmutableOwnerCpis: the extension is not initialised.
ImmutableOwnerForgotten ==
    <<"create_mint", "initialize_mint2", "create_account", "initialize_account3">>

ImmutableOwnerCpis ==
    <<"create_mint", "initialize_mint2", "create_account",
      "initialize_immutable_owner", "initialize_account3">>

\* Variant of NonTransferableTokenCpis: the mint comes before its extension.
NonTransferableTooLate ==
    <<"create_mint", "initialize_mint2", "initialize_extension",
      "create_account", "initialize_immutable_owner", "initialize_account3">>

NonTransferableTokenCpis ==
    <<"create_mint", "initialize_extension", "initialize_mint2",
      "create_account", "initialize_immutable_owner", "initialize_account3">>

TokenAccountCpis  == <<"create_account", "initialize_account3">>
EnableMemoCpis    ==
    <<"create_account", "initialize_account3", "enable_required_transfer_memos">>
ReallocCpis       == <<"reallocate", "enable_required_transfer_memos">>
MemoTransferCpis  == <<"build_memo", "transfer_checked">>
TransferTokenCpis == <<"transfer_sol", "transfer_checked">>

CpisOf(op) ==
    CASE op \in ExtensionKinds                   -> ExtensionMintCpis
      [] op = "immutable_owner"                  -> ImmutableOwnerCpis
      [] op = "non_transferable_token"           -> NonTransferableTokenCpis
      [] op = "enable_memo"                      -> EnableMemoCpis
      [] op = "initialize_token_account_with"    -> TokenAccountCpis
      [] op = "realloc"                          -> ReallocCpis
      [] op = "memo_transfer"                    -> MemoTransferCpis
      [] op = "transfer_token"                   -> TransferTokenCpis

-----------------------------------------------------------------------------
(* What the called programs check, of the accounts the handler works on.   *)

CanCreate(x, p, len) == lamports[x] = 0 /\ lamports[p] >= Rent(len)

\* An extension is only added to an account that is not initialised yet.
CanExtend(x, extension) ==
    /\ raw[x] # Absent
    /\ Cardinality(raw[x].extensions \cup {extension}) <= raw[x].len

\* initialize_mint2 accepts the length of the extensions initialised, no other.
CanMakeMint(m) == raw[m] # Absent /\ Cardinality(raw[m].extensions) = raw[m].len

\* initialize_account3 accepts any length that holds what the mint requires.
AccountOf(a, m, w) ==
    NewAccount(m, mint[m], w, "immutable_owner" \in raw[a].extensions, 0)
CanOpen(a, m, w) ==
    raw[a] # Absent /\ Live(m) /\ Slots(AccountOf(a, m, w)) <= raw[a].len

OwnedBy(a, w) == Open(a) /\ account[a].owner = w
HasSlot(a)    == account[a].memo \/ account[a].room > 0

\* Token-2022 looks for a memo in the sibling right before the transfer, and no
\* further back: in the call that the handler made last.
MemoBefore(c) ==
    LET made == Len(CpisOf(c.op)) - Len(todo)
    IN  made > 0 /\ CpisOf(c.op)[made] = "build_memo"

CanTransfer(c) ==
    /\ TransferAllowed(c.m, c.from, c.to, c.w, c.n, MemoBefore(c))
    /\ c.from # c.to =>
           LET fee == Fee(mint[c.m], c.n) IN
           /\ fee <= c.n
           /\ amount[c.to] + (c.n - fee) <= MaxU64
           /\ withheld[c.to] + fee <= MaxU64
           /\ AcceptsFee(c.to, fee)
           /\ AcceptsHook(c.m, c.from, c.to, FALSE)

Accepted(c, name) ==
    CASE name = "create_mint"                -> CanCreate(c.m, c.p, c.mintLen)
      [] name = "initialize_extension"       -> CanExtend(c.m, c.op)
      [] name = "initialize_mint2"           -> CanMakeMint(c.m)
      [] name = "create_account"             -> CanCreate(c.a, c.p, c.accountLen)
      [] name = "initialize_immutable_owner" -> CanExtend(c.a, "immutable_owner")
      [] name = "initialize_account3"        -> CanOpen(c.a, c.m, c.w)
      [] name = "enable_required_transfer_memos" ->
             OwnedBy(c.a, c.w) /\ HasSlot(c.a)
      [] name = "reallocate" ->
             OwnedBy(c.a, c.w) /\ (HasSlot(c.a) \/ lamports[c.p] > 0)
      [] name = "build_memo"                 -> TRUE
      [] name = "transfer_sol"               -> lamports[c.w] >= SolToll
      [] name = "transfer_checked"           -> CanTransfer(c)

-----------------------------------------------------------------------------
(* The CPIs, on the accounts the handler works on.                         *)

\* create_account with the length and the owner Token-2022.
CreateRaw(x, p, len) ==
    /\ CreateAccount(p, x, Rent(len))
    /\ raw' = [raw EXCEPT ![x] = [len |-> len, extensions |-> {}]]
    /\ UNCHANGED <<mint, account, ledger, metaLists, tx>>

InitializeExtension(x, extension) ==
    /\ CanExtend(x, extension)
    /\ raw' = [raw EXCEPT ![x].extensions = @ \cup {extension}]
    /\ UNCHANGED vars

\* The mint whose extensions were initialised, for the authority w; the handler
\* of default_account_state also names a freeze authority.
ExtendedMint(w, extensions) ==
    [PlainMint(w) EXCEPT
        !.close = IF "mint_close_authority" \in extensions THEN w ELSE NoOne,
        !.delegate = IF "permanent_delegate" \in extensions THEN w ELSE NoOne,
        !.frozenDefault = "default_account_state" \in extensions,
        !.freeze = IF "default_account_state" \in extensions THEN w ELSE NoOne,
        !.nonTransferable = "non_transferable_token" \in extensions]

InitializeMint2(m, w) ==
    /\ CanMakeMint(m)
    /\ InitializeMint(m, ExtendedMint(w, raw[m].extensions))
    /\ raw' = [raw EXCEPT ![m] = Absent]
    /\ UNCHANGED <<account, amount, withheld, lamports, metaLists, tx>>

\* The length it did not need stays free.
InitializeAccount3(a, m, w) ==
    /\ CanOpen(a, m, w)
    /\ LET new == AccountOf(a, m, w)
       IN  InitializeAccount(a, [new EXCEPT !.room = raw[a].len - Slots(new)])
    /\ raw' = [raw EXCEPT ![a] = Absent]
    /\ UNCHANGED <<mint, ledger, lamports, metaLists, tx>>

\* enable_required_transfer_memos, once the account has a slot.
EnableRequiredMemos(a, w) ==
    /\ OwnedBy(a, w)
    /\ \/ account[a].memo /\ UNCHANGED account
       \/ /\ ~account[a].memo /\ account[a].room > 0
          /\ account' = [account EXCEPT ![a].memo = TRUE, ![a].room = @ - 1]
    /\ UNCHANGED <<mint, ledger, lamports, metaLists, tx, raw>>

\* reallocate, for one more extension unless the account can hold it already.
Reallocate(a, p, w) ==
    /\ OwnedBy(a, w)
    /\ IF HasSlot(a)
       THEN UNCHANGED <<account, lamports>>
       ELSE /\ lamports[p] > 0
            /\ lamports' = [lamports EXCEPT ![p] = @ - 1, ![a] = @ + 1]
            /\ account' = [account EXCEPT ![a].room = 1]
    /\ UNCHANGED <<mint, ledger, metaLists, tx, raw>>

BuildMemo ==
    /\ tx' = [tx EXCEPT !.memo = TRUE]
    /\ UNCHANGED <<mint, account, ledger, lamports, metaLists, raw>>

\* Variant of PayToll: the two wallets are swapped.
PayTollSwapped(c) ==
    /\ TransferSol(c.badWallet, c.w, SolToll)
    /\ UNCHANGED <<mint, account, ledger, metaLists, tx, raw>>

\* The opaque program calls the System program in turn.
PayToll(c) ==
    /\ TransferSol(c.w, c.badWallet, SolToll)
    /\ UNCHANGED <<mint, account, ledger, metaLists, tx, raw>>

TransferTokens(c) ==
    /\ TransferChecked(c.m, c.from, c.to, c.w, c.n, MemoBefore(c), FALSE)
    /\ UNCHANGED <<mint, account, lamports, metaLists, tx, raw>>

Cpi(c, name) ==
    \/ name = "create_mint" /\ CreateRaw(c.m, c.p, c.mintLen)
    \/ name = "initialize_extension" /\ InitializeExtension(c.m, c.op)
    \/ name = "initialize_mint2" /\ InitializeMint2(c.m, c.w)
    \/ name = "create_account" /\ CreateRaw(c.a, c.p, c.accountLen)
    \/ name = "initialize_immutable_owner"
           /\ InitializeExtension(c.a, "immutable_owner")
    \/ name = "initialize_account3" /\ InitializeAccount3(c.a, c.m, c.w)
    \/ name = "enable_required_transfer_memos" /\ EnableRequiredMemos(c.a, c.w)
    \/ name = "reallocate" /\ Reallocate(c.a, c.p, c.w)
    \/ name = "build_memo" /\ BuildMemo
    \/ name = "transfer_sol" /\ PayToll(c)
    \/ name = "transfer_checked" /\ TransferTokens(c)

-----------------------------------------------------------------------------
(* The runtime.                                                            *)

\* An instruction starts once the constraints on its accounts hold, which the
\* handlers below state.
Begin(c, cpis, signers) ==
    /\ call = Idle
    /\ call' = c
    /\ todo' = cpis
    /\ saved' = [mint |-> mint, account |-> account, supply |-> supply,
                 feePool |-> feePool, amount |-> amount, withheld |-> withheld,
                 lamports |-> lamports, metaLists |-> metaLists, tx |-> tx]
    /\ Signed(signers)
    /\ UNCHANGED <<mint, account, ledger, lamports, metaLists, raw>>

CallNext ==
    /\ call # Idle /\ todo # <<>>
    /\ Cpi(call, Head(todo))
    /\ todo' = Tail(todo)
    /\ UNCHANGED <<call, saved>>

Commit ==
    /\ call # Idle /\ todo = <<>>
    /\ call' = Idle /\ saved' = Idle
    /\ UNCHANGED <<vars, todo, raw>>

Rollback ==
    /\ mint' = saved.mint /\ account' = saved.account
    /\ supply' = saved.supply /\ feePool' = saved.feePool
    /\ amount' = saved.amount /\ withheld' = saved.withheld
    /\ lamports' = saved.lamports /\ metaLists' = saved.metaLists
    /\ tx' = saved.tx
    /\ raw' = [x \in DOMAIN raw |-> Absent]
    /\ call' = Idle /\ saved' = Idle /\ todo' = <<>>

\* A CPI that its program refuses ends the transaction.
Refused == call # Idle /\ todo # <<>> /\ ~Accepted(call, Head(todo)) /\ Rollback

\* So does running out of compute units, at any call.
OutOfCompute == call # Idle /\ todo # <<>> /\ Rollback

-----------------------------------------------------------------------------
(* The handlers: constraints, arguments and calls.                         *)

BeginExtensionMint(op, m, p, w, mintLen) ==
    /\ ~Live(m)
    /\ Begin([op |-> op, m |-> m, p |-> p, w |-> w, mintLen |-> mintLen],
             ExtensionMintCpis, {p, w})

BeginMintAndAccount(op, cpis, m, a, p, w, mintLen, accountLen) ==
    /\ ~Live(m) /\ ~Open(a)
    /\ Begin([op |-> op, m |-> m, a |-> a, p |-> p, w |-> w,
              mintLen |-> mintLen, accountLen |-> accountLen], cpis, {p, w})

BeginImmutableOwner(m, a, p, w, mintLen, accountLen) ==
    BeginMintAndAccount("immutable_owner", ImmutableOwnerCpis, m, a, p, w,
                        mintLen, accountLen)

BeginNonTransferableToken(m, a, p, w, mintLen, accountLen) ==
    BeginMintAndAccount("non_transferable_token", NonTransferableTokenCpis, m, a,
                        p, w, mintLen, accountLen)

BeginTokenAccount(op, cpis, a, m, p, w, accountLen) ==
    /\ Live(m) /\ ~Open(a)
    /\ Begin([op |-> op, m |-> m, a |-> a, p |-> p, w |-> w,
              accountLen |-> accountLen], cpis, {p, w})

BeginEnableMemo(a, m, p, w, accountLen) ==
    BeginTokenAccount("enable_memo", EnableMemoCpis, a, m, p, w, accountLen)

BeginInitializeTokenAccountWith(a, m, p, w, accountLen) ==
    /\ Live(m) /\ mint[m].authority = w
    /\ BeginTokenAccount("initialize_token_account_with", TokenAccountCpis,
                         a, m, p, w, accountLen)

BeginRealloc(a, p, w) ==
    /\ Open(a)
    /\ Begin([op |-> "realloc", a |-> a, p |-> p, w |-> w], ReallocCpis, {p, w})

BeginMemoTransfer(m, w, to, n) ==
    /\ Live(m) /\ n > 0
    /\ \A x \in {Ata(w, m), to} : Open(x) /\ account[x].mint = m
    /\ Begin([op |-> "memo_transfer", m |-> m, from |-> Ata(w, m), to |-> to,
              w |-> w, n |-> n], MemoTransferCpis, {w})

BeginTransferToken(m, from, to, w, badWallet, n) ==
    /\ Live(m) /\ n > 0
    /\ \A x \in {from, to} : Open(x) /\ account[x].mint = m
    /\ account[from].owner = w
    /\ Begin([op |-> "transfer_token", m |-> m, from |-> from, to |-> to,
              w |-> w, badWallet |-> badWallet, n |-> n], TransferTokenCpis, {w})

-----------------------------------------------------------------------------
(* The instructions that run, and the specification.                       *)

Calls ==
    [op : ExtensionKinds, m : Mints, p : Wallets, w : Wallets, mintLen : Lengths]
    \cup [op : MintAndAccountKinds, m : Mints, a : KeyAccounts, p : Wallets,
          w : Wallets, mintLen : Lengths, accountLen : Lengths]
    \cup [op : TokenAccountKinds, a : KeyAccounts, m : Mints, p : Wallets,
          w : Wallets, accountLen : Lengths]
    \cup [op : {"realloc"}, a : Accounts, p : Wallets, w : Wallets]
    \cup [op : {"memo_transfer"}, m : Mints, from : Accounts, to : Accounts,
          w : Wallets, n : U64]
    \cup [op : {"transfer_token"}, m : Mints, from : Accounts, to : Accounts,
          w : Wallets, badWallet : Wallets, n : U64]

ASSUME IdleIsNoCall == Idle \notin Calls

\* Nor is an account that was created and not initialised absent.
ASSUME RawIsNotAbsent ==
    Absent \notin [len : Lengths,
                   extensions : SUBSET (ExtensionKinds \cup MintAndAccountKinds)]

Nothing == [x \in Mints \cup KeyAccounts |-> Absent]

CpiInit ==
    /\ Init
    /\ call = Idle /\ saved = Idle /\ todo = <<>>
    /\ raw = Nothing

\* Instructions that are not taken apart, the others as one step among them.
AtomicStep == call = Idle /\ Next /\ UNCHANGED cpiVars

BeginCall ==
    \/ \E op \in ExtensionKinds, m \in Mints, p, w \in Wallets, len \in Lengths :
           BeginExtensionMint(op, m, p, w, len)
    \/ \E m \in Mints, a \in KeyAccounts, p, w \in Wallets,
          mintLen, accountLen \in Lengths :
           \/ BeginImmutableOwner(m, a, p, w, mintLen, accountLen)
           \/ BeginNonTransferableToken(m, a, p, w, mintLen, accountLen)
    \/ \E m \in Mints, a \in KeyAccounts, p, w \in Wallets, len \in Lengths :
           \/ BeginEnableMemo(a, m, p, w, len)
           \/ BeginInitializeTokenAccountWith(a, m, p, w, len)
    \/ \E a \in Accounts, p, w \in Wallets : BeginRealloc(a, p, w)
    \/ \E m \in Mints, w \in Wallets, n \in U64, to \in Accounts :
           \/ BeginMemoTransfer(m, w, to, n)
           \/ \E from \in Accounts, badWallet \in Wallets :
                  BeginTransferToken(m, from, to, w, badWallet, n)

CpiNext ==
    AtomicStep \/ BeginCall \/ CallNext \/ Commit \/ Refused \/ OutOfCompute

CpiSpec == CpiInit /\ [][CpiNext]_<<vars, cpiVars>>

-----------------------------------------------------------------------------
(* Properties.                                                             *)

\* Whoever looks at the accounts between two transactions sees each handler as
\* one step of TokenExtension, or as none: no toll without its transfer, no mint
\* without the account it was created with, no slot paid for and not used.
HandlersAreAtomic == Committed!Spec

\* No transaction leaves an account that Token-2022 owns and nobody initialised:
\* whoever came first could make it a mint or an account of their own.
NothingHalfInitialised ==
    call = Idle => \A x \in DOMAIN raw : raw[x] = Absent

\* The call that a caller has to make for its transaction to succeed, in terms
\* of the accounts before it: the exact length of a mint, room for what the
\* account needs, rent for all of it, a transfer that Token-2022 allows.
CanPay(c, rent) == saved.lamports[c.p] >= rent
Unused(x)       == saved.lamports[x] = 0
RightTransfer(c, memo) ==
    /\ Committed!TransferAllowed(c.m, c.from, c.to, c.w, c.n, memo)
    /\ c.from # c.to =>
           /\ Committed!AcceptsFee(c.to, Fee(saved.mint[c.m], c.n))
           /\ Committed!AcceptsHook(c.m, c.from, c.to, FALSE)
RightCall(c) ==
    CASE c.op = "immutable_owner" ->
           /\ c.mintLen = 0 /\ c.accountLen >= 1
           /\ Unused(c.m) /\ Unused(c.a)
           /\ CanPay(c, Rent(c.mintLen) + Rent(c.accountLen))
      [] c.op = "non_transferable_token" ->
           /\ c.mintLen = 1 /\ c.accountLen >= 2
           /\ Unused(c.m) /\ Unused(c.a)
           /\ CanPay(c, Rent(c.mintLen) + Rent(c.accountLen))
      [] c.op \in {"initialize_token_account_with", "enable_memo"} ->
           LET memo == IF c.op = "enable_memo" THEN 1 ELSE 0 IN
           /\ Unused(c.a) /\ CanPay(c, Rent(c.accountLen))
           /\ c.accountLen >=
                Slots(NewAccount(c.m, saved.mint[c.m], c.w, FALSE, memo))
      [] c.op = "realloc" ->
           LET old == saved.account[c.a] IN
           old.owner = c.w /\ (old.memo \/ old.room > 0 \/ CanPay(c, 1))
      [] c.op = "memo_transfer"  -> RightTransfer(c, TRUE)
      [] c.op = "transfer_token" ->
           saved.lamports[c.w] >= SolToll /\ RightTransfer(c, FALSE)
      [] OTHER -> c.mintLen = 1 /\ Unused(c.m) /\ CanPay(c, Rent(1))

\* The handlers make their calls in an order that the programs they call accept:
\* a right call is never refused half way.
RefusedForCause == [][Refused => ~RightCall(call)]_<<vars, cpiVars>>
=============================================================================

----------------------------- MODULE MintCreation -----------------------------
(***************************************************************************)
(* The instructions that create, change and close mints.  Each creating    *)
(* handler runs create_account, the initialisation of one extension and    *)
(* initialize_mint2.  The caller passes the data length; Token-2022 only   *)
(* accepts the exact one, so it is not an input here.  all_mint_role (w)   *)
(* receives every authority the handler sets.                              *)
(***************************************************************************)
EXTENDS Token2022

CONSTANT MetadataMintLen   \* length of a mint with a metadata pointer, in units of rent

ASSUME MetadataMintLenIsPositive == MetadataMintLen \in Nat \ {0}

\* Variant of CreateMint: a mint that exists is initialised again.
CreateMintIfNeeded(m, p, w, conf) ==
    /\ Live(m) \/ CreateAccount(p, m, Rent(1))
    /\ Live(m) => UNCHANGED lamports
    /\ InitializeMint(m, conf)
    /\ Signed({p, w})
    /\ UNCHANGED <<account, amount, withheld, metaLists>>

\* The part every creating handler shares: the mint's keypair has no account,
\* payer p funds it, p and w sign.
CreateFundedMint(m, p, w, conf, rent) ==
    /\ ~Live(m)
    /\ CreateAccount(p, m, rent)
    /\ InitializeMint(m, conf)
    /\ Signed({p, w})
    /\ UNCHANGED <<account, amount, withheld, metaLists>>

CreateMint(m, p, w, conf) == CreateFundedMint(m, p, w, conf, Rent(1))

MintCloseAuthority(m, p, w) ==
    CreateMint(m, p, w, [PlainMint(w) EXCEPT !.close = w])

\* A withdraw authority of None is accepted, and no instruction sets it later.
TransferFeeConfig(m, p, w, withdraw, bps, maxFee) ==
    CreateMint(m, p, w, [PlainMint(w) EXCEPT !.hasFee = TRUE,
                            !.withdraw = withdraw, !.bps = bps,
                            !.maxFee = maxFee])

DefaultAccountState(m, p, w) ==
    CreateMint(m, p, w, [PlainMint(w) EXCEPT !.frozenDefault = TRUE,
                                             !.freeze = w])

PermanentDelegate(m, p, w) ==
    CreateMint(m, p, w, [PlainMint(w) EXCEPT !.delegate = w])

\* program is the Option<Pubkey> of the hook; None leaves the extension without
\* a hook.
InitializeHookMint(m, p, w, program) ==
    CreateMint(m, p, w, [PlainMint(w) EXCEPT !.hookExt = TRUE,
                                                      !.hook = program])

\* Interest and confidential transfers change neither who holds tokens nor how
\* many: the rate only enters amount_to_ui_amount.
InterestBearingToken(m, p, w)     == CreateMint(m, p, w, PlainMint(w))
InitializeConfidentialMint(m, p, w) == CreateMint(m, p, w, PlainMint(w))

InitializeGroupPointer(m, p, w) ==
    CreateMint(m, p, w, [PlainMint(w) EXCEPT !.groupPointer = TRUE])

\* The group must be a mint whose group pointer is itself; the new mint's
\* member pointer is the new mint, and keeps no trace of the group.
InitializeMemberPointer(m, group, p, w) ==
    /\ Live(group) /\ mint[group].groupPointer
    /\ CreateMint(m, p, w, PlainMint(w))

\* The mint is funded for twice its length, so that Token-2022 can append the
\* metadata: minimum_balance(mint_len * 2).
InitializeMetadataPointer(m, p, w) ==
    CreateFundedMint(m, p, w, [PlainMint(w) EXCEPT !.metadata = TRUE],
                     2 * MetadataMintLen)

\* A mint and a token account of it in one transaction.
CreateMintAndAccount(m, a, p, w, mintSlots, conf, room) ==
    LET new == NewAccount(m, conf, w, TRUE, room) IN
    /\ ~Live(m) /\ ~Open(a)
    /\ CreateTwoAccounts(p, m, Rent(mintSlots), a, Rent(Slots(new)))
    /\ InitializeMint(m, conf)
    /\ InitializeAccount(a, new)
    /\ Signed({p, w})
    /\ UNCHANGED <<amount, withheld, metaLists>>

ImmutableOwner(m, a, p, w, room) ==
    CreateMintAndAccount(m, a, p, w, 0, PlainMint(w), room)

NonTransferableToken(m, a, p, w, room) ==
    CreateMintAndAccount(m, a, p, w, 1,
        [PlainMint(w) EXCEPT !.nonTransferable = TRUE], room)

\* Variant of CloseMintAccount: the supply is not looked at.
CloseMintWithSupply(m, dest, w) ==
    /\ Live(m) /\ mint[m].authority = w /\ mint[m].close = w
    /\ mint' = [mint EXCEPT ![m] = Absent]
    /\ lamports' = [lamports EXCEPT ![dest] = @ + lamports[m], ![m] = 0]
    /\ Signed({w})
    /\ UNCHANGED <<account, ledger, metaLists>>

\* Variant of CloseMintAccount: the rent is left behind.
CloseMintKeepingRent(m, dest, w) ==
    /\ Live(m) /\ mint[m].authority = w /\ mint[m].close = w /\ supply[m] = 0
    /\ mint' = [mint EXCEPT ![m] = Absent]
    /\ Signed({w})
    /\ UNCHANGED <<account, ledger, lamports, metaLists>>

\* Neither the authority nor the destination is marked in the handler's account
\* list as a signer or as writable: Token-2022 asks for both, so the transaction
\* has to bring them.
CloseMintAccount(m, dest, w) ==
    /\ Live(m)
    /\ mint[m].authority = w
    /\ mint[m].close = w
    /\ supply[m] = 0
    /\ mint' = [mint EXCEPT ![m] = Absent]
    /\ lamports' = [lamports EXCEPT ![dest] = @ + lamports[m], ![m] = 0]
    /\ Signed({w})
    /\ UNCHANGED <<account, ledger, metaLists>>

\* Variant of UpdateDefaultAccountState: the accounts already opened change too.
UpdateExistingAccounts(m, w, frozen) ==
    /\ Live(m) /\ mint[m].freeze = w
    /\ mint' = [mint EXCEPT ![m].frozenDefault = frozen]
    /\ account' = [a \in Accounts |-> IF a \in AccountsOf(m)
                        THEN [account[a] EXCEPT !.frozen = frozen] ELSE account[a]]
    /\ Signed({w})
    /\ UNCHANGED <<ledger, lamports, metaLists>>

\* Only a mint made by DefaultAccountState has a freeze authority here, and so
\* the extension.  Token-2022 refuses the state Uninitialized.
UpdateDefaultAccountState(m, w, frozen) ==
    /\ Live(m)
    /\ mint[m].freeze = w
    /\ mint' = [mint EXCEPT ![m].frozenDefault = frozen]
    /\ Signed({w})
    /\ UNCHANGED <<account, ledger, lamports, metaLists>>

\* The update authority is the wallet that became the mint's authority.  p signs
\* and is writable, and pays nothing.  Module Metadata says which updates fit.
UpdateMetadataField(m, p, w) ==
    /\ Live(m) /\ mint[m].metadata
    /\ mint[m].authority = w
    /\ Signed({p, w})
    /\ UNCHANGED <<mint, account, ledger, lamports, metaLists>>
=============================================================================

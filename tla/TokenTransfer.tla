---------------------------- MODULE TokenTransfer ----------------------------
(***************************************************************************)
(* The instructions that mint, transfer and burn tokens.  w is the account *)
(* that signs as authority or delegate.  The decimals a caller passes to   *)
(* transfer_checked must be the mint's, and are not an input here.         *)
(***************************************************************************)
EXTENDS TransferHook, Opaque

CONSTANT SolToll   \* sol_to_lamports(1.1)

ASSUME TollIsNatural == SolToll \in Nat

\* The mint's authority mints to its own associated account only.
MintTo(m, w, n) ==
    /\ Live(m) /\ mint[m].authority = w
    /\ Open(Ata(w, m))
    /\ MintTokens(m, Ata(w, m), n)
    /\ Signed({w})
    /\ UNCHANGED <<mint, account, lamports, metaLists>>

\* Variant of TransferTo: any instruction before it passes for a memo.
TransferToAfterAnySibling(m, w, to, n, fee) ==
    /\ Live(m) /\ fee = Fee(mint[m], n)
    /\ TransferChecked(m, Ata(w, m), to, w, n, TRUE, FALSE)
    /\ Signed({w})
    /\ UNCHANGED <<mint, account, lamports, metaLists>>

\* transfer_checked_with_fee: the fee the caller announces must be the one due.
TransferTo(m, w, to, n, fee) ==
    /\ Live(m)
    /\ fee = Fee(mint[m], n)
    /\ TransferChecked(m, Ata(w, m), to, w, n, FALSE, FALSE)
    /\ Signed({w})
    /\ UNCHANGED <<mint, account, lamports, metaLists>>

\* build_memo, then transfer_checked: the memo is the sibling before the transfer.
MemoTransfer(m, w, to, n) ==
    /\ Live(m) /\ n > 0
    /\ TransferChecked(m, Ata(w, m), to, w, n, TRUE, FALSE)
    /\ SignedWithMemo({w})
    /\ UNCHANGED <<mint, account, lamports, metaLists>>

\* The opaque program takes the toll from the authority for bad_wallet, then the
\* tokens move; both or neither happen.
TransferToken(m, from, to, w, badWallet, n) ==
    /\ Live(m) /\ n > 0
    /\ Open(from) /\ account[from].owner = w
    /\ TransferSol(w, badWallet, SolToll)
    /\ TransferChecked(m, from, to, w, n, FALSE, FALSE)
    /\ Signed({w})
    /\ UNCHANGED <<mint, account, metaLists>>

\* Variant of TransferHookToken: the hook's accounts are not checked.
TransferWithAnyHookAccounts(m, from, to, w, n) ==
    /\ Live(m) /\ Open(from) /\ Open(to) /\ account[from].owner = w
    /\ TransferChecked(m, from, to, w, n, FALSE, TRUE)
    /\ Signed({w})
    /\ UNCHANGED <<mint, account, lamports, metaLists>>

\* invoke_transfer_checked resolves the hook's accounts from the mint's list
\* before it calls Token-2022, which calls the hook.  Another program than the
\* transfer-hook program may accept whatever remaining accounts it is given.
TransferHookToken(m, from, to, w, n) ==
    /\ Live(m)
    /\ Open(from) /\ account[from].owner = w
    /\ Open(to)
    /\ mint[m].hook = "transfer_hook" => m \in metaLists
    /\ TransferChecked(m, from, to, w, n, FALSE,
                       mint[m].hook = "other" \/ HookAccepts(m, from, to, w))
    /\ Signed({w})
    /\ UNCHANGED <<mint, account, lamports, metaLists>>

\* Any token account is accepted as from: Token-2022 decides whether the signer
\* may burn.
BurnCpi(m, from, w, n) ==
    /\ Live(m) /\ Open(from)
    /\ BurnTokens(m, from, w, n)
    /\ Signed({w})
    /\ UNCHANGED <<mint, account, lamports, metaLists>>
=============================================================================

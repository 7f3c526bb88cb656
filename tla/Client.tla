-------------------------------- MODULE Client --------------------------------
(***************************************************************************)
(* What the clients in tests/ ask of Token-2022 directly, next to the      *)
(* program's instructions.                                                 *)
(***************************************************************************)
EXTENDS MintCreation

\* A mint without extensions, whose authority pays.  Its freeze authority has no
\* instruction to use: update_default_account_state needs the extension.
ClientCreateMint(m, w) == CreateFundedMint(m, w, w, PlainMint(w), Rent(0))

\* The owner locks the CPI guard of an account that has a slot for it.
\* Token-2022 refuses this instruction when it comes from a program.
EnableCpiGuard(a, w) ==
    /\ Open(a) /\ account[a].owner = w
    /\ ~account[a].guard /\ account[a].room > 0
    /\ account' = [account EXCEPT ![a].guard = TRUE, ![a].room = @ - 1]
    /\ Signed({w})
    /\ UNCHANGED <<mint, ledger, lamports, metaLists>>

\* The mint authority mints to any account of the mint.
ClientMintTo(m, w, to, n) ==
    /\ Live(m) /\ mint[m].authority = w
    /\ Open(to)
    /\ MintTokens(m, to, n)
    /\ Signed({w})
    /\ UNCHANGED <<mint, account, lamports, metaLists>>
=============================================================================

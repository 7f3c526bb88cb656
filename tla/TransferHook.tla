----------------------------- MODULE TransferHook -----------------------------
(***************************************************************************)
(* The transfer-hook program: the account that lists the extra accounts of *)
(* a mint's hook, and the hook that Token-2022 calls on each transfer.     *)
(***************************************************************************)
EXTENDS Token2022

\* Anyone may pay for the list of any live mint, once: the account sits at an
\* address derived from the mint's, and outlives the mint.
InitializeExtraAccountMetaList(m, p) ==
    /\ Live(m)
    /\ CreateAccount(p, MetaPda(m), Rent(0))
    /\ metaLists' = metaLists \cup {m}
    /\ Signed({p})
    /\ UNCHANGED <<mint, account, ledger>>

\* The accounts the hook accepts: it is given the list of this mint, two token
\* accounts of this mint, and as owner the authority of the transfer.  The
\* fallback unpacks Execute and reaches the hook, which does nothing else.
HookAccepts(m, from, to, w) ==
    /\ m \in metaLists
    /\ account[from].mint = m /\ account[from].owner = w
    /\ account[to].mint = m
=============================================================================

----------------------------- MODULE TransferFee -----------------------------
(***************************************************************************)
(* The instructions that gather withheld transfer fees.  The accounts to   *)
(* gather from are the transaction's remaining accounts, a set here: an    *)
(* account listed twice has nothing left the second time.                  *)
(***************************************************************************)
EXTENDS Token2022

CONSTANT MaxSources   \* remaining accounts of a transaction, 5 in the code

ASSUME SourcesAreBounded == MaxSources \in Nat \ {0}

\* Variant of SourcesAccepted: a source with nothing withheld is refused.
SourcesAllWithholding(remaining) ==
    /\ remaining # {} /\ Cardinality(remaining) <= MaxSources
    /\ \A a \in remaining \ Lookalikes :
           Open(a) /\ account[a].feeExt /\ withheld[a] # 0

\* The data of every remaining account must be that of a token account with
\* TransferFeeAmount, or the transaction fails; those that another program owns,
\* or with nothing withheld, are left out.  Its mint is not looked at.
SourcesAccepted(remaining) ==
    /\ remaining # {} /\ Cardinality(remaining) <= MaxSources
    /\ \A a \in remaining \ Lookalikes : Open(a) /\ account[a].feeExt

\* Variant of FilterSources: it leaves out what withholds a single token.
SourcesWithMore(remaining) == {a \in remaining \ Lookalikes : withheld[a] > 1}

FilterSources(remaining) == {a \in remaining \ Lookalikes : withheld[a] # 0}

WithdrawWithheldAccount(m, w, remaining) ==
    /\ Live(m)
    /\ Open(Ata(w, m))
    /\ SourcesAccepted(remaining)
    /\ CollectFees(m, Ata(w, m), w, FilterSources(remaining))
    /\ Signed({w})
    /\ UNCHANGED <<mint, account, lamports, metaLists>>

\* Variant of HarvestWithheldToken: each source is harvested to its own mint.
HarvestEachToItsMint(m, remaining) ==
    LET of(q) == Harvestable(q, FilterSources(remaining)) IN
    /\ Live(m) /\ SourcesAccepted(remaining)
    /\ feePool' = [q \in Mints |-> feePool[q] + Total(withheld, of(q))]
    /\ withheld' = Emptied(remaining)
    /\ Signed({})
    /\ UNCHANGED <<mint, account, supply, amount, lamports, metaLists>>

\* Nobody has to sign, beyond whoever pays for the transaction.
HarvestWithheldToken(m, remaining) ==
    /\ Live(m)
    /\ SourcesAccepted(remaining)
    /\ HarvestFees(m, FilterSources(remaining))
    /\ Signed({})
    /\ UNCHANGED <<mint, account, lamports, metaLists>>

\* Variant of WithdrawWithheldMint: the destination is not the authority's account.
WithdrawMintToAnyAccount(m, w) ==
    /\ Live(m)
    /\ \E dest \in Accounts : Open(dest) /\ CollectPool(m, dest, w)
    /\ Signed({w})
    /\ UNCHANGED <<mint, account, lamports, metaLists>>

WithdrawWithheldMint(m, w) ==
    /\ Live(m)
    /\ Open(Ata(w, m))
    /\ CollectPool(m, Ata(w, m), w)
    /\ Signed({w})
    /\ UNCHANGED <<mint, account, lamports, metaLists>>
=============================================================================

-------------------------------- MODULE MCCpi --------------------------------
(***************************************************************************)
(* Handlers of several CPIs, with right and wrong lengths, enough and too  *)
(* little SOL, transfers that are refused after the toll was paid.         *)
(***************************************************************************)
EXTENDS CpiInvariant

CONSTANTS
    Boss,       \* the wallet that creates the mint and pays
    MintKinds,  \* bound: mints with one extension tried
    Amounts     \* bound: amounts of a transaction

FewAtomicSteps ==
    /\ call = Idle
    /\ \/ \E m \in Mints, w \in Wallets : CreateAta(w, m, Boss)
       \/ \E m \in Mints, w \in Wallets, n \in Amounts :
              ClientMintTo(m, Boss, Ata(w, m), n)
       \/ \E a \in Accounts, w \in Wallets : EnableCpiGuard(a, w)
       \/ \E m \in Mints :
              \/ TransferFeeConfig(m, Boss, Boss, Boss, 1, 1)
              \/ InitializeHookMint(m, Boss, Boss, "transfer_hook")
    /\ UNCHANGED cpiVars

BeginSomeCall ==
    \/ \E m \in Mints, op \in MintKinds, len \in Lengths :
           BeginExtensionMint(op, m, Boss, Boss, len)
    \/ \E m \in Mints, a \in KeyAccounts, len, accountLen \in Lengths :
           \/ BeginImmutableOwner(m, a, Boss, Boss, len, accountLen)
           \/ BeginNonTransferableToken(m, a, Boss, Boss, len, accountLen)
    \/ \E m \in Mints, a \in KeyAccounts, w \in Wallets, len \in Lengths :
           \/ BeginEnableMemo(a, m, Boss, w, len)
           \/ BeginInitializeTokenAccountWith(a, m, Boss, w, len)
    \/ \E a \in Accounts, w \in Wallets : BeginRealloc(a, Boss, w)
    \/ \E m \in Mints, w \in Wallets, n \in Amounts, to \in Accounts :
           \/ BeginMemoTransfer(m, w, to, n)
           \/ \E from \in Accounts : BeginTransferToken(m, from, to, w, Boss, n)

FewCallsNext ==
    \/ FewAtomicSteps
    \/ BeginSomeCall
    \/ CallNext
    \/ Commit
    \/ Refused
    \/ OutOfCompute

FewCallsSpec == CpiInit /\ [][FewCallsNext]_<<vars, cpiVars>>
=============================================================================

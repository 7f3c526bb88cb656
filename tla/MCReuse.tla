-------------------------------- MODULE MCReuse --------------------------------
(***************************************************************************)
(* The address of a closed mint used again for a mint of another kind,     *)
(* while token accounts of the first one are still there.                  *)
(***************************************************************************)
EXTENDS TokenExtension

CONSTANTS
    Boss,      \* the wallet that creates the mints and pays
    Amounts    \* bound: amounts of a transaction

ReuseNext ==
    \/ \E m \in Mints :
           \/ MintCloseAuthority(m, Boss, Boss)
           \/ \E dest \in Wallets : CloseMintAccount(m, dest, Boss)
           \/ TransferFeeConfig(m, Boss, Boss, Boss, 1, 1)
           \/ InitializeHookMint(m, Boss, Boss, "transfer_hook")
           \/ InitializeExtraAccountMetaList(m, Boss)
    \/ \E m \in Mints, w \in Wallets : CreateAta(w, m, Boss)
    \/ \E m \in Mints, a \in KeyAccounts :
           InitializeConfidentialAccount(a, m, Boss, Boss, 0)
    \/ \E a \in Accounts, w \in Wallets : Realloc(a, w, w)
    \/ \E m \in Mints, w \in Wallets, n \in Amounts :
           \/ MintTo(m, w, n)
           \/ \E to \in Accounts : \E fee \in {0, 1} : TransferTo(m, w, to, n, fee)
           \/ \E from \in Accounts :
                  \/ BurnCpi(m, from, w, n)
                  \/ \E to \in Accounts : TransferHookToken(m, from, to, w, n)
    \/ FeeStep

ReuseSpec == Init /\ [][ReuseNext]_vars
=============================================================================

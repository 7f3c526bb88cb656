----------------------------- MODULE MCRestricted -----------------------------
(***************************************************************************)
(* Mints that restrict their tokens: frozen accounts, tokens that cannot   *)
(* be transferred, tokens whose transfers call a hook.                     *)
(***************************************************************************)
EXTENDS TokenExtension

CONSTANTS
    Boss,      \* the wallet that creates the mint and pays
    Amounts    \* bound: amounts of a transaction

RestrictedNext ==
    \/ \E m \in Mints :
           \/ MintCloseAuthority(m, Boss, Boss)
           \/ CloseMintAccount(m, Boss, Boss)
           \/ DefaultAccountState(m, Boss, Boss)
           \/ \E frozen \in BOOLEAN : UpdateDefaultAccountState(m, Boss, frozen)
           \/ \E program \in Hooks : InitializeHookMint(m, Boss, Boss, program)
           \/ InitializeExtraAccountMetaList(m, Boss)
           \/ \E a \in KeyAccounts :
                  \/ NonTransferableToken(m, a, Boss, Boss, 0)
                  \/ ImmutableOwner(m, a, Boss, Boss, 0)
                  \/ InitializeTokenAccountWith(a, m, Boss, Boss, 0)
    \/ \E m \in Mints, w \in Wallets : CreateAta(w, m, Boss)
    \/ \E m \in Mints, w \in Wallets, n \in Amounts :
           \/ \E to \in Accounts : ClientMintTo(m, w, to, n)
           \/ \E to \in Accounts :
                  \/ TransferTo(m, w, to, n, 0)
                  \/ MemoTransfer(m, w, to, n)
           \/ \E from \in Accounts :
                  \/ BurnCpi(m, from, w, n)
                  \/ \E to \in Accounts : TransferHookToken(m, from, to, w, n)

RestrictedSpec == Init /\ [][RestrictedNext]_vars

\* src/programs/token-extension/src/lib.rs says of non_transferable_token that it
\* creates "a token which can't be transferred": tokens of the mint would leave an
\* account by burning only.
NonTransferableStay ==
    [][\A m \in Mints : Live(m) /\ mint[m].nonTransferable =>
          \A a \in AccountsOf(m) : Debited(a) => supply'[m] < supply[m]]_vars
=============================================================================

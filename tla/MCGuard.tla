-------------------------------- MODULE MCGuard --------------------------------
(***************************************************************************)
(* Who may take tokens out of an account, and into which: permanent        *)
(* delegate, CPI guard, required memos, reallocation, the toll.            *)
(***************************************************************************)
EXTENDS TokenExtension

CONSTANTS
    Boss,      \* the wallet that creates the mint and pays
    Amounts    \* bound: amounts of a transaction

GuardNext ==
    \/ \E m \in Mints :
           \/ PermanentDelegate(m, Boss, Boss)
           \/ InterestBearingToken(m, Boss, Boss)
           \/ ClientCreateMint(m, Boss)
    \/ \E m \in Mints, w \in Wallets : CreateAta(w, m, Boss)
    \/ \E m \in Mints, a \in KeyAccounts, room \in Rooms, w \in Wallets :
           \/ EnableMemo(a, m, Boss, w, room)
           \/ InitializeTokenAccountWith(a, m, Boss, w, room)
    \/ \E a \in Accounts, w \in Wallets :
           Realloc(a, w, w) \/ EnableCpiGuard(a, w)
    \/ \E m \in Mints, w \in Wallets, n \in Amounts :
           \/ ClientMintTo(m, w, Ata(w, m), n)
           \/ \E to \in Accounts :
                  \/ TransferTo(m, w, to, n, 0)
                  \/ MemoTransfer(m, w, to, n)
           \/ \E from \in Accounts :
                  \/ BurnCpi(m, from, w, n)
                  \/ \E to \in Accounts, badWallet \in Wallets :
                         TransferToken(m, from, to, w, badWallet, n)

GuardSpec == Init /\ [][GuardNext]_vars

\* src/programs/token-extension/src/lib.rs says of initialize_token_account_with
\* that it initialises an account "with CPI Guard or Immutable Owner or Required
\* Memo on Transfer": the account it opens would have one of the three.
AccountHasExtension ==
    [][\A a \in KeyAccounts, m \in Mints, w \in Wallets, room \in Rooms :
          InitializeTokenAccountWith(a, m, Boss, w, room) =>
              \/ account'[a].guard
              \/ account'[a].immutable
              \/ account'[a].memo]_vars
=============================================================================

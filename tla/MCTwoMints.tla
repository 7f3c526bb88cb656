------------------------------ MODULE MCTwoMints ------------------------------
(***************************************************************************)
(* Two mints at once: fees gathered from lists that mix their accounts,    *)
(* groups and members.                                                     *)
(***************************************************************************)
EXTENDS TokenExtension

CONSTANTS
    Boss,      \* the wallet that creates the mints and pays
    Amounts    \* bound: amounts of a transaction

TwoMintsNext ==
    \/ \E m \in Mints :
           \/ TransferFeeConfig(m, Boss, Boss, Boss, 1, 1)
           \/ InitializeConfidentialMint(m, Boss, Boss)
           \/ InitializeGroupPointer(m, Boss, Boss)
           \/ \E group \in Mints : InitializeMemberPointer(m, group, Boss, Boss)
    \/ \E m \in Mints, w \in Wallets : CreateAta(w, m, Boss)
    \/ \E m \in Mints, w \in Wallets, n \in Amounts :
           \/ MintTo(m, w, n)
           \/ \E to \in Accounts : \E fee \in {0, 1} : TransferTo(m, w, to, n, fee)
           \/ \E from \in Accounts : BurnCpi(m, from, w, n)
    \/ FeeStep

TwoMintsSpec == Init /\ [][TwoMintsNext]_vars
=============================================================================

----------------------------- MODULE MCFeeClient -----------------------------
(***************************************************************************)
(* One fee mint, transfers that go on, a client of the withdraw authority  *)
(* and one of somebody else.                                               *)
(***************************************************************************)
EXTENDS FeeClient

CONSTANTS
    Boss,      \* the wallet that creates the mint and pays
    Amounts    \* bound: amounts of a transaction

ChainNext ==
    /\ \/ TransferFeeConfig(FeeMint, Boss, Boss, FeeOwner, 1, 2)
       \/ \E w \in Wallets : CreateAta(w, FeeMint, Boss)
       \/ \E a \in KeyAccounts :
              InitializeTokenAccountWith(a, FeeMint, Boss, Boss, 0)
       \/ \E n \in Amounts : MintTo(FeeMint, Boss, n)
       \/ WithdrawWithheldMint(FeeMint, FeeOwner)
       \/ \E w \in Wallets, to \in Accounts, n \in Amounts :
              \E fee \in 1 .. n : TransferTo(FeeMint, w, to, n, fee)
    /\ UNCHANGED clientVars

FeeClientNext == ChainNext \/ ClientNext

FeeClientSpec ==
    ClientInit /\ [][FeeClientNext]_<<vars, clientVars>>
=============================================================================

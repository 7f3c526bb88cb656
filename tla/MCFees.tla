-------------------------------- MODULE MCFees --------------------------------
(***************************************************************************)
(* Transfer fees: one mint, its associated accounts and one more account,  *)
(* fees gathered from accounts and from the mint in every order.           *)
(***************************************************************************)
EXTENDS TokenExtension

CONSTANTS
    Boss,      \* the wallet that creates the mint and pays
    Rates,     \* bound: basis points tried
    MaxFees,   \* bound: maximum fees tried
    Amounts    \* bound: amounts of a transaction

\* The sum of a function, as the number of points below its graph, against a
\* definition by cases over two elements.
ASSUME SumIsSum ==
    \A f \in [{"a", "b"} -> 0 .. 3] :
        /\ Sum(f, {"a", "b"}, 3) = f["a"] + f["b"]
        /\ Sum(f, {"a"}, 3) = f["a"]
        /\ Sum(f, {}, 3) = 0

FeeNext ==
    \/ \E m \in Mints, withdraw \in {Boss, NoOne}, bps \in Rates, cap \in MaxFees :
           TransferFeeConfig(m, Boss, Boss, withdraw, bps, cap)
    \/ \E m \in Mints, w \in Wallets : CreateAta(w, m, Boss)
    \/ \E m \in Mints, a \in KeyAccounts :
           InitializeTokenAccountWith(a, m, Boss, Boss, 0)
    \/ \E m \in Mints, w \in Wallets, n \in Amounts :
           \/ MintTo(m, w, n)
           \/ \E to \in Accounts :
                  \/ \E fee \in 0 .. n : TransferTo(m, w, to, n, fee)
                  \/ MemoTransfer(m, w, to, n)
           \/ \E from \in Accounts :
                  \/ BurnCpi(m, from, w, n)
                  \/ \E to \in Accounts : TransferToken(m, from, to, w, Boss, n)
    \/ FeeStep

FeeSpec == Init /\ [][FeeNext]_vars
=============================================================================

------------------------------ MODULE FeeClient ------------------------------
(***************************************************************************)
(* The clients that gather the fees of a mint.  A client asks the cluster  *)
(* for the accounts of the mint, keeps those that withhold fees, and sends *)
(* that list as remaining accounts.  When the transaction runs, transfers  *)
(* and other clients may have changed every account on it; it may also     *)
(* never run.  A client may start again at any time, or never: nothing in  *)
(* the repository schedules it, so that no fairness is assumed.            *)
(***************************************************************************)
EXTENDS TokenExtension

CONSTANTS
    FeeMint,     \* the mint whose fees are gathered
    FeeOwner,    \* the wallet that is its withdraw authority
    Collectors,  \* clients of FeeOwner: they withdraw from the accounts
    Harvesters   \* other clients: they move the fees to the mint

ASSUME FeeMintIsAMint == FeeMint \in Mints /\ FeeOwner \in Wallets
ASSUME OneJobEach == Collectors \cap Harvesters = {}

Clients == Collectors \cup Harvesters

VARIABLES
    pending,   \* clients whose transaction is on its way
    sources    \* the accounts each client listed

clientVars == <<pending, sources>>

\* Variant of Withholding: the client lists the accounts of the wallets it knows.
AssociatedAccounts == {Ata(w, FeeMint) : w \in Wallets}

Withholding == {a \in AccountsOf(FeeMint) : withheld[a] > 0}

ClientInit ==
    /\ Init
    /\ pending = {}
    /\ sources = [c \in Clients |-> {}]

\* findWithheldTokenAndRemainingAccount, whose result goes into a transaction,
\* whole, even when it is empty or longer than the program accepts.
Scan(c) ==
    /\ Live(FeeMint) /\ c \notin pending
    /\ sources' = [sources EXCEPT ![c] = Withholding]
    /\ pending' = pending \cup {c}
    /\ UNCHANGED vars

\* The transaction runs, on the accounts as they are by now.
Execute(c) ==
    /\ c \in pending
    /\ \/ /\ c \in Collectors
          /\ WithdrawWithheldAccount(FeeMint, FeeOwner, sources[c])
       \/ /\ c \in Harvesters
          /\ HarvestWithheldToken(FeeMint, sources[c])
    /\ pending' = pending \ {c}
    /\ UNCHANGED sources

\* What the program and Token-2022 check of that transaction.
ListAccepted(c) ==
    LET sum == Total(withheld, Harvestable(FeeMint, FilterSources(sources[c])))
        own == Ata(FeeOwner, FeeMint)
    IN  /\ c \in pending
        /\ Live(FeeMint) /\ mint[FeeMint].hasFee
        /\ SourcesAccepted(sources[c])
        /\ \/ /\ c \in Collectors
              /\ mint[FeeMint].withdraw = FeeOwner
              /\ Open(own) /\ account[own].mint = FeeMint /\ ~account[own].frozen
              /\ amount[own] + sum <= MaxU64
           \/ c \in Harvesters /\ feePool[FeeMint] + sum <= MaxU64

\* It is refused, or its blockhash expires before it ran: the client is told.
Fail(c) ==
    /\ c \in pending
    /\ pending' = pending \ {c}
    /\ UNCHANGED <<vars, sources>>

ClientNext ==
    \E c \in Clients : Scan(c) \/ Execute(c) \/ Fail(c)

\* Meanwhile everybody may call every instruction.
Meanwhile == Next /\ UNCHANGED clientVars

ClientSpec ==
    ClientInit /\ [][Meanwhile \/ ClientNext]_<<vars, clientVars>>

-----------------------------------------------------------------------------
(* Properties.                                                             *)

\* However stale, a list of acceptable length is never refused: accounts that
\* were emptied meanwhile are skipped, none loses its extension, and the sums
\* still fit; the authority's client needs the account it withdraws to, which
\* can neither be frozen nor be of another mint.
StaleListsAccepted ==
    \A c \in pending :
        /\ sources[c] # {} /\ Cardinality(sources[c]) <= MaxSources
        /\ c \in Collectors => /\ Open(Ata(FeeOwner, FeeMint))
                              /\ mint[FeeMint].withdraw = FeeOwner
        => ListAccepted(c)

\* What makes it so: of a list that names an account, every account stays one
\* that the filter and Token-2022 accept, the mint stays the mint with fees it
\* was, and neither its pool nor any of its accounts is too full for the sum.
ListsStayValid ==
    \A c \in pending : sources[c] # {} =>
        /\ Live(FeeMint) /\ mint[FeeMint].hasFee
        /\ \A a \in sources[c] :
               Open(a) /\ account[a].feeExt /\ account[a].mint = FeeMint
        /\ feePool[FeeMint] + Total(withheld, sources[c]) <= MaxU64
        /\ \A a \in AccountsOf(FeeMint) :
               amount[a] + Total(withheld, sources[c]) <= MaxU64

\* A transaction that runs gathers all that its accounts withhold by then, also
\* what was withheld after the list was made, and all of it arrives.
GatheredInFull(c) ==
    LET sum == Total(withheld, sources[c])
        own == Ata(FeeOwner, FeeMint)
    IN  /\ \A a \in sources[c] : withheld'[a] = 0
        /\ c \in Collectors => amount'[own] = amount[own] + sum
        /\ c \in Harvesters => feePool'[FeeMint] = feePool[FeeMint] + sum
ListsGatheredInFull ==
    [][\A c \in Clients : Execute(c) => GatheredInFull(c)]_<<vars, clientVars>>
=============================================================================

---------------------------- MODULE CpiInvariant ----------------------------
(***************************************************************************)
(* What makes the properties of CpiExecution inductive: the accounts that  *)
(* a handler works on, after the calls in "done", in terms of its          *)
(* arguments and of the accounts before.  The order of the calls is not    *)
(* in it: the programs that are called refuse another one.                 *)
(***************************************************************************)
EXTENDS CpiExecution

\* The first k calls, and the others.
Done(cpis, k)   == {cpis[i] : i \in 1 .. k}
ToCall(cpis, k) == [i \in 1 .. Len(cpis) - k |-> cpis[i + k]]

CreatingKinds == ExtensionKinds \cup MintAndAccountKinds \cup TokenAccountKinds
TransferKinds == {"memo_transfer", "transfer_token"}

Signers == IF call.op \in TransferKinds THEN {call.w} ELSE {call.p, call.w}

\* The constraints on the accounts, which held when the handler started.
Begun ==
    /\ call.op \in ExtensionKinds \cup MintAndAccountKinds =>
           saved.mint[call.m] = Absent
    /\ call.op \in TokenAccountKinds => saved.mint[call.m] # Absent
    /\ call.op \in MintAndAccountKinds \cup TokenAccountKinds =>
           saved.account[call.a] = Absent
    /\ call.op = "initialize_token_account_with" =>
           saved.mint[call.m].authority = call.w
    /\ call.op = "realloc" => saved.account[call.a] # Absent
    /\ call.op \in TransferKinds => saved.mint[call.m] # Absent /\ call.n > 0
    /\ call.op = "memo_transfer" => call.from = Ata(call.w, call.m)
    /\ call.op = "transfer_token" =>
           saved.account[call.from] # Absent /\ saved.account[call.from].owner = call.w

\* The extensions of the mint and of the account that the handler creates.
MintExtensions(done) ==
    IF "initialize_extension" \in done THEN {call.op} ELSE {}
AccountExtensions(done) ==
    IF "initialize_immutable_owner" \in done THEN {"immutable_owner"} ELSE {}

RawMint(done)    == "create_mint" \in done /\ "initialize_mint2" \notin done
RawAccount(done) == "create_account" \in done /\ "initialize_account3" \notin done

\* The programs refuse calls in another order.
InOrder(done) ==
    /\ done \cap {"initialize_extension", "initialize_mint2"} # {} =>
           "create_mint" \in done
    /\ done \cap {"initialize_immutable_owner", "initialize_account3"} # {} =>
           "create_account" \in done
    /\ "enable_required_transfer_memos" \in done => "initialize_account3" \in done

RawOf(done) ==
    [x \in Mints \cup KeyAccounts |->
        IF RawMint(done) /\ x = call.m
        THEN [len |-> call.mintLen, extensions |-> MintExtensions(done)]
        ELSE IF RawAccount(done) /\ x = call.a
        THEN [len |-> call.accountLen, extensions |-> AccountExtensions(done)]
        ELSE Absent]

\* The payer has paid for what was created.
RentSpent(done) ==
    LET mintRent    == IF "create_mint" \in done THEN Rent(call.mintLen) ELSE 0
        accountRent == IF "create_account" \in done THEN Rent(call.accountLen) ELSE 0
    IN  /\ "create_mint" \in done => saved.lamports[call.m] = 0
        /\ "create_account" \in done => saved.lamports[call.a] = 0
        /\ saved.lamports[call.p] >= mintRent + accountRent
        /\ lamports = [x \in Addresses |->
               IF "create_mint" \in done /\ x = call.m THEN mintRent
               ELSE IF "create_account" \in done /\ x = call.a THEN accountRent
               ELSE IF x = call.p THEN saved.lamports[x] - (mintRent + accountRent)
               ELSE saved.lamports[x]]

MintMade(done) ==
    IF "initialize_mint2" \in done
    THEN /\ Cardinality(MintExtensions(done)) = call.mintLen
         /\ mint = [saved.mint EXCEPT ![call.m] =
                        ExtendedMint(call.w, MintExtensions(done))]
         /\ supply = [saved.supply EXCEPT ![call.m] = 0]
         /\ feePool = [saved.feePool EXCEPT ![call.m] = 0]
    ELSE /\ mint = saved.mint
         /\ supply = saved.supply /\ feePool = saved.feePool

AccountMade(done) ==
    LET new  == NewAccount(call.m, mint[call.m], call.w,
                           AccountExtensions(done) # {}, 0)
        free == call.accountLen - Slots(new)
        memo == "enable_required_transfer_memos" \in done
    IN  IF "initialize_account3" \in done
        THEN /\ mint[call.m] # Absent
             /\ free >= 0 /\ (memo => free > 0)
             /\ account = [saved.account EXCEPT ![call.a] =
                    [new EXCEPT !.memo = memo,
                                !.room = IF memo THEN free - 1 ELSE free]]
        ELSE account = saved.account

Creating(done) ==
    /\ InOrder(done)
    /\ raw = RawOf(done)
    /\ RentSpent(done) /\ MintMade(done) /\ AccountMade(done)
    /\ amount = saved.amount /\ withheld = saved.withheld

\* realloc: the slot that reallocate paid for is empty until the next call.
NeedsSlot(a) == ~saved.account[a].memo /\ saved.account[a].room = 0
SlotPaid ==
    IF NeedsSlot(call.a)
    THEN /\ saved.lamports[call.p] > 0
         /\ lamports = [saved.lamports EXCEPT ![call.p] = @ - 1, ![call.a] = @ + 1]
    ELSE lamports = saved.lamports

Reallocating(done) ==
    LET old  == saved.account[call.a]
        room == IF NeedsSlot(call.a) /\ "reallocate" \in done THEN 1 ELSE old.room
    IN  /\ IF "reallocate" \in done THEN SlotPaid ELSE lamports = saved.lamports
        /\ IF "enable_required_transfer_memos" \in done
           THEN /\ old.owner = call.w
                /\ account = IF old.memo THEN saved.account
                             ELSE [saved.account EXCEPT ![call.a].memo = TRUE,
                                                        ![call.a].room = room - 1]
           ELSE account = [saved.account EXCEPT ![call.a].room = room]
        /\ raw = Nothing
        /\ mint = saved.mint /\ supply = saved.supply /\ feePool = saved.feePool
        /\ amount = saved.amount /\ withheld = saved.withheld

\* A transfer as Token-2022 saw the accounts: before the toll or the memo.
Transferred ==
    LET from == call.from
        to   == call.to
        fee  == Fee(saved.mint[call.m], call.n)
    IN  /\ Committed!TransferAllowed(call.m, from, to, call.w, call.n, tx.memo)
        /\ \/ from = to /\ amount = saved.amount /\ withheld = saved.withheld
           \/ /\ from # to
              /\ fee <= call.n
              /\ saved.amount[to] + (call.n - fee) <= MaxU64
              /\ saved.withheld[to] + fee <= MaxU64
              /\ Committed!AcceptsFee(to, fee)
              /\ Committed!AcceptsHook(call.m, from, to, FALSE)
              /\ amount = [saved.amount EXCEPT ![from] = @ - call.n,
                                               ![to] = @ + (call.n - fee)]
              /\ withheld = [saved.withheld EXCEPT ![to] = @ + fee]

Transferring(done) ==
    /\ IF "transfer_sol" \in done
       THEN /\ saved.lamports[call.w] >= SolToll
            /\ lamports = [[saved.lamports EXCEPT ![call.w] = @ - SolToll]
                              EXCEPT ![call.badWallet] = @ + SolToll]
       ELSE lamports = saved.lamports
    /\ IF "transfer_checked" \in done THEN Transferred
       ELSE amount = saved.amount /\ withheld = saved.withheld
    /\ raw = Nothing
    /\ mint = saved.mint /\ account = saved.account
    /\ supply = saved.supply /\ feePool = saved.feePool

Underway(k) ==
    LET done == Done(CpisOf(call.op), k) IN
    /\ todo = ToCall(CpisOf(call.op), k)
    /\ tx = [signers |-> Signers, memo |-> "build_memo" \in done]
    /\ metaLists = saved.metaLists
    /\ call.op \in CreatingKinds => Creating(done)
    /\ call.op = "realloc" => Reallocating(done)
    /\ call.op \in TransferKinds => Transferring(done)

SavedState ==
    [mint      : [Mints -> MintState \cup {Absent}],
     account   : [Accounts -> AccountState \cup {Absent}],
     supply    : [Mints -> U64],
     feePool   : [Mints -> U64],
     amount    : [Accounts -> U64],
     withheld  : [Accounts -> U64],
     lamports  : [Addresses -> Nat],
     metaLists : SUBSET Mints,
     tx        : [signers : SUBSET Wallets, memo : BOOLEAN]]

CpiInv ==
    /\ TypeOK
    /\ IF call = Idle
       THEN todo = <<>> /\ raw = Nothing
       ELSE /\ call \in Calls /\ saved \in SavedState
            /\ Begun
            /\ \E k \in 0 .. Len(CpisOf(call.op)) : Underway(k)
=============================================================================
